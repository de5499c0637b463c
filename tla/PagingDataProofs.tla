-------------------------- MODULE PagingDataProofs --------------------------
(***************************************************************************)
(* Proofs about the three data structures of demand paging, whatever their *)
(* caller asks for in whatever order: every operation of the page frame    *)
(* database keeps the rules of Database.Check, for any number of frames,   *)
(* pages and backing stores; every operation of a working set list keeps   *)
(* those of WorkingSet.Check, and takes out no page it may not; and the    *)
(* page file's map gives out free blocks only, a run of the length asked   *)
(* for or the longest there is.  Module PagerProofs builds on them.        *)
(*                                                                         *)
(* Check is not inductive: an active frame tied to nothing must be the     *)
(* system's, or sharing it would make a global page that no list can take. *)
(* An operation takes a frame off its list or its count and puts it back   *)
(* elsewhere, so the invariant is stated of the frames R that are in their *)
(* places: all of them between two operations, all but one within.         *)
(*                                                                         *)
(* A working set list is Sized: its locked entries come first, each page   *)
(* is in one entry, and a list over its limit is full.                     *)
(***************************************************************************)
EXTENDS PageFrames, WorkingSetList, PageFileMap, FiniteSetTheorems, QueueLemmas, TLAPS

-----------------------------------------------------------------------------
(* Page frames in their places. *)

RecordOK(e) ==
  /\ e.state # "active" => /\ e.refs = 0 /\ e.shares = 0
                           /\ e.saved <=> e.state = "modified"
                           /\ e.state = "modified" => e.tied
  /\ e.state = "active" => /\ e.refs >= 1 /\ e.shares >= 0
                           /\ e.shares > 0 => e.type = "global"
                           /\ ~e.tied => e.type = "system"
  /\ ~e.tied => e.owner = NoOwner /\ e.backing = NoStore

SamePage(e, f) == e.tied /\ f.tied /\ e.type = f.type /\ e.owner = f.owner

ActiveIn(d, R, t) == {q \in R : d.entry[q].state = "active" /\ d.entry[q].type = t}

InPlace(d, R) ==
  /\ d \in DatabaseRecord
  /\ IsInjective(d.free) /\ IsInjective(d.modified)
  /\ ToSet(d.free) = {q \in R : d.entry[q].state = "free"}
  /\ ToSet(d.modified) = {q \in R : d.entry[q].state = "modified"}
  /\ \A q \in R : RecordOK(d.entry[q])
  /\ \A q, r \in R : SamePage(d.entry[q], d.entry[r]) => q = r
  /\ \A t \in Types : d.active[t] = Cardinality(ActiveIn(d, R, t))

\* The record e would not make p's page another frame's.
Fits(d, p, e) == \A q \in PFN \ {p} : ~SamePage(d.entry[q], e)

IInv == InPlace(db, PFN)

-----------------------------------------------------------------------------
\* There are finitely many frames, so any of them can be counted.
LEMMA ActiveFinite ==
  ASSUME NEW d, NEW R \in SUBSET PFN, NEW t
  PROVE  IsFiniteSet(ActiveIn(d, R, t))
<1>1. IsFiniteSet(PFN)
  BY FramesAssumption, FS_Interval DEF PFN
<1>2. ActiveIn(d, R, t) \in SUBSET PFN
  BY DEF ActiveIn
<1> QED
  BY <1>1, <1>2, FS_Subset

\* The invariant says what Database.Check verifies.
LEMMA IInvImpliesCheck == IInv => Check
  BY DEF IInv, InPlace, RecordOK, SamePage, ActiveIn, Check, ListsMatchStates,
         RecordsMatchStates, OneFramePerPage, CountsMatchFrames

\* A frame off every list, and counted no longer, is out of its place (unlink).
LEMMA UnlinkTakesOut ==
  ASSUME NEW d, NEW p \in PFN, InPlace(d, PFN), ~IsActive(d, p)
  PROVE  InPlace(Unlink(d, p), PFN \ {p}) /\ Unlink(d, p).entry = d.entry
<1> DEFINE u == Unlink(d, p)
<1>1. d \in DatabaseRecord /\ d.entry[p] \in FrameRecord
  BY DEF InPlace, DatabaseRecord
<1>2. CASE d.entry[p].state = "free"
  <2>1. p \in ToSet(d.free) /\ IsInjective(d.free) /\ d.free \in Seq(PFN)
    BY <1>1, <1>2 DEF InPlace, DatabaseRecord
  <2>2. /\ Without(d.free, p) \in Seq(PFN) /\ IsInjective(Without(d.free, p))
        /\ ToSet(Without(d.free, p)) = ToSet(d.free) \ {p}
    BY <2>1, RemoveMember DEF Without
  <2>3. u = [d EXCEPT !.free = Without(d.free, p)]
    BY <1>2 DEF Unlink
  <2>4. /\ u \in DatabaseRecord /\ u.free = Without(d.free, p)
        /\ u.modified = d.modified /\ u.entry = d.entry /\ u.active = d.active
    BY <1>1, <2>2, <2>3 DEF DatabaseRecord
  <2>5. \A t \in Types : ActiveIn(u, PFN \ {p}, t) = ActiveIn(d, PFN, t)
    BY <1>2, <2>4 DEF ActiveIn
  <2> HIDE DEF u
  <2> QED
    BY <1>2, <2>2, <2>4, <2>5 DEF InPlace, u
<1>3. CASE d.entry[p].state = "modified"
  <2>1. p \in ToSet(d.modified) /\ IsInjective(d.modified) /\ d.modified \in Seq(PFN)
    BY <1>1, <1>3 DEF InPlace, DatabaseRecord
  <2>2. /\ Without(d.modified, p) \in Seq(PFN) /\ IsInjective(Without(d.modified, p))
        /\ ToSet(Without(d.modified, p)) = ToSet(d.modified) \ {p}
    BY <2>1, RemoveMember DEF Without
  <2>3. u = [d EXCEPT !.modified = Without(d.modified, p)]
    BY <1>3 DEF Unlink
  <2>4. /\ u \in DatabaseRecord /\ u.modified = Without(d.modified, p)
        /\ u.free = d.free /\ u.entry = d.entry /\ u.active = d.active
    BY <1>1, <2>2, <2>3 DEF DatabaseRecord
  <2>5. \A t \in Types : ActiveIn(u, PFN \ {p}, t) = ActiveIn(d, PFN, t)
    BY <1>3, <2>4 DEF ActiveIn
  <2> HIDE DEF u
  <2> QED
    BY <1>3, <2>2, <2>4, <2>5 DEF InPlace, u
<1> QED
  BY <1>1, <1>2, <1>3 DEF IsActive, FrameRecord

\* An active frame counted no longer is out of its place.
LEMMA UncountTakesOut ==
  ASSUME NEW d, NEW p \in PFN, InPlace(d, PFN), IsActive(d, p)
  PROVE  InPlace(Uncount(d, p), PFN \ {p}) /\ Uncount(d, p).entry = d.entry
<1> DEFINE u == Uncount(d, p)
           type == d.entry[p].type
<1>1. d \in DatabaseRecord /\ d.entry[p] \in FrameRecord /\ type \in Types
  BY DEF InPlace, DatabaseRecord, FrameRecord
<1>2. /\ u \in DatabaseRecord /\ u.free = d.free /\ u.modified = d.modified /\ u.entry = d.entry
      /\ u.active = [d.active EXCEPT ![type] = @ - 1]
  <2>1. u = [d EXCEPT !.active = [d.active EXCEPT ![type] = d.active[type] - 1]]
    BY <1>1 DEF Uncount, DatabaseRecord
  <2>2. [d.active EXCEPT ![type] = d.active[type] - 1] \in [Types -> Int]
    BY <1>1 DEF DatabaseRecord
  <2> QED
    BY <1>1, <2>1, <2>2 DEF DatabaseRecord
<1> HIDE DEF u
<1>3. ASSUME NEW t \in Types
      PROVE  u.active[t] = Cardinality(ActiveIn(u, PFN \ {p}, t))
  <2>1. ActiveIn(u, PFN \ {p}, t) = ActiveIn(d, PFN, t) \ {p}
    BY <1>2 DEF ActiveIn
  <2>2. p \in ActiveIn(d, PFN, t) <=> t = type
    BY DEF ActiveIn, IsActive
  <2>3. Cardinality(ActiveIn(u, PFN \ {p}, t)) =
          IF t = type THEN Cardinality(ActiveIn(d, PFN, t)) - 1 ELSE Cardinality(ActiveIn(d, PFN, t))
    BY <2>1, <2>2, ActiveFinite, FS_RemoveElement
  <2>4. d.active[t] = Cardinality(ActiveIn(d, PFN, t))
    BY DEF InPlace
  <2> QED
    BY <1>1, <1>2, <2>3, <2>4 DEF DatabaseRecord
<1>4. /\ {q \in PFN \ {p} : u.entry[q].state = "free"} = ToSet(u.free)
      /\ {q \in PFN \ {p} : u.entry[q].state = "modified"} = ToSet(u.modified)
  BY <1>2 DEF InPlace, IsActive
<1> QED
  BY <1>2, <1>3, <1>4 DEF InPlace, u

\* What a record put in p's place does to the rules about records and pages.
LEMMA EntryFits ==
  ASSUME NEW d, NEW p \in PFN, NEW e \in FrameRecord, NEW R \in {PFN, PFN \ {p}},
         InPlace(d, R), RecordOK(e), Fits(d, p, e)
  PROVE  LET f == [d.entry EXCEPT ![p] = e] IN
         /\ f \in [PFN -> FrameRecord] /\ f[p] = e /\ \A q \in PFN \ {p} : f[q] = d.entry[q]
         /\ \A q \in PFN : RecordOK(f[q])
         /\ \A q, r \in PFN : SamePage(f[q], f[r]) => q = r
<1> DEFINE f == [d.entry EXCEPT ![p] = e]
<1>1. /\ f \in [PFN -> FrameRecord] /\ f[p] = e /\ \A q \in PFN \ {p} : f[q] = d.entry[q]
  BY DEF InPlace, DatabaseRecord
<1> HIDE DEF f
<1>2. \A q \in PFN \ {p} : RecordOK(d.entry[q])
  BY DEF InPlace
<1>3. \A q, r \in PFN \ {p} : SamePage(d.entry[q], d.entry[r]) => q = r
  BY DEF InPlace
<1>4. \A q \in PFN \ {p} : ~SamePage(f[q], f[p]) /\ ~SamePage(f[p], f[q])
  BY <1>1 DEF Fits, SamePage
<1>5. \A q, r \in PFN : SamePage(f[q], f[r]) => q = r
  BY <1>1, <1>3, <1>4
<1>6. \A q \in PFN : RecordOK(f[q])
  BY <1>1, <1>2
<1> QED
  BY <1>1, <1>5, <1>6 DEF f

\* A frame out of its place becomes active, and is counted (activate).
LEMMA PutActive ==
  ASSUME NEW d, NEW p \in PFN, NEW e \in FrameRecord, InPlace(d, PFN \ {p}),
         RecordOK(e), Fits(d, p, e), e.state = "active", NEW d2,
         d2 = [d EXCEPT !.entry[p] = e, !.active[e.type] = @ + 1]
  PROVE  InPlace(d2, PFN)
<1> DEFINE f == [d.entry EXCEPT ![p] = e]
<1>1. /\ f \in [PFN -> FrameRecord] /\ f[p] = e /\ \A q \in PFN \ {p} : f[q] = d.entry[q]
      /\ \A q \in PFN : RecordOK(f[q])
      /\ \A q, r \in PFN : SamePage(f[q], f[r]) => q = r
  BY EntryFits
<1>2. d \in DatabaseRecord /\ e.type \in Types
  BY DEF InPlace, FrameRecord
<1>3. [d.active EXCEPT ![e.type] = d.active[e.type] + 1] \in [Types -> Int]
  BY <1>2 DEF DatabaseRecord
<1>4. d2 = [d EXCEPT !.entry = f, !.active = [d.active EXCEPT ![e.type] = d.active[e.type] + 1]]
  BY <1>2 DEF DatabaseRecord
<1> HIDE DEF f
<1>5. /\ d2 \in DatabaseRecord /\ d2.free = d.free /\ d2.modified = d.modified
      /\ d2.entry = f /\ d2.active = [d.active EXCEPT ![e.type] = d.active[e.type] + 1]
  BY <1>1, <1>2, <1>3, <1>4 DEF DatabaseRecord
<1>6. ASSUME NEW t \in Types
      PROVE  d2.active[t] = Cardinality(ActiveIn(d2, PFN, t))
  <2>1. ActiveIn(d2, PFN, t) =
          IF t = e.type THEN ActiveIn(d, PFN \ {p}, t) \cup {p} ELSE ActiveIn(d, PFN \ {p}, t)
    BY <1>1, <1>5 DEF ActiveIn
  <2>2. p \notin ActiveIn(d, PFN \ {p}, t)
    BY DEF ActiveIn
  <2>3. Cardinality(ActiveIn(d2, PFN, t)) =
          IF t = e.type THEN Cardinality(ActiveIn(d, PFN \ {p}, t)) + 1
          ELSE Cardinality(ActiveIn(d, PFN \ {p}, t))
    <3>1. IsFiniteSet(ActiveIn(d, PFN \ {p}, t))
      BY ActiveFinite, PFN \ {p} \in SUBSET PFN
    <3>2. Cardinality(ActiveIn(d, PFN \ {p}, t) \cup {p}) = Cardinality(ActiveIn(d, PFN \ {p}, t)) + 1
      BY <2>2, <3>1, FS_AddElement
    <3> QED
      BY <2>1, <3>2
  <2>4. d.active[t] = Cardinality(ActiveIn(d, PFN \ {p}, t))
    BY DEF InPlace
  <2> QED
    BY <1>2, <1>5, <2>3, <2>4 DEF DatabaseRecord
<1>7. /\ ToSet(d2.free) = {q \in PFN : d2.entry[q].state = "free"}
      /\ ToSet(d2.modified) = {q \in PFN : d2.entry[q].state = "modified"}
  BY <1>1, <1>5 DEF InPlace
<1>8. IsInjective(d2.free) /\ IsInjective(d2.modified)
  BY <1>5 DEF InPlace
<1> QED
  BY <1>1, <1>5, <1>6, <1>7, <1>8 DEF InPlace

\* A frame out of its place is put on the list its state names, at either end.
LEMMA PutOnList ==
  ASSUME NEW d, NEW p \in PFN, NEW e \in FrameRecord, InPlace(d, PFN \ {p}),
         RecordOK(e), Fits(d, p, e), e.state # "active", NEW d2 \in DatabaseRecord,
         d2.entry = [d.entry EXCEPT ![p] = e], d2.active = d.active,
         \/ /\ e.state = "free" /\ d2.modified = d.modified
            /\ d2.free = Append(d.free, p) \/ d2.free = <<p>> \o d.free
         \/ e.state = "modified" /\ d2.free = d.free /\ d2.modified = Append(d.modified, p)
  PROVE  InPlace(d2, PFN)
<1> DEFINE f == [d.entry EXCEPT ![p] = e]
<1>1. /\ f \in [PFN -> FrameRecord] /\ f[p] = e /\ \A q \in PFN \ {p} : f[q] = d.entry[q]
      /\ \A q \in PFN : RecordOK(f[q])
      /\ \A q, r \in PFN : SamePage(f[q], f[r]) => q = r
  BY EntryFits
<1>2. d2.entry = f
  OBVIOUS
<1> HIDE DEF f
<1>3. /\ d.free \in Seq(PFN) /\ d.modified \in Seq(PFN)
      /\ IsInjective(d.free) /\ IsInjective(d.modified)
      /\ ToSet(d.free) = {q \in PFN \ {p} : d.entry[q].state = "free"}
      /\ ToSet(d.modified) = {q \in PFN \ {p} : d.entry[q].state = "modified"}
  BY DEF InPlace, DatabaseRecord
<1>4. p \notin ToSet(d.free) /\ p \notin ToSet(d.modified)
  BY <1>3
<1>5. /\ IsInjective(d2.free) /\ IsInjective(d2.modified)
      /\ ToSet(d2.free) = ToSet(d.free) \cup (IF e.state = "free" THEN {p} ELSE {})
      /\ ToSet(d2.modified) = ToSet(d.modified) \cup (IF e.state = "modified" THEN {p} ELSE {})
  <2>1. CASE e.state = "free" /\ d2.modified = d.modified
    <3>1. CASE d2.free = Append(d.free, p)
      BY <1>3, <1>4, <2>1, <3>1, AppendToQueue
    <3>2. CASE d2.free = <<p>> \o d.free
      BY <1>3, <1>4, <2>1, <3>2, PrependToQueue
    <3>3. d2.free = Append(d.free, p) \/ d2.free = <<p>> \o d.free
      BY <2>1
    <3> QED
      BY <3>1, <3>2, <3>3
  <2>2. CASE e.state = "modified" /\ d2.free = d.free /\ d2.modified = Append(d.modified, p)
    BY <1>3, <1>4, <2>2, AppendToQueue
  <2> QED
    BY <2>1, <2>2
<1>6. /\ ToSet(d2.free) = {q \in PFN : d2.entry[q].state = "free"}
      /\ ToSet(d2.modified) = {q \in PFN : d2.entry[q].state = "modified"}
  BY <1>1, <1>2, <1>3, <1>5
<1>7. \A t \in Types : ActiveIn(d2, PFN, t) = ActiveIn(d, PFN \ {p}, t)
  BY <1>1, <1>2 DEF ActiveIn
<1>8. \A t \in Types : d2.active[t] = Cardinality(ActiveIn(d2, PFN, t))
  BY <1>7 DEF InPlace
<1> QED
  BY <1>1, <1>2, <1>5, <1>6, <1>8 DEF InPlace

\* A record changed where its frame is: neither its state nor its type changes.
LEMMA ChangeInPlace ==
  ASSUME NEW d, NEW p \in PFN, NEW e \in FrameRecord, InPlace(d, PFN),
         RecordOK(e), Fits(d, p, e), e.state = d.entry[p].state, e.type = d.entry[p].type, NEW d2,
         d2 = [d EXCEPT !.entry[p] = e]
  PROVE  InPlace(d2, PFN)
<1> DEFINE f == [d.entry EXCEPT ![p] = e]
<1>1. /\ f \in [PFN -> FrameRecord] /\ f[p] = e /\ \A q \in PFN \ {p} : f[q] = d.entry[q]
      /\ \A q \in PFN : RecordOK(f[q])
      /\ \A q, r \in PFN : SamePage(f[q], f[r]) => q = r
  BY EntryFits
<1>2. d \in DatabaseRecord
  BY DEF InPlace
<1>3. d2 = [d EXCEPT !.entry = f]
  BY <1>2 DEF DatabaseRecord
<1> HIDE DEF f
<1>4. /\ d2 \in DatabaseRecord /\ d2.free = d.free /\ d2.modified = d.modified
      /\ d2.entry = f /\ d2.active = d.active
  BY <1>1, <1>2, <1>3 DEF DatabaseRecord
<1>5. /\ ToSet(d2.free) = {q \in PFN : d2.entry[q].state = "free"}
      /\ ToSet(d2.modified) = {q \in PFN : d2.entry[q].state = "modified"}
  BY <1>1, <1>4 DEF InPlace
<1>6. \A t \in Types : ActiveIn(d2, PFN, t) = ActiveIn(d, PFN, t)
  BY <1>1, <1>4 DEF ActiveIn
<1>7. \A t \in Types : d2.active[t] = Cardinality(ActiveIn(d2, PFN, t))
  BY <1>4, <1>6 DEF InPlace
<1>8. IsInjective(d2.free) /\ IsInjective(d2.modified)
  BY <1>4 DEF InPlace
<1> QED
  BY <1>1, <1>4, <1>5, <1>7, <1>8 DEF InPlace

-----------------------------------------------------------------------------
(* The operations. *)

\* A frame with no page of a caller's fits anywhere.
LEMMA UntiedFits ==
  ASSUME NEW d, NEW p, NEW e, ~e.tied
  PROVE  Fits(d, p, e)
  BY DEF Fits, SamePage

\* A record that keeps its page fits where it is.
LEMMA SamePageFits ==
  ASSUME NEW d, NEW p \in PFN, NEW e, InPlace(d, PFN),
         e.tied => e.tied = d.entry[p].tied /\ e.type = d.entry[p].type /\ e.owner = d.entry[p].owner
  PROVE  Fits(d, p, e)
<1>1. \A q \in PFN : SamePage(d.entry[q], d.entry[p]) => q = p
  BY DEF InPlace
<1> QED
  BY <1>1 DEF Fits, SamePage

\* A frame out of its place becomes active with the record it is given (activate).
LEMMA ActivatePutsBack ==
  ASSUME NEW d, NEW p \in PFN, NEW e \in FrameRecord, InPlace(d, PFN \ {p}),
         RecordOK([e EXCEPT !.state = "active"]), Fits(d, p, [e EXCEPT !.state = "active"])
  PROVE  InPlace(Activate(d, p, e), PFN)
<1> DEFINE a == [e EXCEPT !.state = "active"]
<1>1. a \in FrameRecord /\ a.state = "active" /\ a.type = e.type
  BY DEF FrameRecord
<1>2. Activate(d, p, e) = [d EXCEPT !.entry[p] = a, !.active[a.type] = @ + 1]
  BY <1>1 DEF Activate
<1> HIDE DEF a
<1> QED
  BY <1>1, <1>2, PutActive DEF a

\* The records a frame is given are records, and right once active.
LEMMA NewRecords ==
  /\ Blank \in FrameRecord /\ RecordOK(Blank) /\ ~Blank.tied /\ Blank.state = "free"
  /\ SystemPage \in FrameRecord /\ RecordOK([SystemPage EXCEPT !.state = "active"])
  /\ ~[SystemPage EXCEPT !.state = "active"].tied
  /\ \A type \in Types, owner \in Owners, store \in Stores :
       LET e == TiedPage(type, owner, store) IN
       /\ e \in FrameRecord /\ RecordOK([e EXCEPT !.state = "active"])
       /\ e.tied /\ e.type = type /\ e.owner = owner
<1>1. Blank \in FrameRecord /\ RecordOK(Blank) /\ ~Blank.tied /\ Blank.state = "free"
  BY StoresAssumption DEF Blank, FrameRecord, RecordOK, Types
<1>2. SystemPage \in FrameRecord
  <2> DEFINE e1 == [Blank EXCEPT !.type = "system"]
  <2>1. SystemPage = [e1 EXCEPT !.refs = 1]
    BY DEF SystemPage
  <2>2. e1 \in FrameRecord
    BY <1>1 DEF FrameRecord, Types
  <2> HIDE DEF e1
  <2> QED
    BY <2>1, <2>2 DEF FrameRecord
<1>3. LET a == [SystemPage EXCEPT !.state = "active"] IN
      /\ a.state = "active" /\ a.type = "system" /\ a.refs = 1 /\ a.shares = 0
      /\ ~a.tied /\ a.owner = NoOwner /\ a.backing = NoStore
  BY DEF SystemPage, Blank
<1>4. RecordOK([SystemPage EXCEPT !.state = "active"]) /\ ~[SystemPage EXCEPT !.state = "active"].tied
  BY <1>3 DEF RecordOK
<1>5. ASSUME NEW type \in Types, NEW owner \in Owners, NEW store \in Stores
      PROVE  LET e == TiedPage(type, owner, store) IN
             /\ e \in FrameRecord /\ RecordOK([e EXCEPT !.state = "active"])
             /\ e.tied /\ e.type = type /\ e.owner = owner
  <2> DEFINE e == TiedPage(type, owner, store)
             a == [e EXCEPT !.state = "active"]
  <2>1. e \in FrameRecord /\ e.tied /\ e.type = type /\ e.owner = owner
    <3> DEFINE e1 == [Blank EXCEPT !.type = type]
               e2 == [e1 EXCEPT !.tied = TRUE]
               e3 == [e2 EXCEPT !.owner = owner]
               e4 == [e3 EXCEPT !.backing = store]
    <3>1. e = [e4 EXCEPT !.refs = 1]
      BY DEF TiedPage
    <3>2. e1 \in FrameRecord
      BY <1>1 DEF FrameRecord
    <3>3. e2 \in FrameRecord
      <4> HIDE DEF e1
      <4> QED
        BY <3>2 DEF FrameRecord
    <3>4. e3 \in FrameRecord
      <4> HIDE DEF e2
      <4> QED
        BY <3>3 DEF FrameRecord
    <3>5. e4 \in FrameRecord
      <4> HIDE DEF e3
      <4> QED
        BY <3>4 DEF FrameRecord
    <3>6. [e4 EXCEPT !.refs = 1] \in FrameRecord
      <4> HIDE DEF e4
      <4> QED
        BY <3>5 DEF FrameRecord
    <3>7. e.tied /\ e.type = type /\ e.owner = owner
      BY DEF TiedPage, Blank
    <3> QED
      BY <3>1, <3>6, <3>7
  <2>2. a.state = "active" /\ a.refs = 1 /\ a.shares = 0 /\ a.tied
    BY DEF TiedPage, Blank
  <2>3. RecordOK(a)
    BY <2>2 DEF RecordOK
  <2> QED
    BY <2>1, <2>3
<1> QED
  BY <1>1, <1>2, <1>4, <1>5

\* A free frame is taken for the system (Reserve, AllocateSystem).
LEMMA ReserveKeeps ==
  ASSUME NEW d, NEW p \in PFN, InPlace(d, PFN), CanReserve(d, p)
  PROVE  InPlace(Reserve(d, p), PFN)
<1>1. InPlace(Unlink(d, p), PFN \ {p})
  BY UnlinkTakesOut DEF CanReserve, IsActive
<1>2. Fits(Unlink(d, p), p, [SystemPage EXCEPT !.state = "active"])
  BY UntiedFits, NewRecords
<1> QED
  BY <1>1, <1>2, NewRecords, ActivatePutsBack DEF Reserve

\* The free list's head is a free frame.
LEMMA NextFrameIsFree ==
  ASSUME NEW d, InPlace(d, PFN), CanAllocate(d)
  PROVE  NextFrame(d) \in PFN /\ CanReserve(d, NextFrame(d))
<1>1. d.free \in Seq(PFN) /\ d.free # <<>> /\ IsInjective(d.free)
  BY DEF InPlace, DatabaseRecord, CanAllocate
<1>2. Head(d.free) \in ToSet(d.free)
  BY <1>1, TailOfQueue
<1> QED
  BY <1>2 DEF InPlace, NextFrame, CanReserve

\* The next frame is tied to a page that no other holds (Allocate).
LEMMA AllocateKeeps ==
  ASSUME NEW d, NEW type \in Types, NEW owner \in Owners, NEW store \in Stores,
         InPlace(d, PFN), CanAllocate(d), ~TiedTo(d, type, owner)
  PROVE  InPlace(Allocate(d, type, owner, store), PFN)
<1> DEFINE p == NextFrame(d)
           e == TiedPage(type, owner, store)
           a == [e EXCEPT !.state = "active"]
<1>1. p \in PFN /\ ~IsActive(d, p)
  BY NextFrameIsFree DEF CanReserve, IsActive
<1>2. InPlace(Unlink(d, p), PFN \ {p}) /\ Unlink(d, p).entry = d.entry
  BY <1>1, UnlinkTakesOut
<1>3. e \in FrameRecord /\ RecordOK(a) /\ e.tied /\ e.type = type /\ e.owner = owner
  BY NewRecords
<1>4. a.type = type /\ a.owner = owner
  BY <1>3 DEF FrameRecord
<1> HIDE DEF p, e, a
<1>5. Fits(Unlink(d, p), p, a)
  BY <1>2, <1>4 DEF Fits, SamePage, TiedTo
<1> QED
  BY <1>1, <1>2, <1>3, <1>5, ActivatePutsBack DEF Allocate, p, e, a

\* A frame becomes the system's where it is (MakeSystem).
LEMMA MakeSystemKeeps ==
  ASSUME NEW d, NEW p \in PFN, InPlace(d, PFN), CanMakeSystem(d, p)
  PROVE  InPlace(MakeSystem(d, p), PFN)
<1>1. InPlace(Uncount(d, p), PFN \ {p})
  BY UncountTakesOut DEF CanMakeSystem
<1>2. Fits(Uncount(d, p), p, [SystemPage EXCEPT !.state = "active"])
  BY UntiedFits, NewRecords
<1> QED
  BY <1>1, <1>2, NewRecords, ActivatePutsBack DEF MakeSystem

\* A listed frame is active again, with the page it kept (Reclaim).
LEMMA ReclaimKeeps ==
  ASSUME NEW d, NEW p \in PFN, InPlace(d, PFN), CanReclaim(d, p)
  PROVE  InPlace(Reclaim(d, p), PFN)
<1> DEFINE e == [d.entry[p] EXCEPT !.refs = 1]
           a == [e EXCEPT !.state = "active"]
<1>1. InPlace(Unlink(d, p), PFN \ {p}) /\ Unlink(d, p).entry = d.entry
  BY UnlinkTakesOut DEF CanReclaim
<1>2. d.entry[p] \in FrameRecord /\ RecordOK(d.entry[p])
  BY DEF InPlace, DatabaseRecord
<1>3. /\ e \in FrameRecord
      /\ a.state = "active" /\ a.refs = 1 /\ a.shares = d.entry[p].shares
      /\ a.tied = d.entry[p].tied /\ a.type = d.entry[p].type /\ a.owner = d.entry[p].owner
  BY <1>2 DEF FrameRecord
<1>4. d.entry[p].tied /\ d.entry[p].shares = 0
  BY <1>2 DEF CanReclaim, IsActive, RecordOK
<1>5. RecordOK(a)
  BY <1>3, <1>4 DEF RecordOK
<1> HIDE DEF e, a
<1>6. Fits(d, p, a)
  BY <1>3, SamePageFits
<1>7. Fits(Unlink(d, p), p, a)
  BY <1>1, <1>6 DEF Fits
<1> QED
  BY <1>1, <1>3, <1>5, <1>7, ActivatePutsBack DEF Reclaim, e, a

\* Another reference (Hold).
LEMMA HoldKeeps ==
  ASSUME NEW d, NEW p \in PFN, InPlace(d, PFN), IsActive(d, p)
  PROVE  InPlace(Hold(d, p), PFN)
<1> DEFINE r == d.entry[p]
           e == [r EXCEPT !.refs = @ + 1]
<1>1. d \in DatabaseRecord /\ r \in FrameRecord /\ RecordOK(r) /\ r.state = "active"
  BY DEF InPlace, DatabaseRecord, IsActive
<1>2. Hold(d, p) = [d EXCEPT !.entry[p] = e]
  BY <1>1 DEF Hold
<1>3. e \in FrameRecord /\ e.refs = r.refs + 1
  BY <1>1 DEF FrameRecord
<1>4. /\ e.state = r.state /\ e.type = r.type /\ e.shares = r.shares
      /\ e.tied = r.tied /\ e.owner = r.owner /\ e.backing = r.backing
  BY <1>1 DEF FrameRecord
<1>5. RecordOK(e)
  BY <1>1, <1>3, <1>4 DEF RecordOK, FrameRecord
<1> HIDE DEF e
<1>6. Fits(d, p, e)
  BY <1>4, SamePageFits
<1> QED
  BY <1>2, <1>3, <1>4, <1>5, <1>6, ChangeInPlace

\* A process's page table shares a global page (Share, ShareFirst).
LEMMA ShareKeeps ==
  ASSUME NEW d, NEW p \in PFN, InPlace(d, PFN), CanShare(d, p)
  PROVE  /\ InPlace(Share(d, p), PFN)
         /\ CanShareFirst(d, p) => InPlace(ShareFirst(d, p), PFN)
<1> DEFINE r == d.entry[p]
           e1 == [r EXCEPT !.refs = IF r.shares = 0 THEN @ + 1 ELSE @]
           e == [e1 EXCEPT !.shares = @ + 1]
           f == [r EXCEPT !.shares = 1]
<1>1. /\ d \in DatabaseRecord /\ r \in FrameRecord /\ RecordOK(r)
      /\ r.state = "active" /\ r.type = "global"
  BY DEF InPlace, DatabaseRecord, CanShare, IsActive
<1>2. Share(d, p) = [d EXCEPT !.entry[p] = e]
  BY DEF Share
<1>3. ShareFirst(d, p) = [d EXCEPT !.entry[p] = f]
  BY <1>1 DEF ShareFirst
<1>4. r.refs >= 1 /\ r.shares >= 0 /\ r.tied /\ r.refs \in Int /\ r.shares \in Int
  BY <1>1 DEF RecordOK, FrameRecord
<1>5. /\ e1 \in FrameRecord /\ e1.refs >= 1
      /\ e1.state = r.state /\ e1.type = r.type /\ e1.shares = r.shares
      /\ e1.tied = r.tied /\ e1.owner = r.owner /\ e1.backing = r.backing
  <2> DEFINE n == IF r.shares = 0 THEN r.refs + 1 ELSE r.refs
  <2>1. n \in Int /\ n >= 1 /\ e1 = [r EXCEPT !.refs = n]
    BY <1>4
  <2> HIDE DEF n, e1, r
  <2> QED
    BY <1>1, <2>1 DEF FrameRecord
<1>6. /\ f \in FrameRecord /\ f.refs = r.refs /\ f.shares = 1
      /\ f.state = r.state /\ f.type = r.type
      /\ f.tied = r.tied /\ f.owner = r.owner /\ f.backing = r.backing
  BY <1>1 DEF FrameRecord
<1> HIDE DEF e1, f
<1>7. /\ e \in FrameRecord /\ e.refs = e1.refs /\ e.shares = r.shares + 1
      /\ e.state = r.state /\ e.type = r.type
      /\ e.tied = r.tied /\ e.owner = r.owner /\ e.backing = r.backing
  BY <1>5 DEF FrameRecord
<1> HIDE DEF e, r
<1>8. RecordOK(e) /\ RecordOK(f)
  BY <1>1, <1>4, <1>5, <1>6, <1>7 DEF RecordOK
<1>9. Fits(d, p, e) /\ Fits(d, p, f)
  BY <1>6, <1>7, SamePageFits DEF r
<1>10. InPlace(Share(d, p), PFN)
  BY <1>2, <1>7, <1>8, <1>9, ChangeInPlace DEF r
<1>11. InPlace(ShareFirst(d, p), PFN)
  BY <1>3, <1>6, <1>8, <1>9, ChangeInPlace DEF r
<1> QED
  BY <1>10, <1>11

\* Where the page's contents are kept (SetBacking).
LEMMA SetBackingKeeps ==
  ASSUME NEW d, NEW p \in PFN, NEW store \in Stores, InPlace(d, PFN), CanSetBacking(d, p)
  PROVE  InPlace(SetBacking(d, p, store), PFN)
<1> DEFINE r == d.entry[p]
           e == [r EXCEPT !.backing = store]
<1>1. d \in DatabaseRecord /\ r \in FrameRecord /\ RecordOK(r) /\ r.tied
  BY DEF InPlace, DatabaseRecord, CanSetBacking
<1>2. SetBacking(d, p, store) = [d EXCEPT !.entry[p] = e]
  BY <1>1 DEF SetBacking
<1>3. /\ e \in FrameRecord /\ e.refs = r.refs /\ e.shares = r.shares /\ e.saved = r.saved
      /\ e.state = r.state /\ e.type = r.type /\ e.tied = r.tied /\ e.owner = r.owner
  BY <1>1 DEF FrameRecord
<1> HIDE DEF e
<1>4. RecordOK(e)
  BY <1>1, <1>3 DEF RecordOK
<1>5. Fits(d, p, e)
  BY <1>3, SamePageFits
<1> QED
  BY <1>2, <1>3, <1>4, <1>5, ChangeInPlace

\* An active frame's saved modify bit is its own (SetModified, ClearModified).
LEMMA SaveKeeps ==
  ASSUME NEW d, NEW p \in PFN, NEW saved \in BOOLEAN, InPlace(d, PFN), IsActive(d, p)
  PROVE  InPlace([d EXCEPT !.entry[p].saved = saved], PFN)
<1> DEFINE r == d.entry[p]
           e == [r EXCEPT !.saved = saved]
<1>1. d \in DatabaseRecord /\ r \in FrameRecord /\ RecordOK(r) /\ r.state = "active"
  BY DEF InPlace, DatabaseRecord, IsActive
<1>2. [d EXCEPT !.entry[p].saved = saved] = [d EXCEPT !.entry[p] = e]
  BY <1>1
<1>3. /\ e \in FrameRecord /\ e.refs = r.refs /\ e.shares = r.shares /\ e.backing = r.backing
      /\ e.state = r.state /\ e.type = r.type /\ e.tied = r.tied /\ e.owner = r.owner
  BY <1>1 DEF FrameRecord
<1> HIDE DEF e
<1>4. RecordOK(e)
  BY <1>1, <1>3 DEF RecordOK
<1>5. Fits(d, p, e)
  BY <1>3, SamePageFits
<1> QED
  BY <1>2, <1>3, <1>4, <1>5, ChangeInPlace

\* A reference less; the last sends the frame to a list (dropReference).
LEMMA DropReferenceKeeps ==
  ASSUME NEW d, NEW p \in PFN, InPlace(d, PFN), IsActive(d, p),
         d.entry[p].tied, d.entry[p].refs = 1 => d.entry[p].shares = 0
  PROVE  InPlace(DropReference(d, p), PFN)
<1> DEFINE r == d.entry[p]
           u == Uncount(d, p)
           e1 == [r EXCEPT !.refs = r.refs - 1]
           m == [e1 EXCEPT !.state = "modified"]
           f == [e1 EXCEPT !.state = "free"]
<1>1. d \in DatabaseRecord /\ r \in FrameRecord /\ RecordOK(r) /\ r.state = "active"
  BY DEF InPlace, DatabaseRecord, IsActive
<1>2. r.refs >= 1 /\ r.shares >= 0 /\ r.tied /\ r.refs \in Int /\ r.shares \in Int /\ r.saved \in BOOLEAN
  BY <1>1 DEF RecordOK, FrameRecord
<1>3. /\ e1 \in FrameRecord /\ e1.refs = r.refs - 1 /\ e1.shares = r.shares /\ e1.saved = r.saved
      /\ e1.state = r.state /\ e1.type = r.type
      /\ e1.tied = r.tied /\ e1.owner = r.owner /\ e1.backing = r.backing
  <2>1. r.refs - 1 \in Int
    BY <1>2
  <2> HIDE DEF r
  <2> QED
    BY <1>1, <2>1 DEF FrameRecord
<1>4. InPlace(u, PFN \ {p}) /\ u.entry = d.entry /\ u \in DatabaseRecord
  <2> HIDE DEF r, e1, m, f
  <2>1. InPlace(u, PFN \ {p}) /\ u.entry = d.entry
    BY UncountTakesOut
  <2> QED
    BY <2>1 DEF InPlace
<1> HIDE DEF e1, u
<1>5. /\ m \in FrameRecord /\ m.refs = e1.refs /\ m.shares = e1.shares /\ m.saved = e1.saved
      /\ m.state = "modified" /\ m.type = r.type
      /\ m.tied = r.tied /\ m.owner = r.owner /\ m.backing = r.backing
  BY <1>3 DEF FrameRecord
<1>6. /\ f \in FrameRecord /\ f.refs = e1.refs /\ f.shares = e1.shares /\ f.saved = e1.saved
      /\ f.state = "free" /\ f.type = r.type
      /\ f.tied = r.tied /\ f.owner = r.owner /\ f.backing = r.backing
  BY <1>3 DEF FrameRecord
<1> HIDE DEF m, f
<1>7. Fits(d, p, e1) /\ Fits(d, p, m) /\ Fits(d, p, f)
  BY <1>3, <1>5, <1>6, SamePageFits
<1>8. Fits(u, p, m) /\ Fits(u, p, f)
  BY <1>4, <1>7 DEF Fits
<1>9. CASE r.refs > 1
  <2>1. DropReference(d, p) = [d EXCEPT !.entry[p] = e1]
    BY <1>1, <1>9 DEF DropReference, e1
  <2>2. RecordOK(e1)
    BY <1>1, <1>2, <1>3, <1>9 DEF RecordOK
  <2> QED
    BY <1>3, <1>7, <2>1, <2>2, ChangeInPlace
<1>10. CASE ~(r.refs > 1) /\ r.saved
  <2> DEFINE g == [u.entry EXCEPT ![p] = m]
             n == DropReference(d, p)
  <2>1. n = [u EXCEPT !.entry[p] = m, !.modified = Append(@, p)]
    BY <1>10 DEF DropReference, u, e1, m
  <2>2. u.entry \in [PFN -> FrameRecord] /\ u.modified \in Seq(PFN)
    BY <1>4 DEF DatabaseRecord
  <2>4. n = [u EXCEPT !.entry = g, !.modified = Append(u.modified, p)]
    BY <1>4, <2>1 DEF DatabaseRecord
  <2>5. g \in [PFN -> FrameRecord] /\ Append(u.modified, p) \in Seq(PFN)
    BY <1>5, <2>2
  <2>6. /\ n \in DatabaseRecord /\ n.entry = g /\ n.active = u.active /\ n.free = u.free
        /\ n.modified = Append(u.modified, p)
    BY <1>4, <2>4, <2>5 DEF DatabaseRecord
  <2>7. RecordOK(m)
    BY <1>1, <1>2, <1>3, <1>5, <1>10 DEF RecordOK
  <2> HIDE DEF n
  <2>8. InPlace(n, PFN)
    BY <1>4, <1>5, <1>8, <2>6, <2>7, PutOnList
  <2> QED
    BY <2>8 DEF n
<1>11. CASE ~(r.refs > 1) /\ ~r.saved
  <2> DEFINE g == [u.entry EXCEPT ![p] = f]
             n == DropReference(d, p)
  <2>1. n = [u EXCEPT !.entry[p] = f, !.free = Append(@, p)]
    BY <1>11 DEF DropReference, u, e1, f
  <2>2. u.entry \in [PFN -> FrameRecord] /\ u.free \in Seq(PFN)
    BY <1>4 DEF DatabaseRecord
  <2>4. n = [u EXCEPT !.entry = g, !.free = Append(u.free, p)]
    BY <1>4, <2>1 DEF DatabaseRecord
  <2>5. g \in [PFN -> FrameRecord] /\ Append(u.free, p) \in Seq(PFN)
    BY <1>6, <2>2
  <2>6. /\ n \in DatabaseRecord /\ n.entry = g /\ n.active = u.active /\ n.modified = u.modified
        /\ n.free = Append(u.free, p)
    BY <1>4, <2>4, <2>5 DEF DatabaseRecord
  <2>7. RecordOK(f)
    BY <1>1, <1>2, <1>3, <1>6, <1>11 DEF RecordOK
  <2> HIDE DEF n
  <2>8. InPlace(n, PFN)
    BY <1>4, <1>6, <1>8, <2>6, <2>7, PutOnList
  <2> QED
    BY <2>8 DEF n
<1> QED
  BY <1>2, <1>9, <1>10, <1>11

\* A page table lets its page go (Release).
LEMMA ReleaseKeeps ==
  ASSUME NEW d, NEW p \in PFN, NEW modified \in BOOLEAN, InPlace(d, PFN), CanRelease(d, p)
  PROVE  InPlace(Release(d, p, modified), PFN)
<1> DEFINE r == d.entry[p]
           saved == r.saved \/ modified
           e == [r EXCEPT !.saved = saved]
           n == [d EXCEPT !.entry[p].saved = saved]
<1>1. d \in DatabaseRecord /\ r \in FrameRecord /\ RecordOK(r) /\ r.state = "active" /\ r.tied
  BY DEF InPlace, DatabaseRecord, CanRelease, IsActive
<1>2. r.refs = 1 => r.shares = 0
  BY <1>1 DEF CanRelease, RecordOK, FrameRecord
<1>3. Release(d, p, modified) = DropReference(n, p)
  BY <1>1 DEF Release
<1>4. saved \in BOOLEAN
  BY <1>1 DEF FrameRecord
<1> HIDE DEF saved
<1>5. InPlace(n, PFN)
  BY <1>1, <1>4, SaveKeeps DEF IsActive
<1>6. n.entry[p] = e
  BY <1>1 DEF DatabaseRecord
<1>7. e.state = r.state /\ e.tied = r.tied /\ e.refs = r.refs /\ e.shares = r.shares
  BY <1>1 DEF FrameRecord
<1> HIDE DEF n, e
<1>8. IsActive(n, p) /\ n.entry[p].tied /\ (n.entry[p].refs = 1 => n.entry[p].shares = 0)
  BY <1>1, <1>2, <1>6, <1>7 DEF IsActive
<1>9. InPlace(DropReference(n, p), PFN)
  BY <1>5, <1>8, DropReferenceKeeps
<1> QED
  BY <1>3, <1>9

\* A page table stops sharing a global page; the last share takes its reference
\* with it (Unshare).
LEMMA UnshareKeeps ==
  ASSUME NEW d, NEW p \in PFN, NEW modified \in BOOLEAN, InPlace(d, PFN), CanUnshare(d, p)
  PROVE  InPlace(Unshare(d, p, modified), PFN)
<1> DEFINE r == d.entry[p]
           saved == r.saved \/ modified
           e1 == [r EXCEPT !.saved = saved]
           e == [e1 EXCEPT !.shares = r.shares - 1]
           n == [d EXCEPT !.entry[p] = e]
<1>1. d \in DatabaseRecord /\ r \in FrameRecord /\ RecordOK(r) /\ r.state = "active" /\ r.shares # 0
  BY DEF InPlace, DatabaseRecord, CanUnshare, IsActive
<1>2. r.refs >= 1 /\ r.shares >= 1 /\ r.tied /\ r.type = "global" /\ r.refs \in Int /\ r.shares \in Int
  <2>1. r.refs \in Int /\ r.shares \in Int
    BY <1>1 DEF FrameRecord
  <2> QED
    BY <1>1, <2>1 DEF RecordOK
<1>3. saved \in BOOLEAN /\ r.shares - 1 \in Int
  BY <1>1, <1>2 DEF FrameRecord
<1>4. [r EXCEPT !.saved = @ \/ modified, !.shares = @ - 1] = e
  BY <1>1 DEF FrameRecord
<1>5. Unshare(d, p, modified) = IF n.entry[p].shares = 0 THEN DropReference(n, p) ELSE n
  BY <1>4 DEF Unshare
<1> HIDE DEF saved, r
<1>6. /\ e1 \in FrameRecord /\ e1.refs = r.refs /\ e1.shares = r.shares /\ e1.backing = r.backing
      /\ e1.state = r.state /\ e1.type = r.type /\ e1.tied = r.tied /\ e1.owner = r.owner
  BY <1>1, <1>3 DEF FrameRecord
<1> HIDE DEF e1
<1>7. /\ e \in FrameRecord /\ e.refs = r.refs /\ e.shares = r.shares - 1 /\ e.backing = r.backing
      /\ e.state = r.state /\ e.type = r.type /\ e.tied = r.tied /\ e.owner = r.owner
  BY <1>3, <1>6 DEF FrameRecord
<1> HIDE DEF e
<1>8. RecordOK(e)
  BY <1>1, <1>2, <1>7 DEF RecordOK
<1>9. Fits(d, p, e)
  BY <1>7, SamePageFits DEF r
<1>10. InPlace(n, PFN)
  BY <1>7, <1>8, <1>9, ChangeInPlace DEF r
<1>11. n.entry[p] = e
  BY <1>1, <1>7 DEF DatabaseRecord
<1> HIDE DEF n
<1>12. CASE n.entry[p].shares = 0
  <2>1. InPlace(DropReference(n, p), PFN)
    BY <1>1, <1>2, <1>7, <1>10, <1>11, <1>12, DropReferenceKeeps DEF IsActive
  <2> QED
    BY <1>5, <1>12, <2>1
<1>13. CASE n.entry[p].shares # 0
  BY <1>5, <1>10, <1>13
<1> QED
  BY <1>12, <1>13

\* A page is gone, and its frame waits at the free list's head (Delete).
LEMMA DeleteKeeps ==
  ASSUME NEW d, NEW p \in PFN, InPlace(d, PFN)
  PROVE  InPlace(Delete(d, p), PFN)
<1> DEFINE u == IF IsActive(d, p) THEN Uncount(d, p) ELSE Unlink(d, p)
           g == [u.entry EXCEPT ![p] = Blank]
           n == Delete(d, p)
<1>1. InPlace(u, PFN \ {p})
  BY UnlinkTakesOut, UncountTakesOut
<1>2. n = [u EXCEPT !.entry[p] = Blank, !.free = <<p>> \o @]
  BY DEF Delete
<1> HIDE DEF u
<1>3. u \in DatabaseRecord /\ u.entry \in [PFN -> FrameRecord] /\ u.free \in Seq(PFN)
  BY <1>1 DEF InPlace, DatabaseRecord
<1>4. n = [u EXCEPT !.entry = g, !.free = <<p>> \o u.free]
  BY <1>2, <1>3 DEF DatabaseRecord
<1>5. g \in [PFN -> FrameRecord] /\ <<p>> \o u.free \in Seq(PFN)
  BY <1>3, NewRecords
<1>6. /\ n \in DatabaseRecord /\ n.entry = g /\ n.active = u.active /\ n.modified = u.modified
      /\ n.free = <<p>> \o u.free
  BY <1>3, <1>4, <1>5 DEF DatabaseRecord
<1>7. Fits(u, p, Blank)
  BY UntiedFits, NewRecords
<1> HIDE DEF n
<1>8. InPlace(n, PFN)
  BY <1>1, <1>6, <1>7, NewRecords, PutOnList, SMTT(60)
<1> QED
  BY <1>8 DEF n

\* A modified page has been written: its frame is free, its page still there
\* to reclaim (Cleaned).
LEMMA CleanedKeeps ==
  ASSUME NEW d, NEW p \in PFN, InPlace(d, PFN), CanClean(d, p)
  PROVE  InPlace(Cleaned(d, p), PFN)
<1> DEFINE r == d.entry[p]
           u == Unlink(d, p)
           e1 == [r EXCEPT !.saved = FALSE]
           e == [e1 EXCEPT !.state = "free"]
           g == [u.entry EXCEPT ![p] = e]
           n == Cleaned(d, p)
<1>1. d \in DatabaseRecord /\ r \in FrameRecord /\ RecordOK(r) /\ r.state = "modified"
  BY DEF InPlace, DatabaseRecord, CanClean
<1>2. r.refs = 0 /\ r.shares = 0 /\ r.tied
  BY <1>1 DEF RecordOK
<1>3. InPlace(u, PFN \ {p}) /\ u.entry = d.entry
  BY <1>1, UnlinkTakesOut DEF IsActive
<1>4. n = [u EXCEPT !.entry[p] = [@ EXCEPT !.saved = FALSE, !.state = "free"], !.free = Append(@, p)]
  BY DEF Cleaned
<1> HIDE DEF u
<1>5. u \in DatabaseRecord /\ u.entry \in [PFN -> FrameRecord] /\ u.free \in Seq(PFN)
  BY <1>3 DEF InPlace, DatabaseRecord
<1>6. n = [u EXCEPT !.entry = g, !.free = Append(u.free, p)]
  BY <1>3, <1>4, <1>5 DEF DatabaseRecord
<1>7. /\ e1 \in FrameRecord /\ e1.refs = r.refs /\ e1.shares = r.shares /\ ~e1.saved
      /\ e1.type = r.type /\ e1.tied = r.tied /\ e1.owner = r.owner /\ e1.backing = r.backing
  BY <1>1 DEF FrameRecord
<1> HIDE DEF e1
<1>8. /\ e \in FrameRecord /\ e.refs = r.refs /\ e.shares = r.shares /\ ~e.saved /\ e.state = "free"
      /\ e.type = r.type /\ e.tied = r.tied /\ e.owner = r.owner /\ e.backing = r.backing
  BY <1>7 DEF FrameRecord
<1> HIDE DEF e
<1>9. g \in [PFN -> FrameRecord] /\ Append(u.free, p) \in Seq(PFN)
  BY <1>5, <1>8
<1>10. /\ n \in DatabaseRecord /\ n.entry = g /\ n.active = u.active /\ n.modified = u.modified
       /\ n.free = Append(u.free, p)
  BY <1>5, <1>6, <1>9 DEF DatabaseRecord
<1>11. RecordOK(e)
  BY <1>2, <1>8 DEF RecordOK
<1>12. Fits(d, p, e)
  BY <1>8, SamePageFits
<1>13. Fits(u, p, e)
  BY <1>3, <1>12 DEF Fits
<1> HIDE DEF n
<1>14. InPlace(n, PFN)
  <2>1. InPlace(u, PFN \ {p}) /\ n.entry = [u.entry EXCEPT ![p] = e]
    BY <1>3, <1>10
  <2>2. e \in FrameRecord /\ e.state = "free" /\ e.state # "active"
    BY <1>8
  <2> HIDE DEF g
  <2> QED
    BY <1>10, <1>11, <1>13, <2>1, <2>2, PutOnList
<1> QED
  BY <1>14 DEF n

-----------------------------------------------------------------------------
(* The theorems. *)

\* New's database is in order.
LEMMA NewInPlace == InPlace(NewDatabase, PFN)
<1> DEFINE d == NewDatabase
           q == [i \in 1 .. Frames |-> i - 1]
<1>1. /\ d.free = q /\ d.modified = <<>> /\ d.entry = [p \in PFN |-> Blank]
      /\ d.active = [t \in Types |-> 0]
  BY DEF NewDatabase
<1>2. q \in Seq(PFN) /\ IsInjective(q) /\ ToSet(q) = PFN
  <2>1. \A i \in 1 .. Frames : i - 1 \in PFN
    BY FramesAssumption DEF PFN
  <2>2. q \in Seq(PFN) /\ DOMAIN q = 1 .. Frames
    <3>1. q \in [1 .. Frames -> PFN]
      BY <2>1
    <3> QED
      BY <3>1, FramesAssumption, SeqDef
  <2>3. IsInjective(q)
    BY <2>2, FramesAssumption DEF IsInjective
  <2>4. \A p \in PFN : p + 1 \in 1 .. Frames /\ p = q[p + 1]
    BY FramesAssumption DEF PFN
  <2>5. ToSet(q) = PFN
    BY <2>1, <2>2, <2>4 DEF ToSet
  <2> QED
    BY <2>2, <2>3, <2>5
<1>3. <<>> \in Seq(PFN) /\ IsInjective(<<>>) /\ ToSet(<<>>) = {}
  BY DEF IsInjective, ToSet
<1>4. d \in DatabaseRecord
  <2>1. d.entry \in [PFN -> FrameRecord] /\ d.active \in [Types -> Int]
    BY <1>1, NewRecords
  <2> HIDE DEF q
  <2> QED
    BY <1>1, <1>2, <1>3, <2>1 DEF NewDatabase, DatabaseRecord
<1> HIDE DEF d, q
<1>5. \A p \in PFN : d.entry[p] = Blank
  BY <1>1
<1>6. \A t \in Types : d.active[t] = Cardinality(ActiveIn(d, PFN, t))
  <2>1. \A t \in Types : ActiveIn(d, PFN, t) = {}
    BY <1>5, NewRecords DEF ActiveIn
  <2> QED
    BY <1>1, <2>1, FS_EmptySet
<1>7. \A p \in PFN : RecordOK(d.entry[p]) /\ ~d.entry[p].tied /\ d.entry[p].state = "free"
  BY <1>5, NewRecords
<1>8. /\ ToSet(d.free) = {p \in PFN : d.entry[p].state = "free"}
      /\ ToSet(d.modified) = {p \in PFN : d.entry[p].state = "modified"}
  BY <1>1, <1>2, <1>3, <1>7
<1>9. \A p, r \in PFN : ~SamePage(d.entry[p], d.entry[r])
  BY <1>7 DEF SamePage
<1>10. IsInjective(d.free) /\ IsInjective(d.modified)
  BY <1>1, <1>2, <1>3
<1>11. InPlace(d, PFN)
  BY <1>4, <1>6, <1>7, <1>8, <1>9, <1>10 DEF InPlace
<1> QED
  BY <1>11 DEF d

\* Every operation keeps every frame in its place.
LEMMA IInvIsInductive == IInv /\ [DbNext]_db => IInv'
<1> SUFFICES ASSUME InPlace(db, PFN), [DbNext]_db
             PROVE  InPlace(db', PFN)
  BY DEF IInv
<1>1. CASE TakeFrame
  BY <1>1, ReserveKeeps, AllocateKeeps, NextFrameIsFree DEF TakeFrame, AllocateSystem
<1>2. ASSUME NEW p \in PFN, UseFrame(p)
      PROVE  InPlace(db', PFN)
  BY <1>2, HoldKeeps, ShareKeeps, MakeSystemKeeps, ReclaimKeeps DEF UseFrame, CanShareFirst
<1>3. ASSUME NEW p \in PFN, LetGo(p)
      PROVE  InPlace(db', PFN)
  BY <1>3, ReleaseKeeps, UnshareKeeps, DeleteKeeps DEF LetGo
<1>4. ASSUME NEW p \in PFN, Record(p)
      PROVE  InPlace(db', PFN)
  <2>1. ASSUME NEW store \in Stores, CanSetBacking(db, p), db' = SetBacking(db, p, store)
        PROVE  InPlace(db', PFN)
    BY <2>1, SetBackingKeeps
  <2>2. CASE IsActive(db, p) /\ db' = SetModified(db, p)
    BY <2>2, SaveKeeps, TRUE \in BOOLEAN DEF SetModified
  <2>3. CASE IsActive(db, p) /\ db' = ClearModified(db, p)
    BY <2>3, SaveKeeps, FALSE \in BOOLEAN DEF ClearModified
  <2>4. CASE CanClean(db, p) /\ db' = Cleaned(db, p)
    BY <2>4, CleanedKeeps
  <2> QED
    BY <1>4, <2>1, <2>2, <2>3, <2>4 DEF Record
<1>5. CASE UNCHANGED db
  BY <1>5
<1> QED
  BY <1>1, <1>2, <1>3, <1>4, <1>5 DEF DbNext

\* The database is always a database: lists of frames, a record for each frame
\* and a count for each type.
THEOREM DatabaseTypeCorrect == DbSpec => [](db \in DatabaseRecord)
<1>1. DbInit => IInv
  BY NewInPlace DEF DbInit, IInv
<1>2. IInv => db \in DatabaseRecord
  BY DEF IInv, InPlace
<1> QED
  BY <1>1, <1>2, IInvIsInductive, PTL DEF DbSpec

\* Whatever a caller asks of the database, one call after another, Check finds
\* nothing wrong: no frame is on two lists or on none, no record disagrees with
\* its list, no page is in two frames, and no count has drifted.
THEOREM DatabaseIsSound == DbSpec => []Check
<1>1. DbInit => IInv
  BY NewInPlace DEF DbInit, IInv
<1> QED
  BY <1>1, IInvImpliesCheck, IInvIsInductive, PTL DEF DbSpec

-----------------------------------------------------------------------------
(* What each operation of the database does to the records. *)

\* A record as activate leaves it.
Woken(e) == [e EXCEPT !.state = "active"]

\* The records with one changed.
Put(g, f, e) == [g EXCEPT ![f] = e]

\* A database whose every frame is in its place.
LEMMA PlacedTypes ==
  ASSUME NEW d, InPlace(d, PFN), NEW f \in PFN
  PROVE  /\ d \in DatabaseRecord /\ d.entry \in [PFN -> FrameRecord] /\ d.entry[f] \in FrameRecord /\ RecordOK(d.entry[f])
         /\ d.free \in Seq(PFN) /\ d.modified \in Seq(PFN)
BY DEF InPlace, DatabaseRecord

LEMMA UnlinkIs ==
  ASSUME NEW d \in DatabaseRecord, NEW f \in PFN, NEW u, u = Unlink(d, f)
  PROVE  u.entry = d.entry /\ u.active = d.active
BY DEF Unlink, DatabaseRecord

\* What activating does to the records.
LEMMA ActivateIs ==
  ASSUME NEW d \in DatabaseRecord, NEW f \in PFN, NEW u, u = Unlink(d, f), NEW e, NEW v, v = Activate(u, f, e)
  PROVE  v.entry = Put(d.entry, f, Woken(e))
<1>1. u.entry = d.entry /\ DOMAIN u = DOMAIN d
  BY DEF Unlink, DatabaseRecord
<1>2. v = [u EXCEPT !.entry[f] = [e EXCEPT !.state = "active"], !.active[e.type] = @ + 1]
  BY DEF Activate
<1>3. "entry" \in DOMAIN u /\ "active" \in DOMAIN u
  BY <1>1 DEF DatabaseRecord
<1>4. v.entry = [u.entry EXCEPT ![f] = [e EXCEPT !.state = "active"]]
  BY <1>2, <1>3
<1> QED
  BY <1>1, <1>4 DEF Put, Woken

LEMMA AllocateIs ==
  ASSUME NEW d, InPlace(d, PFN), CanAllocate(d), NEW o \in Owners, NEW store \in Stores,
         ~TiedTo(d, "process", o), NEW v, v = Allocate(d, "process", o, store)
  PROVE  /\ InPlace(v, PFN) /\ NextFrame(d) \in PFN /\ d.entry[NextFrame(d)].state = "free"
         /\ v.entry = [d.entry EXCEPT ![NextFrame(d)] = [TiedPage("process", o, store) EXCEPT !.state = "active"]]
<1>1. NextFrame(d) \in PFN /\ d.entry[NextFrame(d)].state = "free"
  BY NextFrameIsFree DEF CanReserve
<1>2. InPlace(v, PFN)
  BY AllocateKeeps DEF Types
<1> DEFINE u == Unlink(d, NextFrame(d))
           e == TiedPage("process", o, store)
<1>3. v = Activate(u, NextFrame(d), e)
  BY DEF Allocate
<1>4. d \in DatabaseRecord /\ u = Unlink(d, NextFrame(d)) /\ e = TiedPage("process", o, store)
  BY DEF InPlace
<1> HIDE DEF u, e
<1>5. v.entry = Put(d.entry, NextFrame(d), Woken(e))
  BY <1>1, <1>3, <1>4, ActivateIs
<1> QED
  BY <1>1, <1>2, <1>4, <1>5 DEF Put, Woken

LEMMA AllocateSystemIs ==
  ASSUME NEW d, InPlace(d, PFN), CanAllocate(d), NEW v, v = AllocateSystem(d)
  PROVE  /\ InPlace(v, PFN) /\ NextFrame(d) \in PFN /\ d.entry[NextFrame(d)].state = "free"
         /\ v.entry = [d.entry EXCEPT ![NextFrame(d)] = [SystemPage EXCEPT !.state = "active"]]
<1>1. NextFrame(d) \in PFN /\ CanReserve(d, NextFrame(d))
  BY NextFrameIsFree
<1>2. v = Reserve(d, NextFrame(d))
  BY DEF AllocateSystem
<1> DEFINE u == Unlink(d, NextFrame(d))
<1>3. v = Activate(u, NextFrame(d), SystemPage)
  BY <1>2 DEF Reserve
<1>4. d \in DatabaseRecord /\ u = Unlink(d, NextFrame(d))
  BY DEF InPlace
<1> HIDE DEF u
<1>5. v.entry = Put(d.entry, NextFrame(d), Woken(SystemPage))
  BY <1>1, <1>3, <1>4, ActivateIs
<1> QED
  BY <1>1, <1>2, <1>5, ReserveKeeps DEF CanReserve, Put, Woken

LEMMA ReclaimIs ==
  ASSUME NEW d, InPlace(d, PFN), NEW f \in PFN, CanReclaim(d, f), NEW v, v = Reclaim(d, f)
  PROVE  /\ InPlace(v, PFN)
         /\ v.entry = [d.entry EXCEPT ![f] = [d.entry[f] EXCEPT !.refs = 1, !.state = "active"]]
<1>1. InPlace(v, PFN)
  BY ReclaimKeeps
<1> DEFINE u == Unlink(d, f)
           e == [d.entry[f] EXCEPT !.refs = 1]
<1>2. v = Activate(u, f, e)
  BY DEF Reclaim
<1>3. d \in DatabaseRecord /\ u = Unlink(d, f) /\ e = [d.entry[f] EXCEPT !.refs = 1]
  BY DEF InPlace
<1> HIDE DEF u, e
<1>4. v.entry = Put(d.entry, f, Woken(e))
  BY <1>2, <1>3, ActivateIs
<1> QED
  BY <1>1, <1>3, <1>4 DEF Put, Woken

\* A record as its last release leaves it.
Dropped(e, modified) ==
  [e EXCEPT !.saved = e.saved \/ modified, !.refs = 0,
            !.state = IF e.saved \/ modified THEN "modified" ELSE "free"]

\* The last reference goes, and the frame to the list its modify bits choose.
LEMMA ReleaseIs ==
  ASSUME NEW d, InPlace(d, PFN), NEW f \in PFN, NEW modified \in BOOLEAN, IsActive(d, f), d.entry[f].tied,
         d.entry[f].refs = 1, d.entry[f].type = "process", NEW v, v = Release(d, f, modified)
  PROVE  /\ InPlace(v, PFN)
         /\ v.entry = Put(d.entry, f, Dropped(d.entry[f], modified))
<1> DEFINE e == d.entry[f]
           c == [d EXCEPT !.entry[f].saved = @ \/ modified]
           g == c.entry[f]
<1>1. /\ d \in DatabaseRecord /\ d.entry \in [PFN -> FrameRecord] /\ e \in FrameRecord /\ RecordOK(e)
  BY PlacedTypes
<1>2. e.shares = 0
  BY <1>1 DEF RecordOK, IsActive, FrameRecord
<1>3. InPlace(v, PFN)
  BY <1>2, ReleaseKeeps DEF CanRelease
<1>4. /\ c \in DatabaseRecord /\ c.entry = [d.entry EXCEPT ![f] = [e EXCEPT !.saved = e.saved \/ modified]]
      /\ c.free = d.free /\ c.modified = d.modified /\ c.active = d.active
      /\ g = [e EXCEPT !.saved = e.saved \/ modified]
  BY <1>1 DEF DatabaseRecord, FrameRecord
<1>5. g.refs = 1 /\ (g.saved <=> e.saved \/ modified) /\ g.saved \in BOOLEAN
  BY <1>1, <1>4 DEF FrameRecord
<1> HIDE DEF c
<1>6. v = DropReference(c, f)
  BY DEF Release, c
<1>7. Uncount(c, f).entry = c.entry /\ DOMAIN Uncount(c, f) = DOMAIN c
  BY <1>4 DEF Uncount, DatabaseRecord
<1>8. v.entry = [c.entry EXCEPT ![f] = [g EXCEPT !.refs = 0, !.state = IF g.saved THEN "modified" ELSE "free"]]
  <2>1. CASE g.saved
    <3> DEFINE u == Uncount(c, f)
    <3>1. v = [u EXCEPT !.entry[f] = [g EXCEPT !.refs = 0, !.state = "modified"],
                        !.modified = Append(@, f)]
      BY <1>5, <1>6, <2>1 DEF DropReference
    <3>2. u.entry = c.entry /\ "entry" \in DOMAIN u /\ "modified" \in DOMAIN u
      BY <1>4, <1>7 DEF DatabaseRecord
    <3> HIDE DEF u
    <3>3. v.entry = [u.entry EXCEPT ![f] = [g EXCEPT !.refs = 0, !.state = "modified"]]
      BY <3>1, <3>2
    <3> QED
      BY <2>1, <3>2, <3>3
  <2>2. CASE ~g.saved
    <3> DEFINE u == Uncount(c, f)
    <3>1. v = [u EXCEPT !.entry[f] = [g EXCEPT !.refs = 0, !.state = "free"],
                        !.free = Append(@, f)]
      BY <1>5, <1>6, <2>2 DEF DropReference
    <3>2. u.entry = c.entry /\ "entry" \in DOMAIN u /\ "free" \in DOMAIN u
      BY <1>4, <1>7 DEF DatabaseRecord
    <3> HIDE DEF u
    <3>3. v.entry = [u.entry EXCEPT ![f] = [g EXCEPT !.refs = 0, !.state = "free"]]
      BY <3>1, <3>2
    <3> QED
      BY <2>2, <3>2, <3>3
  <2> QED
    BY <1>5, <2>1, <2>2
<1>9. v.entry = [d.entry EXCEPT ![f] = [g EXCEPT !.refs = 0, !.state = IF g.saved THEN "modified" ELSE "free"]]
  BY <1>1, <1>4, <1>8
<1> QED
  BY <1>1, <1>3, <1>4, <1>5, <1>9 DEF Put, Dropped

LEMMA DeleteIs ==
  ASSUME NEW d, InPlace(d, PFN), NEW f \in PFN, NEW v, v = Delete(d, f)
  PROVE  InPlace(v, PFN) /\ v.entry = [d.entry EXCEPT ![f] = Blank]
<1>1. d \in DatabaseRecord
  BY PlacedTypes
<1>2. InPlace(v, PFN)
  BY DeleteKeeps
<1> DEFINE gone == IF IsActive(d, f) THEN Uncount(d, f) ELSE Unlink(d, f)
<1>3. gone.entry = d.entry /\ DOMAIN gone = DOMAIN d
  BY <1>1 DEF Uncount, Unlink, DatabaseRecord
<1>4. v = [gone EXCEPT !.entry[f] = Blank, !.free = <<f>> \o @]
  BY DEF Delete
<1> HIDE DEF gone
<1>5. v.entry = [gone.entry EXCEPT ![f] = Blank]
  BY <1>1, <1>3, <1>4 DEF DatabaseRecord
<1> QED
  BY <1>2, <1>3, <1>5

LEMMA SetBackingIs ==
  ASSUME NEW d, InPlace(d, PFN), NEW f \in PFN, d.entry[f].tied, NEW store \in Stores,
         NEW v, v = SetBacking(d, f, store)
  PROVE  InPlace(v, PFN) /\ v.entry = [d.entry EXCEPT ![f] = [d.entry[f] EXCEPT !.backing = store]]
         /\ v.free = d.free /\ v.modified = d.modified
BY PlacedTypes, SetBackingKeeps DEF CanSetBacking, SetBacking, DatabaseRecord

Saved(e, saved) == [e EXCEPT !.saved = saved]

WithSaved(d, f, saved) == [d EXCEPT !.entry[f].saved = saved]

LEMMA SavedIs ==
  ASSUME NEW d, InPlace(d, PFN), NEW f \in PFN, IsActive(d, f), NEW saved \in BOOLEAN,
         NEW v, v = WithSaved(d, f, saved)
  PROVE  InPlace(v, PFN) /\ v.entry = Put(d.entry, f, Saved(d.entry[f], saved))
         /\ v.free = d.free /\ v.modified = d.modified
<1>1. InPlace(v, PFN)
  BY SaveKeeps DEF WithSaved
<1>2. d \in DatabaseRecord
  BY PlacedTypes
<1>3. v.entry = Put(d.entry, f, Saved(d.entry[f], saved)) /\ v.free = d.free /\ v.modified = d.modified
  BY <1>2 DEF DatabaseRecord, WithSaved, Put, Saved
<1> QED
  BY <1>1, <1>3

LEMMA CleanedIs ==
  ASSUME NEW d, InPlace(d, PFN), NEW f \in PFN, CanClean(d, f), NEW v, v = Cleaned(d, f)
  PROVE  /\ InPlace(v, PFN)
         /\ v.entry = [d.entry EXCEPT ![f] = [d.entry[f] EXCEPT !.saved = FALSE, !.state = "free"]]
<1>1. d \in DatabaseRecord
  BY PlacedTypes
<1>2. InPlace(v, PFN)
  BY CleanedKeeps
<1> DEFINE u == Unlink(d, f)
<1>3. u.entry = d.entry /\ DOMAIN u = DOMAIN d
  BY <1>1 DEF Unlink, DatabaseRecord
<1>4. v = [u EXCEPT !.entry[f] = [@ EXCEPT !.saved = FALSE, !.state = "free"], !.free = Append(@, f)]
  BY DEF Cleaned
<1> HIDE DEF u
<1>5. v.entry = [u.entry EXCEPT ![f] = [u.entry[f] EXCEPT !.saved = FALSE, !.state = "free"]]
  BY <1>1, <1>3, <1>4 DEF DatabaseRecord
<1> QED
  BY <1>2, <1>3, <1>5

-----------------------------------------------------------------------------
(* Working set lists: what holds of one between any two of its operations. *)

Slot == [page : Pages \cup {NoPage}, locks : SUBSET LockKinds]

ListRecord == [slots : Seq(Slot), dyn : Nat, next : Nat, size : Nat]

\* What holds of a working set list even while it is short of its limit or has room past it.
Tidy(w) ==
  /\ w \in ListRecord
  /\ w.dyn \in 0 .. Len(w.slots) /\ w.next \in w.dyn .. Len(w.slots)
  /\ \A i \in 1 .. Len(w.slots) : w.slots[i].locks # {} <=> i <= w.dyn
  /\ \A i \in 1 .. Len(w.slots) : ~IsUsed(w, i) => w.slots[i] = Available
  /\ \A i, j \in 1 .. Len(w.slots) : IsUsed(w, i) /\ w.slots[i].page = w.slots[j].page => i = j

\* As long as its limit, and longer only with every entry in use.
Filled(w) ==
  /\ Len(w.slots) >= w.size
  /\ Len(w.slots) > w.size => \A i \in 1 .. Len(w.slots) : IsUsed(w, i)

Sized(w) == Tidy(w) /\ Filled(w)

\* Every page that could be replaced is protected.
NoneOpen(w, c) ==
  \A i \in w.dyn + 1 .. Len(w.slots) : IsUsed(w, i) => w.slots[i].page \in c.protected

LEMMA SmallMod ==
  ASSUME NEW n \in Nat, n # 0, NEW k \in Nat
  PROVE  /\ k < n => k % n = k
         /\ n <= k /\ k < n + n => k % n = k - n
<1>1. k < n => k % n = k
  OBVIOUS
<1>2. n <= k /\ k < n + n => k % n = k - n
  OBVIOUS
<1> QED
  BY <1>1, <1>2

\* f lists the n places after d, starting with the one after d + a.
Circle(f, n, d, a) == f = [k \in 1 .. n |-> d + 1 + ((a + k - 1) % n)]

\* The n places after d, each once.
EachOnce(f, n, d) ==
  /\ \A k \in 1 .. n : f[k] \in d + 1 .. d + n
  /\ \A i \in d + 1 .. d + n : \E k \in 1 .. n : f[k] = i
  /\ \A j, k \in 1 .. n : f[j] = f[k] => j = k

LEMMA CircularPlaces ==
  ASSUME NEW n \in Nat, NEW d \in Nat, NEW a \in 0 .. n, NEW f, Circle(f, n, d, a)
  PROVE  EachOnce(f, n, d)
<1>3. ASSUME NEW k \in 1 .. n
      PROVE  f[k] = IF a + k - 1 < n THEN d + a + k ELSE d + a + k - n
  <2> DEFINE x == a + k - 1
  <2>1. n # 0 /\ x \in Nat /\ x < n + n
    OBVIOUS
  <2>2. f[k] = d + 1 + (x % n)
    BY DEF Circle
  <2> HIDE DEF x
  <2>3. n <= x \/ x < n
    BY <2>1
  <2>4. /\ x < n => x % n = x
        /\ n <= x /\ x < n + n => x % n = x - n
    BY <2>1, SmallMod, Zenon
  <2>5. x % n = IF x < n THEN x ELSE x - n
    BY <2>1, <2>3, <2>4, Zenon
  <2>6. f[k] = IF x < n THEN d + 1 + x ELSE d + 1 + (x - n)
    BY <2>2, <2>5
  <2> QED
    BY <2>6 DEF x
<1>4. ASSUME NEW k \in 1 .. n
      PROVE  f[k] \in d + 1 .. d + n
  <2>1. f[k] = IF a + k - 1 < n THEN d + a + k ELSE d + a + k - n
    BY <1>3
  <2> QED
    BY <2>1
<1>5. ASSUME NEW i \in d + 1 .. d + n
      PROVE  \E k \in 1 .. n : f[k] = i
  <2>1. CASE i - d - a >= 1
    <3> DEFINE k == i - d - a
    <3>1. k \in 1 .. n /\ a + k - 1 < n
      BY <2>1
    <3>2. f[k] = d + a + k
      BY <1>3, <3>1
    <3>3. f[k] = i
      BY <3>2
    <3> QED
      BY <3>1, <3>3
  <2>2. CASE i - d - a < 1
    <3> DEFINE k == i - d - a + n
    <3>1. k \in 1 .. n /\ ~(a + k - 1 < n)
      BY <2>2
    <3>2. f[k] = d + a + k - n
      BY <1>3, <3>1
    <3>3. f[k] = i
      BY <3>2
    <3> QED
      BY <3>1, <3>3
  <2> QED
    BY <2>1, <2>2
<1>6. ASSUME NEW j \in 1 .. n, NEW k \in 1 .. n, f[j] = f[k]
      PROVE  j = k
  <2>1. f[k] = IF a + k - 1 < n THEN d + a + k ELSE d + a + k - n
    BY <1>3
  <2>2. f[j] = IF a + j - 1 < n THEN d + a + j ELSE d + a + j - n
    BY <1>3
  <2> QED
    BY <1>6, <2>1, <2>2
<1> QED
  BY <1>4, <1>5, <1>6 DEF EachOnce

\* A scan visits every entry of the dynamic part once.
LEMMA ScanPlaces ==
  ASSUME NEW w, Tidy(w), NEW n, n = Len(w.slots) - w.dyn
  PROVE  /\ n \in Nat /\ DOMAIN Scan(w) = 1 .. n
         /\ \A k \in 1 .. n : Scan(w)[k] \in w.dyn + 1 .. Len(w.slots)
         /\ \A i \in w.dyn + 1 .. Len(w.slots) : \E k \in 1 .. n : Scan(w)[k] = i
         /\ \A j, k \in 1 .. n : Scan(w)[j] = Scan(w)[k] => j = k
<1> DEFINE a == w.next - w.dyn
           d == w.dyn
           S == Scan(w)
<1>1. n \in Nat /\ d \in Nat /\ a \in 0 .. n /\ Len(w.slots) = d + n
  BY LenProperties DEF Tidy, ListRecord
<1>2. Circle(S, n, d, a)
  BY DEF Scan, Circle
<1>3. DOMAIN S = 1 .. n
  BY DEF Scan
<1> HIDE DEF a, S, d
<1>4. EachOnce(S, n, d)
  BY <1>1, <1>2, CircularPlaces
<1> QED
  BY <1>1, <1>3, <1>4 DEF S, d, EachOnce

LEMMA FirstIsThere ==
  ASSUME NEW w, Tidy(w), NEW places, places \subseteq DOMAIN Scan(w), NEW i, i = FirstOfScan(w, places)
  PROVE  /\ places = {} => i = 0
         /\ places # {} => /\ \E k \in places : i = Scan(w)[k]
                           /\ i \in w.dyn + 1 .. Len(w.slots) /\ i # 0
<1>1. CASE places = {}
  BY <1>1 DEF FirstOfScan
<1>2. CASE places # {}
  <2>1. DOMAIN Scan(w) \subseteq Nat /\ \A k \in DOMAIN Scan(w) : Scan(w)[k] \in w.dyn + 1 .. Len(w.slots)
    BY ScanPlaces
  <2>2. places \subseteq Nat
    BY <2>1
  <2>3. \E k \in places : \A j \in places : k <= j
    BY <1>2, <2>2, LeastOf, Zenon
  <2>4. \E k \in places : i = Scan(w)[k]
    BY <1>2, <2>3 DEF FirstOfScan
  <2>5. w.dyn \in Nat
    BY DEF Tidy, ListRecord
  <2> QED
    BY <1>2, <2>1, <2>4, <2>5
<1> QED
  BY <1>1, <1>2

\* The entry chosen is a dynamic one whose page is not protected, or an available one if the
\* list may grow; none only if every page is protected and nothing is available to it.
LEMMA ChooseFits ==
  ASSUME NEW w, Tidy(w), NEW c, NEW growing \in BOOLEAN, NEW i, i = Choose(w, c, growing)
  PROVE  /\ i # 0 => /\ i \in w.dyn + 1 .. Len(w.slots)
                     /\ IsUsed(w, i) => w.slots[i].page \notin c.protected
                     /\ ~IsUsed(w, i) => growing
         /\ i = 0 => NoneOpen(w, c)
<1> DEFINE D == DOMAIN Scan(w)
           S == Scan(w)
           grow == growing /\ MayGrow(w, c)
           open == {k \in D : IsUsed(w, S[k]) /\ w.slots[S[k]].page \notin c.protected}
           skipped == Skipped({k \in open : w.slots[S[k]].page \in c.inTB})
           unused == {k \in D : grow /\ ~IsUsed(w, S[k])}
<1>1. i = ChooseIn(w, grow, open, skipped)
  BY DEF Choose, ChooseOpen
<1>2. i = IF grow /\ w.next > w.dyn /\ ~IsUsed(w, w.next) THEN w.next
          ELSE IF unused \cup (open \ skipped) # {} THEN FirstOfScan(w, unused \cup (open \ skipped))
          ELSE FirstOfScan(w, open)
  BY <1>1 DEF ChooseIn
<1>3. w.next \in w.dyn .. Len(w.slots) /\ w.dyn \in Nat /\ w.next \in Nat /\ Len(w.slots) \in Nat
  BY LenProperties DEF Tidy, ListRecord
<1> DEFINE first == unused \cup (open \ skipped)
<1>4. first \subseteq D /\ open \subseteq D
  OBVIOUS
<1>5. CASE grow /\ w.next > w.dyn /\ ~IsUsed(w, w.next)
  <2>1. i = w.next
    BY <1>2, <1>5
  <2>2. growing /\ i \in w.dyn + 1 .. Len(w.slots) /\ ~IsUsed(w, i) /\ i # 0
    <3>1. w.next > w.dyn /\ ~IsUsed(w, w.next) /\ growing
      BY <1>5
    <3> HIDE DEF grow
    <3> QED
      BY <1>3, <2>1, <3>1
  <2> QED
    BY <2>2
<1>6. CASE ~(grow /\ w.next > w.dyn /\ ~IsUsed(w, w.next)) /\ unused \cup (open \ skipped) # {}
  <2>1. i = FirstOfScan(w, unused \cup (open \ skipped))
    BY <1>2, <1>6
  <2>2. first # {} /\ i = FirstOfScan(w, first)
    BY <1>6, <2>1
  <2>3. /\ \E k \in first : i = S[k]
        /\ i \in w.dyn + 1 .. Len(w.slots) /\ i # 0
    <3> HIDE DEF first
    <3> QED
      BY <1>4, <2>2, FirstIsThere
  <2>4. PICK k \in unused \cup (open \ skipped) : i = S[k]
    BY <2>3
  <2>5. CASE k \in unused
    BY <2>3, <2>4, <2>5
  <2>6. CASE k \in open
    BY <2>3, <2>4, <2>6
  <2> QED
    BY <2>4, <2>5, <2>6
<1>7. CASE ~(grow /\ w.next > w.dyn /\ ~IsUsed(w, w.next)) /\ unused \cup (open \ skipped) = {}
  <2>1. i = FirstOfScan(w, open)
    BY <1>2, <1>7
  <2>2. CASE open # {}
    <3>1. /\ \E k \in open : i = S[k]
          /\ i \in w.dyn + 1 .. Len(w.slots) /\ i # 0
      BY <1>4, <2>1, <2>2, FirstIsThere
    <3> QED
      BY <3>1
  <2>3. CASE open = {}
    <3>1. i = 0
      BY <1>4, <2>1, <2>3, FirstIsThere
    <3>2. ASSUME NEW j \in w.dyn + 1 .. Len(w.slots), IsUsed(w, j)
          PROVE  w.slots[j].page \in c.protected
      <4>1. PICK k \in D : S[k] = j
        BY ScanPlaces
      <4> QED
        BY <2>3, <3>2, <4>1
    <3> QED
      BY <3>1, <3>2 DEF NoneOpen
  <2> QED
    BY <2>2, <2>3
<1> QED
  BY <1>5, <1>6, <1>7

LEMMA TidyTypes ==
  ASSUME NEW w, Tidy(w)
  PROVE  /\ w \in ListRecord /\ w.slots \in Seq(Slot) /\ Len(w.slots) \in Nat /\ DOMAIN w.slots = 1 .. Len(w.slots)
         /\ \A i \in 1 .. Len(w.slots) : w.slots[i] \in Slot /\ w.slots[i].page \in Pages \cup {NoPage}
         /\ w.dyn \in Nat /\ w.next \in Nat /\ w.size \in Nat /\ w.dyn <= Len(w.slots)
         /\ w.dyn <= w.next /\ w.next <= Len(w.slots)
         /\ NoPage \notin Pages /\ Available \in Slot
<1>1. w \in ListRecord /\ w.slots \in Seq(Slot)
  BY DEF Tidy, ListRecord
<1>2. Len(w.slots) \in Nat /\ DOMAIN w.slots = 1 .. Len(w.slots)
      /\ \A i \in 1 .. Len(w.slots) : w.slots[i] \in Slot
  BY <1>1, LenProperties, ElementOfSeq
<1>3. \A i \in 1 .. Len(w.slots) : w.slots[i].page \in Pages \cup {NoPage}
  BY <1>2 DEF Slot
<1>4. w.dyn \in Nat /\ w.next \in Nat /\ w.size \in Nat
  BY <1>1 DEF ListRecord
<1>5. w.dyn <= Len(w.slots) /\ w.dyn <= w.next /\ w.next <= Len(w.slots)
  BY <1>2, <1>4 DEF Tidy
<1>6. NoPage \notin Pages /\ Available \in Slot
  BY WorkingSetAssumption DEF Available, Slot
<1> QED
  BY <1>1, <1>2, <1>3, <1>4, <1>5, <1>6

\* The pages of a list, by their places.
LEMMA PagesAre ==
  ASSUME NEW w, Tidy(w)
  PROVE  /\ \A v : v \in PagesIn(w) <=> \E i \in 1 .. Len(w.slots) : IsUsed(w, i) /\ w.slots[i].page = v
         /\ \A i \in 1 .. Len(w.slots) : IsUsed(w, i) => w.slots[i].page \in PagesIn(w) /\ w.slots[i].page \in Pages
         /\ PagesIn(w) \subseteq Pages
<1>1. DOMAIN w.slots = 1 .. Len(w.slots)
      /\ \A i \in 1 .. Len(w.slots) : w.slots[i].page \in Pages \cup {NoPage}
  BY TidyTypes
<1>2. \A v : v \in PagesIn(w) <=> \E i \in 1 .. Len(w.slots) : IsUsed(w, i) /\ w.slots[i].page = v
  BY <1>1 DEF PagesIn, UsedSlots
<1> QED
  BY <1>1, <1>2 DEF IsUsed

\* A page put in a dynamic entry replaces what was there.
LEMMA FillFits ==
  ASSUME NEW w, Tidy(w), NEW i \in w.dyn + 1 .. Len(w.slots), NEW page \in Pages, page \notin PagesIn(w),
         NEW v, v = Fill(w, i, page)
  PROVE  /\ Tidy(v) /\ Len(v.slots) = Len(w.slots) /\ v.size = w.size /\ v.dyn = w.dyn
         /\ PagesIn(v) = (PagesIn(w) \ {w.slots[i].page}) \cup {page}
         /\ \A j \in 1 .. Len(w.slots) : IsUsed(v, j) <=> j = i \/ IsUsed(w, j)
<1> DEFINE n == Len(w.slots)
           e == [page |-> page, locks |-> {}]
<1>1. i \in 1 .. n /\ i \in Nat /\ n \in Nat /\ ~(i <= w.dyn) /\ w.dyn <= i /\ i <= n /\ w.dyn \in Nat
  BY TidyTypes
<1>2. e \in Slot /\ e.page = page /\ e.locks = {} /\ page # NoPage
  BY TidyTypes DEF Slot
<1> HIDE DEF e
<1>3. /\ v.slots = [w.slots EXCEPT ![i] = e] /\ v.next = i /\ v.dyn = w.dyn /\ v.size = w.size
      /\ v \in ListRecord
  <2>1. w.slots \in Seq(Slot) /\ w \in ListRecord
    BY TidyTypes
  <2>2. [w.slots EXCEPT ![i] = e] \in Seq(Slot)
    BY <1>1, <1>2, <2>1, ExceptSeq
  <2>3. v = [[w EXCEPT !.slots = [w.slots EXCEPT ![i] = e]] EXCEPT !.next = i]
    BY <2>1 DEF Fill, e, ListRecord
  <2> QED
    BY <1>1, <2>1, <2>2, <2>3 DEF ListRecord
<1>4. /\ Len(v.slots) = n /\ v.slots[i] = e /\ \A j \in 1 .. n : j # i => v.slots[j] = w.slots[j]
  <2>1. w.slots \in Seq(Slot)
    BY TidyTypes
  <2> QED
    BY <1>1, <1>2, <1>3, <2>1, ExceptSeq
<1>5. \A j \in 1 .. n : IsUsed(v, j) <=> j = i \/ IsUsed(w, j)
  BY <1>2, <1>4 DEF IsUsed
<1>6. /\ \A j \in 1 .. n : w.slots[j].locks # {} <=> j <= w.dyn
      /\ \A j \in 1 .. n : ~IsUsed(w, j) => w.slots[j] = Available
      /\ \A j, k \in 1 .. n : IsUsed(w, j) /\ w.slots[j].page = w.slots[k].page => j = k
  BY DEF Tidy
<1>7. \A j \in 1 .. n : IsUsed(w, j) => w.slots[j].page # page
  BY PagesAre
<1>8. Tidy(v)
  <2>1. \A j \in 1 .. n : v.slots[j].locks # {} <=> j <= w.dyn
    BY <1>1, <1>2, <1>4, <1>6
  <2>2. \A j \in 1 .. n : ~IsUsed(v, j) => v.slots[j] = Available
    BY <1>4, <1>5, <1>6
  <2>3. ASSUME NEW j \in 1 .. n, NEW k \in 1 .. n, IsUsed(v, j), v.slots[j].page = v.slots[k].page
        PROVE  j = k
    <3>1. CASE j = i /\ k # i
      BY <1>2, <1>4, <1>7, <2>3, <3>1 DEF IsUsed
    <3>2. CASE j # i /\ k = i
      BY <1>2, <1>4, <1>5, <1>7, <2>3, <3>2
    <3>3. CASE j # i /\ k # i
      BY <1>4, <1>5, <1>6, <2>3, <3>3
    <3> QED
      BY <3>1, <3>2, <3>3
  <2> QED
    BY <1>1, <1>3, <1>4, <2>1, <2>2, <2>3 DEF Tidy
<1>9. PagesIn(v) = (PagesIn(w) \ {w.slots[i].page}) \cup {page}
  <2>1. \A x : x \in PagesIn(v) <=> \E j \in 1 .. n : IsUsed(v, j) /\ v.slots[j].page = x
    BY <1>4, <1>8, PagesAre
  <2>2. \A x : x \in PagesIn(w) <=> \E j \in 1 .. n : IsUsed(w, j) /\ w.slots[j].page = x
    BY PagesAre
  <2>3. ASSUME NEW x \in PagesIn(v)
        PROVE  x \in (PagesIn(w) \ {w.slots[i].page}) \cup {page}
    <3>1. PICK j \in 1 .. n : IsUsed(v, j) /\ v.slots[j].page = x
      BY <2>1
    <3>2. CASE j = i
      BY <1>2, <1>4, <3>1, <3>2
    <3>3. CASE j # i
      <4>1. IsUsed(w, j) /\ w.slots[j].page = x
        BY <1>4, <1>5, <3>1, <3>3
      <4> QED
        BY <1>1, <1>6, <2>2, <3>3, <4>1
    <3> QED
      BY <3>2, <3>3
  <2>4. page \in PagesIn(v)
    BY <1>1, <1>2, <1>4, <1>5, <2>1
  <2>5. ASSUME NEW x \in PagesIn(w), x # w.slots[i].page
        PROVE  x \in PagesIn(v)
    <3>1. PICK j \in 1 .. n : IsUsed(w, j) /\ w.slots[j].page = x
      BY <2>2
    <3> QED
      BY <1>4, <1>5, <2>1, <2>5, <3>1
  <2> QED
    BY <2>3, <2>4, <2>5
<1> QED
  BY <1>3, <1>4, <1>5, <1>8, <1>9

\* An entry emptied loses its page, and nothing else changes.
LEMMA EmptyFits ==
  ASSUME NEW w, Tidy(w), NEW i \in w.dyn + 1 .. Len(w.slots), NEW v, v = Empty(w, i)
  PROVE  /\ Tidy(v) /\ Len(v.slots) = Len(w.slots) /\ v.size = w.size /\ v.dyn = w.dyn /\ v.next = w.next
         /\ PagesIn(v) = PagesIn(w) \ {w.slots[i].page}
         /\ \A j \in 1 .. Len(w.slots) : IsUsed(v, j) <=> j # i /\ IsUsed(w, j)
<1> DEFINE n == Len(w.slots)
<1>1. i \in 1 .. n /\ i \in Nat /\ n \in Nat /\ ~(i <= w.dyn) /\ w.dyn \in Nat
  BY TidyTypes
<1>2. Available \in Slot /\ Available.page = NoPage /\ Available.locks = {}
  BY TidyTypes DEF Available
<1>3. /\ v.slots = [w.slots EXCEPT ![i] = Available] /\ v.next = w.next /\ v.dyn = w.dyn /\ v.size = w.size
      /\ v \in ListRecord
  <2>1. w.slots \in Seq(Slot) /\ w \in ListRecord
    BY TidyTypes
  <2>2. [w.slots EXCEPT ![i] = Available] \in Seq(Slot)
    BY <1>1, <1>2, <2>1, ExceptSeq
  <2> QED
    BY <1>1, <2>1, <2>2 DEF ListRecord, Empty
<1>4. /\ Len(v.slots) = n /\ v.slots[i] = Available /\ \A j \in 1 .. n : j # i => v.slots[j] = w.slots[j]
  <2>1. w.slots \in Seq(Slot)
    BY TidyTypes
  <2> QED
    BY <1>1, <1>2, <1>3, <2>1, ExceptSeq
<1>5. \A j \in 1 .. n : IsUsed(v, j) <=> j # i /\ IsUsed(w, j)
  BY <1>2, <1>4 DEF IsUsed
<1>6. /\ \A j \in 1 .. n : w.slots[j].locks # {} <=> j <= w.dyn
      /\ \A j \in 1 .. n : ~IsUsed(w, j) => w.slots[j] = Available
      /\ \A j, k \in 1 .. n : IsUsed(w, j) /\ w.slots[j].page = w.slots[k].page => j = k
      /\ w.next \in w.dyn .. n /\ w.dyn \in 0 .. n
  BY DEF Tidy
<1>8. Tidy(v)
  <2>1. \A j \in 1 .. n : v.slots[j].locks # {} <=> j <= w.dyn
    BY <1>1, <1>2, <1>4, <1>6
  <2>2. \A j \in 1 .. n : ~IsUsed(v, j) => v.slots[j] = Available
    BY <1>4, <1>5, <1>6
  <2>3. ASSUME NEW j \in 1 .. n, NEW k \in 1 .. n, IsUsed(v, j), v.slots[j].page = v.slots[k].page
        PROVE  j = k
    <3>1. j # i /\ k # i
      BY <1>2, <1>4, <1>5, <2>3 DEF IsUsed
    <3> QED
      BY <1>4, <1>5, <1>6, <2>3, <3>1
  <2> QED
    BY <1>1, <1>3, <1>4, <1>6, <2>1, <2>2, <2>3 DEF Tidy
<1>9. PagesIn(v) = PagesIn(w) \ {w.slots[i].page}
  <2>1. \A x : x \in PagesIn(v) <=> \E j \in 1 .. n : IsUsed(v, j) /\ v.slots[j].page = x
    BY <1>4, <1>8, PagesAre
  <2>2. \A x : x \in PagesIn(w) <=> \E j \in 1 .. n : IsUsed(w, j) /\ w.slots[j].page = x
    BY PagesAre
  <2>3. ASSUME NEW x \in PagesIn(v)
        PROVE  x \in PagesIn(w) \ {w.slots[i].page}
    <3>1. PICK j \in 1 .. n : IsUsed(v, j) /\ v.slots[j].page = x
      BY <2>1
    <3>2. j # i /\ IsUsed(w, j) /\ w.slots[j].page = x
      BY <1>4, <1>5, <3>1
    <3> QED
      BY <1>1, <1>6, <2>2, <3>2
  <2>5. ASSUME NEW x \in PagesIn(w), x # w.slots[i].page
        PROVE  x \in PagesIn(v)
    <3>1. PICK j \in 1 .. n : IsUsed(w, j) /\ w.slots[j].page = x
      BY <2>2
    <3> QED
      BY <1>4, <1>5, <2>1, <2>5, <3>1
  <2> QED
    BY <2>3, <2>5
<1> QED
  BY <1>3, <1>4, <1>5, <1>8, <1>9

-----------------------------------------------------------------------------
(* What a scan, and taking pages out, leaves of a list. *)

\* What holds of a list even while an entry has changed places and not its locks.
Loose(w) ==
  /\ w \in ListRecord
  /\ \A i, j \in 1 .. Len(w.slots) : IsUsed(w, i) /\ w.slots[i].page = w.slots[j].page => i = j

\* The list v has the entries of w, or available ones, in other places: f says from where each
\* comes, 0 for an available one.
Moved(w, v, f) ==
  /\ f \in [1 .. Len(v.slots) -> 0 .. Len(w.slots)]
  /\ \A j, k \in 1 .. Len(v.slots) : f[j] = f[k] /\ f[j] # 0 => j = k
  /\ \A j \in 1 .. Len(v.slots) :
       v.slots[j].page = IF f[j] = 0 THEN NoPage ELSE w.slots[f[j]].page

\* Every page of w has moved, but for those at the places gone.
AllMoved(w, v, f, gone) ==
  /\ gone \subseteq 1 .. Len(w.slots)
  /\ \A i \in 1 .. Len(w.slots) : IsUsed(w, i) /\ i \notin gone => \E j \in 1 .. Len(v.slots) : f[j] = i
  /\ \A j \in 1 .. Len(v.slots) : f[j] \notin gone

\* The locked pages are the first.
LockedFirst(v) ==
  /\ v \in ListRecord
  /\ v.dyn <= Len(v.slots) /\ v.dyn <= v.next /\ v.next <= Len(v.slots)
  /\ \A j \in 1 .. Len(v.slots) : v.slots[j].locks # {} <=> j <= v.dyn
  /\ \A j \in 1 .. Len(v.slots) : v.slots[j].page = NoPage => v.slots[j].locks = {}

MovedUse(w, v, f) == \A j \in 1 .. Len(v.slots) : IsUsed(v, j) <=> f[j] # 0 /\ IsUsed(w, f[j])

LEMMA MovedFits ==
  ASSUME NEW w, Loose(w), NEW v, LockedFirst(v), NEW f, Moved(w, v, f), NEW gone, AllMoved(w, v, f, gone)
  PROVE  Tidy(v) /\ PagesIn(v) = PagesIn(w) \ {w.slots[i].page : i \in gone} /\ MovedUse(w, v, f)
<1> DEFINE n == Len(w.slots)
           m == Len(v.slots)
<1>1. /\ n \in Nat /\ m \in Nat /\ w.slots \in Seq(Slot) /\ v.slots \in Seq(Slot)
      /\ v.dyn \in Nat /\ v.next \in Nat
  BY LenProperties DEF ListRecord, Loose, LockedFirst
<1>2. \A j \in 1 .. m : v.slots[j] \in Slot
  BY <1>1, ElementOfSeq
<1>3. \A j \in 1 .. m : IsUsed(v, j) <=> f[j] # 0 /\ IsUsed(w, f[j])
  BY DEF Moved, IsUsed
<1>4. \A j \in 1 .. m : f[j] # 0 => f[j] \in 1 .. n
  BY <1>1 DEF Moved
<1>5. Tidy(v)
  <2>1. ASSUME NEW j \in 1 .. m, ~IsUsed(v, j)
        PROVE  v.slots[j] = Available
    <3>1. v.slots[j].page = NoPage /\ v.slots[j].locks = {} /\ v.slots[j] \in Slot
      BY <1>2, <2>1 DEF IsUsed, LockedFirst
    <3> QED
      BY <3>1 DEF Available, Slot
  <2>2. ASSUME NEW j \in 1 .. m, NEW k \in 1 .. m, IsUsed(v, j), v.slots[j].page = v.slots[k].page
        PROVE  j = k
    <3>1. f[j] # 0 /\ f[k] # 0
      BY <1>3, <2>2 DEF IsUsed
    <3>2. f[j] = f[k]
      BY <1>3, <1>4, <2>2, <3>1 DEF Moved, Loose
    <3> QED
      BY <3>1, <3>2 DEF Moved
  <2> QED
    BY <1>1, <2>1, <2>2 DEF Tidy, LockedFirst
<1>6. \A x : x \in PagesIn(v) <=> \E j \in 1 .. m : IsUsed(v, j) /\ v.slots[j].page = x
  BY <1>5, PagesAre
<1>7. \A x : x \in PagesIn(w) <=> \E i \in 1 .. n : IsUsed(w, i) /\ w.slots[i].page = x
  BY <1>1, LenProperties DEF PagesIn, UsedSlots
<1>8. ASSUME NEW x \in PagesIn(v)
      PROVE  x \in PagesIn(w) \ {w.slots[i].page : i \in gone}
  <2>1. PICK j \in 1 .. m : IsUsed(v, j) /\ v.slots[j].page = x
    BY <1>6
  <2>2. f[j] \in 1 .. n /\ IsUsed(w, f[j]) /\ w.slots[f[j]].page = x
    BY <1>3, <1>4, <2>1 DEF Moved
  <2>3. ASSUME NEW i \in gone, w.slots[i].page = x
        PROVE  FALSE
    <3>1. i \in 1 .. n
      BY DEF AllMoved
    <3>2. i = f[j]
      BY <2>2, <2>3, <3>1 DEF Loose
    <3> QED
      BY <3>2 DEF AllMoved
  <2> QED
    BY <1>7, <2>2, <2>3
<1>9. ASSUME NEW x \in PagesIn(w), x \notin {w.slots[i].page : i \in gone}
      PROVE  x \in PagesIn(v)
  <2>1. PICK i \in 1 .. n : IsUsed(w, i) /\ w.slots[i].page = x
    BY <1>7
  <2>2. i \notin gone
    BY <1>9, <2>1
  <2>3. PICK j \in 1 .. m : f[j] = i
    BY <2>1, <2>2 DEF AllMoved
  <2>4. v.slots[j].page = x /\ IsUsed(v, j)
    BY <1>3, <2>1, <2>3 DEF Moved
  <2> QED
    BY <1>6, <2>4
<1> QED
  BY <1>3, <1>5, <1>8, <1>9 DEF MovedUse

\* An available entry dropped: the pages stay, and next with its page.
LEMMA DropFits ==
  ASSUME NEW w, Tidy(w), NEW i \in w.dyn + 1 .. Len(w.slots), ~IsUsed(w, i), NEW v, v = DropSlot(w, i)
  PROVE  /\ Tidy(v) /\ Len(v.slots) = Len(w.slots) - 1 /\ v.size = w.size /\ v.dyn = w.dyn
         /\ PagesIn(v) = PagesIn(w)
         /\ \A j \in 1 .. Len(v.slots) : IsUsed(v, j) <=> IsUsed(w, IF j < i THEN j ELSE j + 1)
<1> DEFINE n == Len(w.slots)
           f == [j \in 1 .. n - 1 |-> IF j < i THEN j ELSE j + 1]
           nx == IF w.next >= i THEN w.next - 1 ELSE w.next
<1>1. /\ i \in 1 .. n /\ i \in Nat /\ n \in Nat /\ w.dyn \in Nat /\ w.next \in Nat /\ w.slots \in Seq(Slot)
      /\ w \in ListRecord /\ w.dyn < i /\ i <= n /\ w.dyn <= w.next /\ w.next <= n
  BY TidyTypes
<1>2. /\ RemoveAt(w.slots, i) \in Seq(Slot) /\ Len(RemoveAt(w.slots, i)) = n - 1
      /\ \A j \in 1 .. n - 1 : RemoveAt(w.slots, i)[j] = IF j < i THEN w.slots[j] ELSE w.slots[j + 1]
  BY <1>1, RemoveAtEntries
<1>3. nx \in Nat /\ w.dyn <= nx /\ nx <= n - 1 /\ ~(nx < w.dyn)
  BY <1>1
<1>4. /\ v.slots = RemoveAt(w.slots, i) /\ v.next = nx /\ v.dyn = w.dyn /\ v.size = w.size /\ v \in ListRecord
  <2>1. v = [[w EXCEPT !.slots = RemoveAt(w.slots, i)] EXCEPT !.next = nx]
    BY <1>3 DEF DropSlot
  <2> HIDE DEF nx
  <2> QED
    BY <1>1, <1>2, <1>3, <2>1 DEF ListRecord
<1>5. Len(v.slots) = n - 1
  BY <1>2, <1>4
<1>6. \A j \in 1 .. n - 1 : f[j] \in 1 .. n /\ f[j] # i /\ v.slots[j] = w.slots[f[j]]
  BY <1>1, <1>2, <1>4
<1>7. Moved(w, v, f)
  <2>1. f \in [1 .. n - 1 -> 0 .. n]
    BY <1>1
  <2>2. \A j, k \in 1 .. n - 1 : f[j] = f[k] => j = k
    BY <1>1
  <2>3. \A j \in 1 .. n - 1 : f[j] # 0
    BY <1>6
  <2> HIDE DEF f
  <2> QED
    BY <1>5, <1>6, <2>1, <2>2, <2>3 DEF Moved
<1>8. \A k \in 1 .. n : IsUsed(w, k) => \E j \in 1 .. n - 1 : f[j] = k
  <2> SUFFICES ASSUME NEW k \in 1 .. n, IsUsed(w, k)
               PROVE  \E j \in 1 .. n - 1 : f[j] = k
    OBVIOUS
  <2>1. k # i
    OBVIOUS
  <2>2. CASE k < i
    <3>1. k \in 1 .. n - 1 /\ f[k] = k
      BY <1>1, <2>2
    <3> QED
      BY <3>1
  <2>3. CASE k > i
    <3>1. k - 1 \in 1 .. n - 1 /\ f[k - 1] = k
      BY <1>1, <2>3
    <3> QED
      BY <3>1
  <2> HIDE DEF f
  <2> QED
    BY <1>1, <2>1, <2>2, <2>3
<1>9. \A j \in 1 .. n - 1 : v.slots[j].locks # {} <=> j <= v.dyn
  <2>1. \A j \in 1 .. n : w.slots[j].locks # {} <=> j <= w.dyn
    BY DEF Tidy
  <2>2. \A j \in 1 .. n - 1 : f[j] <= w.dyn <=> j <= w.dyn
    BY <1>1
  <2> HIDE DEF f
  <2> QED
    BY <1>4, <1>6, <2>1, <2>2
<1>10. \A j \in 1 .. n - 1 : v.slots[j].page = NoPage => v.slots[j].locks = {}
  <2>1. \A j \in 1 .. n : ~IsUsed(w, j) => w.slots[j].locks = {}
    BY DEF Tidy, Available
  <2> HIDE DEF f
  <2> QED
    BY <1>6, <2>1 DEF IsUsed
<1>11. Loose(w)
  BY <1>1 DEF Tidy, Loose
<1>12. \A j \in 1 .. n - 1 : f[j] = IF j < i THEN j ELSE j + 1
  OBVIOUS
<1> HIDE DEF f, nx
<1>13. LockedFirst(v)
  BY <1>1, <1>3, <1>4, <1>5, <1>9, <1>10 DEF LockedFirst
<1>14. AllMoved(w, v, f, {})
  BY <1>5, <1>8 DEF AllMoved
<1>15. Tidy(v) /\ PagesIn(v) = PagesIn(w) \ {w.slots[k].page : k \in {}} /\ MovedUse(w, v, f)
  BY <1>7, <1>11, <1>13, <1>14, MovedFits
<1> QED
  BY <1>4, <1>5, <1>6, <1>12, <1>15 DEF MovedUse

\* Where trim's loop stays, its result is.
LEMMA TrimReaches ==
  ASSUME NEW w, NEW c, NEW n \in Nat, 1 .. n = 1 .. Len(w.slots) - w.size, NEW G,
         [list |-> w, out |-> <<>>] \in G[{}],
         \A T \in SUBSET (1 .. n) : \A x \in T : \A u \in G[T \ {x}] :
           (\A y \in T : y <= x) => TrimStep(u, c) \in G[T]
  PROVE  Trim(w, c) \in G[1 .. n]
<1> DEFINE base == [list |-> w, out |-> <<>>]
           U == UNION {G[T] : T \in SUBSET (1 .. n)}
           F == [z \in (1 .. n) \X U |-> TrimStep(z[2], c)]
           Follows(f) == f = [T \in SUBSET (1 .. n) |->
                                IF T = {} THEN base ELSE TrimStep(f[T \ {Max(T)}], c)]
           h == CHOOSE f : Follows(f)
<1>1. Trim(w, c) = h[1 .. n]
  BY Zenon DEF Trim, Repeat, FoldLeft, MapThenFoldSet
<1>2. \A T \in SUBSET (1 .. n) : T # {} => Max(T) \in T /\ \A y \in T : y <= Max(T)
  BY GreatestPlace
<1>3. \A T \in SUBSET (1 .. n) : \A x \in T : \A u \in G[T \ {x}] : F[<<x, u>>] = TrimStep(u, c)
  OBVIOUS
<1> HIDE DEF F, base, h
<1>4. StepsStay(n, F, G)
  BY <1>3 DEF StepsStay
<1>5. base \in G[{}]
  BY DEF base
<1> HIDE DEF U
<1>6. PICK g : FoldsOver(n, base, F, g) /\ StaysIn(n, g, G)
  BY <1>4, <1>5, SeqFoldExists, ZenonT(60)
<1>7. \A T \in SUBSET (1 .. n) : T # {} => F[<<Max(T), g[T \ {Max(T)}]>>]
                                      = TrimStep(g[T \ {Max(T)}], c)
  BY <1>2, <1>3, <1>6 DEF StaysIn
<1>8. Follows(g)
  BY <1>6, <1>7, Zenon DEF FoldsOver
<1>9. Follows(h)
  BY <1>8, Zenon DEF h
<1>10. \A T \in SUBSET (1 .. n) : h[T] = IF T = {} THEN base ELSE TrimStep(h[T \ {Max(T)}], c)
  BY <1>9
<1>11. h[{}] \in G[{}]
  BY <1>5, <1>10
<1>12. \A T \in SUBSET (1 .. n) : T # {} /\ h[T \ {Max(T)}] \in G[T \ {Max(T)}] => h[T] \in G[T]
  BY <1>2, <1>10, ZenonT(60)
<1>13. h[1 .. n] \in G[1 .. n]
  BY <1>11, <1>12, SeqFoldInduction, Zenon
<1> QED
  BY <1>1, <1>13

\* The same of shrink's loop.
LEMMA ShrinkReaches ==
  ASSUME NEW w, NEW k, NEW c, NEW n \in Nat, 1 .. n = 1 .. InUse(w) - k, NEW G,
         [list |-> w, out |-> <<>>] \in G[{}],
         \A T \in SUBSET (1 .. n) : \A x \in T : \A u \in G[T \ {x}] :
           (\A y \in T : y <= x) => ShrinkStep(u, [c EXCEPT !.inTB = {}]) \in G[T]
  PROVE  Shrink(w, k, c) \in G[1 .. n]
<1> DEFINE base == [list |-> w, out |-> <<>>]
           U == UNION {G[T] : T \in SUBSET (1 .. n)}
           F == [z \in (1 .. n) \X U |-> ShrinkStep(z[2], [c EXCEPT !.inTB = {}])]
           Follows(f) == f = [T \in SUBSET (1 .. n) |->
                                IF T = {} THEN base ELSE ShrinkStep(f[T \ {Max(T)}], [c EXCEPT !.inTB = {}])]
           h == CHOOSE f : Follows(f)
<1>1. Shrink(w, k, c) = h[1 .. n]
  BY Zenon DEF Shrink, Repeat, FoldLeft, MapThenFoldSet
<1>2. \A T \in SUBSET (1 .. n) : T # {} => Max(T) \in T /\ \A y \in T : y <= Max(T)
  BY GreatestPlace
<1>3. \A T \in SUBSET (1 .. n) : \A x \in T : \A u \in G[T \ {x}] : F[<<x, u>>] = ShrinkStep(u, [c EXCEPT !.inTB = {}])
  OBVIOUS
<1> HIDE DEF F, base, h
<1>4. StepsStay(n, F, G)
  BY <1>3 DEF StepsStay
<1>5. base \in G[{}]
  BY DEF base
<1> HIDE DEF U
<1>6. PICK g : FoldsOver(n, base, F, g) /\ StaysIn(n, g, G)
  BY <1>4, <1>5, SeqFoldExists, ZenonT(60)
<1>7. \A T \in SUBSET (1 .. n) : T # {} => F[<<Max(T), g[T \ {Max(T)}]>>]
                                      = ShrinkStep(g[T \ {Max(T)}], [c EXCEPT !.inTB = {}])
  BY <1>2, <1>3, <1>6, ZenonT(60) DEF StaysIn
<1>8. Follows(g)
  BY <1>6, <1>7, Zenon DEF FoldsOver
<1>9. Follows(h)
  BY <1>8, Zenon DEF h
<1>10. \A T \in SUBSET (1 .. n) : h[T] = IF T = {} THEN base ELSE ShrinkStep(h[T \ {Max(T)}], [c EXCEPT !.inTB = {}])
  BY <1>9
<1>11. h[{}] \in G[{}]
  BY <1>5, <1>10
<1>12. \A T \in SUBSET (1 .. n) : T # {} /\ h[T \ {Max(T)}] \in G[T \ {Max(T)}] => h[T] \in G[T]
  BY <1>2, <1>10, ZenonT(60)
<1>13. h[1 .. n] \in G[1 .. n]
  BY <1>11, <1>12, SeqFoldInduction, Zenon
<1> QED
  BY <1>1, <1>13

\* What a call took out of a list: pages it had, none of them protected.
Taken(w, r, c) ==
  /\ r \in [list : ListRecord, out : Seq(Pages)]
  /\ ToSet(r.out) \subseteq PagesIn(w) /\ \A v \in ToSet(r.out) : v \notin c.protected
  /\ PagesIn(r.list) = PagesIn(w) \ ToSet(r.out)

LEMMA NothingTaken ==
  ASSUME NEW w, Tidy(w), NEW c
  PROVE  Taken(w, [list |-> w, out |-> <<>>], c)
<1>1. <<>> \in Seq(Pages) /\ ToSet(<<>>) = {}
  BY EmptySeq DEF ToSet
<1> QED
  BY <1>1, TidyTypes DEF Taken

LEMMA OneMoreTaken ==
  ASSUME NEW w, NEW c, NEW r, Taken(w, r, c), Tidy(r.list), NEW i \in 1 .. Len(r.list.slots), IsUsed(r.list, i),
         r.list.slots[i].page \notin c.protected, NEW l, Tidy(l),
         PagesIn(l) = PagesIn(r.list) \ {r.list.slots[i].page}, NEW t, t = TakeOut(r, i, l)
  PROVE  Taken(w, t, c) /\ t.list = l
<1> DEFINE v == r.list.slots[i].page
<1>1. v \in PagesIn(r.list) /\ v \in Pages
  BY PagesAre
<1> HIDE DEF v
<1>2. r.out \in Seq(Pages)
  BY DEF Taken
<1>3. Append(r.out, v) \in Seq(Pages) /\ ToSet(Append(r.out, v)) = ToSet(r.out) \cup {v}
  BY <1>1, <1>2, MembersOfAppend
<1>4. t = [list |-> l, out |-> Append(r.out, v)]
  BY DEF TakeOut, v
<1>5. t.list = l /\ t.out = Append(r.out, v) /\ l \in ListRecord /\ v \notin c.protected
      /\ PagesIn(l) = PagesIn(r.list) \ {v}
  BY <1>4, TidyTypes DEF v
<1> QED
  BY <1>1, <1>3, <1>4, <1>5 DEF Taken

\* Everything in use stays in use.
LEMMA FilledSame ==
  ASSUME NEW w, Filled(w), NEW v, Len(v.slots) = Len(w.slots), v.size = w.size,
         \A j \in 1 .. Len(w.slots) : IsUsed(w, j) => IsUsed(v, j)
  PROVE  Filled(v)
BY DEF Filled

\* An entry emptied and dropped from a list over its limit.
LEMMA CutFits ==
  ASSUME NEW w, Sized(w), Len(w.slots) > w.size, NEW i \in w.dyn + 1 .. Len(w.slots),
         NEW v, v = DropSlot(Empty(w, i), i)
  PROVE  /\ Sized(v) /\ Len(v.slots) = Len(w.slots) - 1 /\ v.size = w.size /\ v.dyn = w.dyn
         /\ PagesIn(v) = PagesIn(w) \ {w.slots[i].page}
<1> DEFINE e == Empty(w, i)
<1>1. /\ Tidy(e) /\ Len(e.slots) = Len(w.slots) /\ e.size = w.size /\ e.dyn = w.dyn
      /\ PagesIn(e) = PagesIn(w) \ {w.slots[i].page}
      /\ \A j \in 1 .. Len(w.slots) : IsUsed(e, j) <=> j # i /\ IsUsed(w, j)
  BY EmptyFits DEF Sized
<1>2. /\ i \in 1 .. Len(w.slots) /\ Len(w.slots) \in Nat /\ i \in Nat /\ w.size \in Nat
      /\ \A j \in 1 .. Len(w.slots) : IsUsed(w, j)
  BY TidyTypes DEF Sized, Filled
<1> HIDE DEF e
<1>3. v = DropSlot(e, i) /\ i \in e.dyn + 1 .. Len(e.slots) /\ ~IsUsed(e, i)
  BY <1>1, <1>2 DEF e
<1>4. /\ Tidy(v) /\ Len(v.slots) = Len(e.slots) - 1 /\ v.size = e.size /\ v.dyn = e.dyn
      /\ PagesIn(v) = PagesIn(e)
      /\ \A j \in 1 .. Len(v.slots) : IsUsed(v, j) <=> IsUsed(e, IF j < i THEN j ELSE j + 1)
  BY <1>1, <1>3, DropFits
<1>5. \A j \in 1 .. Len(v.slots) : IsUsed(v, j)
  <2> SUFFICES ASSUME NEW j \in 1 .. Len(v.slots) PROVE IsUsed(v, j)
    OBVIOUS
  <2> DEFINE k == IF j < i THEN j ELSE j + 1
  <2>1. k \in 1 .. Len(w.slots) /\ k # i
    BY <1>1, <1>2, <1>4
  <2>2. IsUsed(e, k)
    BY <1>1, <1>2, <2>1
  <2> QED
    BY <1>4, <2>2
<1>6. Filled(v)
  BY <1>1, <1>2, <1>4, <1>5 DEF Filled
<1> QED
  BY <1>1, <1>4, <1>6 DEF Sized

LEMMA PlacesCounted ==
  ASSUME NEW n \in Nat, NEW T \in SUBSET (1 .. n)
  PROVE  /\ Cardinality(T) \in Nat /\ Cardinality(T) <= n
         /\ \A x \in T : Cardinality(T \ {x}) = Cardinality(T) - 1
         /\ Cardinality({}) = 0 /\ Cardinality(1 .. n) = n
<1>1. IsFiniteSet(1 .. n) /\ Cardinality(1 .. n) = n
  BY FS_Interval
<1>2. IsFiniteSet(T) /\ Cardinality(T) <= n
  BY <1>1, FS_Subset
<1> QED
  BY <1>1, <1>2, FS_CardinalityType, FS_RemoveElement, FS_EmptySet

\* One turn of trim's loop, in a list over its limit: the page chosen goes with its entry.
LEMMA TrimStepFits ==
  ASSUME NEW w, NEW c, NEW r, Taken(w, r, c), Sized(r.list), Len(r.list.slots) > r.list.size,
         NEW t, t = TrimStep(r, c)
  PROVE  /\ Taken(w, t, c) /\ Sized(t.list) /\ t.list.size = r.list.size /\ t.list.dyn = r.list.dyn
         /\ \/ Len(t.list.slots) = Len(r.list.slots) - 1 /\ ~NoneOpen(r.list, c)
            \/ t = r /\ NoneOpen(r.list, c)
<1> DEFINE l == r.list
           i == Choose(l, c, FALSE)
<1>1. \A j \in 1 .. Len(l.slots) : IsUsed(l, j)
  BY DEF Sized, Filled
<1>2. t = TrimAt(r, i)
  <2>1. {j \in l.dyn + 1 .. Len(l.slots) : ~IsUsed(l, j)} = {}
    BY <1>1, TidyTypes DEF Sized
  <2> QED
    BY <2>1 DEF TrimStep
<1>3. /\ i # 0 => /\ i \in l.dyn + 1 .. Len(l.slots)
                  /\ IsUsed(l, i) => l.slots[i].page \notin c.protected
      /\ i = 0 => NoneOpen(l, c)
  BY ChooseFits DEF Sized
<1> HIDE DEF i
<1>4. CASE i = 0
  BY <1>2, <1>3, <1>4 DEF TrimAt
<1>5. CASE i # 0
  <2> DEFINE d == DropSlot(Empty(l, i), i)
  <2>1. i \in 1 .. Len(l.slots)
    BY <1>3, <1>5, TidyTypes DEF Sized
  <2>2. /\ Sized(d) /\ Len(d.slots) = Len(l.slots) - 1 /\ d.size = l.size /\ d.dyn = l.dyn
        /\ PagesIn(d) = PagesIn(l) \ {l.slots[i].page}
    BY <1>3, <1>5, CutFits
  <2>3. IsUsed(l, i) /\ l.slots[i].page \notin c.protected
    BY <1>1, <1>3, <1>5, <2>1
  <2>4. t = TakeOut(r, i, d)
    BY <1>2, <1>5 DEF TrimAt
  <2> HIDE DEF d
  <2>5. Taken(w, t, c) /\ t.list = d
    BY <2>1, <2>2, <2>3, <2>4, OneMoreTaken DEF Sized
  <2>6. ~NoneOpen(l, c)
    BY <1>3, <1>5, <2>3 DEF NoneOpen
  <2> QED
    BY <2>2, <2>5, <2>6
<1> QED
  BY <1>4, <1>5

\* A list over its limit comes back to it, or every page left in it is protected.
LEMMA TrimFits ==
  ASSUME NEW w, Sized(w), NEW c, NEW r, r = Trim(w, c)
  PROVE  /\ Taken(w, r, c) /\ Sized(r.list) /\ r.list.size = w.size /\ r.list.dyn = w.dyn
         /\ Len(r.list.slots) > r.list.size => NoneOpen(r.list, c)
<1> DEFINE n == Len(w.slots) - w.size
           U == [list : ListRecord, out : Seq(Pages)]
           Room(u, T) == \/ Len(u.list.slots) = Len(w.slots) - Cardinality(T)
                         \/ NoneOpen(u.list, c) /\ Len(u.list.slots) >= Len(w.slots) - Cardinality(T)
           Ok(u, T) == /\ Taken(w, u, c) /\ Sized(u.list) /\ u.list.size = w.size /\ u.list.dyn = w.dyn
                       /\ Room(u, T)
           G == [T \in SUBSET (1 .. n) |-> {u \in U : Ok(u, T)}]
           base == [list |-> w, out |-> <<>>]
<1>1. n \in Nat /\ Len(w.slots) \in Nat /\ w.size \in Nat
  BY TidyTypes DEF Sized, Filled
<1>2. base \in G[{}]
  <2>1. Taken(w, base, c) /\ base.list = w
    BY NothingTaken DEF Sized
  <2>2. base \in U
    BY <2>1 DEF Taken
  <2>3. Cardinality({}) = 0
    BY FS_EmptySet
  <2>4. Ok(base, {})
    BY <1>1, <2>1, <2>3
  <2> QED
    BY <2>2, <2>4
<1>3. ASSUME NEW T \in SUBSET (1 .. n), NEW x \in T, NEW u \in G[T \ {x}]
      PROVE  TrimStep(u, c) \in G[T]
  <2> DEFINE t == TrimStep(u, c)
  <2>1. T \ {x} \in SUBSET (1 .. n)
    OBVIOUS
  <2>2. Ok(u, T \ {x})
    BY <2>1
  <2>3. Cardinality(T \ {x}) = Cardinality(T) - 1 /\ Cardinality(T) \in Nat /\ Cardinality(T) <= n
    BY <1>1, PlacesCounted
  <2>4. Len(u.list.slots) > u.list.size /\ Len(u.list.slots) \in Nat
    <3> DEFINE m == Len(u.list.slots)
               k == Cardinality(T)
               lw == Len(w.slots)
    <3>1. m \in Nat /\ u.list.size = w.size
      BY <2>2, TidyTypes DEF Sized
    <3>2. m = lw - (k - 1) \/ m >= lw - (k - 1)
      BY <2>2, <2>3
    <3>3. k \in Nat /\ k <= lw - w.size /\ lw \in Nat
      BY <1>1, <2>3
    <3> HIDE DEF m, k, lw
    <3>4. m > w.size
      BY <1>1, <3>1, <3>2, <3>3
    <3> QED
      BY <3>1, <3>4 DEF m
  <2>5. /\ Taken(w, t, c) /\ Sized(t.list) /\ t.list.size = u.list.size /\ t.list.dyn = u.list.dyn
        /\ \/ Len(t.list.slots) = Len(u.list.slots) - 1 /\ ~NoneOpen(u.list, c)
           \/ t = u /\ NoneOpen(u.list, c)
    BY <2>2, <2>4, TrimStepFits
  <2> HIDE DEF t
  <2>6. Room(t, T)
    <3> DEFINE m == Len(u.list.slots)
               k == Cardinality(T)
               lw == Len(w.slots)
    <3>1. m = lw - (k - 1) \/ (NoneOpen(u.list, c) /\ m >= lw - (k - 1))
      BY <2>2, <2>3
    <3>2. k \in Nat /\ lw \in Nat /\ m \in Nat
      BY <1>1, <2>3, <2>4
    <3>3. CASE t = u /\ NoneOpen(u.list, c)
      <4> HIDE DEF m, k, lw
      <4>1. m >= lw - k
        BY <3>1, <3>2
      <4> QED
        BY <3>3, <4>1 DEF m, k, lw
    <3>4. CASE Len(t.list.slots) = m - 1 /\ ~NoneOpen(u.list, c)
      <4>1. m = lw - (k - 1)
        BY <3>1, <3>4
      <4> HIDE DEF m, k, lw
      <4>2. m - 1 = lw - k
        BY <3>2, <4>1
      <4> QED
        BY <3>4, <4>2 DEF m, k, lw
    <3> QED
      BY <2>5, <3>3, <3>4
  <2>7. t \in U
    BY <2>5 DEF Taken
  <2>8. Ok(t, T)
    BY <2>2, <2>5, <2>6
  <2> HIDE DEF Ok, U
  <2> QED
    BY <2>7, <2>8 DEF t
<1> HIDE DEF G
<1>4. r \in G[1 .. n]
  BY <1>1, <1>2, <1>3, TrimReaches
<1>5. Ok(r, 1 .. n)
  BY <1>4 DEF G
<1>6. Cardinality(1 .. n) = n
  BY <1>1, PlacesCounted
<1>7. Len(r.list.slots) \in Nat
  BY <1>5, TidyTypes DEF Sized
<1> QED
  BY <1>1, <1>5, <1>6, <1>7

\* One turn of shrink's loop: the page chosen goes, its entry stays.
LEMMA ShrinkStepFits ==
  ASSUME NEW w, NEW c, NEW r, Taken(w, r, c), Tidy(r.list), NEW t, t = ShrinkStep(r, c)
  PROVE  /\ Taken(w, t, c) /\ Tidy(t.list) /\ t.list.size = r.list.size /\ t.list.dyn = r.list.dyn
         /\ Len(t.list.slots) = Len(r.list.slots)
         /\ NoneOpen(r.list, c) => t = r
<1> DEFINE l == r.list
           i == Choose(l, c, FALSE)
<1>1. t = ShrinkAt(r, i)
  BY DEF ShrinkStep
<1>2. i # 0 => i \in l.dyn + 1 .. Len(l.slots) /\ IsUsed(l, i) /\ l.slots[i].page \notin c.protected
  BY ChooseFits
<1> HIDE DEF i
<1>3. CASE i = 0
  BY <1>1, <1>3 DEF ShrinkAt
<1>4. CASE i # 0
  <2> DEFINE d == Empty(l, i)
  <2>1. i \in 1 .. Len(l.slots)
    BY <1>2, <1>4, TidyTypes
  <2>2. /\ Tidy(d) /\ Len(d.slots) = Len(l.slots) /\ d.size = l.size /\ d.dyn = l.dyn
        /\ PagesIn(d) = PagesIn(l) \ {l.slots[i].page}
    BY <1>2, <1>4, EmptyFits
  <2>3. t = TakeOut(r, i, d)
    BY <1>1, <1>4 DEF ShrinkAt
  <2> HIDE DEF d
  <2>4. Taken(w, t, c) /\ t.list = d
    BY <1>2, <1>4, <2>1, <2>2, <2>3, OneMoreTaken
  <2>5. ~NoneOpen(l, c)
    BY <1>2, <1>4 DEF NoneOpen
  <2> QED
    BY <2>2, <2>4, <2>5
<1> QED
  BY <1>3, <1>4

\* A list shrinks at the places that hold its oldest pages; with every page protected it stays.
LEMMA ShrinkFits ==
  ASSUME NEW w, Tidy(w), NEW k \in Int, NEW c, NEW r, r = Shrink(w, k, c)
  PROVE  /\ Taken(w, r, c) /\ Tidy(r.list) /\ r.list.size = w.size /\ r.list.dyn = w.dyn
         /\ Len(r.list.slots) = Len(w.slots)
         /\ NoneOpen(w, c) => r = [list |-> w, out |-> <<>>]
<1> DEFINE d == [c EXCEPT !.inTB = {}]
           U == [list : ListRecord, out : Seq(Pages)]
           base == [list |-> w, out |-> <<>>]
           Ok(u) == /\ Taken(w, u, c) /\ Tidy(u.list) /\ u.list.size = w.size /\ u.list.dyn = w.dyn
                    /\ Len(u.list.slots) = Len(w.slots)
                    /\ NoneOpen(w, c) => u = base
<1>1. PICK n \in Nat : 1 .. n = 1 .. InUse(w) - k
  <2>1. InUse(w) \in Nat
    <3>1. Len(w.slots) \in Nat /\ UsedSlots(w) \subseteq 1 .. Len(w.slots)
      BY TidyTypes DEF UsedSlots
    <3>2. IsFiniteSet(1 .. Len(w.slots))
      BY <3>1, FS_Interval
    <3> QED
      BY <3>1, <3>2, FS_Subset, FS_CardinalityType DEF InUse
  <2> DEFINE m == InUse(w)
  <2>2. CASE m - k \in Nat
    BY <2>2
  <2>3. CASE m - k \notin Nat
    <3>1. m - k < 0
      BY <2>1, <2>3
    <3>2. m \in Nat
      BY <2>1
    <3> HIDE DEF m
    <3>3. 1 .. m - k = {} /\ 1 .. 0 = {}
      BY <3>1, <3>2
    <3> QED
      BY <3>3 DEF m
  <2> QED
    BY <2>2, <2>3
<1> DEFINE G == [T \in SUBSET (1 .. n) |-> {u \in U : Ok(u)}]
<1>2. Taken(w, base, c) /\ base.list = w
  BY NothingTaken
<1>3. base \in G[{}]
  <2>1. base \in U
    BY <1>2 DEF Taken
  <2> QED
    BY <1>2, <2>1
<1>4. d.protected = c.protected
  OBVIOUS
<1>5. ASSUME NEW u, Ok(u) PROVE ShrinkStep(u, d) \in U /\ Ok(ShrinkStep(u, d))
  <2> DEFINE t == ShrinkStep(u, d)
  <2> HIDE DEF d
  <2>1. Taken(w, u, d)
    BY <1>4, <1>5 DEF Taken
  <2>2. /\ Taken(w, t, d) /\ Tidy(t.list) /\ t.list.size = u.list.size /\ t.list.dyn = u.list.dyn
        /\ Len(t.list.slots) = Len(u.list.slots)
        /\ NoneOpen(u.list, d) => t = u
    BY <1>5, <2>1, ShrinkStepFits
  <2> HIDE DEF t
  <2>3. Taken(w, t, c)
    BY <1>4, <2>2 DEF Taken
  <2>4. NoneOpen(w, c) => t = base
    <3> SUFFICES ASSUME NoneOpen(w, c) PROVE t = base
      OBVIOUS
    <3>1. u = base /\ u.list = w
      BY <1>2, <1>5
    <3>2. NoneOpen(u.list, d)
      BY <1>4, <3>1 DEF NoneOpen
    <3> QED
      BY <2>2, <3>1, <3>2
  <2>5. t \in U
    BY <2>3 DEF Taken
  <2> HIDE DEF U, base
  <2> QED
    BY <1>5, <2>2, <2>3, <2>4, <2>5 DEF t
<1>6. ASSUME NEW T \in SUBSET (1 .. n), NEW x \in T, NEW u \in G[T \ {x}]
      PROVE  ShrinkStep(u, d) \in G[T]
  <2>1. T \ {x} \in SUBSET (1 .. n)
    OBVIOUS
  <2>2. Ok(u)
    BY <2>1
  <2>3. ShrinkStep(u, d) \in U /\ Ok(ShrinkStep(u, d))
    BY <1>5, <2>2
  <2> HIDE DEF Ok, U, d
  <2> QED
    BY <2>3
<1> HIDE DEF G
<1>7. r \in G[1 .. n]
  BY <1>1, <1>3, <1>6, ShrinkReaches
<1>8. Ok(r)
  BY <1>7 DEF G
<1> QED
  BY <1>8

\* An available entry of the dynamic part, or 0 when it has none.
LEMMA AvailableFits ==
  ASSUME NEW w, Tidy(w), NEW i, i = AvailableAfterNext(w)
  PROVE  /\ i # 0 => i \in w.dyn + 1 .. Len(w.slots) /\ ~IsUsed(w, i)
         /\ i = 0 => \A j \in 1 .. Len(w.slots) : IsUsed(w, j)
<1> DEFINE S == Scan(w)
           places == {k \in DOMAIN S : ~IsUsed(w, S[k])}
<1>1. i = FirstOfScan(w, places) /\ places \subseteq DOMAIN S
  BY DEF AvailableAfterNext
<1>2. /\ places = {} => i = 0
      /\ places # {} => /\ \E k \in places : i = S[k]
                        /\ i \in w.dyn + 1 .. Len(w.slots) /\ i # 0
  BY <1>1, FirstIsThere
<1>3. CASE places = {}
  <2>1. ASSUME NEW j \in 1 .. Len(w.slots), ~IsUsed(w, j) PROVE FALSE
    <3>1. w.slots[j].locks = {}
      BY <2>1 DEF Tidy, Available
    <3>2. j \in w.dyn + 1 .. Len(w.slots)
      BY <3>1, TidyTypes DEF Tidy
    <3>3. \E k \in DOMAIN S : S[k] = j
      BY <3>2, ScanPlaces
    <3> QED
      BY <1>3, <2>1, <3>3
  <2> QED
    BY <1>2, <1>3, <2>1
<1>4. CASE places # {}
  BY <1>2, <1>4
<1> QED
  BY <1>3, <1>4

\* A new available entry past the limit, after next, in a list whose every entry is in use.
LEMMA InsertFits ==
  ASSUME NEW w, Tidy(w), \A j \in 1 .. Len(w.slots) : IsUsed(w, j), NEW v, v = InsertAfterNext(w)
  PROVE  /\ Tidy(v) /\ Len(v.slots) = Len(w.slots) + 1 /\ v.size = w.size /\ v.dyn = w.dyn
         /\ PagesIn(v) = PagesIn(w) /\ w.next + 1 \in v.dyn + 1 .. Len(v.slots)
         /\ v.slots[w.next + 1] = Available
         /\ \A j \in 1 .. Len(v.slots) : j # w.next + 1 => IsUsed(v, j)
<1> DEFINE n == Len(w.slots)
           i == w.next + 1
           f == [j \in 1 .. n + 1 |-> IF j < i THEN j ELSE IF j = i THEN 0 ELSE j - 1]
<1>1. /\ w.slots \in Seq(Slot) /\ n \in Nat /\ i \in Nat /\ w.dyn < i /\ i <= n + 1 /\ i >= 1
      /\ w \in ListRecord /\ w.dyn \in Nat /\ w.next \in Nat /\ Available \in Slot
      /\ w.dyn <= n /\ w.dyn <= w.next /\ w.next <= n
  BY TidyTypes
<1>2. /\ InsertAt(w.slots, i, Available) \in Seq(Slot) /\ Len(InsertAt(w.slots, i, Available)) = n + 1
      /\ \A j \in 1 .. n + 1 : InsertAt(w.slots, i, Available)[j] =
            IF j < i THEN w.slots[j] ELSE IF j = i THEN Available ELSE w.slots[j - 1]
  <2> DEFINE a == SubSeq(w.slots, 1, i - 1)
             b == SubSeq(w.slots, i, n)
  <2>1. /\ a \in Seq(Slot) /\ Len(a) = i - 1 /\ \A j \in 1 .. i - 1 : a[j] = w.slots[j]
    BY <1>1, SubSeqProperties
  <2>2. /\ b \in Seq(Slot) /\ Len(b) = n + 1 - i /\ \A j \in 1 .. n + 1 - i : b[j] = w.slots[i + j - 1]
    <3>1. CASE i <= n
      BY <1>1, <3>1, SubSeqProperties, SMTT(60)
    <3>2. CASE i = n + 1
      BY <1>1, <3>2, SubSeqProperties
    <3>3. i <= n \/ i = n + 1
      BY <1>1
    <3> QED
      BY <3>1, <3>2, <3>3
  <2>3. <<Available>> \in Seq(Slot) /\ Len(<<Available>>) = 1 /\ <<Available>>[1] = Available
    BY <1>1
  <2> DEFINE e == <<Available>>
  <2>4. InsertAt(w.slots, i, Available) = (a \o e) \o b
    BY DEF InsertAt
  <2> HIDE DEF a, b, e
  <2>5. /\ a \o e \in Seq(Slot) /\ Len(a \o e) = i
        /\ \A j \in 1 .. i : (a \o e)[j] = IF j < i THEN a[j] ELSE Available
    <3>1. e \in Seq(Slot) /\ Len(e) = 1 /\ e[1] = Available
      BY <2>3 DEF e
    <3>2. a \o e \in Seq(Slot) /\ Len(a \o e) = Len(a) + Len(e)
          /\ \A j \in 1 .. Len(a) + Len(e) : (a \o e)[j] = IF j <= Len(a) THEN a[j] ELSE e[j - Len(a)]
      BY <2>1, <3>1, ConcatProperties
    <3> QED
      BY <1>1, <2>1, <3>1, <3>2
  <2> DEFINE ae == a \o e
  <2> HIDE DEF ae
  <2>6. /\ ae \o b \in Seq(Slot) /\ Len(ae \o b) = Len(ae) + Len(b)
        /\ \A j \in 1 .. Len(ae) + Len(b) : (ae \o b)[j] = IF j <= Len(ae) THEN ae[j] ELSE b[j - Len(ae)]
    BY <2>2, <2>5, ConcatProperties DEF ae
  <2>7. Len(ae) = i /\ \A j \in 1 .. i : ae[j] = IF j < i THEN w.slots[j] ELSE Available
    BY <1>1, <2>1, <2>5 DEF ae
  <2>8. \A j \in 1 .. n + 1 : (ae \o b)[j] = IF j < i THEN w.slots[j] ELSE IF j = i THEN Available ELSE w.slots[j - 1]
    <3> SUFFICES ASSUME NEW j \in 1 .. n + 1
                 PROVE  (ae \o b)[j] = IF j < i THEN w.slots[j] ELSE IF j = i THEN Available ELSE w.slots[j - 1]
      OBVIOUS
    <3>1. (ae \o b)[j] = IF j <= i THEN ae[j] ELSE b[j - i]
      <4>1. Len(ae) + Len(b) = n + 1 /\ Len(ae) = i
        BY <1>1, <2>2, <2>7, SMTT(60)
      <4> QED
        BY <2>6, <4>1
    <3>2. j > i => j - i \in 1 .. n + 1 - i /\ i + (j - i) - 1 = j - 1
      BY <1>1
    <3>3. j > i => b[j - i] = w.slots[j - 1]
      BY <2>2, <3>2
    <3>4. j <= i => j \in 1 .. i
      BY <1>1
    <3> HIDE DEF i, n
    <3> QED
      BY <1>1, <2>7, <3>1, <3>3, <3>4
  <2>9. Len(ae) + Len(b) = n + 1
    BY <1>1, <2>2, <2>7
  <2> DEFINE aeb == ae \o b
  <2>10. /\ aeb \in Seq(Slot) /\ Len(aeb) = n + 1
         /\ \A j \in 1 .. n + 1 : aeb[j] =
              IF j < i THEN w.slots[j] ELSE IF j = i THEN Available ELSE w.slots[j - 1]
    BY <2>6, <2>8, <2>9
  <2>11. InsertAt(w.slots, i, Available) = aeb
    BY <2>4 DEF ae
  <2> HIDE DEF aeb
  <2> QED
    BY <2>10, <2>11
<1>3. v = [w EXCEPT !.slots = InsertAt(w.slots, i, Available)]
  BY DEF InsertAfterNext
<1>4. /\ v.slots = InsertAt(w.slots, i, Available) /\ v.dyn = w.dyn /\ v.next = w.next /\ v.size = w.size
      /\ v \in ListRecord
  BY <1>1, <1>2, <1>3 DEF ListRecord
<1>5. /\ Len(v.slots) = n + 1
      /\ \A j \in 1 .. n + 1 : v.slots[j] = IF j < i THEN w.slots[j] ELSE IF j = i THEN Available ELSE w.slots[j - 1]
  BY <1>2, <1>4
<1>6. \A j \in 1 .. n : w.slots[j].locks # {} <=> j <= w.dyn
  BY DEF Tidy
<1>7. \A j \in 1 .. n : w.slots[j].page # NoPage
  BY DEF IsUsed
<1> HIDE DEF i, n, f
<1>8. ASSUME NEW j \in 1 .. n + 1
      PROVE  /\ v.slots[j].locks # {} <=> j <= v.dyn
             /\ v.slots[j].page = NoPage <=> j = i
             /\ j = i => v.slots[j] = Available
  <2>1. CASE j < i
    <3>1. v.slots[j] = w.slots[j] /\ j \in 1 .. n
      BY <1>1, <1>5, <2>1
    <3> QED
      BY <1>4, <1>6, <1>7, <2>1, <3>1
  <2>2. CASE j = i
    <3>1. v.slots[j] = Available
      BY <1>5, <2>2
    <3>2. ~(j <= w.dyn)
      BY <1>1, <2>2
    <3> QED
      BY <1>4, <2>2, <3>1, <3>2 DEF Available
  <2>3. CASE j > i
    <3>1. v.slots[j] = w.slots[j - 1] /\ j - 1 \in 1 .. n /\ ~(j - 1 <= w.dyn) /\ ~(j <= w.dyn)
      BY <1>1, <1>5, <2>3
    <3> QED
      BY <1>1, <1>4, <1>6, <1>7, <2>3, <3>1
  <2> QED
    BY <1>1, <2>1, <2>2, <2>3
<1>9. LockedFirst(v)
  <2>1. \A j \in 1 .. n + 1 : v.slots[j].page = NoPage => v.slots[j].locks = {}
    BY <1>8 DEF Available
  <2>2. v.dyn <= n + 1 /\ v.dyn <= v.next /\ v.next <= n + 1
    BY <1>1, <1>4
  <2> QED
    BY <1>4, <1>5, <1>8, <2>1, <2>2 DEF LockedFirst
<1>10. \A j \in 1 .. n + 1 : f[j] = IF j < i THEN j ELSE IF j = i THEN 0 ELSE j - 1
  BY DEF f
<1>11. Moved(w, v, f)
  <2>1. f \in [1 .. n + 1 -> 0 .. n]
    <3>1. ASSUME NEW j \in 1 .. n + 1 PROVE (IF j < i THEN j ELSE IF j = i THEN 0 ELSE j - 1) \in 0 .. n
      BY <1>1
    <3> QED
      BY <3>1 DEF f
  <2>2. \A j, k \in 1 .. n + 1 : f[j] = f[k] /\ f[j] # 0 => j = k
    <3> SUFFICES ASSUME NEW j \in 1 .. n + 1, NEW k \in 1 .. n + 1, f[j] = f[k], f[j] # 0 PROVE j = k
      OBVIOUS
    <3>2. j \in Int /\ k \in Int /\ i \in Int
      BY <1>1
    <3>3. f[k] # 0
      OBVIOUS
    <3>4. (j < i /\ f[j] = j) \/ (j > i /\ f[j] = j - 1)
      BY <1>10, <3>2
    <3>5. (k < i /\ f[k] = k) \/ (k > i /\ f[k] = k - 1)
      BY <1>10, <3>2, <3>3
    <3>6. (j < i /\ j = k) \/ (j < i /\ k > i /\ j = k - 1) \/ (j > i /\ k < i /\ j - 1 = k) \/ (j > i /\ j - 1 = k - 1)
      BY <3>4, <3>5
    <3> QED
      BY <3>2, <3>6
  <2>3. \A j \in 1 .. n + 1 : v.slots[j].page = IF f[j] = 0 THEN NoPage ELSE w.slots[f[j]].page
    <3> SUFFICES ASSUME NEW j \in 1 .. n + 1
                 PROVE  v.slots[j].page = IF f[j] = 0 THEN NoPage ELSE w.slots[f[j]].page
      OBVIOUS
    <3>1. CASE j = i
      BY <1>10, <1>8, <3>1
    <3>2. CASE j < i
      <4>1. f[j] = j /\ f[j] # 0 /\ v.slots[j] = w.slots[j]
        BY <1>10, <1>5, <3>2
      <4> QED
        BY <4>1
    <3>3. CASE j > i
      <4>1. f[j] = j - 1 /\ f[j] # 0 /\ v.slots[j] = w.slots[j - 1]
        BY <1>1, <1>10, <1>5, <3>3
      <4> QED
        BY <4>1
    <3> QED
      BY <1>1, <3>1, <3>2, <3>3
  <2> QED
    BY <1>5, <2>1, <2>2, <2>3 DEF Moved, n
<1>12. AllMoved(w, v, f, {})
  <2>1. \A j \in 1 .. n : \E k \in 1 .. n + 1 : f[k] = j
    <3> SUFFICES ASSUME NEW j \in 1 .. n PROVE \E k \in 1 .. n + 1 : f[k] = j
      OBVIOUS
    <3>1. CASE j < i
      <4>1. j \in 1 .. n + 1 /\ f[j] = j
        BY <1>1, <1>10, <3>1
      <4> QED
        BY <4>1
    <3>2. CASE j >= i
      <4>1. j + 1 \in 1 .. n + 1 /\ ~(j + 1 < i) /\ j + 1 # i /\ j + 1 - 1 = j
        BY <1>1, <3>2
      <4>2. f[j + 1] = j
        BY <1>10, <4>1
      <4> QED
        BY <4>1, <4>2
    <3> QED
      BY <1>1, <3>1, <3>2
  <2> QED
    BY <1>5, <2>1 DEF AllMoved, n
<1>13. Loose(w)
  BY <1>1 DEF Tidy, Loose
<1>14. Tidy(v) /\ PagesIn(v) = PagesIn(w) \ {w.slots[j].page : j \in {}}
  BY <1>9, <1>11, <1>12, <1>13, MovedFits
<1>15. PagesIn(v) = PagesIn(w)
  BY <1>14
<1>16. i \in v.dyn + 1 .. n + 1 /\ i \in 1 .. n + 1
  BY <1>1, <1>4
<1> QED
  BY <1>4, <1>5, <1>8, <1>14, <1>15, <1>16 DEF IsUsed, i, n

-----------------------------------------------------------------------------
(* Pages added, locked, unlocked and removed. *)

\* The page is in the list, in place of those taken out.
Entered(w, page, r, c) ==
  /\ r \in [list : ListRecord, out : Seq(Pages)] /\ Sized(r.list) /\ r.list.size = w.size
  /\ ToSet(r.out) \subseteq PagesIn(w) /\ \A v \in ToSet(r.out) : v \notin c.protected
  /\ PagesIn(r.list) = (PagesIn(w) \ ToSet(r.out)) \cup {page}

\* A page put into an available entry.
LEMMA PutFits ==
  ASSUME NEW w, Sized(w), NEW i \in w.dyn + 1 .. Len(w.slots), ~IsUsed(w, i), NEW page \in Pages,
         page \notin PagesIn(w), NEW v, v = Fill(w, i, page)
  PROVE  Sized(v) /\ v.size = w.size /\ v \in ListRecord /\ PagesIn(v) = PagesIn(w) \cup {page}
<1>1. /\ Tidy(v) /\ Len(v.slots) = Len(w.slots) /\ v.size = w.size
      /\ PagesIn(v) = (PagesIn(w) \ {w.slots[i].page}) \cup {page}
      /\ \A j \in 1 .. Len(w.slots) : IsUsed(v, j) <=> j = i \/ IsUsed(w, j)
  BY FillFits DEF Sized
<1>2. Filled(v)
  BY <1>1, FilledSame DEF Sized
<1>3. w.slots[i].page \notin PagesIn(w)
  BY PagesAre, TidyTypes DEF Sized, IsUsed
<1> QED
  BY <1>1, <1>2, <1>3, TidyTypes DEF Sized

\* Add: the list takes the page, in place of pages none of which is protected.
LEMMA AddFits ==
  ASSUME NEW w, Sized(w), NEW page \in Pages, page \notin PagesIn(w), NEW c, NEW r, r = Add(w, page, c)
  PROVE  Entered(w, page, r, c)
<1> DEFINE t == Trim(w, c)
           l == t.list
           i == Choose(l, c, TRUE)
<1>1. Taken(w, t, c) /\ Sized(l) /\ l.size = w.size
  BY TrimFits
<1>2. /\ i # 0 => /\ i \in l.dyn + 1 .. Len(l.slots)
                  /\ IsUsed(l, i) => l.slots[i].page \notin c.protected
  BY <1>1, ChooseFits DEF Sized
<1>3. r = AddAt(t, page, i)
  BY DEF Add, AddTo
<1> HIDE DEF t, i
<1>4. page \notin PagesIn(l) /\ t.out \in Seq(Pages) /\ t = [list |-> l, out |-> t.out] /\ Tidy(l)
  BY <1>1 DEF Taken, Sized
<1> HIDE DEF l
<1>5. ASSUME NEW v, r = [list |-> v, out |-> t.out], Sized(v), v.size = l.size, v \in ListRecord,
             PagesIn(v) = PagesIn(l) \cup {page}
      PROVE  Entered(w, page, r, c)
  <2>1. r.list = v /\ r.out = t.out /\ r \in [list : ListRecord, out : Seq(Pages)]
    BY <1>4, <1>5
  <2> QED
    BY <1>1, <1>4, <1>5, <2>1 DEF Entered, Taken, l
<1>6. CASE i # 0 /\ IsUsed(l, i)
  <2> DEFINE v == Fill(l, i, page)
             x == l.slots[i].page
             o == Append(t.out, x)
  <2>1. i \in 1 .. Len(l.slots) /\ i \in l.dyn + 1 .. Len(l.slots)
    BY <1>2, <1>4, <1>6, TidyTypes
  <2>2. x \in PagesIn(l) /\ x \in Pages /\ x \notin c.protected
    BY <1>2, <1>4, <1>6, <2>1, PagesAre
  <2>3. /\ Tidy(v) /\ Len(v.slots) = Len(l.slots) /\ v.size = l.size
        /\ PagesIn(v) = (PagesIn(l) \ {x}) \cup {page}
        /\ \A j \in 1 .. Len(l.slots) : IsUsed(v, j) <=> j = i \/ IsUsed(l, j)
    BY <1>4, <2>1, FillFits
  <2>4. r = [list |-> v, out |-> o]
    BY <1>3, <1>6 DEF AddAt, TakeOut, l
  <2> HIDE DEF v, x
  <2>5. o \in Seq(Pages) /\ ToSet(o) = ToSet(t.out) \cup {x}
    BY <1>4, <2>2, MembersOfAppend
  <2> HIDE DEF o
  <2>6. Sized(v) /\ v \in ListRecord
    BY <1>1, <2>3, FilledSame, TidyTypes DEF Sized
  <2>7. PagesIn(l) = PagesIn(w) \ ToSet(t.out) /\ ToSet(t.out) \subseteq PagesIn(w)
        /\ \A y \in ToSet(t.out) : y \notin c.protected
    BY <1>1 DEF Taken, l
  <2>8. r.list = v /\ r.out = o /\ r \in [list : ListRecord, out : Seq(Pages)]
    BY <2>4, <2>5, <2>6
  <2>9. PagesIn(v) = (PagesIn(w) \ ToSet(o)) \cup {page}
    BY <2>3, <2>5, <2>7
  <2> QED
    BY <1>1, <2>2, <2>3, <2>5, <2>6, <2>7, <2>8, <2>9 DEF Entered
<1>7. CASE i # 0 /\ ~IsUsed(l, i)
  <2> DEFINE v == Fill(l, i, page)
  <2>1. Sized(v) /\ v.size = l.size /\ v \in ListRecord /\ PagesIn(v) = PagesIn(l) \cup {page}
    BY <1>1, <1>2, <1>4, <1>7, PutFits DEF l
  <2>2. r = [list |-> v, out |-> t.out]
    BY <1>3, <1>4, <1>7 DEF AddAt, l
  <2> HIDE DEF v
  <2> QED
    BY <1>5, <2>1, <2>2
<1>8. CASE i = 0
  <2> DEFINE a == AvailableAfterNext(l)
  <2>1. /\ a # 0 => a \in l.dyn + 1 .. Len(l.slots) /\ ~IsUsed(l, a)
        /\ a = 0 => \A j \in 1 .. Len(l.slots) : IsUsed(l, j)
    BY <1>4, AvailableFits
  <2> HIDE DEF a
  <2>2. CASE a # 0
    <3> DEFINE v == Fill(l, a, page)
    <3>1. Sized(v) /\ v.size = l.size /\ v \in ListRecord /\ PagesIn(v) = PagesIn(l) \cup {page}
      BY <1>1, <1>4, <2>1, <2>2, PutFits DEF l
    <3>2. r = [list |-> v, out |-> t.out]
      BY <1>3, <1>4, <1>8, <2>2 DEF AddAt, l, a
    <3> HIDE DEF v
    <3> QED
      BY <1>5, <3>1, <3>2
  <2>3. CASE a = 0
    <3> DEFINE m == InsertAfterNext(l)
               k == l.next + 1
               v == Fill(m, k, page)
    <3>1. /\ Tidy(m) /\ Len(m.slots) = Len(l.slots) + 1 /\ m.size = l.size /\ m.dyn = l.dyn
          /\ PagesIn(m) = PagesIn(l) /\ k \in m.dyn + 1 .. Len(m.slots)
          /\ m.slots[k] = Available
          /\ \A j \in 1 .. Len(m.slots) : j # k => IsUsed(m, j)
      BY <1>4, <2>1, <2>3, InsertFits
    <3>2. r = [list |-> v, out |-> t.out]
      BY <1>3, <1>4, <1>8, <2>3 DEF AddAt, l, a
    <3> HIDE DEF m, k
    <3>3. page \notin PagesIn(m) /\ m.slots[k].page = NoPage
      BY <1>4, <3>1 DEF Available
    <3>4. /\ Tidy(v) /\ Len(v.slots) = Len(m.slots) /\ v.size = m.size
          /\ PagesIn(v) = (PagesIn(m) \ {NoPage}) \cup {page}
          /\ \A j \in 1 .. Len(m.slots) : IsUsed(v, j) <=> j = k \/ IsUsed(m, j)
      BY <3>1, <3>3, FillFits
    <3> HIDE DEF v
    <3>5. PagesIn(v) = PagesIn(l) \cup {page}
      <4>1. NoPage \notin PagesIn(l)
        BY <1>4, PagesAre, TidyTypes
      <4> QED
        BY <3>1, <3>4, <4>1
    <3>6. Filled(v)
      <4>1. \A j \in 1 .. Len(v.slots) : IsUsed(v, j)
        BY <3>1, <3>4
      <4>2. Len(l.slots) >= l.size /\ Len(l.slots) \in Nat /\ l.size \in Nat
        BY <1>1, <1>4, TidyTypes DEF Sized, Filled, l
      <4>3. Len(v.slots) >= v.size
        BY <3>1, <3>4, <4>2
      <4> QED
        BY <4>1, <4>3 DEF Filled
    <3>7. Sized(v) /\ v \in ListRecord
      BY <3>4, <3>6, TidyTypes DEF Sized
    <3>8. v.size = l.size
      BY <3>1, <3>4
    <3> QED
      BY <1>5, <3>2, <3>5, <3>7, <3>8
  <2> QED
    BY <2>2, <2>3
<1> QED
  BY <1>6, <1>7, <1>8

\* AddAvailable takes nothing out.
LEMMA AddAvailableFits ==
  ASSUME NEW w, Sized(w), NEW page \in Pages, page \notin PagesIn(w), NEW c, CanAddAvailable(w, c),
         NEW v, v = AddAvailable(w, page)
  PROVE  Sized(v) /\ v.size = w.size /\ v \in ListRecord /\ PagesIn(v) = PagesIn(w) \cup {page}
<1> DEFINE a == AvailableAfterNext(w)
<1>1. a # 0 => a \in w.dyn + 1 .. Len(w.slots) /\ ~IsUsed(w, a)
  BY AvailableFits DEF Sized
<1>2. a # 0 /\ v = Fill(w, a, page)
  BY DEF CanAddAvailable, AddAvailable
<1> HIDE DEF a
<1> QED
  BY <1>1, <1>2, PutFits

LEMMA SlotFits ==
  ASSUME NEW w, Tidy(w), NEW page \in PagesIn(w), NEW i, i = SlotOf(w, page)
  PROVE  i \in 1 .. Len(w.slots) /\ w.slots[i].page = page /\ IsUsed(w, i) /\ page \in Pages
<1>1. PICK j \in 1 .. Len(w.slots) : IsUsed(w, j) /\ w.slots[j].page = page
  BY PagesAre
<1>2. DOMAIN w.slots = 1 .. Len(w.slots)
  BY TidyTypes
<1>3. i \in DOMAIN w.slots /\ w.slots[i].page = page
  BY <1>1, <1>2 DEF SlotOf
<1> QED
  BY <1>1, <1>2, <1>3, PagesAre DEF IsUsed

\* The pages of w are those of v, but for the exchange of two entries.
Exchanged(w, v, i, j) ==
  \A k \in 1 .. Len(w.slots) :
    v.slots[k].page = w.slots[IF k = i THEN j ELSE IF k = j THEN i ELSE k].page

LEMMA ExchangeFits ==
  ASSUME NEW w, Sized(w), NEW v, LockedFirst(v), Len(v.slots) = Len(w.slots), v.size = w.size,
         NEW i \in 1 .. Len(w.slots), NEW j \in 1 .. Len(w.slots), Exchanged(w, v, i, j)
  PROVE  Sized(v) /\ PagesIn(v) = PagesIn(w)
<1> DEFINE n == Len(w.slots)
           f == [k \in 1 .. n |-> IF k = i THEN j ELSE IF k = j THEN i ELSE k]
<1>1. n \in Nat /\ Loose(w)
  BY TidyTypes DEF Sized, Tidy, Loose
<1> HIDE DEF n
<1>2. f \in [1 .. n -> 0 .. n] /\ \A k \in 1 .. n : f[k] \in 1 .. n /\ f[k] # 0
  BY <1>1 DEF n
<1>3. \A k \in 1 .. n : f[k] = IF k = i THEN j ELSE IF k = j THEN i ELSE k
  OBVIOUS
<1> HIDE DEF f
<1>4. Moved(w, v, f)
  <2>1. \A k, l \in 1 .. n : f[k] = f[l] => k = l
    BY <1>3
  <2>2. \A k \in 1 .. n : v.slots[k].page = w.slots[f[k]].page
    BY <1>3 DEF Exchanged, n
  <2> QED
    BY <1>2, <2>1, <2>2 DEF Moved, n
<1>5. AllMoved(w, v, f, {})
  <2>1. \A k \in 1 .. n : f[f[k]] = k
    BY <1>3 DEF n
  <2> QED
    BY <1>2, <2>1 DEF AllMoved, n
<1>6. Tidy(v) /\ PagesIn(v) = PagesIn(w) \ {w.slots[k].page : k \in {}} /\ MovedUse(w, v, f)
  BY <1>1, <1>4, <1>5, MovedFits
<1>7. Filled(v)
  BY <1>2, <1>6 DEF Sized, Filled, MovedUse, n
<1> QED
  BY <1>6, <1>7 DEF Sized

LEMMA SwapIs ==
  ASSUME NEW w \in ListRecord, NEW i \in 1 .. Len(w.slots), NEW j \in 1 .. Len(w.slots), NEW v, v = Swap(w, i, j)
  PROVE  /\ v \in ListRecord /\ Len(v.slots) = Len(w.slots) /\ v.dyn = w.dyn /\ v.next = w.next /\ v.size = w.size
         /\ \A k \in 1 .. Len(w.slots) : v.slots[k] = w.slots[IF k = i THEN j ELSE IF k = j THEN i ELSE k]
<1> DEFINE n == Len(w.slots)
           q == [w.slots EXCEPT ![i] = w.slots[j], ![j] = w.slots[i]]
<1>1. w.slots \in Seq(Slot) /\ n \in Nat /\ DOMAIN w.slots = 1 .. n
  BY LenProperties DEF ListRecord
<1>2. \A k \in 1 .. n : w.slots[k] \in Slot
  BY <1>1, ElementOfSeq
<1>3. \A k \in 1 .. n : q[k] = w.slots[IF k = i THEN j ELSE IF k = j THEN i ELSE k]
  BY <1>1
<1>4. q \in [1 .. n -> Slot]
  <2>1. q = [k \in 1 .. n |-> q[k]]
    BY <1>1
  <2> QED
    BY <1>2, <1>3, <2>1
<1>5. v = [w EXCEPT !.slots = q]
  BY DEF Swap, ListRecord
<1> HIDE DEF q, n
<1>6. q \in Seq(Slot) /\ Len(q) = n
  BY <1>1, <1>4, SeqDef, LenProperties
<1>7. /\ v.slots = q /\ v.dyn = w.dyn /\ v.next = w.next /\ v.size = w.size /\ v \in ListRecord
  BY <1>5, <1>6 DEF ListRecord
<1> QED
  BY <1>3, <1>6, <1>7 DEF n

WithLocks(w, i, locks) == [w EXCEPT !.slots[i].locks = locks]

\* An entry's locks changed.
LEMMA LocksAre ==
  ASSUME NEW w \in ListRecord, NEW i \in 1 .. Len(w.slots), NEW locks \in SUBSET LockKinds,
         NEW v, v = WithLocks(w, i, locks)
  PROVE  /\ v \in ListRecord /\ Len(v.slots) = Len(w.slots) /\ v.dyn = w.dyn /\ v.next = w.next /\ v.size = w.size
         /\ \A k \in 1 .. Len(w.slots) : v.slots[k].page = w.slots[k].page
         /\ \A k \in 1 .. Len(w.slots) : v.slots[k].locks = IF k = i THEN locks ELSE w.slots[k].locks
<1> DEFINE n == Len(w.slots)
           q == [w.slots EXCEPT ![i].locks = locks]
<1>1. w.slots \in Seq(Slot) /\ n \in Nat /\ DOMAIN w.slots = 1 .. n
  BY LenProperties DEF ListRecord
<1>2. \A k \in 1 .. n : w.slots[k] \in Slot
  BY <1>1, ElementOfSeq
<1>3. \A k \in 1 .. n : q[k] = IF k = i THEN [w.slots[k] EXCEPT !.locks = locks] ELSE w.slots[k]
  BY <1>1
<1>4. \A k \in 1 .. n : /\ q[k] \in Slot /\ q[k].page = w.slots[k].page
                        /\ q[k].locks = IF k = i THEN locks ELSE w.slots[k].locks
  BY <1>2, <1>3 DEF Slot
<1>5. q \in [1 .. n -> Slot]
  <2>1. q = [k \in 1 .. n |-> q[k]]
    BY <1>1
  <2> QED
    BY <1>4, <2>1
<1>6. v = [w EXCEPT !.slots = q]
  BY DEF WithLocks, ListRecord
<1> HIDE DEF q, n
<1>7. q \in Seq(Slot) /\ Len(q) = n
  BY <1>1, <1>5, SeqDef, LenProperties
<1>8. /\ v.slots = q /\ v.dyn = w.dyn /\ v.next = w.next /\ v.size = w.size /\ v \in ListRecord
  BY <1>6, <1>7 DEF ListRecord
<1> QED
  BY <1>4, <1>7, <1>8 DEF n

\* LockPage: the page's entry joins the locked part.
LEMMA LockFits ==
  ASSUME NEW w, Sized(w), NEW page \in PagesIn(w), NEW kind \in LockKinds, NEW v, v = LockPage(w, page, kind)
  PROVE  Sized(v) /\ v \in ListRecord /\ v.size = w.size /\ PagesIn(v) = PagesIn(w)
<1> DEFINE i == SlotOf(w, page)
           d == w.dyn
           n == Len(w.slots)
<1>1. /\ w \in ListRecord /\ n \in Nat /\ d \in Nat /\ d <= n /\ w.next \in Nat /\ d <= w.next /\ w.next <= n
      /\ \A k \in 1 .. n : w.slots[k].locks # {} <=> k <= d
      /\ \A k \in 1 .. n : w.slots[k].page = NoPage => w.slots[k].locks = {}
  <2>1. Tidy(w)
    BY DEF Sized
  <2> QED
    BY <2>1, TidyTypes DEF Tidy, IsUsed, Available
<1>2. i \in 1 .. n /\ w.slots[i].page = page /\ IsUsed(w, i)
  BY SlotFits DEF Sized
<1>3. \A k \in 1 .. n : w.slots[k].locks \in SUBSET LockKinds
  BY TidyTypes DEF Sized, Slot
<1>4. w.slots[i].page # NoPage
  BY <1>2 DEF IsUsed
<1> HIDE DEF i
<1>5. CASE w.slots[i].locks # {}
  <2> DEFINE locks == w.slots[i].locks \cup {kind}
  <2>1. v = WithLocks(w, i, locks)
    BY <1>5 DEF LockPage, i, WithLocks
  <2>2. locks \in SUBSET LockKinds /\ locks # {}
    BY <1>2, <1>3
  <2> HIDE DEF locks
  <2>3. /\ v \in ListRecord /\ Len(v.slots) = n /\ v.dyn = d /\ v.next = w.next /\ v.size = w.size
        /\ \A k \in 1 .. n : v.slots[k].page = w.slots[k].page
        /\ \A k \in 1 .. n : v.slots[k].locks = IF k = i THEN locks ELSE w.slots[k].locks
    BY <1>1, <1>2, <2>1, <2>2, LocksAre
  <2> HIDE DEF n, d
  <2>4. LockedFirst(v)
    <3>1. \A k \in 1 .. n : v.slots[k].locks # {} <=> k <= d
      BY <1>1, <1>5, <2>2, <2>3
    <3>2. \A k \in 1 .. n : v.slots[k].page = NoPage => v.slots[k].locks = {}
      BY <1>1, <1>4, <2>3
    <3> QED
      BY <1>1, <2>3, <3>1, <3>2 DEF LockedFirst
  <2>5. Exchanged(w, v, i, i)
    BY <2>3 DEF Exchanged, n
  <2> QED
    BY <1>2, <2>3, <2>4, <2>5, ExchangeFits DEF n
<1>6. CASE w.slots[i].locks = {}
  <2> DEFINE x == Swap(w, i, d + 1)
             y == [x EXCEPT !.dyn = d + 1, !.next = IF w.next <= d THEN d + 1 ELSE w.next]
  <2>1. i > d /\ d + 1 \in 1 .. n
    BY <1>1, <1>2, <1>6
  <2>2. /\ x \in ListRecord /\ Len(x.slots) = n /\ x.dyn = d /\ x.next = w.next /\ x.size = w.size
        /\ \A k \in 1 .. n : x.slots[k] = w.slots[IF k = i THEN d + 1 ELSE IF k = d + 1 THEN i ELSE k]
    BY <1>1, <1>2, <2>1, SwapIs
  <2>3. v = WithLocks(y, d + 1, {kind})
    <3>1. Pin(w, i) = y
      BY <2>2 DEF Pin, ListRecord
    <3> HIDE DEF y, x
    <3> QED
      BY <1>6, <3>1 DEF LockPage, i, WithLocks
  <2> HIDE DEF x
  <2>4. /\ y \in ListRecord /\ y.slots = x.slots /\ y.dyn = d + 1 /\ y.size = w.size
        /\ y.next = IF w.next <= d THEN d + 1 ELSE w.next
    <3> DEFINE e == d + 1
               nx == IF w.next <= d THEN d + 1 ELSE w.next
    <3>1. e \in Nat /\ nx \in Nat
      BY <1>1
    <3>2. y = [x EXCEPT !.dyn = e, !.next = nx]
      OBVIOUS
    <3> HIDE DEF y, e, nx
    <3>3. y \in ListRecord /\ y.slots = x.slots /\ y.dyn = e /\ y.size = w.size /\ y.next = nx
      BY <2>2, <3>1, <3>2 DEF ListRecord
    <3> QED
      BY <3>3 DEF e, nx
  <2> HIDE DEF y
  <2>5. {kind} \in SUBSET LockKinds
    OBVIOUS
  <2>6. /\ v \in ListRecord /\ Len(v.slots) = n /\ v.dyn = d + 1 /\ v.next = y.next /\ v.size = w.size
        /\ \A k \in 1 .. n : v.slots[k].page = x.slots[k].page
        /\ \A k \in 1 .. n : v.slots[k].locks = IF k = d + 1 THEN {kind} ELSE x.slots[k].locks
    <3> DEFINE a == d + 1
               locks == {kind}
    <3>1. y \in ListRecord /\ a \in 1 .. Len(y.slots) /\ locks \in SUBSET LockKinds /\ Len(y.slots) = n
          /\ v = WithLocks(y, a, locks)
      BY <2>1, <2>2, <2>3, <2>4, <2>5
    <3> HIDE DEF a, locks
    <3>2. /\ v \in ListRecord /\ Len(v.slots) = Len(y.slots) /\ v.dyn = y.dyn /\ v.next = y.next /\ v.size = y.size
          /\ \A k \in 1 .. Len(y.slots) : v.slots[k].page = y.slots[k].page
          /\ \A k \in 1 .. Len(y.slots) : v.slots[k].locks = IF k = a THEN locks ELSE y.slots[k].locks
      BY <3>1, LocksAre
    <3> QED
      BY <2>4, <3>1, <3>2 DEF a, locks
  <2> HIDE DEF n, d
  <2>7. d + 1 <= v.next /\ v.next <= n
    BY <1>1, <2>1, <2>4, <2>6
  <2>8. ASSUME NEW k \in 1 .. n PROVE v.slots[k].locks # {} <=> k <= d + 1
    <3>1. CASE k = d + 1
      <4>1. v.slots[k].locks = {kind}
        BY <2>6, <3>1
      <4>2. k <= d + 1
        BY <1>1, <3>1
      <4> QED
        BY <4>1, <4>2
    <3>2. CASE k # d + 1 /\ k = i
      <4>1. v.slots[k].locks = w.slots[d + 1].locks
        BY <2>2, <2>6, <3>2
      <4>2. ~(d + 1 <= d) /\ ~(k <= d + 1)
        BY <1>1, <2>1, <3>2
      <4> QED
        BY <1>1, <2>1, <4>1, <4>2
    <3>3. CASE k # d + 1 /\ k # i
      <4>1. v.slots[k].locks = w.slots[k].locks
        BY <2>2, <2>6, <3>3
      <4>2. k <= d <=> k <= d + 1
        BY <1>1, <3>3
      <4> QED
        BY <1>1, <4>1, <4>2
    <3> QED
      BY <3>1, <3>2, <3>3
  <2>9. ASSUME NEW k \in 1 .. n, v.slots[k].page = NoPage PROVE v.slots[k].locks = {}
    <3>1. x.slots[k].page = NoPage
      BY <2>6, <2>9
    <3>2. k # d + 1
      BY <1>4, <2>2, <2>9, <3>1
    <3>3. v.slots[k].locks = x.slots[k].locks
      BY <2>6, <3>2
    <3>4. (IF k = i THEN d + 1 ELSE IF k = d + 1 THEN i ELSE k) \in 1 .. n
      BY <1>2, <2>1
    <3> QED
      BY <1>1, <2>2, <3>1, <3>3, <3>4
  <2>10. LockedFirst(v)
    BY <1>1, <2>1, <2>6, <2>7, <2>8, <2>9 DEF LockedFirst
  <2>11. Exchanged(w, v, i, d + 1)
    BY <2>2, <2>6 DEF Exchanged, n
  <2> QED
    BY <1>2, <2>1, <2>6, <2>10, <2>11, ExchangeFits DEF n
<1> QED
  BY <1>5, <1>6

\* UnlockPage: with its last lock gone, the entry leaves the locked part.
LEMMA UnlockFits ==
  ASSUME NEW w, Sized(w), NEW page \in PagesIn(w), NEW kind, kind \in w.slots[SlotOf(w, page)].locks,
         NEW v, v = UnlockPage(w, page, kind)
  PROVE  Sized(v) /\ v \in ListRecord /\ v.size = w.size /\ PagesIn(v) = PagesIn(w)
<1> DEFINE i == SlotOf(w, page)
           d == w.dyn
           n == Len(w.slots)
           locks == w.slots[i].locks \ {kind}
           x == WithLocks(w, i, locks)
<1>1. /\ w \in ListRecord /\ n \in Nat /\ d \in Nat /\ d <= n /\ w.next \in Nat /\ d <= w.next /\ w.next <= n
      /\ \A k \in 1 .. n : w.slots[k].locks # {} <=> k <= d
      /\ \A k \in 1 .. n : w.slots[k].page = NoPage => w.slots[k].locks = {}
  <2>1. Tidy(w)
    BY DEF Sized
  <2> QED
    BY <2>1, TidyTypes DEF Tidy, IsUsed, Available
<1>2. i \in 1 .. n /\ w.slots[i].page = page /\ IsUsed(w, i)
  BY SlotFits DEF Sized
<1>3. \A k \in 1 .. n : w.slots[k].locks \in SUBSET LockKinds
  BY TidyTypes DEF Sized, Slot
<1>4. w.slots[i].page # NoPage
  BY <1>2 DEF IsUsed
<1>5. kind \in w.slots[i].locks /\ v = IF w.slots[i].locks = {kind} THEN Unpin(x, i) ELSE x
  BY DEF UnlockPage, WithLocks
<1>6. i <= d
  BY <1>1, <1>2, <1>5
<1> HIDE DEF i
<1>7. /\ x \in ListRecord /\ Len(x.slots) = n /\ x.dyn = d /\ x.next = w.next /\ x.size = w.size
      /\ \A k \in 1 .. n : x.slots[k].page = w.slots[k].page
      /\ \A k \in 1 .. n : x.slots[k].locks = IF k = i THEN locks ELSE w.slots[k].locks
  <2>1. locks \in SUBSET LockKinds
    BY <1>2, <1>3
  <2> HIDE DEF locks
  <2> QED
    BY <1>1, <1>2, <2>1, LocksAre
<1> HIDE DEF x
<1>8. CASE w.slots[i].locks # {kind}
  <2>1. v = x /\ locks # {}
    BY <1>5, <1>8
  <2> HIDE DEF locks, n, d
  <2>4. LockedFirst(v)
    <3>1. \A k \in 1 .. n : v.slots[k].locks # {} <=> k <= d
      BY <1>1, <1>6, <1>7, <2>1
    <3>2. \A k \in 1 .. n : v.slots[k].page = NoPage => v.slots[k].locks = {}
      BY <1>1, <1>4, <1>7, <2>1
    <3> QED
      BY <1>1, <1>7, <2>1, <3>1, <3>2 DEF LockedFirst
  <2>5. Exchanged(w, v, i, i)
    BY <1>7, <2>1 DEF Exchanged, n
  <2> QED
    BY <1>2, <1>7, <2>1, <2>4, <2>5, ExchangeFits DEF n
<1>9. CASE w.slots[i].locks = {kind}
  <2> DEFINE y == Swap(x, i, d)
  <2>1. locks = {} /\ d \in 1 .. n /\ d \in Nat \ {0}
    BY <1>1, <1>2, <1>6, <1>9
  <2>2. /\ y \in ListRecord /\ Len(y.slots) = n /\ y.dyn = d /\ y.next = w.next /\ y.size = w.size
        /\ \A k \in 1 .. n : y.slots[k] = x.slots[IF k = i THEN d ELSE IF k = d THEN i ELSE k]
    <3>1. i \in 1 .. Len(x.slots) /\ d \in 1 .. Len(x.slots) /\ x \in ListRecord
      BY <1>2, <1>7, <2>1
    <3>2. /\ y \in ListRecord /\ Len(y.slots) = Len(x.slots) /\ y.dyn = x.dyn /\ y.next = x.next /\ y.size = x.size
          /\ \A k \in 1 .. Len(x.slots) : y.slots[k] = x.slots[IF k = i THEN d ELSE IF k = d THEN i ELSE k]
      BY <3>1, SwapIs
    <3> QED
      BY <1>7, <3>2
  <2>3. v = [y EXCEPT !.dyn = d - 1]
    BY <1>5, <1>7, <1>9, <2>2 DEF Unpin, ListRecord
  <2> HIDE DEF y
  <2>4. v \in ListRecord /\ v.slots = y.slots /\ v.dyn = d - 1 /\ v.next = w.next /\ v.size = w.size
    BY <2>1, <2>2, <2>3 DEF ListRecord
  <2> HIDE DEF locks, n, d
  <2>5. ASSUME NEW k \in 1 .. n PROVE v.slots[k].locks # {} <=> k <= d - 1
    <3>1. CASE k = d
      <4>1. v.slots[k] = x.slots[i]
        BY <2>2, <2>4, <3>1
      <4>2. ~(k <= d - 1)
        BY <2>1, <3>1
      <4> QED
        BY <1>2, <1>7, <2>1, <4>1, <4>2
    <3>2. CASE k # d /\ k = i
      <4>1. v.slots[k] = x.slots[d] /\ x.slots[d].locks = w.slots[d].locks
        BY <1>7, <2>1, <2>2, <2>4, <3>2
      <4>2. k <= d - 1 /\ d <= d
        BY <1>6, <2>1, <3>2
      <4> QED
        BY <1>1, <2>1, <4>1, <4>2
    <3>3. CASE k # d /\ k # i
      <4>1. v.slots[k].locks = w.slots[k].locks
        BY <1>7, <2>2, <2>4, <3>3
      <4>2. k <= d <=> k <= d - 1
        BY <2>1, <3>3
      <4> QED
        BY <1>1, <4>1, <4>2
    <3> QED
      BY <3>1, <3>2, <3>3
  <2>6. ASSUME NEW k \in 1 .. n, v.slots[k].page = NoPage PROVE v.slots[k].locks = {}
    <3> DEFINE m == IF k = i THEN d ELSE IF k = d THEN i ELSE k
    <3>1. m \in 1 .. n /\ v.slots[k] = x.slots[m]
      BY <1>2, <2>1, <2>2, <2>4
    <3> HIDE DEF m
    <3>2. w.slots[m].page = NoPage
      BY <1>7, <2>6, <3>1
    <3> QED
      BY <1>1, <1>4, <1>7, <3>1, <3>2
  <2>7. LockedFirst(v)
    BY <1>1, <2>1, <2>2, <2>4, <2>5, <2>6 DEF LockedFirst
  <2>8. Exchanged(w, v, i, d)
    <3>1. ASSUME NEW k \in 1 .. n PROVE v.slots[k].page = w.slots[IF k = i THEN d ELSE IF k = d THEN i ELSE k].page
      <4> DEFINE m == IF k = i THEN d ELSE IF k = d THEN i ELSE k
      <4>1. m \in 1 .. n /\ v.slots[k] = x.slots[m]
        BY <1>2, <2>1, <2>2, <2>4
      <4> HIDE DEF m
      <4>2. v.slots[k].page = w.slots[m].page
        BY <1>7, <4>1
      <4> QED
        BY <4>2 DEF m
    <3> QED
      BY <3>1 DEF Exchanged, n
  <2> QED
    BY <1>2, <2>1, <2>2, <2>4, <2>7, <2>8, ExchangeFits DEF n
<1> QED
  BY <1>8, <1>9

\* Remove: the page leaves, and in a list over its limit its entry too.
LEMMA RemoveFits ==
  ASSUME NEW w, Sized(w), NEW page \in PagesIn(w), NEW v, v = RemovePage(w, page)
  PROVE  Sized(v) /\ v \in ListRecord /\ v.size = w.size /\ PagesIn(v) = PagesIn(w) \ {page}
<1> DEFINE at == SlotOf(w, page)
           d == w.dyn
           n == Len(w.slots)
           i == IF at <= d THEN d ELSE at
           loose == IF at <= d THEN Unpin(w, at) ELSE w
           e == Empty(loose, i)
<1>1. /\ w \in ListRecord /\ n \in Nat /\ d \in Nat /\ d <= n /\ w.next \in Nat /\ d <= w.next /\ w.next <= n
      /\ w.size \in Nat /\ Available \in Slot
      /\ \A k \in 1 .. n : w.slots[k].locks # {} <=> k <= d
      /\ \A k \in 1 .. n : w.slots[k].page = NoPage => w.slots[k].locks = {}
  <2>1. Tidy(w)
    BY DEF Sized
  <2>2. /\ w \in ListRecord /\ n \in Nat /\ d \in Nat /\ d <= n /\ w.next \in Nat /\ d <= w.next
        /\ w.next <= n /\ w.size \in Nat /\ Available \in Slot
    BY <2>1, TidyTypes
  <2> QED
    BY <2>1, <2>2 DEF Tidy, IsUsed, Available
<1>2. at \in 1 .. n /\ w.slots[at].page = page /\ IsUsed(w, at)
  BY SlotFits DEF Sized
<1>3. v = IF Over(w) THEN DropSlot(e, i) ELSE e
  BY DEF RemovePage
<1> HIDE DEF at
<1>4. /\ Tidy(e) /\ Len(e.slots) = n /\ e.size = w.size /\ PagesIn(e) = PagesIn(w) \ {page}
      /\ i \in e.dyn + 1 .. n /\ ~IsUsed(e, i)
      /\ (\A k \in 1 .. n : IsUsed(w, k)) => \A k \in 1 .. n : k # i => IsUsed(e, k)
  <2>1. CASE ~(at <= d)
    <3>1. i = at /\ loose = w /\ at \in d + 1 .. n
      BY <1>1, <1>2, <2>1
    <3>2. /\ Tidy(e) /\ Len(e.slots) = n /\ e.size = w.size /\ e.dyn = d
          /\ PagesIn(e) = PagesIn(w) \ {w.slots[at].page}
          /\ \A k \in 1 .. n : IsUsed(e, k) <=> k # at /\ IsUsed(w, k)
      <4> DEFINE y == Empty(w, at)
      <4>1. Tidy(w)
        BY DEF Sized
      <4>2. /\ Tidy(y) /\ Len(y.slots) = n /\ y.size = w.size /\ y.dyn = d
            /\ PagesIn(y) = PagesIn(w) \ {w.slots[at].page}
            /\ \A k \in 1 .. n : IsUsed(y, k) <=> k # at /\ IsUsed(w, k)
        BY <3>1, <4>1, EmptyFits
      <4>3. e = y
        BY <3>1
      <4> HIDE DEF e, y
      <4> QED
        BY <4>2, <4>3
    <3> HIDE DEF e, i
    <3> QED
      BY <1>2, <3>1, <3>2
  <2>2. CASE at <= d
    <3> DEFINE x == Swap(w, at, d)
               y == [x EXCEPT !.dyn = d - 1]
    <3>1. d \in 1 .. n /\ d - 1 \in Nat
      BY <1>1, <1>2, <2>2
    <3>2. /\ x \in ListRecord /\ Len(x.slots) = n /\ x.dyn = d /\ x.next = w.next /\ x.size = w.size
          /\ \A k \in 1 .. n : x.slots[k] = w.slots[IF k = at THEN d ELSE IF k = d THEN at ELSE k]
      <4>1. w \in ListRecord /\ at \in 1 .. Len(w.slots) /\ d \in 1 .. Len(w.slots)
        BY <1>1, <1>2, <3>1
      <4> HIDE DEF d, i, e, loose
      <4>2. /\ x \in ListRecord /\ Len(x.slots) = Len(w.slots) /\ x.dyn = w.dyn /\ x.next = w.next
            /\ x.size = w.size
            /\ \A k \in 1 .. Len(w.slots) : x.slots[k] = w.slots[IF k = at THEN d ELSE IF k = d THEN at ELSE k]
        BY <4>1, SwapIs
      <4> QED
        BY <4>2 DEF d
    <3>3. loose = y /\ i = d
      BY <2>2, <3>2 DEF Unpin, ListRecord
    <3> HIDE DEF x
    <3>4. y \in ListRecord /\ y.slots = x.slots /\ y.dyn = d - 1 /\ y.next = w.next /\ y.size = w.size
      BY <3>1, <3>2 DEF ListRecord
    <3>5. e = [y EXCEPT !.slots = [y.slots EXCEPT ![d] = Available]]
      BY <3>3, <3>4 DEF Empty, ListRecord
    <3> HIDE DEF y, e, loose, i, n, d
    <3> DEFINE q == [y.slots EXCEPT ![d] = Available]
    <3>6. q \in Seq(Slot) /\ Len(q) = n /\ \A k \in 1 .. n : q[k] = IF k = d THEN Available ELSE x.slots[k]
      <4>1. y.slots \in Seq(Slot) /\ Len(y.slots) = n /\ d \in 1 .. Len(y.slots)
        BY <3>1, <3>2, <3>4 DEF ListRecord
      <4> QED
        BY <1>1, <3>4, <4>1, ExceptSeq
    <3> HIDE DEF q
    <3>7. e.slots = q /\ e \in ListRecord /\ e.dyn = d - 1 /\ e.next = w.next /\ e.size = w.size
      BY <3>4, <3>5, <3>6 DEF ListRecord, q
    <3> DEFINE f == [k \in 1 .. n |-> IF k = d THEN 0 ELSE IF k = at THEN d ELSE k]
    <3>8. \A k \in 1 .. n : f[k] = IF k = d THEN 0 ELSE IF k = at THEN d ELSE k
      OBVIOUS
    <3>9. f \in [1 .. n -> 0 .. n]
      BY <1>1, <3>1
    <3> HIDE DEF f
    <3>10. ASSUME NEW k \in 1 .. n, k # d PROVE f[k] \in 1 .. n /\ f[k] # at /\ e.slots[k] = w.slots[f[k]]
      <4>1. f[k] = (IF k = at THEN d ELSE k) /\ e.slots[k] = x.slots[k]
        BY <3>6, <3>7, <3>8, <3>10
      <4>2. x.slots[k] = w.slots[IF k = at THEN d ELSE k]
        BY <3>2, <3>10
      <4>3. f[k] \in 1 .. n /\ f[k] # at
        BY <3>1, <3>10, <4>1
      <4> QED
        BY <4>1, <4>2, <4>3
    <3>11. e.slots[d] = Available /\ f[d] = 0
      BY <3>1, <3>6, <3>7, <3>8
    <3>12. Moved(w, e, f)
      <4>1. ASSUME NEW j \in 1 .. n, NEW k \in 1 .. n, f[j] = f[k], f[j] # 0 PROVE j = k
        <5>1. j # d /\ k # d
          BY <3>11, <4>1
        <5>2. f[j] = (IF j = at THEN d ELSE j)
          BY <3>8, <5>1
        <5>3. f[k] = (IF k = at THEN d ELSE k)
          BY <3>8, <5>1
        <5> QED
          BY <4>1, <5>1, <5>2, <5>3
      <4>2. ASSUME NEW k \in 1 .. n PROVE e.slots[k].page = IF f[k] = 0 THEN NoPage ELSE w.slots[f[k]].page
        <5>1. CASE k = d
          BY <3>11, <5>1 DEF Available
        <5>2. CASE k # d
          <6>1. f[k] \in 1 .. n /\ e.slots[k] = w.slots[f[k]]
            BY <3>10, <5>2
          <6>2. f[k] # 0
            BY <6>1
          <6> QED
            BY <6>1, <6>2
        <5> QED
          BY <5>1, <5>2
      <4>3. Len(e.slots) = n
        BY <3>6, <3>7
      <4> QED
        BY <3>9, <4>1, <4>2, <4>3 DEF Moved, n
    <3>13. AllMoved(w, e, f, {at})
      <4>1. ASSUME NEW k \in 1 .. n, k # at PROVE \E j \in 1 .. n : f[j] = k
        <5>1. CASE k = d
          BY <1>2, <3>8, <4>1, <5>1 DEF n
        <5>2. CASE k # d
          BY <3>8, <4>1, <5>2
        <5> QED
          BY <5>1, <5>2
      <4>2. \A j \in 1 .. n : f[j] # at
        BY <1>2, <3>10, <3>11 DEF n
      <4>3. Len(e.slots) = n /\ at \in 1 .. n
        BY <1>2, <3>6, <3>7 DEF n
      <4> QED
        BY <4>1, <4>2, <4>3 DEF AllMoved, n
    <3>14. LockedFirst(e)
      <4>1. ASSUME NEW k \in 1 .. n PROVE e.slots[k].locks # {} <=> k <= d - 1
        <5>1. CASE k = d
          <6>1. e.slots[k].locks = {} /\ ~(k <= d - 1)
            BY <3>1, <3>11, <5>1 DEF Available
          <6> QED
            BY <6>1
        <5>2. CASE k # d
          <6>1. e.slots[k] = w.slots[f[k]] /\ f[k] \in 1 .. n
            BY <3>10, <5>2
          <6>2. f[k] = IF k = at THEN d ELSE k
            BY <3>8, <5>2
          <6>3. f[k] <= d <=> k <= d - 1
            BY <2>2, <3>1, <5>2, <6>2 DEF d
          <6>4. w.slots[f[k]].locks # {} <=> f[k] <= d
            BY <1>1, <6>1 DEF d, n
          <6> QED
            BY <6>1, <6>3, <6>4
        <5> QED
          BY <5>1, <5>2
      <4>2. ASSUME NEW k \in 1 .. n, e.slots[k].page = NoPage PROVE e.slots[k].locks = {}
        <5>1. CASE k = d
          BY <3>11, <5>1 DEF Available
        <5>2. CASE k # d
          <6>1. e.slots[k] = w.slots[f[k]] /\ f[k] \in 1 .. n
            BY <3>10, <5>2
          <6> QED
            BY <1>1, <4>2, <6>1 DEF n
        <5> QED
          BY <5>1, <5>2
      <4>3. Len(e.slots) = n /\ d - 1 <= n /\ d - 1 <= w.next /\ w.next <= n
        BY <1>1, <3>1, <3>6, <3>7 DEF d, n
      <4> QED
        BY <3>7, <4>1, <4>2, <4>3 DEF LockedFirst
    <3>15. Tidy(e) /\ PagesIn(e) = PagesIn(w) \ {w.slots[k].page : k \in {at}} /\ MovedUse(w, e, f)
      <4>1. Loose(w)
        BY <1>1 DEF Sized, Tidy, Loose
      <4> QED
        BY <3>12, <3>13, <3>14, <4>1, MovedFits
    <3>16. PagesIn(e) = PagesIn(w) \ {page}
      BY <1>2, <3>15
    <3>17. (\A k \in 1 .. n : IsUsed(w, k)) => \A k \in 1 .. n : k # d => IsUsed(e, k)
      <4> SUFFICES ASSUME \A k \in 1 .. n : IsUsed(w, k), NEW k \in 1 .. n, k # d PROVE IsUsed(e, k)
        OBVIOUS
      <4>1. e.slots[k] = w.slots[f[k]] /\ f[k] \in 1 .. n
        BY <3>10
      <4> QED
        BY <4>1 DEF IsUsed
    <3>18. d \in e.dyn + 1 .. n /\ Len(e.slots) = n
      BY <3>1, <3>6, <3>7
    <3> QED
      BY <3>3, <3>7, <3>11, <3>15, <3>16, <3>17, <3>18 DEF IsUsed, Available, d
  <2> QED
    BY <2>1, <2>2
<1> HIDE DEF e, i
<1>5. CASE ~Over(w)
  <2>1. v = e /\ n = w.size
    BY <1>1, <1>3, <1>5 DEF Over, Sized, Filled
  <2>2. Filled(v)
    BY <1>1, <1>4, <2>1 DEF Filled
  <2> QED
    BY <1>4, <2>1, <2>2, TidyTypes DEF Sized
<1>6. CASE Over(w)
  <2>1. v = DropSlot(e, i)
    BY <1>3, <1>6
  <2>2. \A k \in 1 .. n : IsUsed(w, k)
    BY <1>6 DEF Over, Sized, Filled
  <2>3. /\ Tidy(v) /\ Len(v.slots) = n - 1 /\ v.size = w.size /\ PagesIn(v) = PagesIn(e)
        /\ \A j \in 1 .. Len(v.slots) : IsUsed(v, j) <=> IsUsed(e, IF j < i THEN j ELSE j + 1)
    BY <1>4, <2>1, DropFits
  <2> HIDE DEF n
  <2>4. ASSUME NEW j \in 1 .. Len(v.slots) PROVE IsUsed(v, j)
    <3> DEFINE k == IF j < i THEN j ELSE j + 1
    <3>1. k \in 1 .. n /\ k # i
      BY <1>1, <1>4, <2>3
    <3>2. IsUsed(e, k)
      BY <1>4, <2>2, <3>1
    <3> QED
      BY <2>3, <3>2
  <2>5. n > w.size
    BY <1>6 DEF Over, n
  <2>6. Filled(v)
    BY <1>1, <2>3, <2>4, <2>5 DEF Filled
  <2> QED
    BY <1>4, <2>3, <2>6, TidyTypes DEF Sized
<1> QED
  BY <1>5, <1>6

-----------------------------------------------------------------------------
(* Purges, and a limit set anew. *)

\* The same of the removals of several pages.
LEMMA RemoveReaches ==
  ASSUME NEW w, NEW q, NEW n \in Nat, 1 .. n = DOMAIN q, NEW G,
         w \in G[{}],
         \A T \in SUBSET (1 .. n) : \A x \in T : \A u \in G[T \ {x}] :
           (\A y \in T : y <= x) => RemovePage(u, q[x]) \in G[T]
  PROVE  FoldLeft(RemovePage, w, q) \in G[1 .. n]
<1> DEFINE base == w
           U == UNION {G[T] : T \in SUBSET (1 .. n)}
           F == [z \in (1 .. n) \X U |-> RemovePage(z[2], q[z[1]])]
           Follows(f) == f = [T \in SUBSET (1 .. n) |->
                                IF T = {} THEN base ELSE RemovePage(f[T \ {Max(T)}], q[Max(T)])]
           h == CHOOSE f : Follows(f)
<1>1. FoldLeft(RemovePage, w, q) = h[1 .. n]
  BY Zenon DEF FoldLeft, MapThenFoldSet
<1>2. \A T \in SUBSET (1 .. n) : T # {} => Max(T) \in T /\ \A y \in T : y <= Max(T)
  BY GreatestPlace
<1>3. \A T \in SUBSET (1 .. n) : \A x \in T : \A u \in G[T \ {x}] : F[<<x, u>>] = RemovePage(u, q[x])
  OBVIOUS
<1> HIDE DEF F, base, h
<1>4. StepsStay(n, F, G)
  BY <1>3 DEF StepsStay
<1>5. base \in G[{}]
  BY DEF base
<1> HIDE DEF U
<1>6. PICK g : FoldsOver(n, base, F, g) /\ StaysIn(n, g, G)
  BY <1>4, <1>5, SeqFoldExists, ZenonT(60)
<1>7. \A T \in SUBSET (1 .. n) : T # {} => F[<<Max(T), g[T \ {Max(T)}]>>]
                                      = RemovePage(g[T \ {Max(T)}], q[Max(T)])
  BY <1>2, <1>3, <1>6 DEF StaysIn
<1>8. Follows(g)
  BY <1>6, <1>7, Zenon DEF FoldsOver
<1>9. Follows(h)
  BY <1>8, Zenon DEF h
<1>10. \A T \in SUBSET (1 .. n) : h[T] = IF T = {} THEN base ELSE RemovePage(h[T \ {Max(T)}], q[Max(T)])
  BY <1>9
<1>11. h[{}] \in G[{}]
  BY <1>5, <1>10
<1>12. \A T \in SUBSET (1 .. n) : T # {} /\ h[T \ {Max(T)}] \in G[T \ {Max(T)}] => h[T] \in G[T]
  BY <1>2, <1>10, ZenonT(60)
<1>13. h[1 .. n] \in G[1 .. n]
  BY <1>11, <1>12, SeqFoldInduction, Zenon
<1> QED
  BY <1>1, <1>13

LEMMA NarrowSeq ==
  ASSUME NEW T, NEW q \in Seq(T), NEW S, ToSet(q) \subseteq S
  PROVE  q \in Seq(S)
<1>1. /\ Len(q) \in Nat /\ q \in [1 .. Len(q) -> T] /\ DOMAIN q = 1 .. Len(q)
  BY LenProperties
<1>2. \A i \in 1 .. Len(q) : q[i] \in S
  BY <1>1 DEF ToSet
<1>3. q \in [1 .. Len(q) -> S]
  BY <1>1, <1>2
<1> QED
  BY <1>1, <1>3, SeqDef

Twice == {<<v, v>> : v \in Pages}

\* The pages in the order they are taken out in, none of them twice.
LEMMA OrderFits ==
  ASSUME NEW w, Tidy(w)
  PROVE  /\ PageOrder(w) \in Seq(Pages) /\ Apart(PageOrder(w), Twice) /\ ToSet(PageOrder(w)) \subseteq PagesIn(w)
<1> DEFINE n == Len(w.slots)
           d == w.dyn
           S == Scan(w)
           m == n - d
           T == Pages \cup {NoPage}
           a == [i \in 1 .. d |-> w.slots[i].page]
           b == [k \in DOMAIN S |-> w.slots[S[k]].page]
           q == a \o b
<1>1. /\ n \in Nat /\ d \in Nat /\ d <= n /\ \A i \in 1 .. n : w.slots[i].page \in T
      /\ \A i, j \in 1 .. n : w.slots[i].page # NoPage /\ w.slots[i].page = w.slots[j].page => i = j
      /\ NoPage \notin Pages
  <2>1. /\ n \in Nat /\ d \in Nat /\ d <= n /\ \A i \in 1 .. n : w.slots[i].page \in T
        /\ NoPage \notin Pages
    BY TidyTypes
  <2> QED
    BY <2>1 DEF Tidy, IsUsed
<1>2. /\ m \in Nat /\ DOMAIN S = 1 .. m
      /\ \A k \in 1 .. m : S[k] \in d + 1 .. n
      /\ \A j, k \in 1 .. m : S[j] = S[k] => j = k
  BY ScanPlaces
<1> HIDE DEF S, m, n, d, T
<1>3. a \in Seq(T) /\ Len(a) = d /\ \A i \in 1 .. d : a[i] = w.slots[i].page
  <2>1. \A i \in 1 .. d : i \in 1 .. n
    BY <1>1
  <2>2. a \in [1 .. d -> T]
    BY <1>1, <2>1
  <2> QED
    BY <1>1, <2>2, SeqDef, LenProperties
<1>4. b \in Seq(T) /\ Len(b) = m /\ \A k \in 1 .. m : b[k] = w.slots[S[k]].page
  <2>1. \A k \in 1 .. m : S[k] \in 1 .. n
    BY <1>1, <1>2
  <2>2. b \in [1 .. m -> T]
    BY <1>1, <1>2, <2>1
  <2> QED
    BY <1>2, <2>2, SeqDef, LenProperties
<1>5. PageOrder(w) = Those(q, PagesIn(w))
  BY DEF PageOrder, d, S
<1> HIDE DEF a, b
<1>6. /\ q \in Seq(T) /\ Len(q) = d + m /\ DOMAIN q = 1 .. d + m
      /\ \A i \in 1 .. d + m : q[i] = IF i <= d THEN a[i] ELSE b[i - d]
  <2>1. /\ q \in Seq(T) /\ Len(q) = Len(a) + Len(b)
        /\ \A i \in 1 .. Len(a) + Len(b) : q[i] = IF i <= Len(a) THEN a[i] ELSE b[i - Len(a)]
    BY <1>3, <1>4, ConcatProperties
  <2> HIDE DEF q
  <2> QED
    BY <1>3, <1>4, <2>1, LenProperties
<1> HIDE DEF q
<1> DEFINE at == [i \in 1 .. d + m |-> IF i <= d THEN i ELSE S[i - d]]
<1>7. ASSUME NEW i \in 1 .. d + m PROVE at[i] \in 1 .. n /\ q[i] = w.slots[at[i]].page
  <2>1. CASE i <= d
    <3>1. at[i] = i /\ i \in 1 .. n /\ i \in 1 .. d
      BY <1>1, <2>1
    <3> QED
      BY <1>3, <1>6, <2>1, <3>1
  <2>2. CASE ~(i <= d)
    <3>1. i - d \in 1 .. m
      BY <1>1, <1>2, <2>2
    <3>2. at[i] = S[i - d] /\ S[i - d] \in 1 .. n
      BY <1>1, <1>2, <2>2, <3>1
    <3>3. q[i] = b[i - d]
      BY <1>6, <2>2
    <3> QED
      BY <1>4, <3>1, <3>2, <3>3
  <2> QED
    BY <2>1, <2>2
<1>8. ASSUME NEW i \in 1 .. d + m, NEW j \in 1 .. d + m, at[i] = at[j] PROVE i = j
  <2>1. \A k \in 1 .. d + m : /\ k <= d => at[k] = k
                              /\ ~(k <= d) => k - d \in 1 .. m /\ at[k] = S[k - d] /\ ~(at[k] <= d)
    <3> SUFFICES ASSUME NEW k \in 1 .. d + m
                 PROVE  /\ k <= d => at[k] = k
                        /\ ~(k <= d) => k - d \in 1 .. m /\ at[k] = S[k - d] /\ ~(at[k] <= d)
      OBVIOUS
    <3>1. ~(k <= d) => k - d \in 1 .. m
      BY <1>1, <1>2
    <3>2. ~(k <= d) => at[k] = S[k - d]
      OBVIOUS
    <3>3. \A l \in 1 .. m : ~(S[l] <= d)
      BY <1>1, <1>2
    <3> QED
      BY <3>1, <3>2, <3>3
  <2> HIDE DEF at
  <2>2. CASE i <= d
    <3>1. j <= d
      BY <1>8, <2>1, <2>2
    <3> QED
      BY <1>8, <2>1, <2>2, <3>1
  <2>3. CASE ~(i <= d)
    <3>1. ~(j <= d)
      BY <1>8, <2>1, <2>3
    <3>2. i - d = j - d
      BY <1>2, <1>8, <2>1, <2>3, <3>1
    <3> QED
      BY <1>1, <1>2, <3>2
  <2> QED
    BY <2>2, <2>3
<1> HIDE DEF at
<1>9. Apart(q, Twice)
  <2> SUFFICES ASSUME NEW i \in 1 .. d + m, NEW j \in 1 .. d + m, i # j, <<q[i], q[j]>> \in Twice
               PROVE  FALSE
    BY <1>6 DEF Apart
  <2>1. q[i] = q[j] /\ q[i] \in Pages
    BY DEF Twice
  <2>2. at[i] = at[j]
    BY <1>1, <1>7, <2>1
  <2> QED
    BY <1>8, <2>2
<1>10. /\ Those(q, PagesIn(w)) \in Seq(T) /\ ToSet(Those(q, PagesIn(w))) = ToSet(q) \cap PagesIn(w)
       /\ Apart(Those(q, PagesIn(w)), Twice)
  BY <1>6, <1>9, ThoseAre, ThoseApart
<1>11. PagesIn(w) \subseteq Pages
  BY PagesAre
<1> QED
  BY <1>5, <1>10, <1>11, NarrowSeq

\* Several pages removed, one after another.
LEMMA RemoveAllFits ==
  ASSUME NEW w, Sized(w), NEW q \in Seq(Pages), Apart(q, Twice), ToSet(q) \subseteq PagesIn(w),
         NEW v, v = FoldLeft(RemovePage, w, q)
  PROVE  Sized(v) /\ v \in ListRecord /\ v.size = w.size /\ PagesIn(v) = PagesIn(w) \ ToSet(q)
<1> DEFINE n == Len(q)
           Ok(u, T) == /\ Sized(u) /\ u \in ListRecord /\ u.size = w.size
                       /\ PagesIn(u) = PagesIn(w) \ {q[j] : j \in T}
           G == [T \in SUBSET (1 .. n) |-> {u \in ListRecord : Ok(u, T)}]
<1>1. n \in Nat /\ DOMAIN q = 1 .. n /\ \A j \in 1 .. n : q[j] \in Pages /\ q[j] \in PagesIn(w)
  <2>1. n \in Nat /\ DOMAIN q = 1 .. n /\ \A j \in 1 .. n : q[j] \in Pages
    BY LenProperties, ElementOfSeq
  <2> QED
    BY <2>1 DEF ToSet
<1> HIDE DEF n
<1>2. w \in G[{}]
  <2>1. Ok(w, {})
    BY TidyTypes DEF Sized
  <2> QED
    BY <2>1
<1>3. ASSUME NEW T \in SUBSET (1 .. n), NEW x \in T, NEW u \in G[T \ {x}]
      PROVE  RemovePage(u, q[x]) \in G[T]
  <2> DEFINE t == RemovePage(u, q[x])
             A == {q[j] : j \in T \ {x}}
  <2>1. T \ {x} \in SUBSET (1 .. n) /\ x \in 1 .. n
    OBVIOUS
  <2>2. Ok(u, T \ {x})
    BY <2>1
  <2>3. q[x] \notin A
    <3>1. \A j \in 1 .. n : j # x => <<q[j], q[x]>> \notin Twice
      BY <1>1, <2>1 DEF Apart
    <3>2. \A j \in 1 .. n : j # x => q[j] # q[x]
      BY <1>1, <2>1, <3>1 DEF Twice
    <3> QED
      BY <3>2
  <2>4. {q[j] : j \in T} = A \cup {q[x]}
    OBVIOUS
  <2> HIDE DEF A
  <2>5. q[x] \in PagesIn(u)
    BY <1>1, <2>1, <2>2, <2>3 DEF A
  <2>6. Sized(t) /\ t \in ListRecord /\ t.size = u.size /\ PagesIn(t) = PagesIn(u) \ {q[x]}
    BY <2>2, <2>5, RemoveFits
  <2> HIDE DEF t
  <2>7. PagesIn(t) = PagesIn(w) \ {q[j] : j \in T}
    BY <2>2, <2>4, <2>6 DEF A
  <2>8. Ok(t, T)
    BY <2>2, <2>6, <2>7
  <2> QED
    BY <2>8 DEF t
<1> HIDE DEF G
<1>4. v \in G[1 .. n]
  BY <1>1, <1>2, <1>3, RemoveReaches
<1>5. Ok(v, 1 .. n)
  BY <1>4 DEF G
<1>6. ToSet(q) = {q[j] : j \in 1 .. n}
  BY <1>1 DEF ToSet
<1> QED
  BY <1>5, <1>6

\* Purge takes out pages that are neither locked nor protected.
LEMMA PurgeFits ==
  ASSUME NEW w, Sized(w), NEW c, NEW r, r = Purge(w, c)
  PROVE  Taken(w, r, c) /\ Sized(r.list)
<1> DEFINE locked == {w.slots[i].page : i \in 1 .. w.dyn}
           q == PageOrder(w)
           out == Those(q, PagesIn(w) \ (locked \cup c.protected))
           l == FoldLeft(RemovePage, w, out)
<1>1. q \in Seq(Pages) /\ Apart(q, Twice) /\ ToSet(q) \subseteq PagesIn(w)
  BY OrderFits DEF Sized
<1>2. r = [list |-> l, out |-> out]
  BY DEF Purge
<1> HIDE DEF q, locked
<1>3. /\ out \in Seq(Pages) /\ ToSet(out) = ToSet(q) \cap (PagesIn(w) \ (locked \cup c.protected))
      /\ Apart(out, Twice)
  BY <1>1, ThoseAre, ThoseApart
<1> HIDE DEF out
<1>4. Sized(l) /\ l \in ListRecord /\ l.size = w.size /\ PagesIn(l) = PagesIn(w) \ ToSet(out)
  BY <1>3, RemoveAllFits
<1> HIDE DEF l
<1> QED
  BY <1>2, <1>3, <1>4 DEF Taken

\* The pieces of a list put one after another: a up to d, b up to p, c up to n.
InPieces(q, a, b, c, d, p, n) ==
  /\ Len(q) = n /\ d \in Nat /\ p \in Nat /\ n \in Nat /\ d <= p /\ p <= n
  /\ \A i \in 1 .. d : q[i] = a[i]
  /\ \A i \in d + 1 .. p : q[i] = b[i - d] /\ i - d \in 1 .. Len(b)
  /\ \A i \in p + 1 .. n : q[i] = c[i - p] /\ i - p \in 1 .. Len(c)

LEMMA ThreePieces ==
  ASSUME NEW T, NEW a \in Seq(T), NEW b \in Seq(T), NEW c \in Seq(T), NEW q, q = a \o b \o c,
         NEW d, d = Len(a), NEW p, p = Len(a) + Len(b), NEW n, n = Len(a) + Len(b) + Len(c)
  PROVE  q \in Seq(T) /\ InPieces(q, a, b, c, d, p, n)
<1> DEFINE ab == a \o b
           x == Len(a)
           y == Len(b)
           z == Len(c)
<1>1. x \in Nat /\ y \in Nat /\ z \in Nat
  BY LenProperties
<1>2. /\ ab \in Seq(T) /\ Len(ab) = x + y
      /\ \A i \in 1 .. x + y : ab[i] = IF i <= x THEN a[i] ELSE b[i - x]
  BY ConcatProperties
<1> HIDE DEF ab, z
<1>3. /\ ab \o c \in Seq(T) /\ Len(ab \o c) = Len(ab) + z
      /\ \A i \in 1 .. Len(ab) + z : (ab \o c)[i] = IF i <= Len(ab) THEN ab[i] ELSE c[i - Len(ab)]
  <2>1. ab \in Seq(T) /\ c \in Seq(T)
    BY <1>2
  <2> QED
    BY <2>1, ConcatProperties DEF z
<1>4. q = ab \o c
  BY DEF ab
<1> HIDE DEF x, y
<1>5. /\ q \in Seq(T) /\ Len(q) = x + y + z
      /\ \A i \in 1 .. x + y + z : q[i] = IF i <= x + y THEN ab[i] ELSE c[i - (x + y)]
  BY <1>2, <1>3, <1>4
<1>6. d = x /\ p = x + y /\ n = x + y + z
  BY DEF x, y, z
<1>7. ASSUME NEW i \in 1 .. d PROVE q[i] = a[i]
  <2>1. i \in 1 .. x + y + z /\ i \in 1 .. x + y /\ i <= x + y /\ i <= x
    BY <1>1, <1>6
  <2> QED
    BY <1>2, <1>5, <2>1
<1>8. ASSUME NEW i \in d + 1 .. p PROVE q[i] = b[i - d] /\ i - d \in 1 .. y
  <2>1. i \in 1 .. x + y + z /\ i \in 1 .. x + y /\ i <= x + y /\ ~(i <= x) /\ i - d \in 1 .. y
    BY <1>1, <1>6
  <2>2. q[i] = ab[i] /\ ab[i] = b[i - x]
    BY <1>2, <1>5, <2>1
  <2> QED
    BY <1>6, <2>1, <2>2
<1>9. ASSUME NEW i \in p + 1 .. n PROVE q[i] = c[i - p] /\ i - p \in 1 .. z
  <2>1. i \in 1 .. x + y + z /\ ~(i <= x + y) /\ i - p \in 1 .. z
    BY <1>1, <1>6
  <2> QED
    BY <1>5, <1>6, <2>1
<1> QED
  BY <1>1, <1>5, <1>6, <1>7, <1>8, <1>9, SMTT(60) DEF x, y, z, InPieces

\* Compact: the dynamic pages come together, and the list is filled up to its limit.
LEMMA CompactFits ==
  ASSUME NEW w, Tidy(w), NEW v, v = Compact(w)
  PROVE  Sized(v) /\ v \in ListRecord /\ v.size = w.size /\ PagesIn(v) = PagesIn(w)
<1> DEFINE n == Len(w.slots)
           d == w.dyn
           S == Scan(w)
           m == n - d
           X == {w.slots[i] : i \in UsedSlots(w)}
           scan == [k \in DOMAIN S |-> w.slots[S[k]]]
           dynamic == Those(scan, X)
           y == Len(dynamic)
           z == Max({w.size - (d + y), 0})
           a == SubSeq(w.slots, 1, d)
           c == [i \in 1 .. z |-> Available]
           q == a \o dynamic \o c
<1>1. /\ n \in Nat /\ d \in Nat /\ d <= n /\ \A i \in 1 .. n : w.slots[i] \in Slot
      /\ \A i, j \in 1 .. n : w.slots[i].page # NoPage /\ w.slots[i].page = w.slots[j].page => i = j
      /\ w.size \in Nat /\ Available \in Slot /\ w \in ListRecord /\ w.slots \in Seq(Slot)
      /\ \A i \in 1 .. n : w.slots[i].locks # {} <=> i <= d
      /\ \A i \in 1 .. n : w.slots[i].page = NoPage => w.slots[i].locks = {}
  <2>1. /\ n \in Nat /\ d \in Nat /\ d <= n /\ \A i \in 1 .. n : w.slots[i] \in Slot
        /\ w.size \in Nat /\ Available \in Slot /\ w \in ListRecord /\ w.slots \in Seq(Slot)
    BY TidyTypes
  <2> QED
    BY <2>1 DEF Tidy, IsUsed, Available
<1>2. /\ m \in Nat /\ DOMAIN S = 1 .. m
      /\ \A k \in 1 .. m : S[k] \in d + 1 .. n
      /\ \A i \in d + 1 .. n : \E k \in 1 .. m : S[k] = i
      /\ \A j, k \in 1 .. m : S[j] = S[k] => j = k
  BY ScanPlaces
<1>3. X = {w.slots[i] : i \in {j \in 1 .. n : w.slots[j].page # NoPage}}
  BY TidyTypes DEF UsedSlots, IsUsed
<1>4. v = [w EXCEPT !.slots = q, !.next = d + y]
  BY DEF Compact
<1> HIDE DEF S, m, n, d, X
<1>5. scan \in Seq(Slot) /\ Len(scan) = m /\ \A k \in 1 .. m : scan[k] = w.slots[S[k]] /\ S[k] \in 1 .. n
  <2>1. \A k \in 1 .. m : S[k] \in 1 .. n
    BY <1>1, <1>2
  <2>2. scan \in [1 .. m -> Slot]
    BY <1>1, <1>2, <2>1
  <2> QED
    BY <1>2, <2>1, <2>2, SeqDef, LenProperties
<1> HIDE DEF scan
<1>6. DOMAIN scan = 1 .. m
  BY <1>5, LenProperties
<1> DEFINE alike == {<<x, x>> : x \in X}
<1>7. Apart(scan, alike)
  <2> SUFFICES ASSUME NEW i \in 1 .. m, NEW j \in 1 .. m, i # j, <<scan[i], scan[j]>> \in alike
               PROVE  FALSE
    BY <1>6 DEF Apart
  <2>1. scan[i] = scan[j] /\ scan[i] \in X
    OBVIOUS
  <2>2. w.slots[S[i]].page # NoPage
    BY <1>3, <1>5, <2>1
  <2>3. S[i] = S[j]
    BY <1>1, <1>5, <2>1, <2>2
  <2> QED
    BY <1>2, <2>3
<1> HIDE DEF alike
<1>8. dynamic \in Seq(Slot) /\ ToSet(dynamic) = ToSet(scan) \cap X /\ Apart(dynamic, alike)
  BY <1>5, <1>7, ThoseAre, ThoseApart
<1> HIDE DEF dynamic
<1>9. y \in Nat /\ DOMAIN dynamic = 1 .. y
  BY <1>8, LenProperties
<1>10. ASSUME NEW k \in 1 .. y
       PROVE  \E i \in d + 1 .. n : w.slots[i].page # NoPage /\ dynamic[k] = w.slots[i]
  <2>1. dynamic[k] \in ToSet(scan) /\ dynamic[k] \in X
    BY <1>8, <1>9 DEF ToSet
  <2>2. PICK j \in 1 .. m : dynamic[k] = scan[j]
    BY <1>6, <2>1 DEF ToSet
  <2>3. dynamic[k] = w.slots[S[j]] /\ S[j] \in d + 1 .. n
    BY <1>2, <1>5, <2>2
  <2>4. dynamic[k].page # NoPage
    BY <1>3, <2>1
  <2> QED
    BY <2>3, <2>4
<1>11. \A j, k \in 1 .. y : dynamic[j] = dynamic[k] => j = k
  <2> SUFFICES ASSUME NEW j \in 1 .. y, NEW k \in 1 .. y, dynamic[j] = dynamic[k], j # k PROVE FALSE
    OBVIOUS
  <2>1. <<dynamic[j], dynamic[k]>> \notin alike
    BY <1>8, <1>9 DEF Apart
  <2>2. dynamic[j] \in X
    BY <1>8, <1>9 DEF ToSet
  <2> QED
    BY <2>1, <2>2 DEF alike
<1>12. ASSUME NEW i \in d + 1 .. n, w.slots[i].page # NoPage PROVE \E k \in 1 .. y : dynamic[k] = w.slots[i]
  <2>1. PICK j \in 1 .. m : S[j] = i
    BY <1>2
  <2>2. scan[j] = w.slots[i] /\ scan[j] \in ToSet(scan)
    BY <1>5, <1>6, <2>1 DEF ToSet
  <2>3. i \in 1 .. n
    BY <1>1
  <2>4. w.slots[i] \in X
    BY <1>3, <1>12, <2>3
  <2>5. w.slots[i] \in ToSet(dynamic)
    BY <1>8, <2>2, <2>4
  <2> QED
    BY <1>9, <2>5 DEF ToSet
<1> HIDE DEF y
<1>13. z \in Nat /\ d + y + z >= w.size /\ (d + y + z > w.size => z = 0)
  <2>1. /\ w.size - (d + y) > 0 => z = w.size - (d + y)
        /\ ~(w.size - (d + y) > 0) => z = 0
    BY <1>1, <1>9 DEF Max
  <2> HIDE DEF z
  <2> QED
    BY <1>1, <1>9, <2>1
<1> HIDE DEF z
<1>14. a \in Seq(Slot) /\ Len(a) = d /\ \A i \in 1 .. d : a[i] = w.slots[i]
  BY <1>1, SubSeqProperties DEF n
<1> HIDE DEF a
<1>15. c \in Seq(Slot) /\ Len(c) = z /\ \A i \in 1 .. z : c[i] = Available
  <2>1. c \in [1 .. z -> Slot]
    BY <1>1
  <2> QED
    BY <1>13, <2>1, SeqDef, LenProperties
<1> HIDE DEF c
<1> DEFINE p == d + y
           l == d + y + z
<1>16. /\ q \in Seq(Slot) /\ Len(q) = l /\ p \in Nat /\ l \in Nat /\ d <= p /\ p <= l
       /\ \A i \in 1 .. d : q[i] = w.slots[i]
       /\ \A i \in d + 1 .. p : q[i] = dynamic[i - d] /\ i - d \in 1 .. y
       /\ \A i \in p + 1 .. l : q[i] = Available
  <2>1. d = Len(a) /\ p = Len(a) + Len(dynamic) /\ l = Len(a) + Len(dynamic) + Len(c) /\ Len(dynamic) = y
    BY <1>14, <1>15 DEF y
  <2> HIDE DEF p, l, q
  <2>2. q = a \o dynamic \o c
    BY DEF q
  <2>3. q \in Seq(Slot) /\ InPieces(q, a, dynamic, c, d, p, l)
    BY <1>8, <1>14, <1>15, <2>1, <2>2, ThreePieces
  <2> QED
    BY <1>14, <1>15, <2>1, <2>3 DEF InPieces
<1> HIDE DEF q
<1>17. v.slots = q /\ v.dyn = d /\ v.next = p /\ v.size = w.size /\ v \in ListRecord
  BY <1>1, <1>4, <1>16 DEF ListRecord, d
<1> DEFINE from(k) == CHOOSE i \in d + 1 .. n : w.slots[i].page # NoPage /\ dynamic[k] = w.slots[i]
           f == [i \in 1 .. l |-> IF i <= d THEN i ELSE IF i <= p THEN from(i - d) ELSE 0]
<1>18. \A k \in 1 .. y : from(k) \in d + 1 .. n /\ w.slots[from(k)].page # NoPage /\ dynamic[k] = w.slots[from(k)]
  BY <1>10
<1>19. \A i \in 1 .. l : /\ i <= d => f[i] = i
                         /\ ~(i <= d) /\ i <= p => f[i] = from(i - d)
                         /\ ~(i <= p) => f[i] = 0
  BY <1>1, <1>16, SMTT(60)
<1> HIDE DEF p, l, from, f
<1>20. \A i \in 1 .. l : \/ i <= d /\ i \in 1 .. d
                         \/ ~(i <= d) /\ i <= p /\ i \in d + 1 .. p
                         \/ ~(i <= p) /\ ~(i <= d) /\ i \in p + 1 .. l
  BY <1>1, <1>16
<1>21. ASSUME NEW i \in 1 .. l
       PROVE  /\ i <= p => /\ f[i] \in 1 .. n /\ f[i] # 0 /\ q[i] = w.slots[f[i]]
                           /\ w.slots[f[i]].page # NoPage
                           /\ f[i] <= d <=> i <= d
              /\ ~(i <= p) => f[i] = 0 /\ q[i] = Available
  <2>1. CASE i <= d /\ i \in 1 .. d
    <3>1. f[i] = i /\ i <= p /\ i \in 1 .. n /\ i # 0 /\ q[i] = w.slots[i]
      BY <1>1, <1>16, <1>19, <2>1
    <3>2. w.slots[i].page # NoPage
      BY <1>1, <2>1, <3>1
    <3> QED
      BY <3>1, <3>2, <2>1
  <2>2. CASE ~(i <= d) /\ i <= p /\ i \in d + 1 .. p
    <3>1. f[i] = from(i - d) /\ i - d \in 1 .. y /\ q[i] = dynamic[i - d]
      BY <1>16, <1>19, <2>2
    <3>2. /\ from(i - d) \in d + 1 .. n /\ w.slots[from(i - d)].page # NoPage
          /\ dynamic[i - d] = w.slots[from(i - d)]
      BY <1>18, <3>1
    <3>3. from(i - d) \in 1 .. n /\ from(i - d) # 0 /\ ~(from(i - d) <= d)
      BY <1>1, <3>2
    <3> QED
      BY <2>2, <3>1, <3>2, <3>3
  <2>3. CASE ~(i <= p) /\ ~(i <= d) /\ i \in p + 1 .. l
    BY <1>16, <1>19, <2>3
  <2> QED
    BY <1>20, <2>1, <2>2, <2>3
<1>22. Moved(w, v, f)
  <2>1. f \in [1 .. l -> 0 .. n]
    <3>1. \A i \in 1 .. l : f[i] \in 0 .. n
      BY <1>1, <1>21
    <3> QED
      BY <3>1 DEF f
  <2>2. ASSUME NEW i \in 1 .. l, NEW j \in 1 .. l, f[i] = f[j], f[i] # 0 PROVE i = j
    <3>1. i <= p /\ j <= p
      BY <1>21, <2>2
    <3>2. CASE i <= d
      <4>1. j <= d
        BY <1>21, <2>2, <3>1, <3>2
      <4> QED
        BY <1>19, <2>2, <3>2, <4>1
    <3>3. CASE ~(i <= d)
      <4>1. ~(j <= d)
        BY <1>21, <2>2, <3>1, <3>3
      <4>2. i \in d + 1 .. p /\ j \in d + 1 .. p
        BY <1>20, <3>1, <3>3, <4>1
      <4>3. q[i] = dynamic[i - d] /\ i - d \in 1 .. y /\ q[j] = dynamic[j - d] /\ j - d \in 1 .. y
        BY <1>16, <4>2
      <4>4. q[i] = q[j]
        BY <1>21, <2>2, <3>1
      <4>5. i - d = j - d
        BY <1>11, <4>3, <4>4
      <4> QED
        BY <1>1, <4>5
    <3> QED
      BY <3>2, <3>3
  <2>3. \A i \in 1 .. l : q[i].page = IF f[i] = 0 THEN NoPage ELSE w.slots[f[i]].page
    BY <1>21 DEF Available
  <2> QED
    BY <1>16, <1>17, <2>1, <2>2, <2>3 DEF Moved, n
<1>23. AllMoved(w, v, f, {})
  <2>1. ASSUME NEW i \in 1 .. n, w.slots[i].page # NoPage PROVE \E j \in 1 .. l : f[j] = i
    <3>1. CASE i <= d
      <4>1. i \in 1 .. l
        BY <1>1, <1>16, <3>1
      <4> QED
        BY <1>19, <3>1, <4>1
    <3>2. CASE ~(i <= d)
      <4>1. i \in d + 1 .. n
        BY <1>1, <3>2
      <4>2. PICK k \in 1 .. y : dynamic[k] = w.slots[i]
        BY <1>12, <2>1, <4>1
      <4>3. d + k \in 1 .. l /\ ~(d + k <= d) /\ d + k <= p /\ d + k - d = k
        BY <1>1, <1>9, <1>13 DEF p, l
      <4>4. f[d + k] = from(k)
        <5> DEFINE x == d + k
        <5>1. x \in 1 .. l /\ ~(x <= d) /\ x <= p /\ x - d = k
          BY <1>1, <1>9, <4>3
        <5> HIDE DEF x
        <5>2. f[x] = from(x - d)
          BY <1>19, <5>1
        <5> QED
          BY <5>1, <5>2 DEF x
      <4>5. from(k) \in d + 1 .. n /\ w.slots[from(k)].page # NoPage /\ dynamic[k] = w.slots[from(k)]
        BY <1>18
      <4>6. from(k) \in 1 .. n
        BY <1>1, <4>5
      <4>7. from(k) = i
        BY <1>1, <4>2, <4>5, <4>6
      <4> QED
        BY <4>3, <4>4, <4>7
    <3> QED
      BY <3>1, <3>2
  <2> QED
    BY <1>16, <1>17, <2>1 DEF AllMoved, IsUsed, n
<1>24. LockedFirst(v)
  <2>1. ASSUME NEW i \in 1 .. l PROVE q[i].locks # {} <=> i <= d
    <3>1. CASE i <= p
      BY <1>1, <1>21, <3>1
    <3>2. CASE ~(i <= p)
      <4>1. ~(i <= d)
        BY <1>1, <1>16, <3>2
      <4>2. q[i].locks = {}
        BY <1>21, <3>2 DEF Available
      <4> QED
        BY <4>1, <4>2
    <3> QED
      BY <3>1, <3>2
  <2>2. ASSUME NEW i \in 1 .. l, q[i].page = NoPage PROVE q[i].locks = {}
    <3>1. CASE i <= p
      BY <1>21, <2>2, <3>1
    <3>2. CASE ~(i <= p)
      BY <1>21, <3>2 DEF Available
    <3> QED
      BY <3>1, <3>2
  <2>3. d <= l
    BY <1>1, <1>16
  <2> QED
    BY <1>16, <1>17, <2>1, <2>2, <2>3 DEF LockedFirst
<1>25. Loose(w)
  BY <1>1 DEF Tidy, Loose
<1>26. Tidy(v) /\ PagesIn(v) = PagesIn(w) \ {w.slots[i].page : i \in {}}
  BY <1>22, <1>23, <1>24, <1>25, MovedFits
<1>27. Filled(v)
  <2>1. l >= w.size /\ (l > w.size => l = p)
    BY <1>1, <1>9, <1>13 DEF l, p
  <2>2. ASSUME NEW i \in 1 .. l, l = p PROVE IsUsed(v, i)
    <3>1. i <= p
      BY <1>20, <2>2
    <3>2. q[i] = w.slots[f[i]] /\ w.slots[f[i]].page # NoPage
      BY <1>21, <3>1
    <3> QED
      BY <1>17, <3>2 DEF IsUsed
  <2> QED
    BY <1>16, <1>17, <2>1, <2>2 DEF Filled
<1> QED
  BY <1>17, <1>26, <1>27 DEF Sized

\* A limit is a limit.
LEMMA ClampFits ==
  ASSUME NEW n \in Int, NEW d \in Nat
  PROVE  Clamp(n, d) \in Nat
<1>1. Extent \in Nat /\ Minimum \in Nat
  BY WorkingSetAssumption
<1> DEFINE k == IF n < Extent THEN n ELSE Extent
           m == d + Minimum
<1>2. Clamp(n, d) = IF k > m THEN k ELSE m
  BY DEF Clamp
<1>3. k \in Int /\ m \in Nat
  BY <1>1
<1> HIDE DEF k, m
<1> QED
  BY <1>2, <1>3

\* A list with another limit.
LEMMA ResizedIs ==
  ASSUME NEW w, Tidy(w), NEW n \in Nat, NEW v, v = [w EXCEPT !.size = n]
  PROVE  Tidy(v) /\ v.size = n /\ PagesIn(v) = PagesIn(w)
<1>1. /\ v.slots = w.slots /\ v.dyn = w.dyn /\ v.next = w.next /\ v.size = n /\ v \in ListRecord
  BY TidyTypes DEF ListRecord
<1>2. \A i : IsUsed(v, i) <=> IsUsed(w, i)
  BY <1>1 DEF IsUsed
<1>3. PagesIn(v) = PagesIn(w)
  BY <1>1, <1>2 DEF PagesIn, UsedSlots
<1>4. Tidy(v)
  BY <1>1, <1>2 DEF Tidy
<1> QED
  BY <1>1, <1>3, <1>4

\* Resize, $ADJWSL's, leaves a list as long as its limit.
LEMMA ResizeFits ==
  ASSUME NEW w, Sized(w), NEW n \in Int, NEW c, NEW r, r = Resize(w, n, c)
  PROVE  Taken(w, r, c) /\ Sized(r.list)
<1> DEFINE size == Clamp(n, w.dyn)
           x == [w EXCEPT !.size = size]
           s == Shrink(x, size, c)
           l == Compact(s.list)
<1>1. size \in Nat
  BY ClampFits, TidyTypes DEF Sized
<1>2. r = [list |-> l, out |-> s.out]
  BY DEF Resize
<1> HIDE DEF size
<1>3. Tidy(x) /\ PagesIn(x) = PagesIn(w)
  BY <1>1, ResizedIs DEF Sized
<1> HIDE DEF x
<1>4. Taken(x, s, c) /\ Tidy(s.list)
  BY <1>1, <1>3, ShrinkFits
<1> HIDE DEF s
<1>5. Sized(l) /\ l \in ListRecord /\ PagesIn(l) = PagesIn(s.list)
  BY <1>4, CompactFits
<1> HIDE DEF l
<1> QED
  BY <1>2, <1>3, <1>4, <1>5 DEF Taken

\* A process's first list: nothing but available entries.
LEMMA NewWorkingSetFits ==
  ASSUME NEW n \in Int, NEW v, v = NewWorkingSet(n)
  PROVE  Sized(v) /\ v \in ListRecord /\ PagesIn(v) = {}
<1> DEFINE k == Clamp(n, 0)
           q == [i \in 1 .. k |-> Available]
<1>1. k \in Nat
  BY ClampFits
<1>2. v = [slots |-> q, dyn |-> 0, next |-> 0, size |-> k]
  BY DEF NewWorkingSet
<1> HIDE DEF k
<1>3. Available \in Slot
  BY DEF Available, Slot
<1>4. q \in Seq(Slot) /\ Len(q) = k /\ \A i \in 1 .. k : q[i] = Available
  <2>1. q \in [1 .. k -> Slot]
    BY <1>3
  <2> QED
    BY <1>1, <2>1, SeqDef, LenProperties
<1> HIDE DEF q
<1>5. /\ v.slots = q /\ v.dyn = 0 /\ v.next = 0 /\ v.size = k /\ v \in ListRecord
  BY <1>1, <1>2, <1>4 DEF ListRecord
<1>6. DOMAIN q = 1 .. k
  BY <1>4, LenProperties
<1>7. \A i \in 1 .. k : ~IsUsed(v, i) /\ v.slots[i] = Available /\ v.slots[i].locks = {} /\ ~(i <= 0)
  BY <1>1, <1>4, <1>5 DEF IsUsed, Available
<1>8. Tidy(v)
  BY <1>1, <1>4, <1>5, <1>7 DEF Tidy
<1>9. Filled(v)
  BY <1>1, <1>4, <1>5 DEF Filled
<1>10. PagesIn(v) = {}
  BY <1>5, <1>6, <1>7 DEF PagesIn, UsedSlots
<1> QED
  BY <1>5, <1>8, <1>9, <1>10 DEF Sized

\* What WorkingSet.Check looks at.
LEMMA SizedIsOK ==
  ASSUME NEW w, Sized(w)
  PROVE  ListOK(w)
<1>1. DOMAIN w.slots = 1 .. Len(w.slots)
  BY TidyTypes DEF Sized
<1>2. \A i : i \in UsedSlots(w) <=> i \in 1 .. Len(w.slots) /\ IsUsed(w, i)
  BY <1>1 DEF UsedSlots
<1>3. Over(w) => UsedSlots(w) = DOMAIN w.slots
  BY <1>1, <1>2 DEF Over, Sized, Filled
<1> QED
  BY <1>1, <1>2, <1>3 DEF ListOK, Sized, Tidy, Filled

-----------------------------------------------------------------------------
(* The page file's map: a run it gives is free, and of the length asked for. *)

LEMMA LesserOf ==
  ASSUME NEW a \in Int, NEW b \in Int, NEW k, k = Min({a, b})
  PROVE  /\ k \in Int /\ k <= a /\ k <= b /\ (k = a \/ k = b)
<1>1. \E x \in {a, b} : \A y \in {a, b} : x <= y
  <2>1. CASE a <= b
    BY <2>1
  <2>2. CASE b <= a
    BY <2>2
  <2> QED
    BY <2>1, <2>2
<1>2. k \in {a, b} /\ \A y \in {a, b} : k <= y
  BY <1>1 DEF Min
<1> QED
  BY <1>2

LEMMA GreaterOf ==
  ASSUME NEW a \in Int, NEW b \in Int, NEW k, k = Max({a, b})
  PROVE  /\ k \in Int /\ k >= a /\ k >= b /\ (k = a \/ k = b)
<1>1. \E x \in {a, b} : \A y \in {a, b} : x >= y
  <2>1. CASE a <= b
    BY <2>1
  <2>2. CASE b <= a
    BY <2>2
  <2> QED
    BY <2>1, <2>2
<1>2. k \in {a, b} /\ \A y \in {a, b} : k >= y
  BY <1>1 DEF Max
<1> QED
  BY <1>2

LEMMA LeastPlace ==
  ASSUME NEW T, T \subseteq Nat, T # {}
  PROVE  Min(T) \in T /\ \A y \in T : Min(T) <= y
<1>1. \E k \in T : \A j \in T : k <= j
  BY LeastOf, Zenon
<1> QED
  BY <1>1 DEF Min

\* The file's size and the sizes of its runs.
LEMMA MapTypes ==
  /\ FileSize \in Nat /\ WriteCluster \in Nat /\ MinAllocation \in Nat /\ Drop \in Nat /\ Regrow \in Nat
  /\ WriteCluster # 0 /\ MinAllocation # 0 /\ Drop # 0 /\ Regrow # 0 /\ MinAllocation <= WriteCluster
BY MapAssumption

LEMMA NewMapFits ==
  MapOK(NewMap) /\ NewMap.inUse = {} /\ NewMap \in [inUse : SUBSET Blocks, allocSize : Nat]
<1>1. NewMap.inUse = {} /\ NewMap.allocSize = WriteCluster /\ NewMap = [inUse |-> {}, allocSize |-> WriteCluster]
  BY DEF NewMap
<1> QED
  BY <1>1, MapTypes DEF MapOK

\* Free: the run's blocks are free, and the size may climb.
LEMMA FreeFits ==
  ASSUME NEW m \in [inUse : SUBSET Blocks, allocSize : Nat], MapOK(m), NEW run, NEW f, f = FreeBlocks(m, run)
  PROVE  f \in [inUse : SUBSET Blocks, allocSize : Nat] /\ MapOK(f) /\ f.inUse = m.inUse \ run
<1> DEFINE g == [m EXCEPT !.inUse = @ \ run]
           k == Min({m.allocSize + Regrow, WriteCluster})
           h == [g EXCEPT !.allocSize = k]
<1>1. m.allocSize \in MinAllocation .. WriteCluster /\ m.inUse \subseteq Blocks
  BY DEF MapOK
<1>2. f = g \/ f = h
  BY DEF FreeBlocks
<1>3. k \in MinAllocation .. WriteCluster
  <2>1. m.allocSize \in Int /\ m.allocSize + Regrow \in Int
    BY <1>1, MapTypes
  <2>2. k \in Int /\ k <= WriteCluster /\ (k = m.allocSize + Regrow \/ k = WriteCluster)
    <3> DEFINE a == m.allocSize + Regrow
    <3>1. a \in Int /\ WriteCluster \in Int /\ k = Min({a, WriteCluster})
      BY <2>1, MapTypes
    <3> HIDE DEF a, k
    <3>2. k \in Int /\ k <= WriteCluster /\ (k = a \/ k = WriteCluster)
      BY <3>1, LesserOf
    <3> QED
      BY <3>2 DEF a
  <2> HIDE DEF k
  <2> QED
    BY <1>1, <2>2, MapTypes
<1> HIDE DEF k
<1>4. /\ g \in [inUse : SUBSET Blocks, allocSize : Nat] /\ g.inUse = m.inUse \ run /\ g.allocSize = m.allocSize
  OBVIOUS
<1> HIDE DEF g
<1>5. k \in Nat => /\ h \in [inUse : SUBSET Blocks, allocSize : Nat] /\ h.inUse = m.inUse \ run
                    /\ h.allocSize = k
  BY <1>4
<1> HIDE DEF h
<1>6. k \in Nat
  BY <1>3, MapTypes
<1> QED
  BY <1>1, <1>2, <1>3, <1>4, <1>5, <1>6 DEF MapOK

\* Whether a run of free blocks is all between its first and last.
Convex(R) == \A x, y \in R : \A z \in x .. y : z \in R

\* A run of free blocks is free, and has no hole.
LEMMA FreeRunFits ==
  ASSUME NEW m, NEW b \in Blocks
  PROVE  /\ FreeRun(m, b) \subseteq Blocks \ m.inUse
         /\ Convex(FreeRun(m, b))
         /\ b \notin m.inUse => b \in FreeRun(m, b)
<1> DEFINE R == FreeRun(m, b)
<1>1. \A c : c \in R <=> c \in Blocks /\ \A x \in Blocks : (x \in b .. c \/ x \in c .. b) => x \notin m.inUse
  BY DEF FreeRun
<1>2. \A c \in Blocks : c \in Int /\ 1 <= c /\ c <= FileSize
  BY MapTypes DEF Blocks
<1>3. \A c \in Int : 1 <= c /\ c <= FileSize => c \in Blocks
  BY MapTypes DEF Blocks
<1> HIDE DEF R
<1>4. ASSUME NEW c \in R PROVE c \in Blocks \ m.inUse
  BY <1>1, <1>2, <1>4
<1>5. ASSUME NEW x \in R, NEW y \in R, NEW z \in x .. y PROVE z \in R
  <2>1. x \in Int /\ y \in Int /\ z \in Int /\ x <= z /\ z <= y /\ b \in Int /\ z \in Blocks
    BY <1>1, <1>2, <1>3, <1>5, MapTypes
  <2>2. CASE b <= z
    <3>1. \A c \in Blocks : (c \in b .. z \/ c \in z .. b) => c \in b .. y
      BY <1>2, <2>1, <2>2
    <3> QED
      BY <1>1, <2>1, <3>1
  <2>3. CASE z < b
    <3>1. \A c \in Blocks : (c \in b .. z \/ c \in z .. b) => c \in x .. b
      BY <1>2, <2>1, <2>3
    <3> QED
      BY <1>1, <2>1, <3>1
  <2> QED
    BY <2>1, <2>2, <2>3
<1>6. b \notin m.inUse => b \in R
  BY <1>1, <1>2
<1> QED
  BY <1>4, <1>5, <1>6 DEF Convex, R

\* A set of blocks with no hole is counted by its ends.
LEMMA ConvexIs ==
  ASSUME NEW R, R \subseteq Blocks, R # {}, Convex(R)
  PROVE  /\ Cardinality(R) \in Nat \ {0} /\ Min(R) \in R
         /\ R = Min(R) .. Min(R) + Cardinality(R) - 1
<1>1. R \subseteq Nat /\ R \in SUBSET (1 .. FileSize) /\ FileSize \in Nat
  BY MapTypes DEF Blocks
<1> DEFINE a == Min(R)
           z == Max(R)
<1>2. a \in R /\ \A y \in R : a <= y
  BY <1>1, LeastPlace
<1>3. z \in R /\ \A y \in R : y <= z
  BY <1>1, GreatestPlace
<1> HIDE DEF a, z
<1>4. a \in Int /\ z \in Int /\ a <= z
  BY <1>1, <1>2, <1>3
<1>5. R = a .. z
  <2>1. \A x \in R : x \in a .. z
    BY <1>1, <1>2, <1>3
  <2>2. \A x \in a .. z : x \in R
    BY <1>2, <1>3 DEF Convex
  <2> QED
    BY <2>1, <2>2
<1>6. Cardinality(R) = z - a + 1
  <2>1. Cardinality(a .. z) = IF a > z THEN 0 ELSE z - a + 1
    BY <1>4, FS_Interval
  <2> QED
    BY <1>4, <1>5, <2>1
<1> DEFINE k == Cardinality(R)
<1>7. k = z - a + 1
  BY <1>6
<1> HIDE DEF k
<1>8. k \in Nat \ {0} /\ a + k - 1 = z
  BY <1>4, <1>7
<1> QED
  BY <1>2, <1>5, <1>8 DEF k, a

LEMMA BlocksAre == Blocks \subseteq Nat /\ 0 \notin Blocks
BY MapTypes DEF Blocks

LEMMA TimesAtLeast ==
  ASSUME NEW a \in Nat, NEW b \in Nat, b # 0
  PROVE  a * b \in Nat /\ a <= a * b
<1>1. b - 1 \in Nat
  OBVIOUS
<1> DEFINE c == b - 1
<1>2. a * c \in Nat
  BY <1>1
<1>3. a * b = a * c + a
  BY <1>1
<1> HIDE DEF c
<1> QED
  BY <1>2, <1>3

\* The sizes the loop looks for are within the map's, and the last is the least.
LEMMA DroppedFits ==
  ASSUME NEW m, MapOK(m), NEW k \in Nat, NEW d, d = DroppedSize(m, k)
  PROVE  /\ d \in MinAllocation .. WriteCluster
         /\ k = WriteCluster => d = MinAllocation
<1> DEFINE a == m.allocSize
           t == k * Drop
<1>1. a \in Int /\ MinAllocation <= a /\ a <= WriteCluster
  BY MapTypes DEF MapOK
<1>2. t \in Nat /\ k <= t
  BY MapTypes, TimesAtLeast
<1>3. d = IF k = 0 THEN a ELSE Max({a - t, MinAllocation})
  BY DEF DroppedSize
<1> HIDE DEF a, t
<1>4. CASE k = 0
  BY <1>1, <1>3, <1>4, MapTypes
<1>5. CASE k # 0
  <2> DEFINE x == a - t
  <2>1. x \in Int /\ x <= a /\ (k = WriteCluster => x <= 0)
    BY <1>1, <1>2
  <2>2. d = Max({x, MinAllocation})
    BY <1>3, <1>5
  <2> HIDE DEF x
  <2>3. d \in Int /\ d >= MinAllocation /\ (d = x \/ d = MinAllocation)
    BY <2>1, <2>2, GreaterOf, MapTypes
  <2> QED
    BY <1>1, <2>1, <2>3, MapTypes
<1> QED
  BY <1>4, <1>5

\* A run is found where there is one.
LEMMA FindRunFits ==
  ASSUME NEW m, NEW n \in Nat, n # 0, NEW r, r = FindRun(m, n), r # {}
  PROVE  r \subseteq Blocks \ m.inUse /\ Convex(r)
<1> DEFINE fits == {b \in Blocks : Cardinality(FreeRun(m, b)) >= n}
<1>1. r = IF fits = {} THEN {} ELSE FreeRun(m, Min(fits))
  BY DEF FindRun
<1>2. fits # {} /\ fits \subseteq Blocks
  BY <1>1
<1> HIDE DEF fits
<1>3. Min(fits) \in Blocks
  <2>1. fits \subseteq Nat
    BY <1>2, BlocksAre
  <2> QED
    BY <1>2, <2>1, LeastPlace
<1> QED
  BY <1>1, <1>2, <1>3, FreeRunFits

\* With a block free, there is a run of one.
LEMMA OneIsFound ==
  ASSUME NEW m, NEW b \in Blocks \ m.inUse
  PROVE  FindRun(m, 1) # {}
<1> DEFINE fits == {c \in Blocks : Cardinality(FreeRun(m, c)) >= 1}
<1>1. FindRun(m, 1) = IF fits = {} THEN {} ELSE FreeRun(m, Min(fits))
  BY DEF FindRun
<1>2. \A c \in Blocks : Cardinality(FreeRun(m, c)) >= 1 <=> FreeRun(m, c) # {}
  <2> SUFFICES ASSUME NEW c \in Blocks PROVE Cardinality(FreeRun(m, c)) >= 1 <=> FreeRun(m, c) # {}
    OBVIOUS
  <2>1. FreeRun(m, c) \subseteq Blocks /\ Convex(FreeRun(m, c))
    BY FreeRunFits
  <2>2. CASE FreeRun(m, c) # {}
    <3>1. Cardinality(FreeRun(m, c)) \in Nat \ {0}
      BY <2>1, <2>2, ConvexIs
    <3> QED
      BY <2>2, <3>1
  <2>3. CASE FreeRun(m, c) = {}
    BY <2>3, FS_EmptySet
  <2> QED
    BY <2>2, <2>3
<1>3. b \in fits
  BY <1>2, FreeRunFits
<1>4. fits \subseteq Nat /\ Min(fits) \in fits
  <2>1. fits \subseteq Nat
    BY MapTypes DEF Blocks
  <2> HIDE DEF fits
  <2> QED
    BY <1>3, <2>1, LeastPlace
<1>5. FreeRun(m, Min(fits)) # {}
  BY <1>2, <1>4
<1> QED
  BY <1>1, <1>3, <1>5

\* The first blocks of a run are a run.
LEMMA FirstOfFits ==
  ASSUME NEW R, R \subseteq Blocks, R # {}, Convex(R), NEW n \in Nat, n # 0, NEW q, q = FirstOf(R, n)
  PROVE  q \subseteq R /\ q # {} /\ Convex(q)
<1>1. q = {b \in R : b < Min(R) + n}
  BY DEF FirstOf
<1>2. Min(R) \in R /\ Min(R) \in Int
  <2> DEFINE a == Min(R)
  <2>1. a \in R
    BY ConvexIs
  <2> HIDE DEF a
  <2>2. a \in Nat
    BY <2>1, BlocksAre
  <2>3. a \in Int
    BY <2>2
  <2> QED
    BY <2>1, <2>3 DEF a
<1>3. Min(R) \in q
  BY <1>1, <1>2
<1>4. ASSUME NEW x \in q, NEW y \in q, NEW z \in x .. y PROVE z \in q
  <2>1. z \in R
    BY <1>1 DEF Convex
  <2>2. y \in Int /\ y < Min(R) + n /\ z \in Int /\ z <= y
    BY <1>1, MapTypes DEF Blocks
  <2>3. z < Min(R) + n
    BY <1>2, <2>2
  <2> QED
    BY <1>1, <2>1, <2>3
<1> QED
  BY <1>1, <1>3, <1>4 DEF Convex

\* What Allocate gives: free blocks, without a hole, that are in use from now on.
Given(m, g) ==
  /\ g.run \subseteq Blocks \ m.inUse /\ Cardinality(g.run) \in Nat \ {0}
  /\ g.run = Min(g.run) .. Min(g.run) + Cardinality(g.run) - 1 /\ Min(g.run) \in Nat
  /\ g.map \in [inUse : SUBSET Blocks, allocSize : Nat] /\ MapOK(g.map) /\ g.map.inUse = m.inUse \cup g.run

LEMMA AllocateFits ==
  ASSUME NEW m, MapOK(m), NEW want \in Nat, CanAllocateRun(m, want), NEW g, g = AllocateRun(m, want)
  PROVE  Given(m, g)
<1> DEFINE found == {j \in 0 .. WriteCluster : Served(m, want, j)}
           k == Min(found)
           size == DroppedSize(m, k)
           target == Min({want, size})
           n == IF target <= MinAllocation THEN 1 ELSE target
           R == FindRun(m, n)
           run == FirstOf(R, target)
<1>1. want # 0 /\ \E b \in Blocks : b \notin m.inUse
  BY DEF CanAllocateRun, MapOK
<1>2. found \subseteq Nat /\ WriteCluster \in found
  <2> DEFINE d == DroppedSize(m, WriteCluster)
  <2>1. d = MinAllocation
    BY DroppedFits, MapTypes
  <2> HIDE DEF d
  <2>2. Min({want, d}) <= MinAllocation
    BY <2>1, LesserOf, MapTypes
  <2> QED
    BY <2>2, MapTypes DEF Served, d
<1>3. k \in found /\ k \in Nat
  <2> HIDE DEF found
  <2> QED
    BY <1>2, LeastPlace
<1>4. size \in MinAllocation .. WriteCluster
  <2> HIDE DEF k
  <2> QED
    BY <1>3, DroppedFits
<1>5. target <= MinAllocation \/ R # {}
  <2>1. target <= MinAllocation \/ FindRun(m, target) # {}
    BY <1>3 DEF Served
  <2> HIDE DEF target
  <2> QED
    BY <2>1
<1>6. g = [run |-> run, map |-> [inUse |-> m.inUse \cup run, allocSize |-> size]]
  BY DEF AllocateRun, AllocateOf, TakeRun
<1> HIDE DEF size, k, found
<1>7. target \in Nat /\ target # 0
  <2>1. size \in Int /\ size >= 1
    BY <1>4, MapTypes
  <2>2. target \in Int /\ (target = want \/ target = size)
    BY <2>1, LesserOf
  <2> HIDE DEF target
  <2> QED
    BY <1>1, <2>1, <2>2
<1> HIDE DEF target
<1>8. R # {}
  <2>1. CASE target <= MinAllocation
    BY <1>1, <2>1, OneIsFound
  <2>2. CASE ~(target <= MinAllocation)
    BY <1>5, <2>2
  <2> QED
    BY <2>1, <2>2
<1>9. n \in Nat /\ n # 0
  BY <1>7
<1> HIDE DEF n
<1>10. R \subseteq Blocks \ m.inUse /\ Convex(R)
  BY <1>8, <1>9, FindRunFits
<1> HIDE DEF R
<1>11. run \subseteq R /\ run # {} /\ Convex(run)
  BY <1>7, <1>8, <1>10, FirstOfFits
<1> HIDE DEF run
<1>12. run \subseteq Blocks
  BY <1>10, <1>11
<1>13. Cardinality(run) \in Nat \ {0} /\ Min(run) \in run /\ run = Min(run) .. Min(run) + Cardinality(run) - 1
  BY <1>11, <1>12, ConvexIs
<1>14. Min(run) \in Nat
  BY <1>12, <1>13, BlocksAre
<1> DEFINE h == [inUse |-> m.inUse \cup run, allocSize |-> size]
<1>15. h \in [inUse : SUBSET Blocks, allocSize : Nat] /\ MapOK(h) /\ h.inUse = m.inUse \cup run
  BY <1>4, <1>12, MapTypes DEF MapOK
<1>16. g.run = run /\ g.map = h
  BY <1>6
<1> HIDE DEF h
<1> QED
  BY <1>10, <1>11, <1>13, <1>14, <1>15, <1>16 DEF Given

=============================================================================
