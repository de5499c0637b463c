----------------------------- MODULE PageFrames -----------------------------
(***************************************************************************)
(* The page frame database: where each frame of physical memory is, whose  *)
(* page it holds, and the free and modified page lists.  The database is   *)
(* a record, and every operation of it an operator that returns the        *)
(* changed record, so that the pager (module Pager), whose one step calls  *)
(* several of them, composes them; Spec makes each call a step of its own. *)
(*                                                                         *)
(* The lists, doubly linked through arrays in the code, are sequences of   *)
(* frames, head first.  A call refused with an error changes nothing: the  *)
(* conditions are the operators Can....                                    *)
(***************************************************************************)
EXTENDS Integers, Sequences, FiniteSets, SequencesExt

CONSTANTS
  Frames,     \* how many frames the database describes
  Owners,     \* the virtual pages a frame may be tied to
  NoOwner,    \* an untied frame's
  Stores,     \* the backing store addresses
  NoStore     \* no backing store: the zero Backing

ASSUME FramesAssumption == Frames \in Nat
ASSUME OwnersAssumption == NoOwner \notin Owners
ASSUME StoresAssumption == NoStore \in Stores

VARIABLE db   \* the database

PFN == 0 .. Frames - 1

Types == {"process", "global", "system"}

FrameRecord ==
  [state : {"free", "modified", "active"}, type : Types,
   tied : BOOLEAN, owner : Owners \cup {NoOwner}, backing : Stores,
   refs : Int, shares : Int, saved : BOOLEAN]

DatabaseRecord ==
  [free : Seq(PFN), modified : Seq(PFN),
   entry : [PFN -> FrameRecord], active : [Types -> Int]]

-----------------------------------------------------------------------------
(* Records and lists. *)

\* The zero Entry: a frame never used, or whose page was deleted.
Blank ==
  [state |-> "free", type |-> "process", tied |-> FALSE, owner |-> NoOwner,
   backing |-> NoStore, refs |-> 0, shares |-> 0, saved |-> FALSE]

SystemPage == [Blank EXCEPT !.type = "system", !.refs = 1]

TiedPage(type, owner, store) ==
  [Blank EXCEPT !.type = type, !.tied = TRUE, !.owner = owner, !.backing = store, !.refs = 1]

Without(q, p) == RemoveAt(q, CHOOSE i \in 1 .. Len(q) : q[i] = p)

\* unlink, from the list the frame's state names.
Unlink(d, p) ==
  IF d.entry[p].state = "free" THEN [d EXCEPT !.free = Without(@, p)]
  ELSE [d EXCEPT !.modified = Without(@, p)]

\* activate: p, off every list, becomes active with the record e.
Activate(d, p, e) ==
  [d EXCEPT !.entry[p] = [e EXCEPT !.state = "active"], !.active[e.type] = @ + 1]

\* A frame that stops being active is counted no longer.
Uncount(d, p) == [d EXCEPT !.active[d.entry[p].type] = @ - 1]

\* New: every frame free, in order, tied to nothing.
NewDatabase ==
  [free |-> [i \in 1 .. Frames |-> i - 1], modified |-> <<>>,
   entry |-> [p \in PFN |-> Blank], active |-> [t \in Types |-> 0]]

-----------------------------------------------------------------------------
(* The operations. *)

IsActive(d, p) == d.entry[p].state = "active"

CanReserve(d, p) == d.entry[p].state = "free"
Reserve(d, p) == Activate(Unlink(d, p), p, SystemPage)

\* Allocate and AllocateSystem take the frame at the free list's head; its old
\* tie is broken, which the owner's page table must be told (Pager's BreakTie).
CanAllocate(d) == d.free # <<>>
NextFrame(d) == Head(d.free)
Allocate(d, type, owner, store) ==
  Activate(Unlink(d, NextFrame(d)), NextFrame(d), TiedPage(type, owner, store))
AllocateSystem(d) == Reserve(d, NextFrame(d))

CanMakeSystem(d, p) ==
  /\ IsActive(d, p) /\ ~(d.entry[p].type = "system" /\ ~d.entry[p].tied)
  /\ d.entry[p].refs = 1 /\ d.entry[p].shares = 0
MakeSystem(d, p) == Activate(Uncount(d, p), p, SystemPage)

Hold(d, p) == [d EXCEPT !.entry[p].refs = @ + 1]

\* dropReference: the last one sends the frame to the tail of the list its
\* saved modify bit chooses.
DropReference(d, p) ==
  LET e == d.entry[p] IN
  IF e.refs > 1 THEN [d EXCEPT !.entry[p].refs = @ - 1]
  ELSE IF e.saved THEN
    [Uncount(d, p) EXCEPT !.entry[p] = [e EXCEPT !.refs = @ - 1, !.state = "modified"],
                          !.modified = Append(@, p)]
  ELSE
    [Uncount(d, p) EXCEPT !.entry[p] = [e EXCEPT !.refs = @ - 1, !.state = "free"],
                          !.free = Append(@, p)]

CanRelease(d, p) ==
  IsActive(d, p) /\ d.entry[p].tied /\ ~(d.entry[p].refs = 1 /\ d.entry[p].shares > 0)
Release(d, p, modified) ==
  DropReference([d EXCEPT !.entry[p].saved = @ \/ modified], p)

CanShare(d, p) == IsActive(d, p) /\ d.entry[p].type = "global"
Share(d, p) ==
  LET e == d.entry[p] IN
  [d EXCEPT !.entry[p] = [e EXCEPT !.refs = IF e.shares = 0 THEN @ + 1 ELSE @, !.shares = @ + 1]]

CanShareFirst(d, p) == CanShare(d, p) /\ d.entry[p].refs = 1 /\ d.entry[p].shares = 0
ShareFirst(d, p) == [d EXCEPT !.entry[p].shares = 1]

CanUnshare(d, p) == IsActive(d, p) /\ d.entry[p].shares # 0
Unshare(d, p, modified) ==
  LET e == d.entry[p]
      unshared == [d EXCEPT !.entry[p] = [e EXCEPT !.saved = @ \/ modified, !.shares = @ - 1]] IN
  IF unshared.entry[p].shares = 0 THEN DropReference(unshared, p) ELSE unshared

CanReclaim(d, p) == ~IsActive(d, p) /\ d.entry[p].tied
Reclaim(d, p) == Activate(Unlink(d, p), p, [d.entry[p] EXCEPT !.refs = 1])

\* Delete: the page is gone, and its frame is reused first.
CanDelete(d, p) == IsActive(d, p) => d.entry[p].refs = 1 /\ d.entry[p].shares = 0
Delete(d, p) ==
  LET gone == IF IsActive(d, p) THEN Uncount(d, p) ELSE Unlink(d, p) IN
  [gone EXCEPT !.entry[p] = Blank, !.free = <<p>> \o @]

CanSetBacking(d, p) == d.entry[p].tied
SetBacking(d, p, store) == [d EXCEPT !.entry[p].backing = store]

SetModified(d, p) == [d EXCEPT !.entry[p].saved = TRUE]
ClearModified(d, p) == [d EXCEPT !.entry[p].saved = FALSE]

\* Mutant: a cleaned frame that keeps its saved modify bit.
CleanedStillSaved(d, p) ==
  [Unlink(d, p) EXCEPT !.entry[p].state = "free", !.free = Append(@, p)]

CanClean(d, p) == d.entry[p].state = "modified"
Cleaned(d, p) ==
  [Unlink(d, p) EXCEPT !.entry[p] = [@ EXCEPT !.saved = FALSE, !.state = "free"],
                       !.free = Append(@, p)]

-----------------------------------------------------------------------------
(* The database by itself: any caller that ties a page to one frame at a   *)
(* time, which is the callers' part of the bargain (the comment on Owner). *)

TiedTo(d, type, owner) == \E p \in PFN : d.entry[p].tied /\ d.entry[p].type = type /\ d.entry[p].owner = owner

DbInit == db = NewDatabase

TakeFrame ==
  \/ \E p \in PFN : CanReserve(db, p) /\ db' = Reserve(db, p)
  \/ CanAllocate(db) /\ db' = AllocateSystem(db)
  \/ \E type \in Types, owner \in Owners, store \in Stores :
       /\ CanAllocate(db)
       /\ ~TiedTo(db, type, owner)
       /\ db' = Allocate(db, type, owner, store)

\* A reclaimed frame was tied all along, so its page is in no other.
UseFrame(p) ==
  \/ IsActive(db, p) /\ db' = Hold(db, p)
  \/ CanShare(db, p) /\ db' = Share(db, p)
  \/ CanShareFirst(db, p) /\ db' = ShareFirst(db, p)
  \/ CanMakeSystem(db, p) /\ db' = MakeSystem(db, p)
  \/ CanReclaim(db, p) /\ db' = Reclaim(db, p)

LetGo(p) ==
  \/ \E modified \in BOOLEAN : CanRelease(db, p) /\ db' = Release(db, p, modified)
  \/ \E modified \in BOOLEAN : CanUnshare(db, p) /\ db' = Unshare(db, p, modified)
  \/ CanDelete(db, p) /\ db' = Delete(db, p)

Record(p) ==
  \/ \E store \in Stores : CanSetBacking(db, p) /\ db' = SetBacking(db, p, store)
  \/ IsActive(db, p) /\ db' = SetModified(db, p)
  \/ IsActive(db, p) /\ db' = ClearModified(db, p)
  \/ CanClean(db, p) /\ db' = Cleaned(db, p)

DbNext == TakeFrame \/ \E p \in PFN : UseFrame(p) \/ LetGo(p) \/ Record(p)

DbSpec == DbInit /\ [][DbNext]_db

-----------------------------------------------------------------------------
(* The rules Database.Check verifies. *)

\* Each frame is in one place: once on the list its state names, or on none.
ListsMatchStates ==
  /\ IsInjective(db.free) /\ IsInjective(db.modified)
  /\ ToSet(db.free) = {p \in PFN : db.entry[p].state = "free"}
  /\ ToSet(db.modified) = {p \in PFN : db.entry[p].state = "modified"}

\* A listed frame has no reference; its saved modify bit is its list, and a
\* modified one has somewhere to go.  An active one has a reference, and only
\* a global page shares.
RecordsMatchStates ==
  \A p \in PFN : LET e == db.entry[p] IN
    /\ e.state # "active" => /\ e.refs = 0 /\ e.shares = 0
                             /\ e.saved <=> e.state = "modified"
                             /\ e.state = "modified" => e.tied
    /\ e.state = "active" => /\ e.refs >= 1 /\ e.shares >= 0
                             /\ e.shares > 0 => e.type = "global"
    /\ ~e.tied => e.owner = NoOwner /\ e.backing = NoStore

\* A virtual page is in one frame at a time.
OneFramePerPage ==
  \A p, q \in PFN :
    /\ db.entry[p].tied /\ db.entry[q].tied
    /\ db.entry[p].type = db.entry[q].type /\ db.entry[p].owner = db.entry[q].owner
    => p = q

\* The counts of active frames match the frames.
CountsMatchFrames ==
  \A t \in Types :
    db.active[t] = Cardinality({p \in PFN : db.entry[p].state = "active" /\ db.entry[p].type = t})

\* Database.Check: the page frame database's own rules, broken by a frame on
\* two lists or none, a lost reference, or a page in two frames.
Check ==
  ListsMatchStates /\ RecordsMatchStates /\ OneFramePerPage /\ CountsMatchFrames

=============================================================================
