----------------------------- MODULE PagerProofs -----------------------------
(***************************************************************************)
(* The proofs about Pager. A step of it is one service or one instruction, *)
(* and calls many routines, so the lemmas follow the state the routines    *)
(* hand on (State), each saying what its call keeps.                       *)
(*                                                                         *)
(* PagingInv, the inductive invariant, says more than the properties it    *)
(* proves. Fair: what every page table entry, frame and block of the page  *)
(* file says agrees with the others (PageOK, FrameOK, BlocksFit), so that  *)
(* no frame or block has two pages. Listed: the working set lists are the  *)
(* valid pages. The rest of it: what a page holds, wherever it is kept     *)
(* (Seen), is what its program last put there. A frame's contents and its  *)
(* copy in a store must be known to agree whenever the frame is            *)
(* unmodified, or the next reuse of that frame would lose a change; that   *)
(* clause is FrameOK's, and no property says it.                           *)
(*                                                                         *)
(* Inside a step neither half holds as it stands: the modified page writer *)
(* takes the blocks of a run before it gives them to pages (the spare      *)
(* blocks of Fair), and a page enters its list before it is valid          *)
(* (Listed's entered ones). Routines are sorted by what they leave alone:  *)
(* Still, what a program sees; Settled, also the page tables and the       *)
(* lists; Quiet, also the place of each page translated in this            *)
(* instruction; Calm, the same for calls that translate another. Kept adds *)
(* that the lists a boundary is yet to trim are still right.               *)
(***************************************************************************)
EXTENDS Pager, PagingDataProofs

-----------------------------------------------------------------------------
(* A state s of the pager's, as its routines hand it on. *)

\* The pages there are.
On(s) == DOMAIN s.mapped

Data == {0} \cup (UNION {Values[o] : o \in Owners}) \cup {FileValue[o] : o \in Owners}

PTE == [form : {"valid", "transition", "pageFile", "section"}, at : Int, modified : BOOLEAN]

States(E) ==
  [db : DatabaseRecord, pte : [E -> PTE], mapped : [E -> SectionKinds],
   ws : [Procs -> ListRecord], ram : [PFN -> Data], disk : [Blocks -> Data], file : [E -> Data],
   map : [inUse : SUBSET Blocks, allocSize : Nat], pageFile : {"unopened", "open", "failed"},
   stuck : [writer : Nat, reclaimer : Nat, full : BOOLEAN], boundary : BOOLEAN,
   touched : SUBSET PFN, asked : [E -> Data], inTB : SUBSET Pages]

Typed(s) == On(s) \subseteq Owners /\ s \in States(On(s))

PagesFor(s, p) == {v \in Pages : <<p, v>> \in On(s)}

\* Where a page that has a frame may be kept when it has none.
StoresOf(o) == {InPageFile(b) : b \in 0 .. FileSize} \cup {InSection(o)}

Stored(s, store, o) ==
  IF store.kind = "section" THEN s.file[o] ELSE IF store.at = 0 THEN 0 ELSE s.disk[store.at]

HasFrame(s, o) == s.pte[o].form \in {"valid", "transition"}

\* A page table entry says where the page is, and only a valid one is modified.
PageOK(s, o) ==
  LET P == s.pte[o]
      e == s.db.entry[P.at]
  IN /\ HasFrame(s, o) => P.at \in PFN /\ e.tied /\ e.owner = o /\ (e.state = "active" <=> P.form = "valid")
     /\ P.form = "pageFile" => P.at \in 0 .. FileSize /\ s.mapped[o] # "writeBack"
     /\ P.form # "valid" => ~P.modified

\* A frame that holds a page is the page's; unmodified, it holds what the page's store does.
FrameOK(s, f) ==
  LET e == s.db.entry[f]
      P == s.pte[e.owner]
  IN e.tied => /\ e.owner \in On(s) /\ e.type = "process" /\ HasFrame(s, e.owner) /\ P.at = f
               /\ e.state = "active" => e.refs = 1
               /\ e.backing \in StoresOf(e.owner)
               /\ e.backing.kind = "pageFile" => s.mapped[e.owner] # "writeBack"
               /\ ~e.saved /\ ~P.modified => s.ram[f] = Stored(s, e.backing, e.owner)

PagesFit(s) == \A o \in On(s) : PageOK(s, o)
FramesFit(s) == \A f \in PFN : FrameOK(s, f)

ListsFit(s) == \A p \in Procs : Sized(s.ws[p]) /\ PagesIn(s.ws[p]) \subseteq PagesFor(s, p)

\* The block a page holds.
Held(s, o) ==
  IF s.pte[o].form = "pageFile" THEN s.pte[o].at
  ELSE IF s.pte[o].form # "section" /\ s.db.entry[s.pte[o].at].backing.kind = "pageFile"
    THEN s.db.entry[s.pte[o].at].backing.at ELSE 0

\* The blocks in use are those that one page holds, and the spare ones, given to none yet.
BlocksFit(s, spare) ==
  /\ MapOK(s.map) /\ spare \subseteq s.map.inUse
  /\ \A o \in On(s) : Held(s, o) # 0 => Held(s, o) \in s.map.inUse \ spare
  /\ \A b \in s.map.inUse \ spare : \E o \in On(s) : Held(s, o) = b
  /\ \A o, q \in On(s) : Held(s, o) = Held(s, q) /\ Held(s, o) # 0 => o = q
  /\ s.map.inUse # {} => s.pageFile = "open"

\* What holds between any two calls of the pager's routines.
Fair(s, spare) ==
  Typed(s) /\ InPlace(s.db, PFN) /\ PagesFit(s) /\ FramesFit(s) /\ ListsFit(s) /\ BlocksFit(s, spare)

\* The lists are the valid pages, and those entered and not valid yet.
Listed(s, entered) ==
  \A o \in On(s) : o[2] \in PagesIn(s.ws[o[1]]) <=> IsValid(s, o) \/ o \in entered

\* What a program reads in a page.
Seen(s, o) ==
  IF HasFrame(s, o) THEN s.ram[s.pte[o].at]
  ELSE IF s.pte[o].form = "section" THEN s.file[o]
  ELSE IF s.pte[o].at = 0 THEN 0 ELSE s.disk[s.pte[o].at]

\* What the pager leaves alone, and what it may not be seen to change.
Still(s, t) ==
  /\ t.mapped = s.mapped /\ t.asked = s.asked /\ t.touched = s.touched /\ t.inTB = s.inTB
  /\ \A o \in On(s) : Seen(t, o) = Seen(s, o)
  /\ \A o \in On(s) : s.mapped[o] # "writeBack" => t.file[o] = s.file[o]

\* The modified page writer's calls leave the page tables and the lists alone.
Settled(s, t) == Still(s, t) /\ t.pte = s.pte /\ t.ws = s.ws

\* Other calls leave the pages translated in this instruction where they are.
Stays(s, t, o) == t.pte[o].form = "valid" /\ t.pte[o].at = s.pte[o].at

Quiet(s, t) ==
  Still(s, t) /\ \A o \in On(s) : IsValid(s, o) /\ s.pte[o].at \in s.touched => Stays(s, t, o)

\* A change of the pages in O, the frames in F and the blocks in D.
ChangedAt(s, t, O, F, D) ==
  /\ On(t) = On(s)
  /\ \A q \in On(s) \ O : t.pte[q] = s.pte[q] /\ t.mapped[q] = s.mapped[q] /\ t.file[q] = s.file[q]
  /\ \A g \in PFN \ F : t.db.entry[g] = s.db.entry[g] /\ t.ram[g] = s.ram[g]
  /\ \A b \in Blocks \ D : t.disk[b] = s.disk[b]

\* No other page has one of the frames or blocks, and none of the pages another frame.
Theirs(s, O, F, D) ==
  /\ \A g \in F : s.db.entry[g].tied => s.db.entry[g].owner \in O
  /\ \A q \in O \cap On(s) : HasFrame(s, q) => s.pte[q].at \in F
  /\ \A q \in On(s) \ O : Held(s, q) \notin D

\* What a change leaves as it was.
Elsewhere(s, t, O) ==
  \A q \in On(s) \ O : PageOK(t, q) /\ Held(t, q) = Held(s, q) /\ Seen(t, q) = Seen(s, q)

LEMMA ElsewhereFits ==
  ASSUME NEW s, Typed(s), PagesFit(s), FramesFit(s), NEW t, NEW O, NEW F, NEW D,
         ChangedAt(s, t, O, F, D), Theirs(s, O, F, D)
  PROVE  Elsewhere(s, t, O) /\ \A g \in PFN \ F : FrameOK(t, g)
<1>1. ASSUME NEW q \in On(s) \ O
      PROVE  PageOK(t, q) /\ Held(t, q) = Held(s, q) /\ Seen(t, q) = Seen(s, q)
  <2>1. t.pte[q] = s.pte[q] /\ t.mapped[q] = s.mapped[q] /\ t.file[q] = s.file[q]
    BY <1>1 DEF ChangedAt
  <2>2. PageOK(s, q)
    BY <1>1 DEF PagesFit
  <2>3. HasFrame(s, q) => s.pte[q].at \in PFN \ F
    BY <1>1, <2>2 DEF PageOK, Theirs
  <2>4. HasFrame(s, q) => t.db.entry[s.pte[q].at] = s.db.entry[s.pte[q].at] /\ t.ram[s.pte[q].at] = s.ram[s.pte[q].at]
    BY <2>3 DEF ChangedAt
  <2>5. s.pte[q].form \in {"valid", "transition", "pageFile", "section"}
    BY <1>1 DEF Typed, States, PTE
  <2>6. PageOK(t, q) /\ Held(t, q) = Held(s, q)
    BY <2>1, <2>2, <2>4, <2>5 DEF PageOK, HasFrame, Held
  <2>7. s.pte[q].form = "pageFile" /\ s.pte[q].at # 0 => t.disk[s.pte[q].at] = s.disk[s.pte[q].at]
    <3>1. s.pte[q].form = "pageFile" => Held(s, q) = s.pte[q].at /\ s.pte[q].at \in 0 .. FileSize
      BY <2>2 DEF Held, PageOK
    <3> QED
      BY <1>1, <3>1, MapTypes DEF ChangedAt, Theirs, Blocks
  <2>8. Seen(t, q) = Seen(s, q)
    BY <2>1, <2>4, <2>5, <2>7 DEF Seen, HasFrame
  <2> QED
    BY <2>6, <2>8
<1>2. ASSUME NEW g \in PFN \ F
      PROVE  FrameOK(t, g)
  <2> DEFINE e == s.db.entry[g]
             o == e.owner
  <2>1. t.db.entry[g] = e /\ t.ram[g] = s.ram[g] /\ FrameOK(s, g)
    BY <1>2 DEF ChangedAt, FramesFit
  <2>2. SUFFICES ASSUME e.tied PROVE FrameOK(t, g)
    BY <2>1 DEF FrameOK
  <2>3. o \in On(s) /\ HasFrame(s, o) /\ s.pte[o].at = g /\ e.backing \in StoresOf(o)
    BY <2>1, <2>2 DEF FrameOK
  <2>4. o \notin O
    BY <1>2, <2>3 DEF Theirs
  <2>5. t.pte[o] = s.pte[o] /\ t.mapped[o] = s.mapped[o] /\ t.file[o] = s.file[o]
    BY <2>3, <2>4 DEF ChangedAt
  <2>6. Stored(t, e.backing, o) = Stored(s, e.backing, o)
    <3>1. CASE e.backing.kind = "section"
      BY <2>5, <3>1 DEF Stored
    <3>2. CASE e.backing.kind # "section"
      <4>1. e.backing.kind = "pageFile" /\ e.backing.at \in 0 .. FileSize
        BY <2>3, <3>2 DEF StoresOf, InPageFile, InSection
      <4>2. Held(s, o) = e.backing.at
        BY <2>3, <4>1 DEF Held, HasFrame
      <4> QED
        BY <2>3, <2>4, <3>2, <4>1, <4>2, MapTypes DEF Stored, ChangedAt, Theirs, Blocks
    <3> QED
      BY <3>1, <3>2
  <2>7. On(t) = On(s) /\ HasFrame(t, o)
    BY <2>3, <2>5 DEF ChangedAt, HasFrame
  <2> HIDE DEF o
  <2>8. t.db.entry[g].owner = o
    BY <2>1 DEF o
  <2> QED
    BY <2>1, <2>2, <2>3, <2>5, <2>6, <2>7, <2>8 DEF FrameOK
<1> QED
  BY <1>1, <1>2 DEF Elsewhere

\* A change of one page and its frame.
LEMMA OnePageFits ==
  ASSUME NEW s, Typed(s), PagesFit(s), FramesFit(s), NEW t, NEW o \in On(s), NEW f \in PFN, NEW D,
         ChangedAt(s, t, {o}, {f}, D), Theirs(s, {o}, {f}, D), PageOK(t, o), FrameOK(t, f)
  PROVE  PagesFit(t) /\ FramesFit(t) /\ Elsewhere(s, t, {o})
BY ElsewhereFits DEF PagesFit, FramesFit, Elsewhere, ChangedAt

\* The page the frame f is tied to.
Holds(s, f, o) == s.db.entry[f].tied /\ s.db.entry[f].owner = o

\* The page and its frame are each other's, and hold no spare block.
LEMMA OwnFrame ==
  ASSUME NEW s, NEW K, Fair(s, K), NEW f \in PFN, NEW o, Holds(s, f, o), NEW D, D \subseteq K
  PROVE  o \in On(s) /\ s.pte[o].at = f /\ Theirs(s, {o}, {f}, D)
<1>1. FrameOK(s, f)
  BY DEF Fair, FramesFit
<1>2. \A q \in On(s) : Held(s, q) \notin K
  <2>1. 0 \notin K
    BY BlocksAre DEF Fair, BlocksFit, MapOK
  <2> QED
    BY <2>1 DEF Fair, BlocksFit
<1> QED
  BY <1>1, <1>2 DEF FrameOK, Theirs, Holds

-----------------------------------------------------------------------------
(* The blocks. *)

LEMMA BlocksStay ==
  ASSUME NEW s, NEW K, BlocksFit(s, K), NEW t, On(t) = On(s), t.map = s.map,
         s.map.inUse # {} => t.pageFile = "open",
         \A q \in On(s) : Held(t, q) = Held(s, q)
  PROVE  BlocksFit(t, K)
BY DEF BlocksFit

\* A page gives its block back, and takes a spare one or none.
LEMMA BlocksMove ==
  ASSUME NEW s, NEW K, BlocksFit(s, K), NEW t, NEW o \in On(s), On(t) = On(s), MapOK(t.map),
         t.pageFile = s.pageFile, t.map.inUse = s.map.inUse \ {Held(s, o)},
         Held(t, o) \in {0} \cup K, \A q \in On(s) \ {o} : Held(t, q) = Held(s, q)
  PROVE  BlocksFit(t, K \ {Held(t, o)})
<1>1. 0 \notin s.map.inUse /\ K \subseteq s.map.inUse
  BY BlocksAre DEF BlocksFit, MapOK
<1>2. K \ {Held(t, o)} \subseteq t.map.inUse
  BY <1>1 DEF BlocksFit
<1>3. ASSUME NEW q \in On(t), Held(t, q) # 0
      PROVE  Held(t, q) \in t.map.inUse \ (K \ {Held(t, o)})
  BY <1>1, <1>3 DEF BlocksFit
<1>4. ASSUME NEW b \in t.map.inUse \ (K \ {Held(t, o)})
      PROVE  \E q \in On(t) : Held(t, q) = b
  BY <1>4 DEF BlocksFit
<1>5. ASSUME NEW q \in On(t), NEW r \in On(t), Held(t, q) = Held(t, r), Held(t, q) # 0
      PROVE  q = r
  BY <1>1, <1>5 DEF BlocksFit
<1> QED
  BY <1>2, <1>3, <1>4, <1>5 DEF BlocksFit

-----------------------------------------------------------------------------
(* The page file. *)

\* Freeing blocks changes the map, and wakes the writer if the file was full.
SameButMap(s, t) ==
  /\ t.db = s.db /\ t.pte = s.pte /\ t.mapped = s.mapped /\ t.ws = s.ws /\ t.ram = s.ram /\ t.disk = s.disk
  /\ t.file = s.file /\ t.pageFile = s.pageFile /\ t.touched = s.touched /\ t.asked = s.asked /\ t.inTB = s.inTB

LEMMA FreePageFileIs ==
  ASSUME NEW s, Typed(s), MapOK(s.map), NEW run, run \subseteq s.map.inUse,
         s.map.inUse # {} => s.pageFile = "open", NEW t, t = FreePageFile(s, run)
  PROVE  Typed(t) /\ SameButMap(s, t) /\ MapOK(t.map) /\ t.map.inUse = s.map.inUse \ run
<1> DEFINE m == FreeBlocks(s.map, run)
           k == [writer |-> 0, reclaimer |-> 0, full |-> FALSE]
<1>1. s.map \in [inUse : SUBSET Blocks, allocSize : Nat]
  BY DEF Typed, States
<1>2. m \in [inUse : SUBSET Blocks, allocSize : Nat] /\ MapOK(m) /\ m.inUse = s.map.inUse \ run
  BY <1>1, FreeFits
<1>3. k \in [writer : Nat, reclaimer : Nat, full : BOOLEAN]
  OBVIOUS
<1>4. CASE run = {}
  BY <1>4 DEF FreePageFile, SameButMap
<1>5. CASE run # {}
  <2>1. t = [s EXCEPT !.map = m] \/ t = [[s EXCEPT !.map = m] EXCEPT !.stuck = k]
    BY <1>5 DEF FreePageFile, CanFreeRun
  <2> HIDE DEF m, k
  <2>2. t = [s EXCEPT !.map = m] \/ t = [s EXCEPT !.map = m, !.stuck = k]
    BY <2>1
  <2>3. s \in States(On(s)) /\ On(s) \subseteq Owners
    BY DEF Typed
  <2>4. t.map = m /\ t.mapped = s.mapped /\ SameButMap(s, t)
    BY <2>2, <2>3, ZenonT(60) DEF States, SameButMap
  <2>5. t \in States(On(s))
    <3>1. CASE t = [s EXCEPT !.map = m]
      BY <1>2, <2>3, <3>1 DEF States
    <3>2. CASE t = [s EXCEPT !.map = m, !.stuck = k]
      BY <1>2, <1>3, <2>3, <3>2 DEF States
    <3> QED
      BY <2>2, <3>1, <3>2
  <2> QED
    BY <1>2, <2>3, <2>4, <2>5 DEF Typed, On
<1> QED
  BY <1>4, <1>5

\* States that differ in nothing the pages, frames and lists are stated of.
SameMemory(s, t) ==
  /\ t.db = s.db /\ t.pte = s.pte /\ t.mapped = s.mapped /\ t.ram = s.ram /\ t.disk = s.disk /\ t.file = s.file

LEMMA SameMemoryFits ==
  ASSUME NEW s, NEW t, SameMemory(s, t)
  PROVE  /\ On(t) = On(s)
         /\ PagesFit(s) => PagesFit(t)
         /\ FramesFit(s) => FramesFit(t)
         /\ \A o \in On(s) : Held(t, o) = Held(s, o) /\ Seen(t, o) = Seen(s, o)
         /\ ListsFit(s) /\ t.ws = s.ws => ListsFit(t)
<1>1. On(t) = On(s)
  BY DEF SameMemory, On
<1>2. \A o : PageOK(s, o) <=> PageOK(t, o)
  BY DEF SameMemory, PageOK, HasFrame
<1>3. \A f : FrameOK(s, f) <=> FrameOK(t, f)
  BY <1>1 DEF SameMemory, FrameOK, HasFrame, Stored
<1>4. \A o : Held(t, o) = Held(s, o) /\ Seen(t, o) = Seen(s, o)
  BY DEF SameMemory, Held, Seen, HasFrame
<1>5. \A p : PagesFor(t, p) = PagesFor(s, p)
  BY <1>1 DEF PagesFor
<1> QED
  BY <1>1, <1>2, <1>3, <1>4, <1>5 DEF PagesFit, FramesFit, ListsFit

\* Spare blocks given back.
LEMMA FreeSpareFits ==
  ASSUME NEW s, NEW K, Fair(s, K), NEW run, run \subseteq K, NEW t, t = FreePageFile(s, run)
  PROVE  Fair(t, K \ run) /\ Settled(s, t)
<1>1. K \subseteq s.map.inUse /\ MapOK(s.map) /\ (s.map.inUse # {} => s.pageFile = "open")
  BY DEF Fair, BlocksFit
<1>2. Typed(t) /\ SameButMap(s, t) /\ MapOK(t.map) /\ t.map.inUse = s.map.inUse \ run
  BY <1>1, FreePageFileIs DEF Fair
<1>3. SameMemory(s, t)
  BY <1>2 DEF SameButMap, SameMemory
<1>4. /\ On(t) = On(s) /\ PagesFit(t) /\ FramesFit(t) /\ ListsFit(t)
      /\ \A o \in On(s) : Held(t, o) = Held(s, o) /\ Seen(t, o) = Seen(s, o)
  BY <1>2, <1>3, SameMemoryFits DEF Fair, SameButMap
<1>5. BlocksFit(t, K \ run)
  BY <1>1, <1>2, <1>4 DEF Fair, BlocksFit, SameButMap
<1> QED
  BY <1>2, <1>4, <1>5 DEF Fair, Settled, Still, SameButMap

\* States that differ in the writer's counts, the boundary, what is noted, and the
\* page file's state, once it is open for good.
LEMMA PlainFits ==
  ASSUME NEW s, NEW K, Fair(s, K), NEW t, SameMemory(s, t), t.map = s.map, t.ws = s.ws, t \in States(On(s)),
         s.pageFile # "unopened" => t.pageFile = s.pageFile
  PROVE  Fair(t, K) /\ \A o \in On(s) : Seen(t, o) = Seen(s, o)
<1>1. /\ On(t) = On(s) /\ PagesFit(t) /\ FramesFit(t) /\ ListsFit(t)
      /\ \A o \in On(s) : Held(t, o) = Held(s, o) /\ Seen(t, o) = Seen(s, o)
  BY SameMemoryFits DEF Fair
<1>2. Typed(t)
  BY <1>1 DEF Fair, Typed
<1>3. s.map.inUse # {} => t.pageFile = "open"
  BY DEF Fair, BlocksFit
<1>4. BlocksFit(t, K)
  BY <1>1, <1>3, BlocksStay DEF Fair
<1> QED
  BY <1>1, <1>2, <1>4 DEF Fair, SameMemory

\* What makes the record e right for the page o in the frame f.
RecordFits(t, f, o, e) ==
  /\ o \in On(t) /\ e.owner = o /\ e.type = "process" /\ HasFrame(t, o) /\ t.pte[o].at = f
  /\ e.state = "active" => e.refs = 1
  /\ e.backing \in StoresOf(o)
  /\ e.backing.kind = "pageFile" => t.mapped[o] # "writeBack"
  /\ ~e.saved /\ ~t.pte[o].modified => t.ram[f] = Stored(t, e.backing, o)

LEMMA FrameIs ==
  ASSUME NEW t, NEW f, NEW o, RecordFits(t, f, o, t.db.entry[f])
  PROVE  FrameOK(t, f)
BY DEF RecordFits, FrameOK

LEMMA FrameHas ==
  ASSUME NEW t, NEW f, FrameOK(t, f), t.db.entry[f].tied
  PROVE  RecordFits(t, f, t.db.entry[f].owner, t.db.entry[f])
BY DEF RecordFits, FrameOK

LEMMA PageFileStores ==
  \A b \in 0 .. FileSize, o \in Owners :
    InPageFile(b) \in Stores /\ InPageFile(b) \in StoresOf(o) /\ InSection(o) \in Stores /\ InSection(o) \in StoresOf(o)
<1> SUFFICES ASSUME NEW b \in 0 .. FileSize, NEW o \in Owners
             PROVE  InPageFile(b) \in Stores /\ InPageFile(b) \in StoresOf(o) /\ InSection(o) \in Stores /\ InSection(o) \in StoresOf(o)
  OBVIOUS
<1>1. InPageFile(b) \in [kind : {"pageFile"}, at : 0 .. FileSize]
  BY DEF InPageFile
<1>2. o[2] \in Pages
  BY PagerAssumption
<1>3. InSection(o) \in [kind : {"section"}, at : Pages]
  BY <1>2 DEF InSection
<1> QED
  BY <1>1, <1>3, PagerAssumption DEF StoresOf

LEMMA ZeroBlock == 0 \in 0 .. FileSize
BY MapTypes

Backed(u, f) == [u EXCEPT !.db = SetBacking(@, f, InPageFile(0))]

\* A saved frame's page gets the page file for its store, and no block there yet.
LEMMA RebackedFits ==
  ASSUME NEW s, NEW K, Fair(s, K), NEW f \in PFN, NEW o, Holds(s, f, o), s.db.entry[f].saved,
         s.mapped[o] # "writeBack",
         NEW u, Typed(u), SameButMap(s, u), MapOK(u.map), u.map.inUse = s.map.inUse \ {Held(s, o)},
         NEW t, t = Backed(u, f)
  PROVE  /\ Fair(t, K) /\ Settled(s, t)
         /\ t.db.entry = Put(s.db.entry, f, [s.db.entry[f] EXCEPT !.backing = InPageFile(0)])
<1> DEFINE v == SetBacking(s.db, f, InPageFile(0))
           e == s.db.entry[f]
           g == [e EXCEPT !.backing = InPageFile(0)]
<1>1. o \in On(s) /\ s.pte[o].at = f /\ Theirs(s, {o}, {f}, {})
  <2>1. {} \subseteq K
    OBVIOUS
  <2> QED
    BY <2>1, OwnFrame
<1>2. FrameOK(s, f) /\ PageOK(s, o) /\ o \in Owners /\ HasFrame(s, o)
  <2>1. FrameOK(s, f) /\ PageOK(s, o) /\ o \in Owners
    BY <1>1 DEF Fair, FramesFit, PagesFit, Typed
  <2> QED
    BY <2>1 DEF FrameOK, Holds
<1>3. /\ InPageFile(0) \in Stores /\ InPageFile(0) \in StoresOf(o) /\ InPageFile(0).kind = "pageFile" /\ InPageFile(0).at = 0
  BY <1>2, PageFileStores, ZeroBlock DEF InPageFile
<1>4. InPlace(v, PFN) /\ v.entry = [s.db.entry EXCEPT ![f] = g]
  BY <1>3, SetBackingIs DEF Fair, Holds
<1>5. e \in FrameRecord /\ s.db.entry \in [PFN -> FrameRecord]
  BY PlacedTypes DEF Fair
<1>6. v.entry[f] = g /\ (\A h \in PFN \ {f} : v.entry[h] = s.db.entry[h]) /\ g.backing = InPageFile(0) /\ g.tied /\ g.saved /\ g.owner = o
      /\ g.state = e.state /\ g.type = e.type /\ g.refs = e.refs
  BY <1>4, <1>5 DEF FrameRecord, Holds
<1>7. u.db = s.db /\ u \in States(On(u)) /\ On(u) = On(s) /\ On(u) \subseteq Owners
  BY DEF SameButMap, Typed, On
<1>8. t = [u EXCEPT !.db = v]
  BY <1>7 DEF Backed
<1> HIDE DEF v, g
<1>9. /\ t.db = v /\ t.pte = s.pte /\ t.mapped = s.mapped /\ t.ws = s.ws /\ t.ram = s.ram /\ t.disk = s.disk
      /\ t.file = s.file /\ t.pageFile = s.pageFile /\ t.touched = s.touched /\ t.asked = s.asked /\ t.inTB = s.inTB
      /\ t.map = u.map
  BY <1>7, <1>8 DEF SameButMap, States
<1>10. On(t) = On(s) /\ Typed(t)
  <2>1. v \in DatabaseRecord
    BY <1>4 DEF InPlace
  <2>2. t \in States(On(u))
    BY <1>7, <1>8, <2>1 DEF States
  <2>3. On(t) = On(s)
    BY <1>9 DEF On
  <2> QED
    BY <1>7, <2>2, <2>3 DEF Typed
<1>11. ChangedAt(s, t, {o}, {f}, {})
  BY <1>6, <1>9, <1>10 DEF ChangedAt
<1>12. t.pte[o] = s.pte[o] /\ t.mapped[o] = s.mapped[o] /\ t.db.entry[f] = g /\ t.ram[f] = s.ram[f] /\ t.pte[o].at = f
  BY <1>1, <1>6, <1>9
<1>13. PageOK(t, o)
  BY <1>2, <1>6, <1>1, <1>12 DEF PageOK, HasFrame
<1>14. FrameOK(t, f)
  <2>1. RecordFits(s, f, o, e)
    BY <1>2, FrameHas DEF Holds
  <2>2. HasFrame(t, o)
    BY <1>2, <1>12 DEF HasFrame
  <2>3. RecordFits(t, f, o, g)
    BY <1>1, <1>3, <1>6, <1>10, <1>12, <2>1, <2>2 DEF RecordFits
  <2> QED
    BY <1>12, <2>3, FrameIs
<1>15. PagesFit(t) /\ FramesFit(t) /\ Elsewhere(s, t, {o})
  BY <1>1, <1>11, <1>13, <1>14, OnePageFits DEF Fair
<1>16. ListsFit(t)
  BY <1>9, <1>10 DEF Fair, ListsFit, PagesFor
<1>17. Held(t, o) = 0 /\ Seen(t, o) = Seen(s, o)
  BY <1>2, <1>3, <1>6, <1>12 DEF Held, HasFrame, Seen
<1>18. BlocksFit(t, K)
  <2>1. BlocksFit(s, K) /\ 0 \notin K
    BY BlocksAre DEF Fair, BlocksFit, MapOK
  <2>2. Held(t, o) \in {0} \cup K /\ K \ {Held(t, o)} = K /\ \A q \in On(s) \ {o} : Held(t, q) = Held(s, q)
    BY <1>15, <1>17, <2>1 DEF Elsewhere
  <2>3. BlocksFit(t, K \ {Held(t, o)})
    <3>1. t.map.inUse = s.map.inUse \ {Held(s, o)} /\ MapOK(t.map) /\ t.pageFile = s.pageFile /\ On(t) = On(s) /\ o \in On(s)
      BY <1>1, <1>9, <1>10
    <3> QED
      BY <3>1, <2>1, <2>2, BlocksMove
  <2> QED
    BY <2>2, <2>3
<1>19. Settled(s, t)
  BY <1>9, <1>15, <1>17 DEF Settled, Still, Elsewhere
<1> QED
  BY <1>4, <1>9, <1>10, <1>15, <1>16, <1>18, <1>19 DEF Fair, Put, g

\* What leaving the old store does to a modified page just released.
Rebacked(s, f, t) ==
  /\ Settled(s, t) /\ t.db.entry[f].tied /\ t.db.entry[f].saved /\ t.db.entry[f].owner = s.db.entry[f].owner

LEMMA ForgetFits ==
  ASSUME NEW s, NEW K, Fair(s, K), NEW f \in PFN, s.db.entry[f].tied, s.db.entry[f].saved,
         NEW t, t = ForgetPageFileBlock(s, f)
  PROVE  Fair(t, K) /\ Rebacked(s, f, t)
<1> DEFINE store == s.db.entry[f].backing
           o == s.db.entry[f].owner
           u == FreePageFile(s, BlockOf(store))
<1>1. CASE BlockOf(store) = {}
  BY <1>1 DEF ForgetPageFileBlock, Rebacked, Settled, Still
<1>2. CASE BlockOf(store) # {}
  <2>1. store.kind = "pageFile" /\ store.at # 0 /\ BlockOf(store) = {store.at}
    BY <1>2 DEF BlockOf
  <2>2. o \in On(s) /\ HasFrame(s, o) /\ s.pte[o].at = f /\ s.mapped[o] # "writeBack"
    BY <2>1 DEF Fair, FramesFit, FrameOK
  <2>3. Held(s, o) = store.at
    BY <2>1, <2>2 DEF Held, HasFrame
  <2>4. Held(s, o) \in s.map.inUse /\ MapOK(s.map) /\ (s.map.inUse # {} => s.pageFile = "open")
    BY <2>1, <2>2, <2>3 DEF Fair, BlocksFit
  <2>5. Typed(u) /\ SameButMap(s, u) /\ MapOK(u.map) /\ u.map.inUse = s.map.inUse \ {Held(s, o)}
    BY <2>1, <2>3, <2>4, FreePageFileIs, SMTT(60) DEF Fair
  <2>6. t = Backed(u, f)
    BY <1>2 DEF ForgetPageFileBlock, Backed
  <2>7. Holds(s, f, o)
    BY DEF Holds
  <2> HIDE DEF u, o
  <2>8. /\ Fair(t, K) /\ Settled(s, t)
        /\ t.db.entry = Put(s.db.entry, f, [s.db.entry[f] EXCEPT !.backing = InPageFile(0)])
    BY <2>2, <2>5, <2>6, <2>7, RebackedFits
  <2>9. s.db.entry \in [PFN -> FrameRecord] /\ s.db.entry[f] \in FrameRecord
    BY PlacedTypes DEF Fair
  <2> QED
    BY <2>8, <2>9 DEF Rebacked, Put, FrameRecord
<1> QED
  BY <1>1, <1>2

LEMMA LeaveSectionFits ==
  ASSUME NEW s, NEW K, Fair(s, K), NEW f \in PFN, s.db.entry[f].tied, s.db.entry[f].saved,
         NEW t, t = LeaveReadOnlySection(s, f)
  PROVE  Fair(t, K) /\ Settled(s, t)
<1> DEFINE e == s.db.entry[f]
           o == e.owner
<1>1. CASE ~(e.backing.kind = "section" /\ s.mapped[o] \notin {"none", "writeBack"})
  BY <1>1 DEF LeaveReadOnlySection, Settled, Still
<1>2. CASE e.backing.kind = "section" /\ s.mapped[o] \notin {"none", "writeBack"}
  <2>1. t = Backed(s, f)
    BY <1>2 DEF LeaveReadOnlySection, Backed
  <2>2. HasFrame(s, o) /\ s.pte[o].at = f
    BY DEF Fair, FramesFit, FrameOK
  <2>3. Held(s, o) = 0
    BY <1>2, <2>2 DEF Held, HasFrame
  <2>4. Typed(s) /\ SameButMap(s, s) /\ MapOK(s.map) /\ s.map.inUse = s.map.inUse \ {Held(s, o)}
    BY <2>3, BlocksAre DEF Fair, SameButMap, BlocksFit, MapOK
  <2>5. s.mapped[o] # "writeBack"
    BY <1>2
  <2>6. Holds(s, f, o)
    BY DEF Holds
  <2> HIDE DEF o
  <2> QED
    BY <2>1, <2>4, <2>5, <2>6, RebackedFits
<1> QED
  BY <1>1, <1>2

-----------------------------------------------------------------------------
(* What becomes of a page and its frame, one at a time. *)

\* What is known of a page that has a frame.
LEMMA OwnPage ==
  ASSUME NEW s, NEW K, Fair(s, K), NEW f \in PFN, NEW o, Holds(s, f, o)
  PROVE  /\ o \in On(s) /\ o \in Owners /\ s.pte[o].at = f /\ HasFrame(s, o) /\ PageOK(s, o)
         /\ RecordFits(s, f, o, s.db.entry[f])
         /\ s.db.entry[f] \in FrameRecord /\ s.db.entry \in [PFN -> FrameRecord] /\ RecordOK(s.db.entry[f])
         /\ (s.db.entry[f].state = "active" <=> s.pte[o].form = "valid")
<1>1. RecordFits(s, f, o, s.db.entry[f])
  BY FrameHas DEF Fair, FramesFit, Holds
<1>2. o \in On(s) /\ s.pte[o].at = f /\ HasFrame(s, o)
  BY <1>1 DEF RecordFits
<1>3. PageOK(s, o) /\ o \in Owners
  BY <1>2 DEF Fair, PagesFit, Typed
<1>4. s.db.entry[f] \in FrameRecord /\ s.db.entry \in [PFN -> FrameRecord] /\ RecordOK(s.db.entry[f])
  BY PlacedTypes DEF Fair
<1>5. s.db.entry[f].state = "active" <=> s.pte[o].form = "valid"
  BY <1>2, <1>3 DEF PageOK
<1> QED
  BY <1>1, <1>2, <1>3, <1>4, <1>5

OtherFrames(s, t, f) == \A g \in PFN \ {f} : t.db.entry[g] = s.db.entry[g]

\* A page, its frame and its process's tables as a writer leaves them.
Unmoved(s, t) ==
  /\ t.pte = s.pte /\ t.mapped = s.mapped /\ t.ws = s.ws /\ t.ram = s.ram
  /\ t.pageFile = s.pageFile /\ t.touched = s.touched /\ t.asked = s.asked /\ t.inTB = s.inTB

\* A change of one page's frame and stores that the tables do not show.
LEMMA UnmovedFits ==
  ASSUME NEW s, NEW K, Fair(s, K), NEW f \in PFN, NEW o, Holds(s, f, o), NEW D, D \subseteq K,
         NEW t, Unmoved(s, t), Typed(t), InPlace(t.db, PFN), ChangedAt(s, t, {o}, {f}, D),
         PageOK(t, o), RecordFits(t, f, o, t.db.entry[f])
  PROVE  /\ o \in On(s) /\ PagesFit(t) /\ FramesFit(t) /\ ListsFit(t) /\ Seen(t, o) = Seen(s, o)
         /\ On(t) = On(s) /\ Elsewhere(s, t, {o}) /\ OtherFrames(s, t, f)
<1>1. o \in On(s) /\ s.pte[o].at = f /\ Theirs(s, {o}, {f}, D)
  BY OwnFrame
<1>2. FrameOK(t, f)
  BY FrameIs
<1>3. PagesFit(t) /\ FramesFit(t) /\ Elsewhere(s, t, {o})
  BY <1>1, <1>2, OnePageFits DEF Fair
<1>4. On(t) = On(s) /\ OtherFrames(s, t, f)
  BY DEF ChangedAt, OtherFrames
<1>5. ListsFit(t)
  BY <1>4 DEF Fair, ListsFit, PagesFor, Unmoved
<1>6. HasFrame(s, o)
  BY FrameHas DEF Fair, FramesFit, Holds, RecordFits
<1>7. Seen(t, o) = Seen(s, o)
  BY <1>1, <1>6 DEF Seen, HasFrame, Unmoved
<1> QED
  BY <1>1, <1>3, <1>4, <1>5, <1>7

\* The frame as the writer leaves it: clean, and free.
Washed(e) == [e EXCEPT !.saved = FALSE, !.state = "free"]

LEMMA WashedIs ==
  ASSUME NEW e \in FrameRecord, NEW g, g = Washed(e)
  PROVE  /\ g.saved = FALSE /\ g.state = "free" /\ g.tied = e.tied /\ g.owner = e.owner /\ g.type = e.type
         /\ g.backing = e.backing /\ g.refs = e.refs /\ g \in FrameRecord
BY DEF Washed, FrameRecord

LEMMA WriteToSectionFits ==
  ASSUME NEW s, NEW K, Fair(s, K), NEW f \in PFN, NEW o, Holds(s, f, o), IsModified(s, f),
         s.db.entry[f].backing.kind = "section", s.mapped[o] = "writeBack", NEW t, t = WriteToSection(s, f)
  PROVE  Fair(t, K) /\ Settled(s, t) /\ OtherFrames(s, t, f)
<1> DEFINE e == s.db.entry[f]
           g == Washed(e)
           v == Cleaned(s.db, f)
<1>1. {} \subseteq K
  OBVIOUS
<1>2. /\ o \in On(s) /\ s.pte[o].at = f /\ HasFrame(s, o) /\ RecordFits(s, f, o, e)
      /\ e \in FrameRecord /\ s.db.entry \in [PFN -> FrameRecord]
  BY OwnPage
<1>3. e.state = "modified" /\ e.owner = o /\ e.tied /\ e.backing.kind = "section"
  BY DEF Holds, IsModified
<1>4. s.pte[o].form = "transition" /\ ~s.pte[o].modified
  BY <1>2, <1>3, OwnPage DEF PageOK, HasFrame
<1>5. InPlace(v, PFN) /\ v.entry = [s.db.entry EXCEPT ![f] = g]
  BY CleanedIs, ZenonT(60) DEF Fair, Washed, CanClean, IsModified
<1>6. v.entry[f] = g /\ (\A h \in PFN \ {f} : v.entry[h] = s.db.entry[h]) /\ v \in DatabaseRecord
  BY <1>2, <1>5 DEF InPlace
<1>7. /\ g.saved = FALSE /\ g.state = "free" /\ g.tied = e.tied /\ g.owner = e.owner /\ g.type = e.type
      /\ g.backing = e.backing /\ g.refs = e.refs
  BY <1>2, WashedIs
<1>8. s \in States(On(s)) /\ On(s) \subseteq Owners /\ s.ram[f] \in Data
  BY DEF Fair, Typed, States
<1> DEFINE h == [s.file EXCEPT ![o] = s.ram[f]]
<1>9. h \in [On(s) -> Data] /\ h[o] = s.ram[f] /\ \A q \in On(s) \ {o} : h[q] = s.file[q]
  BY <1>2, <1>8 DEF States
<1>10. t = [s EXCEPT !.file = h, !.db = v]
  BY DEF WriteToSection, Holds
<1> HIDE DEF g, v, h
<1>11. /\ t.db = v /\ t.file = h /\ Unmoved(s, t) /\ t.map = s.map /\ t.disk = s.disk
       /\ t \in States(On(s))
  BY <1>6, <1>8, <1>9, <1>10, ZenonT(60) DEF States, Unmoved
<1>12. On(t) = On(s) /\ Typed(t)
  BY <1>8, <1>11 DEF Typed, On, Unmoved
<1>15. ChangedAt(s, t, {o}, {f}, {})
  BY <1>6, <1>9, <1>11, <1>12 DEF ChangedAt, Unmoved
<1>16. t.pte[o] = s.pte[o] /\ t.mapped[o] = s.mapped[o] /\ t.db.entry[f] = g /\ t.ram[f] = s.ram[f] /\ t.pte[o].at = f
  BY <1>2, <1>6, <1>11 DEF Unmoved
<1> HIDE DEF e
<1>17. HasFrame(t, o)
  BY <1>4, <1>16 DEF HasFrame
<1>18. PageOK(t, o)
  BY <1>3, <1>4, <1>7, <1>16 DEF PageOK, HasFrame
<1>19. RecordFits(t, f, o, g)
  <2>1. Stored(t, g.backing, o) = s.ram[f]
    BY <1>3, <1>7, <1>9, <1>11 DEF Stored
  <2> QED
    BY <1>2, <1>3, <1>7, <1>12, <1>16, <1>17, <2>1 DEF RecordFits
<1>20. /\ PagesFit(t) /\ FramesFit(t) /\ ListsFit(t) /\ Seen(t, o) = Seen(s, o)
       /\ Elsewhere(s, t, {o}) /\ OtherFrames(s, t, f)
  BY <1>1, <1>5, <1>11, <1>12, <1>15, <1>16, <1>18, <1>19, UnmovedFits
<1>21. BlocksFit(t, K)
  <2>1. Held(t, o) = Held(s, o)
    BY <1>2, <1>4, <1>7, <1>16 DEF Held, e
  <2>2. \A q \in On(s) : Held(t, q) = Held(s, q)
    BY <1>20, <2>1 DEF Elsewhere
  <2>3. s.map.inUse # {} => t.pageFile = "open"
    BY <1>11 DEF Fair, BlocksFit, Unmoved
  <2> QED
    BY <1>11, <1>12, <2>2, <2>3, BlocksStay DEF Fair
<1>22. Settled(s, t)
  BY <1>9, <1>11, <1>20 DEF Settled, Still, Elsewhere, Unmoved
<1> QED
  BY <1>5, <1>11, <1>12, <1>20, <1>21, <1>22 DEF Fair

\* The frame as a write to the block b leaves it.
Paged(e, b) == Washed([e EXCEPT !.backing = InPageFile(b)])

LEMMA PagedIs ==
  ASSUME NEW e \in FrameRecord, NEW b \in 0 .. FileSize, NEW g, g = Paged(e, b), InPageFile(b) \in Stores
  PROVE  /\ g.saved = FALSE /\ g.state = "free" /\ g.tied = e.tied /\ g.owner = e.owner /\ g.type = e.type
         /\ g.backing = InPageFile(b) /\ g.refs = e.refs /\ g \in FrameRecord
<1> DEFINE h == [e EXCEPT !.backing = InPageFile(b)]
<1>1. h \in FrameRecord /\ h.tied = e.tied /\ h.owner = e.owner /\ h.type = e.type /\ h.backing = InPageFile(b) /\ h.refs = e.refs
  BY DEF FrameRecord
<1> HIDE DEF h
<1>2. g = Washed(h)
  BY DEF Paged, h
<1> QED
  BY <1>1, <1>2, WashedIs

\* The block a page-file-bound page holds, and its being given back.
LEMMA BlockIsHeld ==
  ASSUME NEW s, NEW K, Fair(s, K), NEW f \in PFN, NEW o, Holds(s, f, o), NEW u,
         u = FreePageFile(s, BlockOf(s.db.entry[f].backing))
  PROVE  Typed(u) /\ SameButMap(s, u) /\ MapOK(u.map) /\ u.map.inUse = s.map.inUse \ {Held(s, o)}
<1> DEFINE store == s.db.entry[f].backing
           run == BlockOf(store)
<1>1. o \in On(s) /\ s.pte[o].at = f /\ HasFrame(s, o) /\ store \in StoresOf(o)
  BY OwnPage DEF RecordFits
<1>2. Held(s, o) = IF store.kind = "pageFile" THEN store.at ELSE 0
  BY <1>1 DEF Held, HasFrame
<1>3. MapOK(s.map) /\ (s.map.inUse # {} => s.pageFile = "open") /\ 0 \notin s.map.inUse
  BY BlocksAre DEF Fair, BlocksFit, MapOK
<1>4. Held(s, o) # 0 => Held(s, o) \in s.map.inUse
  BY <1>1 DEF Fair, BlocksFit
<1>5. run \subseteq s.map.inUse /\ s.map.inUse \ run = s.map.inUse \ {Held(s, o)}
  BY <1>2, <1>3, <1>4 DEF BlockOf
<1> HIDE DEF run
<1> QED
  BY <1>3, <1>5, FreePageFileIs DEF Fair, run

LEMMA WriteToBlockFits ==
  ASSUME NEW s, NEW K, Fair(s, K), NEW f \in PFN, NEW o, Holds(s, f, o), IsModified(s, f),
         s.db.entry[f].backing.kind # "section", NEW b \in K, NEW t, t = WriteToBlock(s, f, b)
  PROVE  Fair(t, K \ {b}) /\ Settled(s, t) /\ OtherFrames(s, t, f)
<1> DEFINE e == s.db.entry[f]
           g == Paged(e, b)
           x == SetBacking(s.db, f, InPageFile(b))
           v == Cleaned(x, f)
           u == FreePageFile(s, BlockOf(e.backing))
<1>1. {b} \subseteq K /\ b \in Blocks /\ b \in 0 .. FileSize /\ b # 0 /\ b \in s.map.inUse
  BY BlocksAre, MapTypes DEF Fair, BlocksFit, MapOK, Blocks
<1>2. /\ o \in On(s) /\ s.pte[o].at = f /\ HasFrame(s, o) /\ RecordFits(s, f, o, e) /\ o \in Owners
      /\ e \in FrameRecord /\ s.db.entry \in [PFN -> FrameRecord]
  BY OwnPage
<1>3. /\ e.state = "modified" /\ e.owner = o /\ e.tied /\ e.backing.kind = "pageFile"
  BY <1>2 DEF Holds, IsModified, RecordFits, StoresOf, InPageFile, InSection
<1>4. s.pte[o].form = "transition" /\ ~s.pte[o].modified
  BY <1>2, <1>3, OwnPage DEF PageOK, HasFrame
<1>5. InPageFile(b) \in Stores /\ InPageFile(b) \in StoresOf(o) /\ InPageFile(b).kind = "pageFile" /\ InPageFile(b).at = b
  BY <1>1, <1>2, PageFileStores DEF InPageFile
<1>6. InPlace(x, PFN) /\ x.entry = [s.db.entry EXCEPT ![f] = [e EXCEPT !.backing = InPageFile(b)]]
  BY <1>3, <1>5, SetBackingIs DEF Fair
<1>7. x.entry[f] = [e EXCEPT !.backing = InPageFile(b)] /\ x.entry[f].state = "modified"
  BY <1>2, <1>3, <1>6 DEF FrameRecord
<1> HIDE DEF x
<1>8. InPlace(v, PFN) /\ v.entry = [x.entry EXCEPT ![f] = g]
  <2>1. CanClean(x, f)
    BY <1>7 DEF CanClean
  <2>2. InPlace(v, PFN) /\ v.entry = [x.entry EXCEPT ![f] = [x.entry[f] EXCEPT !.saved = FALSE, !.state = "free"]]
    <3>1. v = Cleaned(x, f) /\ InPlace(x, PFN)
      BY <1>6
    <3> HIDE DEF v
    <3> QED
      BY <2>1, <3>1, CleanedIs
  <2>3. g = [x.entry[f] EXCEPT !.saved = FALSE, !.state = "free"]
    BY <1>7 DEF Washed, Paged
  <2> QED
    BY <2>2, <2>3
<1>9. v.entry[f] = g /\ (\A h \in PFN \ {f} : v.entry[h] = s.db.entry[h]) /\ v \in DatabaseRecord
  BY <1>2, <1>6, <1>8 DEF InPlace
<1>10. /\ g.saved = FALSE /\ g.state = "free" /\ g.tied = e.tied /\ g.owner = e.owner /\ g.type = e.type
      /\ g.backing = InPageFile(b) /\ g.refs = e.refs
  <2>1. e \in FrameRecord /\ b \in 0 .. FileSize /\ InPageFile(b) \in Stores /\ g = Paged(e, b)
    BY <1>1, <1>2, <1>5
  <2> HIDE DEF g, e
  <2> QED
    BY <2>1, PagedIs
<1>11. Typed(u) /\ SameButMap(s, u) /\ MapOK(u.map) /\ u.map.inUse = s.map.inUse \ {Held(s, o)}
  BY BlockIsHeld
<1> HIDE DEF u
<1>12. u \in States(On(s)) /\ On(s) \subseteq Owners /\ s.ram[f] \in Data /\ On(u) = On(s) /\ u.disk = s.disk /\ u.disk \in [Blocks -> Data]
  BY <1>11 DEF Fair, Typed, States, SameButMap, On
<1> DEFINE h == [u.disk EXCEPT ![b] = s.ram[f]]
<1>13. h \in [Blocks -> Data] /\ h[b] = s.ram[f] /\ \A c \in Blocks \ {b} : h[c] = s.disk[c]
  BY <1>1, <1>12
<1>14. t = [u EXCEPT !.disk = h, !.db = v]
  BY <1>11 DEF WriteToBlock, SameButMap, u, x
<1> HIDE DEF g, v, h
<1>15. /\ t.db = v /\ t.disk = h /\ t.pte = u.pte /\ t.mapped = u.mapped /\ t.ws = u.ws /\ t.ram = u.ram
      /\ t.pageFile = u.pageFile /\ t.touched = u.touched /\ t.asked = u.asked /\ t.inTB = u.inTB
      /\ t.map = u.map /\ t.file = u.file
  BY <1>12, <1>14 DEF States
<1>16. t \in States(On(s))
  BY <1>9, <1>12, <1>13, <1>14, ZenonT(60) DEF States
<1>17. /\ Unmoved(s, t) /\ t.map = u.map /\ t.file = s.file
  BY <1>11, <1>15 DEF Unmoved, SameButMap
<1>18. On(t) = On(s) /\ Typed(t)
  BY <1>12, <1>17, <1>16 DEF Typed, On, Unmoved
<1>19. ChangedAt(s, t, {o}, {f}, {b})
  BY <1>9, <1>13, <1>17, <1>18, <1>15 DEF ChangedAt, Unmoved
<1>20. t.pte[o] = s.pte[o] /\ t.mapped[o] = s.mapped[o] /\ t.db.entry[f] = g /\ t.ram[f] = s.ram[f] /\ t.pte[o].at = f
  BY <1>2, <1>9, <1>17, <1>15 DEF Unmoved
<1> HIDE DEF e
<1>21. HasFrame(t, o)
  BY <1>4, <1>20 DEF HasFrame
<1>22. PageOK(t, o)
  BY <1>3, <1>4, <1>10, <1>20 DEF PageOK, HasFrame
<1>23. RecordFits(t, f, o, g)
  <2>1. Stored(t, g.backing, o) = s.ram[f]
    BY <1>1, <1>10, <1>13, <1>5, <1>15 DEF Stored
  <2> QED
    BY <1>2, <1>3, <1>10, <1>5, <1>18, <1>20, <1>21, <2>1 DEF RecordFits
<1>24. /\ PagesFit(t) /\ FramesFit(t) /\ ListsFit(t) /\ Seen(t, o) = Seen(s, o)
       /\ Elsewhere(s, t, {o}) /\ OtherFrames(s, t, f)
  BY <1>1, <1>8, <1>15, <1>17, <1>18, <1>19, <1>20, <1>22, <1>23, UnmovedFits
<1>25. BlocksFit(t, K \ {b})
  <2>1. Held(t, o) = b
    BY <1>4, <1>10, <1>5, <1>20 DEF Held
  <2>2. \A q \in On(s) \ {o} : Held(t, q) = Held(s, q)
    BY <1>24 DEF Elsewhere
  <2>3. MapOK(t.map) /\ t.pageFile = s.pageFile /\ t.map.inUse = s.map.inUse \ {Held(s, o)} /\ Held(t, o) \in {0} \cup K
    BY <1>17, <1>11, <2>1 DEF Unmoved
  <2> QED
    BY <1>2, <1>18, <2>1, <2>2, <2>3, BlocksMove DEF Fair
<1>26. Settled(s, t)
  BY <1>17, <1>24 DEF Settled, Still, Elsewhere, Unmoved
<1> QED
  BY <1>8, <1>15, <1>18, <1>24, <1>25, <1>26 DEF Fair

At(s, o, f) == s.pte[o].at = f

\* What is known of a valid page, or one in transition.
LEMMA FrameOfPage ==
  ASSUME NEW s, NEW K, Fair(s, K), NEW o \in On(s), HasFrame(s, o), NEW f, At(s, o, f)
  PROVE  f \in PFN /\ Holds(s, f, o)
BY DEF Fair, PagesFit, PageOK, Holds, At

\* A change of one page and its frame, and of no other state.
OneTable(s, t) ==
  /\ t.mapped = s.mapped /\ t.ws = s.ws /\ t.disk = s.disk /\ t.file = s.file /\ t.map = s.map
  /\ t.pageFile = s.pageFile /\ t.touched = s.touched /\ t.inTB = s.inTB

Placed(t) == InPlace(t.db, PFN)

Refits(s, t, f, o) ==
  RecordFits(t, f, o, t.db.entry[f]) /\ t.db.entry[f].backing = s.db.entry[f].backing

LEMMA OneTableFits ==
  ASSUME NEW s, NEW K, Fair(s, K), NEW f \in PFN, NEW o, Holds(s, f, o),
         NEW t, OneTable(s, t), Typed(t), Placed(t), ChangedAt(s, t, {o}, {f}, {}),
         PageOK(t, o), Refits(s, t, f, o)
  PROVE  /\ Fair(t, K) /\ On(t) = On(s) /\ o \in On(s)
         /\ \A q \in On(s) \ {o} : Seen(t, q) = Seen(s, q)
         /\ Seen(s, o) = s.ram[f] /\ Seen(t, o) = t.ram[f]
<1>1. {} \subseteq K
  OBVIOUS
<1>2. o \in On(s) /\ s.pte[o].at = f /\ Theirs(s, {o}, {f}, {}) /\ HasFrame(s, o)
  BY <1>1, OwnFrame, OwnPage
<1>3. FrameOK(t, f)
  BY FrameIs DEF Refits
<1>4. PagesFit(t) /\ FramesFit(t) /\ Elsewhere(s, t, {o})
  BY <1>2, <1>3, OnePageFits DEF Fair
<1>5. On(t) = On(s) /\ HasFrame(t, o) /\ t.pte[o].at = f
  BY DEF ChangedAt, RecordFits, Refits
<1>6. ListsFit(t)
  BY <1>5 DEF Fair, ListsFit, PagesFor, OneTable
<1>7. Held(t, o) = Held(s, o)
  BY <1>2, <1>5 DEF Held, HasFrame, Refits
<1>8. BlocksFit(t, K)
  <2>1. \A q \in On(s) : Held(t, q) = Held(s, q)
    BY <1>4, <1>7 DEF Elsewhere
  <2>2. t.map = s.map /\ (s.map.inUse # {} => t.pageFile = "open") /\ BlocksFit(s, K)
    BY DEF Fair, BlocksFit, OneTable
  <2> QED
    BY <1>5, <2>1, <2>2, BlocksStay
<1>9. Seen(s, o) = s.ram[f] /\ Seen(t, o) = t.ram[f]
  BY <1>2, <1>5 DEF Seen
<1> QED
  BY <1>2, <1>4, <1>5, <1>6, <1>8, <1>9 DEF Fair, Elsewhere, Placed

\* The last reference to a valid page's frame goes.
Released(s, o) ==
  [s EXCEPT !.pte[o] = Transition(s.pte[o].at), !.db = Release(@, s.pte[o].at, s.pte[o].modified)]

LEMMA TransitionIs ==
  ASSUME NEW f \in PFN
  PROVE  /\ Transition(f) \in PTE /\ Valid(f) \in PTE
         /\ Transition(f).form = "transition" /\ Transition(f).at = f /\ Transition(f).modified = FALSE
         /\ Valid(f).form = "valid" /\ Valid(f).at = f /\ Valid(f).modified = FALSE
BY FramesAssumption DEF Transition, Valid, PTE, PFN

LEMMA ReleasedFits ==
  ASSUME NEW s, NEW K, Fair(s, K), NEW o \in On(s), IsValid(s, o), NEW f, At(s, o, f), NEW t, t = Released(s, o)
  PROVE  /\ Fair(t, K) /\ Still(s, t) /\ t.ws = s.ws /\ f \in PFN /\ Holds(t, f, o)
         /\ t.db.entry[f].state = "modified" => t.db.entry[f].saved
         /\ t.pte = [s.pte EXCEPT ![o] = Transition(f)]
<1> DEFINE e == s.db.entry[f]
           w == s.pte[o].modified
           v == Release(s.db, f, w)
           g == Dropped(e, w)
<1>1. f \in PFN /\ Holds(s, f, o) /\ HasFrame(s, o)
  BY FrameOfPage DEF IsValid, HasFrame
<1>2. /\ s.pte[o].at = f /\ RecordFits(s, f, o, e) /\ o \in Owners
      /\ e \in FrameRecord /\ s.db.entry \in [PFN -> FrameRecord] /\ e.state = "active"
  BY <1>1, OwnPage DEF IsValid
<1>3. e.tied /\ e.owner = o /\ e.refs = 1 /\ e.type = "process" /\ w \in BOOLEAN
  BY <1>1, <1>2 DEF Holds, RecordFits, Fair, Typed, States, PTE
<1>4. InPlace(v, PFN) /\ v.entry = Put(s.db.entry, f, g)
  BY <1>1, <1>2, <1>3, ReleaseIs DEF Fair, IsActive
<1>5. v.entry[f] = g /\ (\A h \in PFN \ {f} : v.entry[h] = s.db.entry[h]) /\ v \in DatabaseRecord
  BY <1>1, <1>2, <1>4 DEF InPlace, Put
<1>6. /\ g.saved = (e.saved \/ w) /\ g.tied = e.tied /\ g.owner = e.owner /\ g.type = e.type /\ g.backing = e.backing
      /\ g.state # "active" /\ (g.state = "modified" => g.saved)
  BY <1>2, <1>3 DEF FrameRecord, Dropped
<1>7. s \in States(On(s)) /\ On(s) \subseteq Owners /\ s.pte \in [On(s) -> PTE]
  BY DEF Fair, Typed, States
<1> DEFINE h == [s.pte EXCEPT ![o] = Transition(f)]
<1>8. h \in [On(s) -> PTE] /\ h[o] = Transition(f) /\ \A q \in On(s) \ {o} : h[q] = s.pte[q]
  BY <1>1, <1>7, TransitionIs
<1>9. t = [s EXCEPT !.pte = h, !.db = v]
  BY DEF Released, At
<1> HIDE DEF h, v, g
<1>10. t.db = v /\ t.pte = h /\ t.ram = s.ram /\ t.asked = s.asked /\ OneTable(s, t) /\ t \in States(On(s))
  BY <1>5, <1>7, <1>8, <1>9, ZenonT(60) DEF States, OneTable
<1>11. On(t) = On(s) /\ Typed(t)
  BY <1>7, <1>10 DEF Typed, On, OneTable
<1>12. ChangedAt(s, t, {o}, {f}, {})
  BY <1>5, <1>8, <1>10, <1>11 DEF ChangedAt, OneTable
<1>13. t.pte[o] = Transition(f) /\ t.mapped[o] = s.mapped[o] /\ t.db.entry[f] = g /\ t.ram[f] = s.ram[f]
  BY <1>5, <1>8, <1>10 DEF OneTable
<1> HIDE DEF e, w
<1>14. HasFrame(t, o) /\ t.pte[o].form = "transition" /\ t.pte[o].at = f /\ ~t.pte[o].modified
  BY <1>1, <1>13, TransitionIs DEF HasFrame
<1>15. PageOK(t, o)
  BY <1>1, <1>3, <1>6, <1>13, <1>14 DEF PageOK
<1>16. RecordFits(t, f, o, g)
  <2>1. \A x : Stored(t, x, o) = Stored(s, x, o)
    BY <1>10 DEF Stored, OneTable
  <2>2. ~g.saved => t.ram[f] = Stored(t, g.backing, o)
    BY <1>2, <1>6, <1>13, <2>1 DEF RecordFits, w
  <2> QED
    BY <1>2, <1>3, <1>6, <1>11, <1>13, <1>14, <2>2 DEF RecordFits
<1>17. t.db.entry[f].backing = s.db.entry[f].backing
  BY <1>6, <1>13 DEF e
<1>18. /\ Fair(t, K) /\ \A q \in On(s) \ {o} : Seen(t, q) = Seen(s, q)
       /\ Seen(s, o) = s.ram[f] /\ Seen(t, o) = t.ram[f]
  <2>1. Placed(t) /\ Refits(s, t, f, o)
    BY <1>4, <1>10, <1>13, <1>16, <1>17 DEF Placed, Refits
  <2>2. OneTable(s, t) /\ Typed(t) /\ Holds(s, f, o) /\ f \in PFN
    BY <1>1, <1>10, <1>11
  <2> QED
    BY <1>12, <1>15, <2>1, <2>2, OneTableFits
<1>19. Still(s, t)
  BY <1>10, <1>13, <1>18 DEF Still, OneTable
<1>20. Holds(t, f, o) /\ (t.db.entry[f].state = "modified" => t.db.entry[f].saved)
  BY <1>3, <1>6, <1>13 DEF Holds
<1> QED
  BY <1>1, <1>10, <1>18, <1>19, <1>20 DEF OneTable, h

\* A page table entry and its frame's record changed.
WithPage(s, o, P, d, bound) == [s EXCEPT !.pte[o] = P, !.db = d, !.boundary = bound]

LEMMA WithPageIs ==
  ASSUME NEW s, Typed(s), NEW o \in On(s), NEW P \in PTE, NEW d, d \in DatabaseRecord, NEW bound \in BOOLEAN,
         NEW t, t = WithPage(s, o, P, d, bound)
  PROVE  /\ t.db = d /\ t.pte = [s.pte EXCEPT ![o] = P] /\ t.pte[o] = P /\ t.ram = s.ram /\ t.asked = s.asked /\ OneTable(s, t)
         /\ On(t) = On(s) /\ Typed(t) /\ \A q \in On(s) \ {o} : t.pte[q] = s.pte[q]
<1>1. s \in States(On(s)) /\ On(s) \subseteq Owners /\ s.pte \in [On(s) -> PTE]
  BY DEF Typed, States
<1> DEFINE h == [s.pte EXCEPT ![o] = P]
<1>2. h \in [On(s) -> PTE] /\ h[o] = P /\ \A q \in On(s) \ {o} : h[q] = s.pte[q]
  BY <1>1
<1>3. t = [s EXCEPT !.pte = h, !.db = d, !.boundary = bound]
  BY DEF WithPage
<1> HIDE DEF h
<1>4. t.db = d /\ t.pte = h /\ t.ram = s.ram /\ t.asked = s.asked /\ OneTable(s, t) /\ t \in States(On(s))
  BY <1>1, <1>2, <1>3, ZenonT(60) DEF States, OneTable
<1>5. On(t) = On(s) /\ Typed(t)
  BY <1>1, <1>4 DEF Typed, On, OneTable
<1> QED
  BY <1>2, <1>4, <1>5 DEF h

\* A frame in transition back to its page.
Reclaimed(s, o, bound) == WithPage(s, o, Valid(s.pte[o].at), Reclaim(s.db, s.pte[o].at), bound)

LEMMA ReclaimedFits ==
  ASSUME NEW s, NEW K, Fair(s, K), NEW o \in On(s), InTransition(s, o), NEW f, At(s, o, f), NEW bound \in BOOLEAN,
         NEW t, t = Reclaimed(s, o, bound)
  PROVE  Fair(t, K) /\ Still(s, t) /\ t.ws = s.ws /\ t.pte = [s.pte EXCEPT ![o] = Valid(f)]
<1> DEFINE e == s.db.entry[f]
           v == Reclaim(s.db, f)
           x == [e EXCEPT !.refs = 1, !.state = "active"]
<1>1. f \in PFN /\ Holds(s, f, o) /\ HasFrame(s, o)
  BY FrameOfPage DEF InTransition, HasFrame
<1>2. /\ RecordFits(s, f, o, e) /\ o \in Owners /\ e.state # "active" /\ ~s.pte[o].modified
      /\ e \in FrameRecord /\ s.db.entry \in [PFN -> FrameRecord]
  BY <1>1, OwnPage DEF InTransition, PageOK
<1>3. CanReclaim(s.db, f) /\ InPlace(s.db, PFN)
  BY <1>1, <1>2 DEF CanReclaim, Holds, Fair, IsActive
<1>4. InPlace(v, PFN) /\ v.entry = [s.db.entry EXCEPT ![f] = x]
  BY <1>1, <1>3, ReclaimIs, ZenonT(60)
<1>5. v.entry[f] = x /\ (\A h \in PFN \ {f} : v.entry[h] = s.db.entry[h]) /\ v \in DatabaseRecord
  BY <1>1, <1>2, <1>4 DEF InPlace
<1>6. /\ x.saved = e.saved /\ x.tied = e.tied /\ x.owner = e.owner /\ x.type = e.type /\ x.backing = e.backing
      /\ x.state = "active" /\ x.refs = 1
  BY <1>2 DEF FrameRecord
<1>7. t = WithPage(s, o, Valid(f), v, bound) /\ Typed(s) /\ Valid(f) \in PTE
  BY <1>1, TransitionIs DEF Reclaimed, At, Fair
<1> HIDE DEF v, x
<1>8. /\ t.db = v /\ t.pte = [s.pte EXCEPT ![o] = Valid(f)] /\ t.pte[o] = Valid(f) /\ t.ram = s.ram
      /\ t.asked = s.asked /\ OneTable(s, t) /\ On(t) = On(s) /\ Typed(t)
      /\ \A q \in On(s) \ {o} : t.pte[q] = s.pte[q]
  BY <1>5, <1>7, WithPageIs
<1>9. ChangedAt(s, t, {o}, {f}, {}) /\ Placed(t)
  BY <1>4, <1>5, <1>8 DEF ChangedAt, OneTable, Placed
<1>10. t.mapped[o] = s.mapped[o] /\ t.db.entry[f] = x /\ t.ram[f] = s.ram[f]
  BY <1>5, <1>8 DEF OneTable
<1>11. HasFrame(t, o) /\ t.pte[o].form = "valid" /\ t.pte[o].at = f /\ ~t.pte[o].modified
  BY <1>1, <1>8, TransitionIs DEF HasFrame
<1>12. PageOK(t, o)
  BY <1>1, <1>6, <1>10, <1>11 DEF PageOK, Holds
<1>13. RecordFits(t, f, o, x)
  <2>1. \A y : Stored(t, y, o) = Stored(s, y, o)
    BY <1>8 DEF Stored, OneTable
  <2>2. ~x.saved => t.ram[f] = Stored(t, x.backing, o)
    BY <1>2, <1>6, <1>10, <2>1 DEF RecordFits
  <2> HIDE DEF e
  <2> QED
    BY <1>2, <1>6, <1>8, <1>10, <1>11, <2>2 DEF RecordFits
<1>14. Refits(s, t, f, o)
  BY <1>6, <1>10, <1>13 DEF Refits
<1>15. OneTable(s, t) /\ Typed(t) /\ Holds(s, f, o) /\ f \in PFN
  BY <1>1, <1>8
<1>16. /\ Fair(t, K) /\ \A q \in On(s) \ {o} : Seen(t, q) = Seen(s, q)
       /\ Seen(s, o) = s.ram[f] /\ Seen(t, o) = t.ram[f]
  BY <1>9, <1>12, <1>14, <1>15, OneTableFits
<1>17. Still(s, t)
  BY <1>8, <1>10, <1>16 DEF Still, OneTable
<1> QED
  BY <1>8, <1>16, <1>17 DEF OneTable

-----------------------------------------------------------------------------
(* What the programs themselves change. *)

\* What a program sees changed in one page, and in no other.
Written(s, t, o, contents) ==
  /\ t.mapped = s.mapped /\ t.touched = s.touched /\ t.inTB = s.inTB /\ t.ws = s.ws
  /\ t.asked = [s.asked EXCEPT ![o] = contents]
  /\ Seen(t, o) = contents /\ \A q \in On(s) \ {o} : Seen(t, q) = Seen(s, q)
  /\ \A q \in On(s) : s.mapped[q] # "writeBack" => t.file[q] = s.file[q]

LEMMA StoreFits ==
  ASSUME NEW s, NEW K, Fair(s, K), NEW o \in On(s), IsValid(s, o), NEW contents \in Data, NEW t, t = Store(s, o, contents)
  PROVE  /\ Fair(t, K) /\ Written(s, t, o, contents)
         /\ \A q \in On(s) : t.pte[q].form = s.pte[q].form /\ t.pte[q].at = s.pte[q].at
<1> DEFINE f == s.pte[o].at
           e == s.db.entry[f]
           P == [s.pte[o] EXCEPT !.modified = TRUE]
           h == [s.pte EXCEPT ![o] = P]
           r == [s.ram EXCEPT ![f] = contents]
           a == [s.asked EXCEPT ![o] = contents]
<1>1. f \in PFN /\ Holds(s, f, o) /\ HasFrame(s, o)
  BY FrameOfPage DEF IsValid, HasFrame, At
<1>2. /\ RecordFits(s, f, o, e) /\ o \in Owners /\ e.state = "active"
      /\ e \in FrameRecord /\ s.db.entry \in [PFN -> FrameRecord]
  BY <1>1, OwnPage DEF IsValid
<1>3. /\ s \in States(On(s)) /\ On(s) \subseteq Owners /\ s.pte \in [On(s) -> PTE] /\ s.ram \in [PFN -> Data]
      /\ s.asked \in [On(s) -> Data] /\ s.pte[o] \in PTE
  BY DEF Fair, Typed, States
<1>4. P \in PTE /\ P.form = "valid" /\ P.at = f /\ P.modified = TRUE
  BY <1>3 DEF PTE, IsValid
<1>5. t = [s EXCEPT !.pte = h, !.ram = r, !.asked = a]
  BY DEF Store
<1> HIDE DEF P
<1>6. h \in [On(s) -> PTE] /\ h[o] = P /\ \A q \in On(s) \ {o} : h[q] = s.pte[q]
  BY <1>3, <1>4
<1>7. r \in [PFN -> Data] /\ r[f] = contents /\ \A g \in PFN \ {f} : r[g] = s.ram[g]
  BY <1>1, <1>3
<1>8. a \in [On(s) -> Data]
  BY <1>3
<1> HIDE DEF h, r, a
<1>9. t.db = s.db /\ t.pte = h /\ t.ram = r /\ t.asked = a /\ OneTable(s, t) /\ t \in States(On(s))
  BY <1>3, <1>5, <1>6, <1>7, <1>8, ZenonT(60) DEF States, OneTable
<1>10. On(t) = On(s) /\ Typed(t) /\ Placed(t)
  BY <1>3, <1>9 DEF Typed, On, OneTable, Placed, Fair
<1>11. ChangedAt(s, t, {o}, {f}, {})
  BY <1>6, <1>7, <1>9, <1>10 DEF ChangedAt, OneTable
<1>12. t.mapped[o] = s.mapped[o] /\ t.db.entry[f] = e /\ t.ram[f] = contents /\ t.pte[o] = P
  BY <1>6, <1>7, <1>9 DEF OneTable
<1> HIDE DEF e
<1>13. HasFrame(t, o) /\ t.pte[o].form = "valid" /\ t.pte[o].at = f /\ t.pte[o].modified
  BY <1>4, <1>12 DEF HasFrame
<1>14. e.tied /\ e.owner = o
  BY <1>1 DEF Holds, e
<1> HIDE DEF f
<1>15. PageOK(t, o)
  BY <1>1, <1>2, <1>12, <1>13, <1>14 DEF PageOK
<1>16. RecordFits(t, f, o, e)
  BY <1>2, <1>10, <1>12, <1>13 DEF RecordFits
<1>17. Refits(s, t, f, o)
  BY <1>12, <1>16 DEF Refits, e
<1>18. OneTable(s, t) /\ Typed(t) /\ Holds(s, f, o) /\ f \in PFN
  BY <1>1, <1>9, <1>10
<1>19. /\ Fair(t, K) /\ \A q \in On(s) \ {o} : Seen(t, q) = Seen(s, q)
       /\ Seen(s, o) = s.ram[f] /\ Seen(t, o) = t.ram[f]
  BY <1>10, <1>11, <1>15, <1>17, <1>18, OneTableFits
<1>20. Written(s, t, o, contents)
  BY <1>9, <1>12, <1>19 DEF Written, OneTable, a
<1>21. \A q \in On(s) : t.pte[q].form = s.pte[q].form /\ t.pte[q].at = s.pte[q].at
  BY <1>6, <1>9, <1>13 DEF f, IsValid
<1> QED
  BY <1>19, <1>20, <1>21

\* A valid page written to its section's file.
Updated(s, o, f) == [s EXCEPT !.file[o] = s.ram[f], !.pte[o].modified = FALSE, !.db = ClearModified(@, f)]

SamePlaces(s, t) == \A q \in On(s) : t.pte[q].form = s.pte[q].form /\ t.pte[q].at = s.pte[q].at

\* A page of a section written back has no store but its file.
LEMMA StoreIsFile ==
  ASSUME NEW s, NEW K, Fair(s, K), NEW f \in PFN, NEW o, Holds(s, f, o), s.mapped[o] = "writeBack"
  PROVE  s.db.entry[f].backing.kind = "section"
BY OwnPage DEF RecordFits, StoresOf, InPageFile, InSection

LEMMA UpdatedFits ==
  ASSUME NEW s, NEW K, Fair(s, K), NEW o \in On(s), IsValid(s, o), NEW f, At(s, o, f), s.mapped[o] = "writeBack",
         NEW t, t = Updated(s, o, f)
  PROVE  Fair(t, K) /\ Still(s, t) /\ t.ws = s.ws /\ SamePlaces(s, t)
<1> DEFINE e == s.db.entry[f]
           g == Saved(e, FALSE)
           v == ClearModified(s.db, f)
           P == [s.pte[o] EXCEPT !.modified = FALSE]
           h == [s.pte EXCEPT ![o] = P]
           r == [s.file EXCEPT ![o] = s.ram[f]]
<1>1. f \in PFN /\ Holds(s, f, o) /\ HasFrame(s, o)
  BY FrameOfPage DEF IsValid, HasFrame
<1>2. /\ RecordFits(s, f, o, e) /\ o \in Owners /\ e.state = "active"
      /\ e \in FrameRecord /\ s.db.entry \in [PFN -> FrameRecord] /\ e.backing.kind = "section"
  BY <1>1, OwnPage, StoreIsFile DEF IsValid
<1>3. e.tied /\ e.owner = o
  BY <1>1 DEF Holds
<1>4. v = WithSaved(s.db, f, FALSE) /\ IsActive(s.db, f) /\ InPlace(s.db, PFN)
  BY <1>2 DEF ClearModified, WithSaved, IsActive, Fair
<1>5. InPlace(v, PFN) /\ v.entry = Put(s.db.entry, f, g)
  <2> HIDE DEF v
  <2> QED
    BY <1>1, <1>4, SavedIs
<1>6. v.entry[f] = g /\ (\A x \in PFN \ {f} : v.entry[x] = s.db.entry[x]) /\ v \in DatabaseRecord
  BY <1>1, <1>2, <1>5 DEF InPlace, Put
<1>7. /\ g.tied = e.tied /\ g.owner = e.owner /\ g.type = e.type /\ g.backing = e.backing
      /\ g.state = e.state /\ g.refs = e.refs
  BY <1>2 DEF FrameRecord, Saved
<1>8. /\ s \in States(On(s)) /\ On(s) \subseteq Owners /\ s.pte \in [On(s) -> PTE] /\ s.ram[f] \in Data
      /\ s.file \in [On(s) -> Data] /\ s.pte[o] \in PTE
  BY <1>1 DEF Fair, Typed, States
<1>9. P \in PTE /\ P.form = "valid" /\ P.at = f /\ P.modified = FALSE
  BY <1>8 DEF PTE, IsValid, At
<1>10. t = [s EXCEPT !.file = r, !.pte = h, !.db = v]
  BY DEF Updated
<1> HIDE DEF P, v, g
<1>11. h \in [On(s) -> PTE] /\ h[o] = P /\ \A q \in On(s) \ {o} : h[q] = s.pte[q]
  BY <1>8, <1>9
<1>12. r \in [On(s) -> Data] /\ r[o] = s.ram[f] /\ \A q \in On(s) \ {o} : r[q] = s.file[q]
  BY <1>8
<1> HIDE DEF h, r
<1>13. /\ t.db = v /\ t.pte = h /\ t.file = r /\ t.ram = s.ram /\ t.asked = s.asked /\ t.mapped = s.mapped /\ t.ws = s.ws
       /\ t.disk = s.disk /\ t.map = s.map /\ t.pageFile = s.pageFile /\ t.touched = s.touched /\ t.inTB = s.inTB
  BY <1>8, <1>10 DEF States
<1>14. t \in States(On(s))
  BY <1>6, <1>8, <1>10, <1>11, <1>12, ZenonT(60) DEF States
<1>15. On(t) = On(s) /\ Typed(t)
  BY <1>8, <1>13, <1>14 DEF Typed, On
<1>16. ChangedAt(s, t, {o}, {f}, {})
  BY <1>6, <1>11, <1>12, <1>13, <1>15 DEF ChangedAt
<1>17. t.mapped[o] = s.mapped[o] /\ t.db.entry[f] = g /\ t.ram[f] = s.ram[f] /\ t.pte[o] = P /\ t.file[o] = s.ram[f]
  BY <1>6, <1>11, <1>12, <1>13
<1> HIDE DEF e
<1>18. HasFrame(t, o) /\ t.pte[o].form = "valid" /\ t.pte[o].at = f /\ ~t.pte[o].modified
  BY <1>9, <1>17 DEF HasFrame
<1>19. PageOK(t, o)
  BY <1>1, <1>2, <1>3, <1>7, <1>17, <1>18, ZenonT(60) DEF PageOK
<1>20. RecordFits(t, f, o, g)
  <2>1. Stored(t, g.backing, o) = s.ram[f]
    BY <1>2, <1>7, <1>17 DEF Stored
  <2> QED
    BY <1>2, <1>7, <1>15, <1>17, <1>18, <2>1 DEF RecordFits
<1>21. FrameOK(t, f)
  BY <1>17, <1>20, FrameIs
<1>22. Theirs(s, {o}, {f}, {})
  <2>1. {} \subseteq K
    OBVIOUS
  <2> QED
    BY <1>1, <2>1, OwnFrame
<1>23. PagesFit(t) /\ FramesFit(t) /\ Elsewhere(s, t, {o})
  BY <1>1, <1>16, <1>19, <1>21, <1>22, OnePageFits DEF Fair
<1>24. ListsFit(t)
  BY <1>13, <1>15 DEF Fair, ListsFit, PagesFor
<1>25. Held(t, o) = Held(s, o) /\ Seen(t, o) = Seen(s, o)
  BY <1>1, <1>2, <1>7, <1>9, <1>17, <1>18 DEF Held, HasFrame, Seen, At, IsValid, e
<1>26. BlocksFit(t, K)
  <2>1. \A q \in On(s) : Held(t, q) = Held(s, q)
    BY <1>23, <1>25 DEF Elsewhere
  <2>2. t.map = s.map /\ (s.map.inUse # {} => t.pageFile = "open") /\ BlocksFit(s, K)
    BY <1>13 DEF Fair, BlocksFit
  <2> QED
    BY <1>15, <2>1, <2>2, BlocksStay
<1>27. Still(s, t)
  BY <1>12, <1>13, <1>23, <1>25 DEF Still, Elsewhere
<1>28. SamePlaces(s, t)
  BY <1>11, <1>13, <1>18 DEF SamePlaces, At, IsValid
<1> QED
  BY <1>5, <1>13, <1>15, <1>23, <1>24, <1>26, <1>27, <1>28 DEF Fair

\* The page a frame is tied to, if it is.
TiedIn(s, f) == IF s.db.entry[f].tied THEN {s.db.entry[f].owner} ELSE {}

\* A page put out of its frame is found where the frame was backed.
PutOut(s, u, f, q) ==
  /\ q \in On(s) /\ s.pte[q] = Transition(f) /\ ~IsValid(s, q) /\ HasFrame(s, q)
  /\ ~HasFrame(u, q) /\ ~u.pte[q].modified
  /\ u.pte[q].form = "pageFile" => u.pte[q].at \in 0 .. FileSize /\ s.mapped[q] # "writeBack"
  /\ Held(u, q) = Held(s, q) /\ Seen(u, q) = Seen(s, q)

OnlyPTE(s, u) == \E h \in [On(s) -> PTE] : u = [s EXCEPT !.pte = h]

LEMMA BreakTieIs ==
  ASSUME NEW s, NEW K, Fair(s, K), NEW f \in PFN, s.db.entry[f].state = "free", NEW u, u = BreakTie(s, f)
  PROVE  /\ OnlyPTE(s, u) /\ \A q \in On(s) \ TiedIn(s, f) : u.pte[q] = s.pte[q]
         /\ \A q \in TiedIn(s, f) : PutOut(s, u, f, q)
<1> DEFINE e == s.db.entry[f]
           o == e.owner
<1>1. s \in States(On(s)) /\ s.pte \in [On(s) -> PTE]
  BY DEF Fair, Typed, States
<1>2. CASE ~e.tied
  <2>1. u = s
    BY <1>2 DEF BreakTie
  <2>2. u = [s EXCEPT !.pte = s.pte]
    BY <1>1, <2>1 DEF States
  <2> QED
    BY <1>1, <1>2, <2>1, <2>2 DEF OnlyPTE, TiedIn
<1>3. CASE e.tied
  <2>1. Holds(s, f, o)
    BY <1>3 DEF Holds
  <2>2. /\ o \in On(s) /\ o \in Owners /\ s.pte[o].at = f /\ HasFrame(s, o) /\ PageOK(s, o) /\ RecordFits(s, f, o, e)
        /\ RecordOK(e) /\ s.pte[o].form # "valid"
    BY <2>1, OwnPage
  <2>3. s.pte[o].form = "transition" /\ ~s.pte[o].modified /\ s.pte[o] \in PTE
    BY <1>1, <2>2 DEF PageOK, HasFrame
  <2>4. s.pte[o] = Transition(f)
    BY <2>2, <2>3 DEF PTE, Transition
  <2> DEFINE B == BackingForm(e.backing)
             h == [s.pte EXCEPT ![o] = B]
  <2>5. /\ B \in PTE /\ B.form \in {"pageFile", "section"} /\ B.modified = FALSE
        /\ e.backing.kind = "section" => B.form = "section"
        /\ e.backing.kind # "section" => /\ B.form = "pageFile" /\ B.at = e.backing.at /\ B.at \in 0 .. FileSize
                                         /\ e.backing.kind = "pageFile"
    <3>1. CASE e.backing = InSection(o)
      <4>1. B = SectionForm(o[2]) /\ e.backing.kind = "section"
        BY <3>1 DEF BackingForm, InSection
      <4>2. o[2] \in Int
        BY <2>2, PagerAssumption, SMTT(60) DEF Pages
      <4> QED
        BY <4>1, <4>2 DEF SectionForm, PTE
    <3>2. ASSUME NEW b \in 0 .. FileSize, e.backing = InPageFile(b)
          PROVE  <2>5!1 /\ <2>5!2 /\ <2>5!3
      <4>1. e.backing.kind = "pageFile" /\ e.backing.at = b
        BY <3>2 DEF InPageFile
      <4>2. B = PageFileForm(b)
        BY <4>1 DEF BackingForm
      <4> QED
        BY <4>1, <4>2, MapTypes DEF PageFileForm, PTE
    <3> QED
      BY <2>2, <3>1, <3>2 DEF RecordFits, StoresOf
  <2>6. u = [s EXCEPT !.pte = h]
    BY <1>3, <2>4 DEF BreakTie
  <2> HIDE DEF B, o
  <2>7. h \in [On(s) -> PTE] /\ h[o] = B /\ \A q \in On(s) \ {o} : h[q] = s.pte[q]
    BY <1>1, <2>2, <2>5
  <2>8. RecordOK(e) /\ e.state = "free" /\ e \in FrameRecord
    BY <2>1, OwnPage
  <2>9. ~e.saved
    BY <2>8 DEF RecordOK, FrameRecord
  <2>10. s.ram[f] = Stored(s, e.backing, o)
    BY <2>2, <2>3, <2>9 DEF RecordFits
  <2> HIDE DEF h
  <2>11. u.pte = h /\ u.ram = s.ram /\ u.disk = s.disk /\ u.file = s.file /\ u.db = s.db
    BY <1>1, <2>6 DEF States
  <2>12. u.pte[o] = B
    BY <2>7, <2>11
  <2>13. Seen(s, o) = s.ram[f] /\ Held(s, o) = IF e.backing.kind = "pageFile" THEN e.backing.at ELSE 0
    BY <2>2, <2>3 DEF Seen, Held
  <2> HIDE DEF e
  <2>14. ~HasFrame(u, o) /\ ~u.pte[o].modified
    BY <2>5, <2>12 DEF HasFrame
  <2>15. Seen(u, o) = Seen(s, o)
    BY <2>5, <2>10, <2>11, <2>12, <2>13, <2>14 DEF Seen, Stored
  <2>16. Held(u, o) = Held(s, o)
    BY <2>5, <2>12, <2>13 DEF Held
  <2>17. u.pte[o].form = "pageFile" => u.pte[o].at \in 0 .. FileSize /\ s.mapped[o] # "writeBack"
    BY <2>2, <2>5, <2>12 DEF RecordFits
  <2>18. PutOut(s, u, f, o)
    BY <2>2, <2>3, <2>4, <2>14, <2>15, <2>16, <2>17 DEF PutOut, IsValid
  <2>19. TiedIn(s, f) = {o}
    BY <1>3 DEF TiedIn, e, o
  <2> QED
    BY <2>6, <2>7, <2>11, <2>18, <2>19 DEF OnlyPTE
<1> QED
  BY <1>2, <1>3

\* A page given the next free frame, with what it holds.
TakenWith(d, o, store, saved) ==
  IF saved THEN SetModified(Allocate(d, "process", o, store), NextFrame(d)) ELSE Allocate(d, "process", o, store)

Took(s, o, store, contents, saved, bound) ==
  LET f == NextFrame(s.db)
  IN [BreakTie(s, f) EXCEPT !.pte[o] = Valid(f), !.db = TakenWith(@, o, store, saved), !.ram[f] = contents,
                            !.boundary = bound]

\* What makes a store and contents right for a page.
Suits(s, o, store, contents, saved) ==
  /\ store \in StoresOf(o) /\ (store.kind = "pageFile" => s.mapped[o] # "writeBack")
  /\ contents = Seen(s, o) /\ (~saved => contents = Stored(s, store, o))
  /\ Held(s, o) = IF store.kind = "pageFile" THEN store.at ELSE 0

\* What an allocated frame's record is.
FrameFor(e, o, store, saved) ==
  /\ e.tied /\ e.owner = o /\ e.type = "process" /\ e.backing = store /\ e.state = "active" /\ e.refs = 1
  /\ e.saved = saved

LEMMA TakenWithIs ==
  ASSUME NEW d, InPlace(d, PFN), CanAllocate(d), NEW o \in Owners, NEW store \in Stores, ~TiedTo(d, "process", o),
         NEW saved \in BOOLEAN, NEW v, v = TakenWith(d, o, store, saved)
  PROVE  /\ InPlace(v, PFN) /\ NextFrame(d) \in PFN /\ d.entry[NextFrame(d)].state = "free"
         /\ FrameFor(v.entry[NextFrame(d)], o, store, saved)
         /\ \A g \in PFN \ {NextFrame(d)} : v.entry[g] = d.entry[g]
<1> DEFINE f == NextFrame(d)
           a == Allocate(d, "process", o, store)
           x == [TiedPage("process", o, store) EXCEPT !.state = "active"]
<1>1. InPlace(a, PFN) /\ f \in PFN /\ d.entry[f].state = "free" /\ a.entry = [d.entry EXCEPT ![f] = x]
  BY AllocateIs
<1>2. d.entry \in [PFN -> FrameRecord] /\ a.entry \in [PFN -> FrameRecord]
  BY <1>1, PlacedTypes
<1>3. a.entry[f] = x /\ \A g \in PFN \ {f} : a.entry[g] = d.entry[g]
  BY <1>1, <1>2
<1>4. FrameFor(x, o, store, FALSE)
  BY DEF FrameFor, TiedPage, Blank
<1> HIDE DEF a, x, f
<1>5. CASE ~saved
  <2>1. v = a
    BY <1>5 DEF TakenWith, a
  <2> QED
    BY <1>1, <1>3, <1>4, <1>5, <2>1 DEF FrameFor, f
<1>6. CASE saved
  <2>1. v = WithSaved(a, f, TRUE)
    BY <1>6 DEF TakenWith, SetModified, WithSaved, a, f
  <2>2. IsActive(a, f) /\ InPlace(a, PFN) /\ f \in PFN /\ TRUE \in BOOLEAN
    BY <1>1, <1>3, <1>4 DEF IsActive, FrameFor
  <2> DEFINE y == Saved(x, TRUE)
  <2>3. InPlace(v, PFN) /\ v.entry = Put(a.entry, f, Saved(a.entry[f], TRUE))
    BY <2>1, <2>2, SavedIs
  <2>4. Saved(a.entry[f], TRUE) = y
    BY <1>3
  <2>5. FrameFor(y, o, store, TRUE)
    BY DEF FrameFor, TiedPage, Blank, Saved, x
  <2> HIDE DEF y
  <2>6. v.entry[f] = y /\ \A g \in PFN \ {f} : v.entry[g] = a.entry[g]
    BY <1>1, <1>2, <2>3, <2>4 DEF Put
  <2>7. saved = TRUE
    BY <1>6
  <2>8. FrameFor(v.entry[f], o, store, saved) /\ \A g \in PFN \ {f} : v.entry[g] = d.entry[g]
    BY <1>3, <2>5, <2>6, <2>7
  <2> QED
    BY <1>1, <2>3, <2>8 DEF f
<1> QED
  BY <1>5, <1>6

\* The tables after a frame was taken: its page is out, and o in.
TookIn(s, t, o) ==
  /\ IsValid(t, o) /\ \A q \in On(s) \ {o} : IsValid(t, q) <=> IsValid(s, q)
  /\ \A q \in On(s) \ {o} : IsValid(s, q) => t.pte[q] = s.pte[q]

LEMMA TookFits ==
  ASSUME NEW s, NEW K, Fair(s, K), NEW o \in On(s), ~HasFrame(s, o), CanAllocate(s.db), NEW store, NEW contents,
         NEW saved \in BOOLEAN, Suits(s, o, store, contents, saved), NEW bound \in BOOLEAN,
         NEW t, t = Took(s, o, store, contents, saved, bound)
  PROVE  Fair(t, K) /\ Still(s, t) /\ t.ws = s.ws /\ TookIn(s, t, o)
<1> DEFINE f == NextFrame(s.db)
           u == BreakTie(s, f)
           v == TakenWith(s.db, o, store, saved)
           O == {o} \cup TiedIn(s, f)
<1>1. o \in Owners /\ store \in Stores /\ InPlace(s.db, PFN) /\ On(s) \subseteq Owners
  <2>1. o \in Owners /\ InPlace(s.db, PFN) /\ On(s) \subseteq Owners
    BY DEF Fair, Typed
  <2>2. store \in StoresOf(o)
    BY DEF Suits
  <2>3. CASE store = InSection(o)
    BY <2>1, <2>3, PageFileStores, ZeroBlock
  <2>4. CASE \E b \in 0 .. FileSize : store = InPageFile(b)
    BY <2>1, <2>4, PageFileStores
  <2> QED
    BY <2>1, <2>2, <2>3, <2>4 DEF StoresOf
<1>2. ~TiedTo(s.db, "process", o)
  BY DEF TiedTo, Fair, FramesFit, FrameOK
<1>3. /\ InPlace(v, PFN) /\ f \in PFN /\ s.db.entry[f].state = "free"
      /\ FrameFor(v.entry[f], o, store, saved)
      /\ \A g \in PFN \ {f} : v.entry[g] = s.db.entry[g]
  BY <1>1, <1>2, TakenWithIs
<1>4. /\ OnlyPTE(s, u) /\ \A q \in On(s) \ TiedIn(s, f) : u.pte[q] = s.pte[q]
      /\ \A q \in TiedIn(s, f) : PutOut(s, u, f, q)
  BY <1>3, BreakTieIs
<1>5. PICK h \in [On(s) -> PTE] : u = [s EXCEPT !.pte = h]
  BY <1>4 DEF OnlyPTE
<1>6. /\ s \in States(On(s)) /\ s.ram \in [PFN -> Data] /\ contents \in Data
  <2>1. s \in States(On(s))
    BY DEF Fair, Typed
  <2>2. Seen(s, o) \in Data
    <3>1. s.file[o] \in Data /\ 0 \in Data /\ \A b \in Blocks : s.disk[b] \in Data
      BY <2>1 DEF States, Data
    <3>2. s.pte[o].form \in {"valid", "transition", "pageFile", "section"}
      BY <2>1 DEF States, PTE
    <3>3. s.pte[o].form = "pageFile" /\ s.pte[o].at # 0 => s.pte[o].at \in Blocks
      BY MapTypes DEF Fair, PagesFit, PageOK, Blocks
    <3> QED
      BY <3>1, <3>2, <3>3 DEF Seen, HasFrame
  <2> QED
    BY <2>1, <2>2 DEF States, Suits
<1> DEFINE k == [h EXCEPT ![o] = Valid(f)]
           r == [s.ram EXCEPT ![f] = contents]
<1>7. k \in [On(s) -> PTE] /\ k[o] = Valid(f) /\ \A q \in On(s) \ {o} : k[q] = h[q]
  BY <1>3, <1>5, TransitionIs
<1>8. r \in [PFN -> Data] /\ r[f] = contents /\ \A g \in PFN \ {f} : r[g] = s.ram[g]
  BY <1>3, <1>6
<1>9. u.pte = h /\ u.db = s.db /\ u.ram = s.ram
  BY <1>5, <1>6 DEF States
<1>10. t = [s EXCEPT !.pte = k, !.db = v, !.ram = r, !.boundary = bound]
  <2>1. t = [u EXCEPT !.pte = k, !.db = v, !.ram = r, !.boundary = bound]
    BY <1>9 DEF Took
  <2> HIDE DEF u, v, k, r, f
  <2> QED
    BY <1>5, <1>6, <2>1 DEF States
<1>11. v \in DatabaseRecord
  BY <1>3 DEF InPlace
<1> HIDE DEF v, k, r, f
<1>12. /\ t.pte = k /\ t.db = v /\ t.ram = r /\ t.mapped = s.mapped /\ t.ws = s.ws /\ t.disk = s.disk /\ t.file = s.file
       /\ t.map = s.map /\ t.pageFile = s.pageFile /\ t.touched = s.touched /\ t.asked = s.asked /\ t.inTB = s.inTB
       /\ t \in States(On(s))
  BY <1>6, <1>7, <1>8, <1>10, <1>11, ZenonT(60) DEF States
<1>13. On(t) = On(s) /\ Typed(t)
  BY <1>1, <1>12 DEF On, Typed
<1>14. \A q \in On(s) \ {o} : t.pte[q] = u.pte[q]
  BY <1>7, <1>9, <1>12
<1> HIDE DEF u
<1>15. ChangedAt(s, t, O, {f}, {})
  BY <1>3, <1>4, <1>8, <1>12, <1>13, <1>14 DEF ChangedAt
<1>16. Theirs(s, O, {f}, {})
  <2>1. s.db.entry[f].tied => s.db.entry[f].owner \in O
    BY DEF TiedIn
  <2>2. \A q \in O \cap On(s) : HasFrame(s, q) => s.pte[q].at \in {f}
    BY <1>3, <1>4, TransitionIs DEF PutOut
  <2> QED
    BY <2>1, <2>2 DEF Theirs
<1>17. Elsewhere(s, t, O) /\ \A g \in PFN \ {f} : FrameOK(t, g)
  BY <1>15, <1>16, ElsewhereFits DEF Fair
<1>18. t.pte[o].form = "valid" /\ t.pte[o].at = f /\ ~t.pte[o].modified /\ HasFrame(t, o) /\ IsValid(t, o)
  BY <1>3, <1>7, <1>12, TransitionIs, ZenonT(60) DEF HasFrame, IsValid
<1>19. FrameFor(t.db.entry[f], o, store, saved)
  BY <1>3, <1>12
<1>20. PageOK(t, o)
  BY <1>3, <1>18, <1>19 DEF PageOK, FrameFor
<1>21. RecordFits(t, f, o, t.db.entry[f])
  <2>1. Stored(t, store, o) = Stored(s, store, o) /\ t.ram[f] = contents /\ t.mapped[o] = s.mapped[o]
    BY <1>8, <1>12 DEF Stored
  <2>2. t.db.entry[f].saved = saved /\ t.db.entry[f].backing = store /\ t.db.entry[f].refs = 1
        /\ t.db.entry[f].owner = o /\ t.db.entry[f].type = "process"
    BY <1>19 DEF FrameFor
  <2> QED
    BY <1>13, <1>18, <2>1, <2>2 DEF RecordFits, Suits
<1>22. FrameOK(t, f)
  BY <1>21, FrameIs
<1>23. ASSUME NEW q \in TiedIn(s, f), q # o
       PROVE  PageOK(t, q) /\ Held(t, q) = Held(s, q) /\ Seen(t, q) = Seen(s, q) /\ ~IsValid(t, q) /\ ~IsValid(s, q)
  <2>1. PutOut(s, u, f, q) /\ t.pte[q] = u.pte[q] /\ q \in On(s)
    BY <1>4, <1>14, <1>23 DEF PutOut
  <2>2. ~HasFrame(t, q) /\ ~HasFrame(u, q) /\ t.mapped = s.mapped /\ u.pte[q] \in PTE
    BY <1>5, <1>9, <1>12, <2>1 DEF PutOut, HasFrame
  <2>3. PageOK(t, q)
    BY <2>1, <2>2 DEF PageOK, PutOut, HasFrame
  <2>4. u.disk = t.disk /\ u.file = t.file
    BY <1>5, <1>6, <1>12 DEF States
  <2>5. Seen(t, q) = Seen(u, q)
    BY <2>1, <2>2, <2>4 DEF Seen
  <2>6. Held(t, q) = Held(u, q)
    BY <2>1, <2>2 DEF Held, HasFrame, PTE
  <2> QED
    BY <2>1, <2>2, <2>3, <2>5, <2>6 DEF PutOut, IsValid, HasFrame
<1>24. Held(t, o) = Held(s, o) /\ Seen(t, o) = Seen(s, o)
  <2>1. Seen(t, o) = contents /\ Seen(s, o) = contents
    BY <1>8, <1>12, <1>18 DEF Seen, Suits
  <2>2. t.db.entry[f].backing = store /\ ~(t.pte[o].form = "pageFile") /\ ~(t.pte[o].form = "section")
    BY <1>18, <1>19 DEF FrameFor
  <2>3. Held(t, o) = IF store.kind = "pageFile" THEN store.at ELSE 0
    BY <1>18, <2>2 DEF Held
  <2> QED
    BY <2>1, <2>3 DEF Suits
<1>25. PagesFit(t) /\ FramesFit(t)
  BY <1>13, <1>17, <1>20, <1>22, <1>23 DEF PagesFit, FramesFit, Elsewhere
<1>26. \A q \in On(s) : Held(t, q) = Held(s, q) /\ Seen(t, q) = Seen(s, q)
  BY <1>17, <1>23, <1>24 DEF Elsewhere
<1>27. ListsFit(t)
  BY <1>12, <1>13 DEF Fair, ListsFit, PagesFor
<1>28. BlocksFit(t, K)
  <2>1. t.map = s.map /\ (s.map.inUse # {} => t.pageFile = "open") /\ BlocksFit(s, K)
    BY <1>12 DEF Fair, BlocksFit
  <2> QED
    BY <1>13, <1>26, <2>1, BlocksStay
<1>29. Still(s, t)
  BY <1>12, <1>26 DEF Still
<1>30. TookIn(s, t, o)
  <2>1. ASSUME NEW q \in On(s) \ {o}
        PROVE  (IsValid(t, q) <=> IsValid(s, q)) /\ (IsValid(s, q) => t.pte[q] = s.pte[q])
    <3>1. CASE q \in TiedIn(s, f)
      BY <1>23, <2>1, <3>1
    <3>2. CASE q \notin TiedIn(s, f)
      BY <1>4, <1>14, <2>1, <3>2 DEF IsValid
    <3> QED
      BY <3>1, <3>2
  <2> QED
    BY <1>18, <2>1 DEF TookIn
<1> QED
  BY <1>3, <1>12, <1>13, <1>25, <1>27, <1>28, <1>29, <1>30 DEF Fair

\* What no program sees changed.
Unseen(s, t) ==
  /\ t.mapped = s.mapped /\ t.asked = s.asked
  /\ \A o \in On(s) : Seen(t, o) = Seen(s, o)
  /\ \A o \in On(s) : s.mapped[o] # "writeBack" => t.file[o] = s.file[o]

\* The next free frame taken for a page of S0.
TookSystem(s, bound) ==
  [BreakTie(s, NextFrame(s.db)) EXCEPT !.db = AllocateSystem(@), !.touched = @ \cup {NextFrame(s.db)}, !.boundary = bound]

ValidSame(s, t) == \A q \in On(s) : (IsValid(t, q) <=> IsValid(s, q)) /\ (IsValid(s, q) => t.pte[q] = s.pte[q])

LEMMA TookSystemFits ==
  ASSUME NEW s, NEW K, Fair(s, K), CanAllocate(s.db), NEW bound \in BOOLEAN, NEW t, t = TookSystem(s, bound)
  PROVE  Fair(t, K) /\ Unseen(s, t) /\ t.ws = s.ws /\ ValidSame(s, t) /\ t.touched = s.touched \cup {NextFrame(s.db)}
         /\ t.inTB = s.inTB /\ NextFrame(s.db) \in PFN
<1> DEFINE f == NextFrame(s.db)
           u == BreakTie(s, f)
           v == AllocateSystem(s.db)
           O == TiedIn(s, f)
           x == [SystemPage EXCEPT !.state = "active"]
<1>1. InPlace(s.db, PFN) /\ On(s) \subseteq Owners /\ s \in States(On(s))
  BY DEF Fair, Typed
<1>2. InPlace(v, PFN) /\ f \in PFN /\ s.db.entry[f].state = "free" /\ v.entry = [s.db.entry EXCEPT ![f] = x]
  BY <1>1, AllocateSystemIs
<1>3. ~x.tied
  BY DEF SystemPage, Blank
<1> HIDE DEF x
<1>4. v.entry[f] = x /\ \A g \in PFN \ {f} : v.entry[g] = s.db.entry[g]
  BY <1>1, <1>2, PlacedTypes
<1>5. /\ OnlyPTE(s, u) /\ \A q \in On(s) \ TiedIn(s, f) : u.pte[q] = s.pte[q]
      /\ \A q \in TiedIn(s, f) : PutOut(s, u, f, q)
  BY <1>2, BreakTieIs
<1>6. PICK h \in [On(s) -> PTE] : u = [s EXCEPT !.pte = h]
  BY <1>5 DEF OnlyPTE
<1> DEFINE w == s.touched \cup {f}
<1>7. w \in SUBSET PFN
  BY <1>1, <1>2 DEF States
<1>8. u.pte = h /\ u.db = s.db /\ u.touched = s.touched
  BY <1>1, <1>6 DEF States
<1>9. t = [s EXCEPT !.pte = h, !.db = v, !.touched = w, !.boundary = bound]
  <2>1. t = [u EXCEPT !.db = v, !.touched = w, !.boundary = bound]
    BY <1>8 DEF TookSystem
  <2> HIDE DEF u, v, w, f
  <2> QED
    BY <1>1, <1>6, <2>1 DEF States
<1>10. v \in DatabaseRecord
  BY <1>2 DEF InPlace
<1> HIDE DEF v, f, w
<1>11. /\ t.pte = h /\ t.db = v /\ t.ram = s.ram /\ t.mapped = s.mapped /\ t.ws = s.ws /\ t.disk = s.disk /\ t.file = s.file
       /\ t.map = s.map /\ t.pageFile = s.pageFile /\ t.touched = w /\ t.asked = s.asked /\ t.inTB = s.inTB
       /\ t \in States(On(s))
  BY <1>1, <1>7, <1>6, <1>9, <1>10, ZenonT(60) DEF States
<1>12. On(t) = On(s) /\ Typed(t)
  BY <1>1, <1>11 DEF On, Typed
<1>13. \A q \in On(s) : t.pte[q] = u.pte[q]
  BY <1>8, <1>11
<1>14. ChangedAt(s, t, O, {f}, {})
  <2>1. \A q \in On(s) \ O : t.pte[q] = s.pte[q]
    BY <1>5, <1>13
  <2> QED
    BY <1>4, <1>11, <1>12, <2>1 DEF ChangedAt
<1>15. Theirs(s, O, {f}, {})
  <2>1. s.db.entry[f].tied => s.db.entry[f].owner \in O
    BY DEF TiedIn
  <2>2. \A q \in O \cap On(s) : HasFrame(s, q) => s.pte[q].at \in {f}
    BY <1>2, <1>5, TransitionIs DEF PutOut
  <2> QED
    BY <2>1, <2>2 DEF Theirs
<1>16. Elsewhere(s, t, O) /\ \A g \in PFN \ {f} : FrameOK(t, g)
  BY <1>14, <1>15, ElsewhereFits DEF Fair
<1>17. FrameOK(t, f)
  BY <1>3, <1>4, <1>11 DEF FrameOK
<1>18. ASSUME NEW q \in TiedIn(s, f)
       PROVE  PageOK(t, q) /\ Held(t, q) = Held(s, q) /\ Seen(t, q) = Seen(s, q) /\ ~IsValid(t, q) /\ ~IsValid(s, q)
  <2>1. PutOut(s, u, f, q) /\ q \in On(s) /\ t.pte[q] = u.pte[q]
    BY <1>5, <1>13, <1>18 DEF PutOut
  <2>2. ~HasFrame(t, q) /\ ~HasFrame(u, q) /\ t.mapped = s.mapped /\ u.pte[q] \in PTE
    BY <1>6, <1>8, <1>11, <2>1 DEF PutOut, HasFrame
  <2>3. PageOK(t, q)
    BY <2>1, <2>2 DEF PageOK, PutOut, HasFrame
  <2>4. u.disk = t.disk /\ u.file = t.file
    BY <1>6, <1>1, <1>11 DEF States
  <2>5. Seen(t, q) = Seen(u, q)
    BY <2>1, <2>2, <2>4 DEF Seen
  <2>6. Held(t, q) = Held(u, q)
    BY <2>1, <2>2 DEF Held, HasFrame, PTE
  <2> QED
    BY <2>1, <2>2, <2>3, <2>5, <2>6 DEF PutOut, IsValid, HasFrame
<1>19. PagesFit(t) /\ FramesFit(t)
  BY <1>12, <1>16, <1>17, <1>18 DEF PagesFit, FramesFit, Elsewhere
<1>20. \A q \in On(s) : Held(t, q) = Held(s, q) /\ Seen(t, q) = Seen(s, q)
  BY <1>16, <1>18 DEF Elsewhere
<1>21. ListsFit(t)
  BY <1>11, <1>12 DEF Fair, ListsFit, PagesFor
<1>22. BlocksFit(t, K)
  <2>1. t.map = s.map /\ (s.map.inUse # {} => t.pageFile = "open") /\ BlocksFit(s, K)
    BY <1>11 DEF Fair, BlocksFit
  <2> QED
    BY <1>12, <1>20, <2>1, BlocksStay
<1>23. Unseen(s, t)
  BY <1>11, <1>20 DEF Unseen
<1>24. ValidSame(s, t)
  BY <1>5, <1>13, <1>18 DEF ValidSame, IsValid
<1> QED
  BY <1>2, <1>4, <1>11, <1>12, <1>19, <1>21, <1>22, <1>23, <1>24 DEF Fair, w, f

\* A process's list replaced.
SetList(s, p, l) == [s EXCEPT !.ws[p] = l]

InList(s, q) == q[2] \in PagesIn(s.ws[q[1]])

LEMMA OwnersAre ==
  ASSUME NEW s, Typed(s), NEW o \in On(s)
  PROVE  o[1] \in Procs /\ o[2] \in Pages /\ o = <<o[1], o[2]>> /\ o \in Owners /\ o[2] \in PagesFor(s, o[1])
<1>1. o \in Procs \X Pages /\ o \in Owners
  BY PagerAssumption DEF Typed
<1> QED
  BY <1>1 DEF PagesFor

LEMMA SetListFits ==
  ASSUME NEW s, NEW K, Fair(s, K), NEW p \in Procs, NEW l \in ListRecord, Sized(l), PagesIn(l) \subseteq PagesFor(s, p),
         NEW t, t = SetList(s, p, l)
  PROVE  /\ Fair(t, K) /\ Still(s, t) /\ t.pte = s.pte /\ t.db = s.db /\ t.ws = [s.ws EXCEPT ![p] = l]
         /\ t.boundary = s.boundary /\ On(t) = On(s) /\ t.file = s.file
<1>1. s \in States(On(s)) /\ On(s) \subseteq Owners
  BY DEF Fair, Typed
<1> DEFINE w == [s.ws EXCEPT ![p] = l]
<1>2. w \in [Procs -> ListRecord] /\ w[p] = l /\ \A q \in Procs \ {p} : w[q] = s.ws[q]
  BY <1>1 DEF States
<1>3. t = [s EXCEPT !.ws = w]
  BY DEF SetList
<1>4. t.ws = w
  BY <1>1, <1>3 DEF States
<1> HIDE DEF w
<1>5. /\ t.db = s.db /\ t.pte = s.pte /\ t.ram = s.ram /\ t.mapped = s.mapped /\ t.disk = s.disk /\ t.file = s.file
      /\ t.map = s.map /\ t.pageFile = s.pageFile /\ t.touched = s.touched /\ t.asked = s.asked /\ t.inTB = s.inTB
      /\ t.boundary = s.boundary /\ t \in States(On(s))
  BY <1>1, <1>2, <1>3 DEF States
<1>6. SameMemory(s, t)
  BY <1>5 DEF SameMemory
<1>7. On(t) = On(s) /\ PagesFit(t) /\ FramesFit(t) /\ \A o \in On(s) : Held(t, o) = Held(s, o) /\ Seen(t, o) = Seen(s, o)
  BY <1>6, SameMemoryFits DEF Fair
<1>8. Typed(t)
  BY <1>1, <1>5, <1>7 DEF Typed
<1>9. ListsFit(t)
  BY <1>2, <1>4, <1>7 DEF Fair, ListsFit, PagesFor
<1>10. BlocksFit(t, K)
  <2>1. t.map = s.map /\ (s.map.inUse # {} => t.pageFile = "open") /\ BlocksFit(s, K)
    BY <1>5 DEF Fair, BlocksFit
  <2> QED
    BY <1>7, <2>1, BlocksStay
<1>11. Still(s, t)
  BY <1>5, <1>7 DEF Still
<1> QED
  BY <1>4, <1>5, <1>7, <1>8, <1>9, <1>10, <1>11 DEF Fair, w

\* A page out of its list.
Left(s, t, o) ==
  /\ Still(s, t) /\ t.pte = s.pte /\ t.db = s.db /\ On(t) = On(s) /\ t.boundary = s.boundary /\ t.file = s.file
  /\ \A q \in On(s) : InList(t, q) <=> InList(s, q) /\ q # o

LEMMA LeaveFits ==
  ASSUME NEW s, NEW K, Fair(s, K), NEW o \in On(s), NEW t, t = LeaveWorkingSet(s, o[1], o[2])
  PROVE  Fair(t, K) /\ Left(s, t, o)
<1>1. o[1] \in Procs /\ o[2] \in Pages /\ o = <<o[1], o[2]>>
  BY OwnersAre DEF Fair
<1>2. s \in States(On(s)) /\ s.ws[o[1]] \in ListRecord /\ Sized(s.ws[o[1]]) /\ PagesIn(s.ws[o[1]]) \subseteq PagesFor(s, o[1])
  BY <1>1 DEF Fair, Typed, States, ListsFit
<1>3. CASE o[2] \notin PagesIn(s.ws[o[1]])
  <2>1. t = s
    BY <1>3 DEF LeaveWorkingSet
  <2>2. Still(s, s)
    BY DEF Still
  <2> QED
    BY <1>3, <2>1, <2>2 DEF Left, InList
<1>4. CASE o[2] \in PagesIn(s.ws[o[1]])
  <2> DEFINE l == RemovePage(s.ws[o[1]], o[2])
  <2>1. t = SetList(s, o[1], l)
    BY <1>4 DEF LeaveWorkingSet, SetList
  <2>2. Sized(l) /\ l \in ListRecord /\ PagesIn(l) = PagesIn(s.ws[o[1]]) \ {o[2]}
    BY <1>2, <1>4, RemoveFits
  <2> HIDE DEF l
  <2>3. PagesIn(l) \subseteq PagesFor(s, o[1])
    BY <1>2, <2>2
  <2>4. /\ Fair(t, K) /\ Still(s, t) /\ t.pte = s.pte /\ t.db = s.db /\ t.ws = [s.ws EXCEPT ![o[1]] = l]
        /\ t.boundary = s.boundary /\ On(t) = On(s) /\ t.file = s.file
    BY <1>1, <2>1, <2>2, <2>3, SetListFits
  <2>5. s.ws \in [Procs -> ListRecord]
    BY <1>2 DEF States
  <2>6. ASSUME NEW q \in On(s)
        PROVE  InList(t, q) <=> InList(s, q) /\ q # o
    <3>1. q[1] \in Procs /\ q = <<q[1], q[2]>>
      BY OwnersAre DEF Fair
    <3>2. CASE q[1] = o[1]
      <4>1. t.ws[q[1]] = l
        BY <1>1, <2>4, <2>5, <3>2
      <4> QED
        BY <1>1, <2>2, <3>1, <3>2, <4>1 DEF InList
    <3>3. CASE q[1] # o[1]
      <4>1. t.ws[q[1]] = s.ws[q[1]]
        BY <2>4, <2>5, <3>1, <3>3
      <4> QED
        BY <3>3, <4>1 DEF InList
    <3> QED
      BY <3>2, <3>3
  <2> QED
    BY <2>4, <2>6 DEF Left
<1> QED
  BY <1>3, <1>4

\* A page deleted, and a page of zeros in its place.
Gone(w, o, d, fl) ==
  [w EXCEPT !.db = d, !.file = fl, !.mapped[o] = "none", !.pte[o] = PageFileForm(0), !.asked[o] = 0]

\* The database without the page's frames.
Emptied(s, d, F) ==
  InPlace(d, PFN) /\ (\A g \in PFN \ F : d.entry[g] = s.db.entry[g]) /\ \A g \in F : ~d.entry[g].tied

FileWith(s, o, fl) == fl \in [On(s) -> Data] /\ \A q \in On(s) \ {o} : fl[q] = s.file[q]

\* What is then the case.
Made(s, t, o) ==
  /\ On(t) = On(s) /\ t.mapped = [s.mapped EXCEPT ![o] = "none"] /\ t.asked = [s.asked EXCEPT ![o] = 0]
  /\ t.touched = s.touched /\ t.inTB = s.inTB /\ t.ws = s.ws /\ t.pte = [s.pte EXCEPT ![o] = PageFileForm(0)]
  /\ Seen(t, o) = 0 /\ \A q \in On(s) \ {o} : Seen(t, q) = Seen(s, q)

LEMMA GoneFits ==
  ASSUME NEW s, NEW K, Fair(s, K), NEW o \in On(s), NEW d, NEW F, Emptied(s, d, F), Theirs(s, {o}, F, {}),
         NEW fl, FileWith(s, o, fl), NEW w, Typed(w), SameButMap(s, w), MapOK(w.map),
         w.map.inUse = s.map.inUse \ {Held(s, o)}, NEW t, t = Gone(w, o, d, fl)
  PROVE  Fair(t, K) /\ Made(s, t, o) /\ t.file = fl
<1>1. On(w) = On(s) /\ w \in States(On(s)) /\ On(s) \subseteq Owners
  BY DEF SameButMap, On, Typed
<1> DEFINE m == [w.mapped EXCEPT ![o] = "none"]
           k == [w.pte EXCEPT ![o] = PageFileForm(0)]
           a == [w.asked EXCEPT ![o] = 0]
           P == PageFileForm(0)
<1>2. P \in PTE /\ P.form = "pageFile" /\ P.at = 0 /\ ~P.modified /\ 0 \in 0 .. FileSize
  BY ZeroBlock DEF PTE, PageFileForm
<1>3. m \in [On(s) -> SectionKinds] /\ m[o] = "none" /\ \A q \in On(s) \ {o} : m[q] = w.mapped[q]
  BY <1>1 DEF States, SectionKinds
<1>4. a \in [On(s) -> Data]
  BY <1>1 DEF States, Data
<1>5. k \in [On(s) -> PTE] /\ k[o] = P /\ \A q \in On(s) \ {o} : k[q] = w.pte[q]
  BY <1>1, <1>2 DEF States
<1>6. t = [w EXCEPT !.db = d, !.file = fl, !.mapped = m, !.pte = k, !.asked = a]
  BY DEF Gone
<1>7. d \in DatabaseRecord /\ fl \in [On(s) -> Data]
  BY DEF Emptied, InPlace, FileWith
<1>8. m = [s.mapped EXCEPT ![o] = "none"] /\ k = [s.pte EXCEPT ![o] = P] /\ a = [s.asked EXCEPT ![o] = 0]
  BY DEF SameButMap
<1> HIDE DEF m, k, a, P
<1>9. /\ t.db = d /\ t.file = fl /\ t.mapped = m /\ t.pte = k /\ t.asked = a /\ t.ws = w.ws /\ t.ram = w.ram /\ t.disk = w.disk
      /\ t.map = w.map /\ t.pageFile = w.pageFile /\ t.touched = w.touched /\ t.inTB = w.inTB /\ t \in States(On(s))
  <2>1. w \in States(On(s))
    BY <1>1
  <2>2. /\ t.db = d /\ t.file = fl /\ t.mapped = m /\ t.pte = k /\ t.asked = a /\ t.ws = w.ws /\ t.ram = w.ram
        /\ t.disk = w.disk /\ t.map = w.map /\ t.pageFile = w.pageFile /\ t.touched = w.touched /\ t.inTB = w.inTB
    BY <1>6, <2>1 DEF States
  <2>3. t \in States(On(s))
    <3> DEFINE u == [w EXCEPT !.db = d, !.file = fl]
    <3>1. u \in States(On(s))
      BY <1>7, <2>1 DEF States
    <3>2. t = [u EXCEPT !.mapped = m, !.pte = k, !.asked = a]
      BY <1>6, <2>1 DEF States
    <3> HIDE DEF u
    <3> QED
      BY <1>3, <1>4, <1>5, <3>1, <3>2, ZenonT(60) DEF States
  <2> QED
    BY <2>2, <2>3
<1>10. On(t) = On(s) /\ Typed(t)
  BY <1>1, <1>3, <1>9 DEF On, Typed
<1>11. /\ t.ws = s.ws /\ t.ram = s.ram /\ t.disk = s.disk /\ t.pageFile = s.pageFile /\ t.touched = s.touched
       /\ t.inTB = s.inTB /\ w.mapped = s.mapped /\ w.pte = s.pte
  BY <1>9 DEF SameButMap
<1>12. ChangedAt(s, t, {o}, F, {})
  BY <1>3, <1>5, <1>9, <1>10, <1>11 DEF ChangedAt, Emptied, FileWith
<1>13. Elsewhere(s, t, {o}) /\ \A g \in PFN \ F : FrameOK(t, g)
  BY <1>12, ElsewhereFits DEF Fair
<1>14. \A g \in F : FrameOK(t, g)
  BY <1>9 DEF FrameOK, Emptied
<1>15. t.pte[o] = P /\ t.mapped[o] = "none" /\ ~HasFrame(t, o)
  BY <1>2, <1>3, <1>5, <1>9 DEF HasFrame
<1>16. PageOK(t, o) /\ Held(t, o) = 0 /\ Seen(t, o) = 0
  BY <1>2, <1>15 DEF PageOK, Held, Seen
<1>17. PagesFit(t) /\ FramesFit(t)
  BY <1>10, <1>13, <1>14, <1>16 DEF PagesFit, FramesFit, Elsewhere
<1>18. ListsFit(t)
  BY <1>10, <1>11 DEF Fair, ListsFit, PagesFor
<1>19. BlocksFit(t, K)
  <2>1. BlocksFit(s, K) /\ t.map = w.map /\ \A q \in On(s) \ {o} : Held(t, q) = Held(s, q)
    BY <1>9, <1>13 DEF Fair, Elsewhere
  <2>2. BlocksFit(t, K \ {Held(t, o)})
    BY <1>10, <1>11, <1>16, <2>1, BlocksMove
  <2>3. s.map.inUse \subseteq Blocks
    BY DEF Fair, Typed, States
  <2>4. 0 \notin K
    BY <2>1, <2>3, BlocksAre DEF BlocksFit
  <2>5. K \ {Held(t, o)} = K
    BY <1>16, <2>4
  <2> QED
    BY <2>2, <2>5
<1>20. Made(s, t, o)
  <2>1. \A q \in On(s) \ {o} : Seen(t, q) = Seen(s, q)
    BY <1>13 DEF Elsewhere
  <2> QED
    BY <1>8, <1>9, <1>10, <1>11, <1>16, <2>1 DEF Made, P
<1>21. InPlace(t.db, PFN)
  BY <1>9 DEF Emptied
<1> QED
  BY <1>9, <1>10, <1>17, <1>18, <1>19, <1>20, <1>21 DEF Fair

\* The two ways ReleasePTE leaves the page, and the page of zeros in its place.
Zeroed(r, o) == [r EXCEPT !.pte[o] = PageFileForm(0), !.asked[o] = 0]

Unmapped(w, o) == [w EXCEPT !.mapped[o] = "none"]

UnmappedAndDeleted(w, o, f) == [w EXCEPT !.mapped[o] = "none", !.db = Delete(@, f)]

WithDatabase(w, d, fl) == [w EXCEPT !.db = d, !.file = fl]

LEMMA ZeroedIs ==
  ASSUME NEW w, Typed(w), NEW o \in On(w)
  PROVE  /\ Zeroed(Unmapped(w, o), o) = Gone(w, o, w.db, w.file)
         /\ \A D \in DatabaseRecord : \A fl \in [On(w) -> Data] : \A f :
              Zeroed(UnmappedAndDeleted(WithDatabase(w, D, fl), o, f), o) = Gone(w, o, Delete(D, f), fl)
<1>1. w \in States(On(w))
  BY DEF Typed
<1>2. Zeroed(Unmapped(w, o), o) = Gone(w, o, w.db, w.file)
  BY <1>1 DEF States, Zeroed, Unmapped, Gone
<1>3. ASSUME NEW D \in DatabaseRecord, NEW fl \in [On(w) -> Data], NEW f
      PROVE  Zeroed(UnmappedAndDeleted(WithDatabase(w, D, fl), o, f), o) = Gone(w, o, Delete(D, f), fl)
  BY <1>1, <1>3 DEF States, Zeroed, UnmappedAndDeleted, WithDatabase, Gone
<1> QED
  BY <1>2, <1>3

\* What creating a page over another does.
Created(s, t, o) ==
  /\ On(t) = On(s) /\ t.mapped = [s.mapped EXCEPT ![o] = "none"] /\ t.asked = [s.asked EXCEPT ![o] = 0]
  /\ t.touched = s.touched /\ t.inTB = s.inTB /\ t.pte = [s.pte EXCEPT ![o] = PageFileForm(0)]
  /\ Seen(t, o) = 0 /\ \A q \in On(s) \ {o} : Seen(t, q) = Seen(s, q)
  /\ t.file \in [On(s) -> Data] /\ \A q \in On(s) \ {o} : t.file[q] = s.file[q]
  /\ t.file[o] = IF s.mapped[o] = "writeBack" THEN Seen(s, o) ELSE s.file[o]
  /\ \A q \in On(s) : InList(t, q) <=> InList(s, q) /\ q # o

LEMMA NoFrameGone ==
  ASSUME NEW s, NEW K, Fair(s, K), NEW o \in On(s), ~HasFrame(s, o), NEW w, w = ReleaseBlock(s, o),
         NEW t, t = Zeroed(Unmapped(w, o), o)
  PROVE  Fair(t, K) /\ Made(s, t, o) /\ FileWith(s, o, t.file)
         /\ t.file[o] = IF s.mapped[o] = "writeBack" THEN Seen(s, o) ELSE s.file[o]
<1>1. Typed(s) /\ PageOK(s, o) /\ s.pte[o] \in PTE /\ MapOK(s.map) /\ (s.map.inUse # {} => s.pageFile = "open")
      /\ s.file \in [On(s) -> Data]
  BY DEF Fair, Typed, States, PagesFit, BlocksFit
<1>2. PICK run : run \subseteq s.map.inUse /\ w = FreePageFile(s, run) /\ s.map.inUse \ run = s.map.inUse \ {Held(s, o)}
  <2>1. CASE s.pte[o].form = "pageFile"
    <3> DEFINE run == BlockOf(InPageFile(s.pte[o].at))
    <3>1. w = FreePageFile(s, run)
      BY <2>1 DEF ReleaseBlock
    <3>2. Held(s, o) = s.pte[o].at
      BY <2>1 DEF Held
    <3>3. run = IF Held(s, o) = 0 THEN {} ELSE {Held(s, o)}
      BY <3>2 DEF BlockOf, InPageFile
    <3>4. Held(s, o) # 0 => Held(s, o) \in s.map.inUse
      BY DEF Fair, BlocksFit
    <3>5. 0 \notin s.map.inUse
      BY <1>1, BlocksAre DEF Typed, States
    <3> QED
      BY <3>1, <3>3, <3>4, <3>5
  <2>2. CASE s.pte[o].form = "section"
    <3>1. w = s
      BY <2>2 DEF ReleaseBlock, HeldFrame, IsValid, InTransition
    <3>2. Held(s, o) = 0
      BY <2>2 DEF Held
    <3>3. 0 \notin s.map.inUse
      BY <1>1, BlocksAre DEF Typed, States
    <3>4. w = FreePageFile(s, {})
      BY <3>1 DEF FreePageFile
    <3> QED
      BY <3>2, <3>3, <3>4
  <2> QED
    BY <1>1, <2>1, <2>2 DEF PTE, HasFrame
<1>3. Typed(w) /\ SameButMap(s, w) /\ MapOK(w.map) /\ w.map.inUse = s.map.inUse \ {Held(s, o)}
  BY <1>1, <1>2, FreePageFileIs
<1>4. On(w) = On(s) /\ o \in On(w) /\ w.db = s.db /\ w.file = s.file
  BY <1>3 DEF SameButMap, On
<1>5. t = Gone(w, o, s.db, s.file)
  <2>1. t = Gone(w, o, w.db, w.file)
    BY <1>3, <1>4, ZeroedIs
  <2> QED
    BY <1>4, <2>1
<1>6. Emptied(s, s.db, {}) /\ FileWith(s, o, s.file)
  BY <1>1 DEF Emptied, FileWith, Fair
<1>7. Theirs(s, {o}, {}, {})
  BY DEF Theirs
<1>8. Fair(t, K) /\ Made(s, t, o) /\ t.file = s.file
  BY <1>3, <1>5, <1>6, <1>7, GoneFits
<1>9. s.mapped[o] = "writeBack" => Seen(s, o) = s.file[o]
  BY <1>1 DEF PageOK, Seen, HasFrame, PTE
<1> QED
  BY <1>6, <1>8, <1>9

LEMMA FrameGone ==
  ASSUME NEW s, NEW K, Fair(s, K), NEW o \in On(s), HasFrame(s, o), NEW f, At(s, o, f),
         NEW w, w = ReleaseBlock(s, o), NEW v, v = WriteBack(w, o), NEW t, t = Zeroed(UnmappedAndDeleted(v, o, f), o)
  PROVE  Fair(t, K) /\ Made(s, t, o) /\ FileWith(s, o, t.file)
         /\ t.file[o] = IF s.mapped[o] = "writeBack" THEN Seen(s, o) ELSE s.file[o]
<1>1. Typed(s) /\ PageOK(s, o) /\ s.file \in [On(s) -> Data] /\ s.ram \in [PFN -> Data] /\ InPlace(s.db, PFN)
  BY DEF Fair, Typed, States, PagesFit
<1>2. f \in PFN /\ Holds(s, f, o)
  BY FrameOfPage
<1>3. HeldFrame(s, o) /\ s.pte[o].form # "pageFile"
  BY <1>1 DEF HeldFrame, PageOK, HasFrame, IsValid, InTransition
<1>4. w = ForgetPageFileBlock(s, f)
  BY <1>3 DEF ReleaseBlock, At
<1> DEFINE u == FreePageFile(s, BlockOf(s.db.entry[f].backing))
<1>5. Typed(u) /\ SameButMap(s, u) /\ MapOK(u.map) /\ u.map.inUse = s.map.inUse \ {Held(s, o)}
  BY <1>2, BlockIsHeld
<1>6. PICK D : /\ D = u.db \/ D = SetBacking(u.db, f, InPageFile(0))
               /\ w = [u EXCEPT !.db = D]
  <2>1. CASE BlockOf(s.db.entry[f].backing) = {}
    <3>1. w = s /\ u = s
      BY <1>4, <2>1 DEF ForgetPageFileBlock, FreePageFile
    <3>2. s = [s EXCEPT !.db = s.db]
      BY <1>1 DEF Typed, States
    <3> QED
      BY <3>1, <3>2
  <2>2. CASE BlockOf(s.db.entry[f].backing) # {}
    BY <1>4, <2>2 DEF ForgetPageFileBlock
  <2> QED
    BY <2>1, <2>2
<1> HIDE DEF u
<1>7. u.db = s.db /\ u.file = s.file /\ u.mapped = s.mapped /\ u.pte = s.pte /\ u.ram = s.ram /\ On(u) = On(s)
      /\ u \in States(On(s))
  BY <1>5 DEF SameButMap, On, Typed
<1>8. /\ InPlace(D, PFN) /\ D \in DatabaseRecord /\ \A g \in PFN \ {f} : D.entry[g] = s.db.entry[g]
      /\ D.entry[f].saved = s.db.entry[f].saved
  <2>1. s.db.entry \in [PFN -> FrameRecord] /\ s.db.entry[f] \in FrameRecord
    BY <1>1, <1>2, PlacedTypes
  <2>2. CASE D = s.db
    BY <1>1, <2>2 DEF InPlace
  <2>3. CASE D = SetBacking(s.db, f, InPageFile(0))
    <3>1. InPageFile(0) \in Stores /\ s.db.entry[f].tied
      BY <1>2, PageFileStores, ZeroBlock, OwnersAre DEF Holds, Fair
    <3> DEFINE z == InPageFile(0)
    <3>2. z \in Stores /\ s.db.entry[f].tied /\ InPlace(s.db, PFN) /\ D = SetBacking(s.db, f, z)
      BY <1>1, <2>3, <3>1
    <3> HIDE DEF z
    <3>3. InPlace(D, PFN) /\ D.entry = [s.db.entry EXCEPT ![f] = [s.db.entry[f] EXCEPT !.backing = z]]
      BY <1>2, <3>2, SetBackingIs
    <3>4. InPlace(D, PFN) /\ D.entry = [s.db.entry EXCEPT ![f] = [s.db.entry[f] EXCEPT !.backing = InPageFile(0)]]
      BY <3>3 DEF z
    <3>5. [s.db.entry[f] EXCEPT !.backing = InPageFile(0)].saved = s.db.entry[f].saved
      BY <2>1 DEF FrameRecord
    <3> DEFINE e == [s.db.entry[f] EXCEPT !.backing = InPageFile(0)]
    <3> HIDE DEF e
    <3>6. D.entry = [s.db.entry EXCEPT ![f] = e] /\ e.saved = s.db.entry[f].saved
      BY <3>4, <3>5 DEF e
    <3> QED
      BY <1>2, <2>1, <3>4, <3>6 DEF InPlace
  <2> QED
    BY <1>6, <1>7, <2>2, <2>3
<1>9. w.db = D /\ w.file = s.file /\ w.mapped = s.mapped /\ w.pte = s.pte /\ w.ram = s.ram
  BY <1>6, <1>7 DEF States
<1> DEFINE owed == s.mapped[o] = "writeBack" /\ (s.pte[o].modified \/ s.db.entry[f].saved)
           fl == IF owed THEN [s.file EXCEPT ![o] = s.ram[f]] ELSE s.file
<1>10. FileWith(s, o, fl) /\ fl[o] = IF owed THEN s.ram[f] ELSE s.file[o]
  BY <1>1, <1>2 DEF FileWith
<1>11. v = WithDatabase(u, D, fl)
  <2>1. v = IF owed THEN [w EXCEPT !.file = [s.file EXCEPT ![o] = s.ram[f]]] ELSE w
    BY <1>8, <1>9 DEF WriteBack, At
  <2>2. w = [w EXCEPT !.file = s.file]
    BY <1>6, <1>7, <1>8, <1>9 DEF States
  <2>3. v = [w EXCEPT !.file = fl]
    BY <2>1, <2>2
  <2> HIDE DEF fl
  <2> QED
    BY <1>6, <2>3 DEF WithDatabase
<1> DEFINE d == Delete(D, f)
<1>12. t = Gone(u, o, d, fl)
  BY <1>5, <1>7, <1>8, <1>10, <1>11, ZeroedIs DEF FileWith
<1>13. InPlace(d, PFN) /\ d.entry = [D.entry EXCEPT ![f] = Blank]
  BY <1>2, <1>8, DeleteIs
<1>14. Emptied(s, d, {f})
  <2>1. D.entry \in [PFN -> FrameRecord]
    BY <1>8, PlacedTypes, <1>2
  <2>2. ~Blank.tied
    BY DEF Blank
  <2> DEFINE e == Blank
  <2> HIDE DEF e
  <2>3. d.entry = [D.entry EXCEPT ![f] = e] /\ ~e.tied
    BY <1>13, <2>2 DEF e
  <2> HIDE DEF d
  <2> QED
    BY <1>2, <1>8, <1>13, <2>1, <2>3 DEF Emptied
<1>15. Theirs(s, {o}, {f}, {})
  BY <1>2, OwnFrame
<1> HIDE DEF d, fl
<1>16. Fair(t, K) /\ Made(s, t, o) /\ t.file = fl
  BY <1>5, <1>10, <1>12, <1>14, <1>15, GoneFits
<1>17. s.mapped[o] = "writeBack" => fl[o] = Seen(s, o)
  <2>1. Seen(s, o) = s.ram[f]
    BY DEF Seen, At
  <2>2. FrameOK(s, f) /\ s.db.entry[f].tied /\ s.db.entry[f].owner = o
    BY <1>2 DEF Fair, FramesFit, Holds
  <2>3. s.mapped[o] = "writeBack" => s.db.entry[f].backing.kind = "section"
    BY <1>2, StoreIsFile
  <2>4. s.mapped[o] = "writeBack" /\ ~owed => s.ram[f] = s.file[o]
    BY <2>2, <2>3 DEF FrameOK, Stored
  <2> QED
    BY <1>10, <2>1, <2>4
<1>18. s.mapped[o] # "writeBack" => fl[o] = s.file[o]
  BY <1>10
<1> QED
  BY <1>10, <1>16, <1>17, <1>18

LEMMA CreatedFits ==
  ASSUME NEW s, NEW K, Fair(s, K), NEW o \in On(s), NEW t, t = Zeroed(ReleasePTE(s, o), o)
  PROVE  Fair(t, K) /\ Created(s, t, o)
<1> DEFINE u == LeaveWorkingSet(s, o[1], o[2])
<1>1. Fair(u, K) /\ Left(s, u, o)
  BY LeaveFits
<1> DEFINE w == ReleaseBlock(u, o)
           v == WriteBack(w, o)
<1>2. ReleasePTE(s, o) = IF s.pte[o].form = "section" \/ ~HeldFrame(s, o) THEN Unmapped(w, o)
                         ELSE UnmappedAndDeleted(v, o, s.pte[o].at)
  BY DEF ReleasePTE, Unmapped, UnmappedAndDeleted
<1> HIDE DEF u, w, v
<1>3. u.pte = s.pte /\ u.db = s.db /\ On(u) = On(s) /\ u.file = s.file /\ Still(s, u)
  BY <1>1 DEF Left
<1>4. Fair(t, K) /\ Made(u, t, o) /\ FileWith(u, o, t.file)
      /\ t.file[o] = IF u.mapped[o] = "writeBack" THEN Seen(u, o) ELSE u.file[o]
  <2>1. CASE HasFrame(s, o)
    <3>1. PageOK(s, o)
      BY DEF Fair, PagesFit
    <3>2. s.pte[o].form # "section" /\ HeldFrame(s, o)
      BY <2>1, <3>1 DEF HeldFrame, PageOK, HasFrame, IsValid, InTransition
    <3> DEFINE f == s.pte[o].at
    <3>3. t = Zeroed(UnmappedAndDeleted(v, o, f), o)
      BY <1>2, <3>2
    <3>4. HasFrame(u, o) /\ At(u, o, f) /\ o \in On(u)
      BY <1>3, <2>1 DEF HasFrame, At
    <3> HIDE DEF f
    <3>5. w = ReleaseBlock(u, o) /\ v = WriteBack(w, o)
      BY DEF w, v
    <3> QED
      BY <1>1, <3>3, <3>4, <3>5, FrameGone
  <2>2. CASE ~HasFrame(s, o)
    <3>1. s.pte[o].form = "section" \/ ~HeldFrame(s, o)
      BY <2>2 DEF HeldFrame, HasFrame, IsValid, InTransition
    <3>2. t = Zeroed(Unmapped(w, o), o)
      BY <1>2, <3>1
    <3>3. ~HasFrame(u, o) /\ o \in On(u)
      BY <1>3, <2>2 DEF HasFrame
    <3>4. w = ReleaseBlock(u, o)
      BY DEF w
    <3> QED
      BY <1>1, <3>2, <3>3, <3>4, NoFrameGone
  <2> QED
    BY <2>1, <2>2
<1>5. /\ On(t) = On(s) /\ t.mapped = [s.mapped EXCEPT ![o] = "none"] /\ t.asked = [s.asked EXCEPT ![o] = 0]
      /\ t.touched = s.touched /\ t.inTB = s.inTB /\ t.pte = [s.pte EXCEPT ![o] = PageFileForm(0)]
      /\ t.ws = u.ws /\ Seen(t, o) = 0
  BY <1>3, <1>4 DEF Made, Still
<1>6. \A q \in On(s) \ {o} : Seen(t, q) = Seen(s, q)
  BY <1>3, <1>4 DEF Made, Still
<1>7. /\ t.file \in [On(s) -> Data] /\ \A q \in On(s) \ {o} : t.file[q] = s.file[q]
      /\ t.file[o] = IF s.mapped[o] = "writeBack" THEN Seen(s, o) ELSE s.file[o]
  BY <1>3, <1>4 DEF FileWith, Still
<1>8. \A q \in On(s) : InList(t, q) <=> InList(s, q) /\ q # o
  BY <1>1, <1>5 DEF Left, InList
<1> QED
  BY <1>4, <1>5, <1>6, <1>7, <1>8 DEF Created

-----------------------------------------------------------------------------
(* Several of them. *)

LEMMA StillAgain ==
  ASSUME NEW s, NEW t, NEW u, Still(s, t), Still(t, u)
  PROVE  Still(s, u)
BY DEF Still, On

LEMMA StillSame == \A s : Still(s, s) /\ Settled(s, s) /\ Quiet(s, s)
BY DEF Still, Settled, Quiet, IsValid, Stays

LEMMA SettledAgain ==
  ASSUME NEW s, NEW t, NEW u, Settled(s, t), Settled(t, u)
  PROVE  Settled(s, u)
<1>1. Still(s, u)
  BY StillAgain DEF Settled
<1> QED
  BY <1>1 DEF Settled

LEMMA SettledQuiet ==
  ASSUME NEW s, NEW t, Settled(s, t)
  PROVE  Quiet(s, t) /\ On(t) = On(s) /\ \A E : Listed(s, E) <=> Listed(t, E)
<1>1. On(t) = On(s) /\ Still(s, t) /\ t.pte = s.pte /\ t.ws = s.ws
  BY DEF Settled, Still, On
<1>2. Quiet(s, t)
  BY <1>1 DEF Quiet, Stays, IsValid
<1> QED
  BY <1>1, <1>2 DEF Listed, IsValid

LEMMA QuietAgain ==
  ASSUME NEW s, NEW t, NEW u, Quiet(s, t), Quiet(t, u)
  PROVE  Quiet(s, u) /\ On(t) = On(s)
<1>1. Still(s, u)
  BY StillAgain DEF Quiet
<1>2. On(t) = On(s) /\ t.touched = s.touched
  BY DEF Quiet, Still, On
<1>3. ASSUME NEW o \in On(s), IsValid(s, o), s.pte[o].at \in s.touched
      PROVE  Stays(s, u, o)
  <2>1. Stays(s, t, o)
    BY <1>3 DEF Quiet
  <2>2. IsValid(t, o) /\ t.pte[o].at \in t.touched /\ o \in On(t)
    BY <1>2, <1>3, <2>1 DEF Stays, IsValid
  <2>3. Stays(t, u, o)
    BY <2>2 DEF Quiet
  <2> QED
    BY <2>1, <2>3 DEF Stays
<1> QED
  BY <1>1, <1>2, <1>3 DEF Quiet

-----------------------------------------------------------------------------
(* Clusters, and the modified page writer. *)

\* The writes of a page file cluster, at the places of at.
RunWritten(s, q, b, at) == FoldLeft(LAMBDA t, i : WriteToBlock(t, q[i], b + i - 1), s, at)

\* The same of the writes of a section cluster.
LEMMA SectionReaches ==
  ASSUME NEW s, NEW q, NEW n \in Nat, 1 .. n = DOMAIN q, NEW G,
         s \in G[{}],
         \A T \in SUBSET (1 .. n) : \A x \in T : \A u \in G[T \ {x}] :
           (\A y \in T : y <= x) => WriteToSection(u, q[x]) \in G[T]
  PROVE  FoldLeft(WriteToSection, s, q) \in G[1 .. n]
<1> DEFINE base == s
           U == UNION {G[T] : T \in SUBSET (1 .. n)}
           F == [z \in (1 .. n) \X U |-> WriteToSection(z[2], q[z[1]])]
           Follows(f) == f = [T \in SUBSET (1 .. n) |->
                                IF T = {} THEN base ELSE WriteToSection(f[T \ {Max(T)}], q[Max(T)])]
           h == CHOOSE f : Follows(f)
<1>1. FoldLeft(WriteToSection, s, q) = h[1 .. n]
  BY Zenon DEF FoldLeft, MapThenFoldSet
<1>2. \A T \in SUBSET (1 .. n) : T # {} => Max(T) \in T /\ \A y \in T : y <= Max(T)
  BY GreatestPlace
<1>3. \A T \in SUBSET (1 .. n) : \A x \in T : \A u \in G[T \ {x}] : F[<<x, u>>] = WriteToSection(u, q[x])
  OBVIOUS
<1> HIDE DEF F, base, h
<1>4. StepsStay(n, F, G)
  BY <1>3 DEF StepsStay
<1>5. base \in G[{}]
  BY DEF base
<1> HIDE DEF U
<1>6. PICK g : FoldsOver(n, base, F, g) /\ StaysIn(n, g, G)
  BY <1>4, <1>5, SeqFoldExists, ZenonT(60)
<1>7. \A T \in SUBSET (1 .. n) : T # {} => F[<<Max(T), g[T \ {Max(T)}]>>]
                                      = WriteToSection(g[T \ {Max(T)}], q[Max(T)])
  BY <1>2, <1>3, <1>6 DEF StaysIn
<1>8. Follows(g)
  BY <1>6, <1>7, Zenon DEF FoldsOver
<1>9. Follows(h)
  BY <1>8, Zenon DEF h
<1>10. \A T \in SUBSET (1 .. n) : h[T] = IF T = {} THEN base ELSE WriteToSection(h[T \ {Max(T)}], q[Max(T)])
  BY <1>9
<1>11. h[{}] \in G[{}]
  BY <1>5, <1>10
<1>12. \A T \in SUBSET (1 .. n) : T # {} /\ h[T \ {Max(T)}] \in G[T \ {Max(T)}] => h[T] \in G[T]
  BY <1>2, <1>10, ZenonT(60)
<1>13. h[1 .. n] \in G[1 .. n]
  BY <1>11, <1>12, SeqFoldInduction, Zenon
<1> QED
  BY <1>1, <1>13

\* The same of the writes of a page file cluster.
LEMMA BlockReaches ==
  ASSUME NEW s, NEW q, NEW b, NEW at, NEW n \in Nat, 1 .. n = DOMAIN at, NEW G,
         s \in G[{}],
         \A T \in SUBSET (1 .. n) : \A x \in T : \A u \in G[T \ {x}] :
           (\A y \in T : y <= x) => WriteToBlock(u, q[at[x]], b + at[x] - 1) \in G[T]
  PROVE  RunWritten(s, q, b, at) \in G[1 .. n]
<1> DEFINE base == s
           U == UNION {G[T] : T \in SUBSET (1 .. n)}
           F == [z \in (1 .. n) \X U |-> WriteToBlock(z[2], q[at[z[1]]], b + at[z[1]] - 1)]
           Follows(f) == f = [T \in SUBSET (1 .. n) |->
                                IF T = {} THEN base ELSE WriteToBlock(f[T \ {Max(T)}], q[at[Max(T)]], b + at[Max(T)] - 1)]
           h == CHOOSE f : Follows(f)
<1>1. RunWritten(s, q, b, at) = h[1 .. n]
  BY Zenon DEF RunWritten, FoldLeft, MapThenFoldSet
<1>2. \A T \in SUBSET (1 .. n) : T # {} => Max(T) \in T /\ \A y \in T : y <= Max(T)
  BY GreatestPlace
<1>3. \A T \in SUBSET (1 .. n) : \A x \in T : \A u \in G[T \ {x}] : F[<<x, u>>] = WriteToBlock(u, q[at[x]], b + at[x] - 1)
  OBVIOUS
<1> HIDE DEF F, base, h
<1>4. StepsStay(n, F, G)
  BY <1>3 DEF StepsStay
<1>5. base \in G[{}]
  BY DEF base
<1> HIDE DEF U
<1>6. PICK g : FoldsOver(n, base, F, g) /\ StaysIn(n, g, G)
  BY <1>4, <1>5, SeqFoldExists, ZenonT(60)
<1>7. \A T \in SUBSET (1 .. n) : T # {} => F[<<Max(T), g[T \ {Max(T)}]>>]
                                      = WriteToBlock(g[T \ {Max(T)}], q[at[Max(T)]], b + at[Max(T)] - 1)
  BY <1>2, <1>3, <1>6 DEF StaysIn
<1>8. Follows(g)
  BY <1>6, <1>7, Zenon DEF FoldsOver
<1>9. Follows(h)
  BY <1>8, Zenon DEF h
<1>10. \A T \in SUBSET (1 .. n) : h[T] = IF T = {} THEN base ELSE WriteToBlock(h[T \ {Max(T)}], q[at[Max(T)]], b + at[Max(T)] - 1)
  BY <1>9
<1>11. h[{}] \in G[{}]
  BY <1>5, <1>10
<1>12. \A T \in SUBSET (1 .. n) : T # {} /\ h[T \ {Max(T)}] \in G[T \ {Max(T)}] => h[T] \in G[T]
  BY <1>2, <1>10, ZenonT(60)
<1>13. h[1 .. n] \in G[1 .. n]
  BY <1>11, <1>12, SeqFoldInduction, Zenon
<1> QED
  BY <1>1, <1>13

\* The same of a page file cluster's gathering.
LEMMA ClusterReaches ==
  ASSUME NEW s, NEW q, NEW room, NEW n \in Nat, 1 .. n = DOMAIN q, NEW G,
         <<>> \in G[{}],
         \A T \in SUBSET (1 .. n) : \A x \in T : \A u \in G[T \ {x}] :
           (\A y \in T : y <= x) => MoreOfCluster(s, u, q[x], room) \in G[T]
  PROVE  PageFileCluster(s, q, room) \in G[1 .. n]
<1> DEFINE base == <<>>
           U == UNION {G[T] : T \in SUBSET (1 .. n)}
           F == [z \in (1 .. n) \X U |-> MoreOfCluster(s, z[2], q[z[1]], room)]
           Follows(f) == f = [T \in SUBSET (1 .. n) |->
                                IF T = {} THEN base ELSE MoreOfCluster(s, f[T \ {Max(T)}], q[Max(T)], room)]
           h == CHOOSE f : Follows(f)
<1>1. PageFileCluster(s, q, room) = h[1 .. n]
  BY Zenon DEF PageFileCluster, FoldLeft, MapThenFoldSet
<1>2. \A T \in SUBSET (1 .. n) : T # {} => Max(T) \in T /\ \A y \in T : y <= Max(T)
  BY GreatestPlace
<1>3. \A T \in SUBSET (1 .. n) : \A x \in T : \A u \in G[T \ {x}] : F[<<x, u>>] = MoreOfCluster(s, u, q[x], room)
  OBVIOUS
<1> HIDE DEF F, base, h
<1>4. StepsStay(n, F, G)
  BY <1>3 DEF StepsStay
<1>5. base \in G[{}]
  BY DEF base
<1> HIDE DEF U
<1>6. PICK g : FoldsOver(n, base, F, g) /\ StaysIn(n, g, G)
  BY <1>4, <1>5, SeqFoldExists, ZenonT(60)
<1>7. \A T \in SUBSET (1 .. n) : T # {} => F[<<Max(T), g[T \ {Max(T)}]>>]
                                      = MoreOfCluster(s, g[T \ {Max(T)}], q[Max(T)], room)
  BY <1>2, <1>3, <1>6 DEF StaysIn
<1>8. Follows(g)
  BY <1>6, <1>7, Zenon DEF FoldsOver
<1>9. Follows(h)
  BY <1>8, Zenon DEF h
<1>10. \A T \in SUBSET (1 .. n) : h[T] = IF T = {} THEN base ELSE MoreOfCluster(s, h[T \ {Max(T)}], q[Max(T)], room)
  BY <1>9
<1>11. h[{}] \in G[{}]
  BY <1>5, <1>10
<1>12. \A T \in SUBSET (1 .. n) : T # {} /\ h[T \ {Max(T)}] \in G[T \ {Max(T)}] => h[T] \in G[T]
  BY <1>2, <1>10, ZenonT(60)
<1>13. h[1 .. n] \in G[1 .. n]
  BY <1>11, <1>12, SeqFoldInduction, Zenon
<1> QED
  BY <1>1, <1>13

LEMMA GreatestOf ==
  ASSUME NEW n \in Nat, NEW T \in SUBSET (0 .. n), 0 \in T
  PROVE  Max(T) \in T
<1> DEFINE R == T \ {0}
<1>1. CASE R = {}
  <2>1. T = {0}
    BY <1>1
  <2>2. 0 \in T /\ \A y \in T : 0 >= y
    BY <2>1
  <2> QED
    BY <2>2 DEF Max
<1>2. CASE R # {}
  <2>1. R \in SUBSET (1 .. n)
    OBVIOUS
  <2>2. Max(R) \in R /\ \A y \in R : y <= Max(R)
    BY <1>2, <2>1, GreatestPlace
  <2>3. Max(R) \in T /\ \A y \in T : Max(R) >= y
    <3> DEFINE m == Max(R)
    <3> HIDE DEF m
    <3>1. m \in R /\ \A y \in R : y <= m
      BY <2>2 DEF m
    <3>2. m \in T /\ \A y \in T : m >= y
      BY <2>1, <3>1
    <3> QED
      BY <3>2 DEF m
  <2> QED
    BY <2>3 DEF Max
<1> QED
  BY <1>1, <1>2

\* A sequence of different frames of a set, some, and not more than so many.
ClusterOf(q, S, size) == q \in Seq(S) /\ Len(q) <= size /\ \A i, j \in 1 .. Len(q) : q[i] = q[j] => i = j

LEMMA MiniClusterFits ==
  ASSUME NEW s, NEW K, Fair(s, K), NEW waiting, waiting \subseteq PFN, \A g \in waiting : s.db.entry[g].tied,
         NEW f \in waiting, NEW size \in Nat, size # 0, NEW q, q = MiniCluster(s, f, size, waiting)
  PROVE  ClusterOf(q, waiting, size)
<1> DEFINE p == s.db.entry[f].owner[1]
           page == s.db.entry[f].owner[2]
           frame(v) == s.pte[<<p, v>>].at
           joins(v) == /\ v \in PagesOf(p) /\ InTransition(s, <<p, v>>)
                       /\ frame(v) \in waiting /\ s.db.entry[frame(v)].owner = <<p, v>>
           B == {n \in 0 .. size - 1 : \A i \in 1 .. n : joins(page - i)}
           below == Max(B)
           A == {n \in 0 .. size - 1 - below : \A i \in 1 .. n : joins(page + i)}
           above == Max(A)
<1>1. page \in Int /\ s.db.entry[f].owner = <<p, page>>
  <2>1. s.db.entry[f].owner \in On(s)
    BY DEF Fair, FramesFit, FrameOK
  <2>2. s.db.entry[f].owner[2] \in Pages
          /\ s.db.entry[f].owner = <<s.db.entry[f].owner[1], s.db.entry[f].owner[2]>>
    BY <2>1, OwnersAre DEF Fair
  <2>3. Pages \subseteq Int
    BY PagerAssumption DEF Pages
  <2> QED
    BY <2>2, <2>3
<1>2. q = [i \in 1 .. below + 1 + above |-> IF i = below + 1 THEN f ELSE frame(page - below + i - 1)]
  BY Zenon DEF MiniCluster
<1>3. \A v : joins(v) => frame(v) \in waiting /\ s.db.entry[frame(v)].owner = <<p, v>>
  OBVIOUS
<1> HIDE DEF joins, frame, p, page
<1>4. below \in 0 .. size - 1 /\ \A i \in 1 .. below : joins(page - i)
  <2>1. B \in SUBSET (0 .. size - 1) /\ 0 \in B /\ size - 1 \in Nat
    OBVIOUS
  <2>2. Max(B) \in B
    BY <2>1, GreatestOf
  <2> QED
    BY <2>2
<1> HIDE DEF below
<1>5. above \in 0 .. size - 1 - below /\ \A i \in 1 .. above : joins(page + i)
  <2>1. A \in SUBSET (0 .. size - 1 - below) /\ 0 \in A /\ size - 1 - below \in Nat
    BY <1>4
  <2>2. Max(A) \in A
    BY <2>1, GreatestOf
  <2> QED
    BY <2>2
<1> HIDE DEF above
<1> DEFINE n == below + 1 + above
<1>6. n \in Nat /\ n <= size
  BY <1>4, <1>5
<1>7. ASSUME NEW i \in 1 .. n
      PROVE  q[i] \in waiting /\ s.db.entry[q[i]].owner = <<p, page - below + i - 1>>
  <2>1. q[i] = IF i = below + 1 THEN f ELSE frame(page - below + i - 1)
    BY <1>2
  <2>2. CASE i = below + 1
    <3>1. page - below + i - 1 = page
      BY <1>1, <1>4, <2>2
    <3> QED
      BY <1>1, <2>1, <2>2, <3>1
  <2>3. CASE i < below + 1
    <3> DEFINE j == below + 1 - i
    <3>1. j \in 1 .. below /\ page - j = page - below + i - 1
      BY <1>1, <1>4, <2>3
    <3>2. joins(page - j)
      BY <1>4, <3>1
    <3>3. i # below + 1
      BY <1>4, <2>3
    <3> QED
      BY <1>3, <2>1, <3>1, <3>2, <3>3
  <2>4. CASE i > below + 1
    <3> DEFINE j == i - below - 1
    <3>1. j \in 1 .. above /\ page + j = page - below + i - 1
      BY <1>1, <1>4, <1>5, <2>4
    <3>2. joins(page + j)
      BY <1>5, <3>1
    <3>3. i # below + 1
      BY <1>4, <2>4
    <3> QED
      BY <1>3, <2>1, <3>1, <3>2, <3>3
  <2> QED
    BY <1>4, <1>5, <2>2, <2>3, <2>4
<1>8. q = [i \in 1 .. n |-> q[i]]
  BY <1>2
<1>9. q \in Seq(waiting) /\ Len(q) = n
  <2>1. q \in [1 .. n -> waiting]
    BY <1>7, <1>8
  <2> QED
    BY <1>6, <2>1, LenProperties DEF Seq
<1>10. ASSUME NEW i \in 1 .. n, NEW j \in 1 .. n, q[i] = q[j]
       PROVE  i = j
  <2>1. <<p, page - below + i - 1>> = <<p, page - below + j - 1>>
    BY <1>7, <1>10
  <2>2. page - below + i - 1 = page - below + j - 1
    BY <2>1
  <2> QED
    BY <1>1, <1>4, <1>6, <2>2
<1> QED
  BY <1>6, <1>9, <1>10 DEF ClusterOf

\* The frames not in R as they were.
BesideFrames(s, u, R) == \A g \in PFN : g \notin R => u.db.entry[g] = s.db.entry[g]

LEMMA ClusterPlaces ==
  ASSUME NEW q, NEW S, NEW size, ClusterOf(q, S, size), NEW n, n = Len(q)
  PROVE  /\ n \in Nat /\ DOMAIN q = 1 .. n /\ \A j \in 1 .. n : q[j] \in S
         /\ \A T \in SUBSET (1 .. n) : \A x \in T : q[x] \notin {q[j] : j \in T \ {x}}
                                                     /\ {q[j] : j \in T} = {q[j] : j \in T \ {x}} \cup {q[x]}
<1>1. n \in Nat /\ DOMAIN q = 1 .. n /\ \A j \in 1 .. n : q[j] \in S
  BY LenProperties, ElementOfSeq DEF ClusterOf
<1>2. ASSUME NEW T \in SUBSET (1 .. n), NEW x \in T
      PROVE  q[x] \notin {q[j] : j \in T \ {x}} /\ {q[j] : j \in T} = {q[j] : j \in T \ {x}} \cup {q[x]}
  BY DEF ClusterOf
<1> QED
  BY <1>1, <1>2

LEMMA BesideOneMore ==
  ASSUME NEW s, NEW u, NEW R, BesideFrames(s, u, R), NEW t, NEW f \in PFN, OtherFrames(u, t, f)
  PROVE  BesideFrames(s, t, R \cup {f})
BY DEF BesideFrames, OtherFrames

LEMMA WriteSectionClusterFits ==
  ASSUME NEW s, NEW K, Fair(s, K), NEW f \in ToSection(s), NEW t, t = WriteSectionCluster(s, f)
  PROVE  Fair(t, K) /\ Settled(s, t)
<1> DEFINE S == ToSection(s)
           q == MiniCluster(s, f, WriteCluster, S)
           n == Len(q)
           Ok(u, T) == Fair(u, K) /\ Settled(s, u) /\ BesideFrames(s, u, {q[j] : j \in T})
           G == [T \in SUBSET (1 .. n) |-> {u \in States(On(s)) : Ok(u, T)}]
<1>1. ClusterOf(q, S, WriteCluster)
  <2>1. S \subseteq PFN /\ \A g \in S : s.db.entry[g].tied
    BY DEF ToSection, SectionBound
  <2> QED
    BY <2>1, MapTypes, MiniClusterFits
<1>2. t = FoldLeft(WriteToSection, s, q)
  BY DEF WriteSectionCluster
<1> HIDE DEF q
<1>3. /\ n \in Nat /\ DOMAIN q = 1 .. n /\ \A j \in 1 .. n : q[j] \in S
      /\ \A T \in SUBSET (1 .. n) : \A x \in T : q[x] \notin {q[j] : j \in T \ {x}}
                                                  /\ {q[j] : j \in T} = {q[j] : j \in T \ {x}} \cup {q[x]}
  BY <1>1, ClusterPlaces
<1> HIDE DEF n, S
<1>4. s \in G[{}]
  <2>1. Ok(s, {}) /\ s \in States(On(s))
    BY StillSame DEF BesideFrames, Fair, Typed
  <2> QED
    BY <1>3, <2>1
<1>5. ASSUME NEW T \in SUBSET (1 .. n), NEW x \in T, NEW u \in G[T \ {x}]
      PROVE  WriteToSection(u, q[x]) \in G[T]
  <2> DEFINE v == WriteToSection(u, q[x])
             R == {q[j] : j \in T \ {x}}
             g == q[x]
  <2>1. Ok(u, T \ {x})
    OBVIOUS
  <2>2. g \in S /\ g \notin R /\ {q[j] : j \in T} = R \cup {g}
    BY <1>3
  <2> HIDE DEF g, R
  <2>3. /\ g \in PFN /\ IsModified(s, g) /\ s.db.entry[g].tied /\ s.db.entry[g].backing.kind = "section"
        /\ s.mapped[s.db.entry[g].owner] = "writeBack"
    BY <2>2 DEF S, ToSection, SectionBound
  <2>4. Fair(u, K) /\ Settled(s, u) /\ BesideFrames(s, u, R)
    BY <2>1 DEF R
  <2>5. u.db.entry[g] = s.db.entry[g] /\ u.mapped = s.mapped
    BY <2>2, <2>3, <2>4 DEF BesideFrames, Settled, Still
  <2> DEFINE o == s.db.entry[g].owner
  <2>6. /\ Holds(u, g, o) /\ IsModified(u, g) /\ u.db.entry[g].backing.kind = "section" /\ u.mapped[o] = "writeBack"
        /\ v = WriteToSection(u, g)
    BY <2>3, <2>5 DEF Holds, IsModified, g
  <2> HIDE DEF o, v
  <2>7. Fair(v, K) /\ Settled(u, v) /\ OtherFrames(u, v, g)
    BY <2>3, <2>4, <2>6, WriteToSectionFits
  <2>8. Settled(s, v)
    BY <2>4, <2>7, SettledAgain
  <2>9. BesideFrames(s, v, R \cup {g})
    BY <2>3, <2>4, <2>7, BesideOneMore
  <2>10. v \in States(On(s))
    BY <2>7, <2>8, SettledQuiet DEF Fair, Typed
  <2>11. Ok(v, T)
    BY <2>2, <2>7, <2>8, <2>9
  <2> QED
    BY <2>10, <2>11 DEF v
<1> HIDE DEF G, Ok
<1>6. n \in Nat /\ 1 .. n = DOMAIN q
  BY <1>3
<1>7. t \in G[1 .. n]
  BY <1>2, <1>6, <1>4, <1>5, SectionReaches, ZenonT(60)
<1>8. Ok(t, 1 .. n)
  BY <1>7 DEF G
<1> QED
  BY <1>8 DEF Ok

LEMMA PageFileClusterFits ==
  ASSUME NEW s, NEW K, Fair(s, K), NEW frames \in Seq(PFN), NEW room \in Nat, NEW q, q = PageFileCluster(s, frames, room)
  PROVE  ClusterOf(q, ToPageFile(s), room)
<1> DEFINE S == ToPageFile(s)
           n == Len(frames)
           G == [T \in SUBSET (1 .. n) |-> {c \in Seq(S) : ClusterOf(c, S, room)}]
<1>1. n \in Nat /\ DOMAIN frames = 1 .. n
  BY LenProperties
<1>2. S \subseteq PFN /\ \A g \in S : s.db.entry[g].tied
  BY DEF ToPageFile, PageFileBound
<1> HIDE DEF n, S
<1>3. <<>> \in G[{}]
  <2>1. <<>> \in Seq(S) /\ Len(<<>>) = 0
    OBVIOUS
  <2>2. ClusterOf(<<>>, S, room)
    BY <2>1 DEF ClusterOf
  <2> QED
    BY <1>1, <2>1, <2>2
<1>4. ASSUME NEW c, ClusterOf(c, S, room), NEW f
      PROVE  ClusterOf(MoreOfCluster(s, c, f, room), S, room)
  <2> DEFINE waiting == S \ ToSet(c)
             m == MiniCluster(s, f, room - Len(c), waiting)
             v == MoreOfCluster(s, c, f, room)
  <2>1. v = IF Len(c) = room \/ f \notin waiting THEN c ELSE c \o m
    BY DEF MoreOfCluster, S
  <2>2. c \in Seq(S) /\ Len(c) \in Nat /\ Len(c) <= room /\ ToSet(c) = {c[i] : i \in 1 .. Len(c)}
    BY <1>4, LenProperties DEF ClusterOf, ToSet
  <2>3. CASE ~(Len(c) = room \/ f \notin waiting)
    <3> DEFINE size == room - Len(c)
    <3>1. size \in Nat /\ size # 0
      BY <2>2, <2>3
    <3>2. waiting \subseteq PFN /\ (\A g \in waiting : s.db.entry[g].tied) /\ f \in waiting
      BY <1>2, <2>3
    <3> HIDE DEF waiting, size
    <3>3. m = MiniCluster(s, f, size, waiting)
      BY DEF size
    <3> HIDE DEF m
    <3>4. ClusterOf(m, waiting, size)
      BY <3>1, <3>2, <3>3, MiniClusterFits
    <3>5. waiting \subseteq S /\ \A i \in 1 .. Len(c) : c[i] \notin waiting
      BY <2>2 DEF waiting
    <3>6. m \in Seq(waiting) /\ Len(m) \in Nat /\ Len(m) <= size /\ \A j \in 1 .. Len(m) : m[j] \in waiting
      BY <3>4, LenProperties, ElementOfSeq DEF ClusterOf
    <3>7. m \in Seq(S)
      <4>1. ToSet(m) \subseteq S
        BY <3>5, <3>6 DEF ToSet
      <4> QED
        BY <3>6, <4>1, NarrowSeq
    <3>8. c \o m \in Seq(S) /\ Len(c \o m) = Len(c) + Len(m)
          /\ \A i \in 1 .. Len(c) + Len(m) : (c \o m)[i] = IF i <= Len(c) THEN c[i] ELSE m[i - Len(c)]
      BY <2>2, <3>7, ConcatProperties
    <3>9. v = c \o m
      BY <2>1, <2>3
    <3> DEFINE a == Len(c)
               b == Len(m)
    <3>10. a \in Nat /\ b \in Nat /\ a + b <= room
      BY <2>2, <3>6 DEF size
    <3> HIDE DEF v, a, b
    <3>11. v \in Seq(S) /\ Len(v) = a + b /\ \A i \in 1 .. a + b : v[i] = IF i <= a THEN c[i] ELSE m[i - a]
      BY <3>8, <3>9 DEF a, b
    <3>12. ASSUME NEW i \in 1 .. a + b, NEW j \in 1 .. a + b, v[i] = v[j]
           PROVE  i = j
      <4>1. /\ v[i] = IF i <= a THEN c[i] ELSE m[i - a]
            /\ v[j] = IF j <= a THEN c[j] ELSE m[j - a]
        BY <3>11
      <4>2. CASE i <= a /\ j <= a
        <5>1. i \in 1 .. a /\ j \in 1 .. a
          BY <3>10, <4>2
        <5>2. c[i] = c[j]
          BY <3>12, <4>1, <4>2
        <5>3. i \in 1 .. Len(c) /\ j \in 1 .. Len(c) /\ c[i] = c[j]
          BY <5>1, <5>2 DEF a
        <5> QED
          BY <1>4, <5>3 DEF ClusterOf
      <4>3. CASE i > a /\ j > a
        <5>1. i - a \in 1 .. b /\ j - a \in 1 .. b /\ ~(i <= a) /\ ~(j <= a)
          BY <3>10, <4>3
        <5>2. m[i - a] = m[j - a]
          BY <3>12, <4>1, <5>1
        <5>3. i - a \in 1 .. Len(m) /\ j - a \in 1 .. Len(m) /\ m[i - a] = m[j - a]
          BY <5>1, <5>2 DEF b
        <5>4. i - a = j - a
          BY <3>4, <5>3 DEF ClusterOf
        <5> QED
          BY <3>10, <5>4
      <4>4. CASE i <= a /\ j > a
        <5>1. i \in 1 .. a /\ j - a \in 1 .. b /\ ~(j <= a)
          BY <3>10, <4>4
        <5>2. c[i] = m[j - a]
          BY <3>12, <4>1, <4>4, <5>1
        <5>3. i \in 1 .. Len(c) /\ j - a \in 1 .. Len(m) /\ c[i] = m[j - a]
          BY <5>1, <5>2 DEF a, b
        <5> QED
          BY <3>5, <3>6, <5>3
      <4>5. CASE i > a /\ j <= a
        <5>1. j \in 1 .. a /\ i - a \in 1 .. b /\ ~(i <= a)
          BY <3>10, <4>5
        <5>2. c[j] = m[i - a]
          BY <3>12, <4>1, <4>5, <5>1
        <5>3. j \in 1 .. Len(c) /\ i - a \in 1 .. Len(m) /\ c[j] = m[i - a]
          BY <5>1, <5>2 DEF a, b
        <5> QED
          BY <3>5, <3>6, <5>3
      <4> QED
        BY <3>10, <4>2, <4>3, <4>4, <4>5
    <3> QED
      BY <3>10, <3>11, <3>12 DEF ClusterOf, v
  <2> QED
    BY <1>4, <2>1, <2>3
<1>5. ASSUME NEW T \in SUBSET (1 .. n), NEW x \in T, NEW u \in G[T \ {x}]
      PROVE  MoreOfCluster(s, u, frames[x], room) \in G[T]
  <2>1. ClusterOf(u, S, room)
    OBVIOUS
  <2> DEFINE v == MoreOfCluster(s, u, frames[x], room)
  <2>2. ClusterOf(v, S, room)
    BY <1>4, <2>1
  <2> HIDE DEF v
  <2>3. v \in Seq(S)
    BY <2>2 DEF ClusterOf
  <2> QED
    BY <2>2, <2>3 DEF v
<1> HIDE DEF G
<1>6. q \in G[1 .. n]
  BY <1>1, <1>3, <1>5, ClusterReaches
<1> QED
  BY <1>6 DEF G, S

\* Blocks just allocated are spare.
Allocated(s, m) == [s EXCEPT !.map = m]

LEMMA AllocatedFits ==
  ASSUME NEW s, Fair(s, {}), s.pageFile = "open", NEW g, Given(s.map, g), NEW t, t = Allocated(s, g.map)
  PROVE  Fair(t, g.run) /\ Settled(s, t) /\ t.db = s.db
<1>1. s \in States(On(s)) /\ On(s) \subseteq Owners
  BY DEF Fair, Typed
<1> DEFINE m == g.map
           run == g.run
<1>2. m \in [inUse : SUBSET Blocks, allocSize : Nat] /\ MapOK(m) /\ m.inUse = s.map.inUse \cup run
      /\ run \subseteq Blocks \ s.map.inUse
  BY DEF Given
<1>3. t = [s EXCEPT !.map = m]
  BY DEF Allocated
<1> HIDE DEF m, run
<1>4. /\ t.db = s.db /\ t.pte = s.pte /\ t.ram = s.ram /\ t.mapped = s.mapped /\ t.disk = s.disk /\ t.file = s.file
      /\ t.map = m /\ t.pageFile = s.pageFile /\ t.touched = s.touched /\ t.asked = s.asked /\ t.inTB = s.inTB
      /\ t.ws = s.ws /\ t \in States(On(s))
  BY <1>1, <1>2, <1>3 DEF States
<1>5. SameMemory(s, t)
  BY <1>4 DEF SameMemory
<1>6. /\ On(t) = On(s) /\ PagesFit(t) /\ FramesFit(t) /\ ListsFit(t)
      /\ \A o \in On(s) : Held(t, o) = Held(s, o) /\ Seen(t, o) = Seen(s, o)
  BY <1>4, <1>5, SameMemoryFits DEF Fair
<1>7. BlocksFit(t, run)
  <2>1. BlocksFit(s, {})
    BY DEF Fair
  <2>2. t.map.inUse \ run = s.map.inUse /\ MapOK(t.map) /\ run \subseteq t.map.inUse /\ t.pageFile = "open"
    BY <1>2, <1>4
  <2> QED
    BY <1>6, <2>1, <2>2 DEF BlocksFit
<1>8. Settled(s, t)
  BY <1>4, <1>6 DEF Settled, Still
<1> QED
  BY <1>1, <1>4, <1>6, <1>7, <1>8 DEF Fair, Typed, run

\* A run is the blocks from its first.
RunOf(run, m, size) == m \in Nat /\ size \in Nat /\ run = m .. m + size - 1

\* at is 1, 2, ..., n.
Counts(at, n) == DOMAIN at = 1 .. n /\ \A i \in 1 .. n : at[i] = i

LEMMA RunFits ==
  ASSUME NEW s, NEW run, Fair(s, run), NEW m, NEW size, RunOf(run, m, size), NEW c, ClusterOf(c, ToPageFile(s), size),
         NEW at, Counts(at, Len(c)), NEW t, t = RunWritten(s, c, m, at)
  PROVE  Fair(t, {b \in run : b >= m + Len(c)}) /\ Settled(s, t)
<1> DEFINE S == ToPageFile(s)
           n == Len(c)
           Left2(T) == run \ {m + j - 1 : j \in T}
           Ok(u, T) == Fair(u, Left2(T)) /\ Settled(s, u) /\ BesideFrames(s, u, {c[j] : j \in T})
           G == [T \in SUBSET (1 .. n) |-> {u \in States(On(s)) : Ok(u, T)}]
<1>1. ClusterOf(c, S, size)
  OBVIOUS
<1>2. /\ n \in Nat /\ DOMAIN c = 1 .. n /\ \A j \in 1 .. n : c[j] \in S
      /\ \A T \in SUBSET (1 .. n) : \A x \in T : c[x] \notin {c[j] : j \in T \ {x}}
                                                  /\ {c[j] : j \in T} = {c[j] : j \in T \ {x}} \cup {c[x]}
  BY <1>1, ClusterPlaces
<1>3. n <= size
  BY <1>1 DEF ClusterOf
<1>4. DOMAIN at = 1 .. n /\ \A i \in 1 .. n : at[i] = i
  BY DEF Counts
<1> HIDE DEF n, S
<1>5. s \in G[{}]
  <2>1. Left2({}) = run
    OBVIOUS
  <2> HIDE DEF Left2
  <2>2. Ok(s, {}) /\ s \in States(On(s))
    BY <2>1, StillSame DEF BesideFrames, Fair, Typed
  <2> QED
    BY <1>2, <2>2
<1>6. ASSUME NEW T \in SUBSET (1 .. n), NEW x \in T, NEW u \in G[T \ {x}]
      PROVE  WriteToBlock(u, c[at[x]], m + at[x] - 1) \in G[T]
  <2> DEFINE R == {c[j] : j \in T \ {x}}
             g == c[x]
             b == m + x - 1
             v == WriteToBlock(u, g, b)
             L == Left2(T \ {x})
  <2>1. Ok(u, T \ {x})
    OBVIOUS
  <2>2. g \in S /\ g \notin R /\ {c[j] : j \in T} = R \cup {g}
    BY <1>2
  <2>3. b \in L /\ Left2(T) = L \ {b}
    <3>1. x \in 1 .. n /\ m \in Nat /\ run = m .. m + size - 1 /\ size \in Nat
      BY DEF RunOf
    <3>2. b \in run
      BY <1>2, <1>3, <3>1
    <3>3. \A j \in T \ {x} : m + j - 1 # b
      BY <1>2, <3>1
    <3>4. b \in L
      BY <3>2, <3>3
    <3>5. \A z : z \in Left2(T) <=> z \in L /\ z # b
      OBVIOUS
    <3> QED
      BY <3>4, <3>5
  <2>4. WriteToBlock(u, c[at[x]], m + at[x] - 1) = v
    BY <1>4
  <2> HIDE DEF g, R, b, L
  <2>5. /\ g \in PFN /\ IsModified(s, g) /\ s.db.entry[g].tied /\ s.db.entry[g].backing.kind # "section"
    BY <2>2 DEF S, ToPageFile, PageFileBound
  <2>6. Fair(u, L) /\ Settled(s, u) /\ BesideFrames(s, u, R)
    BY <2>1 DEF R, L
  <2>7. u.db.entry[g] = s.db.entry[g]
    BY <2>2, <2>5, <2>6 DEF BesideFrames
  <2> DEFINE o == s.db.entry[g].owner
  <2>8. /\ Holds(u, g, o) /\ IsModified(u, g) /\ u.db.entry[g].backing.kind # "section"
    BY <2>5, <2>7 DEF Holds, IsModified
  <2> HIDE DEF o, v
  <2>9. v = WriteToBlock(u, g, b)
    BY DEF v
  <2>10. Fair(v, L \ {b}) /\ Settled(u, v) /\ OtherFrames(u, v, g)
    BY <2>3, <2>5, <2>6, <2>8, <2>9, WriteToBlockFits
  <2>11. Settled(s, v)
    BY <2>6, <2>10, SettledAgain
  <2>12. BesideFrames(s, v, R \cup {g})
    BY <2>5, <2>6, <2>10, BesideOneMore
  <2>13. v \in States(On(s))
    BY <2>10, <2>11, SettledQuiet DEF Fair, Typed
  <2> HIDE DEF Left2
  <2>14. Ok(v, T)
    BY <2>2, <2>3, <2>10, <2>11, <2>12
  <2> QED
    BY <2>4, <2>13, <2>14
<1> HIDE DEF G, Ok
<1>7. n \in Nat /\ 1 .. n = DOMAIN at
  BY <1>2, <1>4
<1> HIDE DEF Left2
<1>8. \A T \in SUBSET (1 .. n) : \A x \in T : \A u \in G[T \ {x}] :
        (\A y \in T : y <= x) => WriteToBlock(u, c[at[x]], m + at[x] - 1) \in G[T]
  BY <1>6
<1>9. t \in G[1 .. n]
  BY <1>5, <1>7, <1>8, BlockReaches
<1>10. Ok(t, 1 .. n)
  BY <1>9 DEF G
<1>11. Left2(1 .. n) = {b \in run : b >= m + Len(c)}
  <2>1. m \in Nat /\ run = m .. m + size - 1 /\ size \in Nat
    BY DEF RunOf
  <2>2. ASSUME NEW b \in run
        PROVE  (\A j \in 1 .. n : b # m + j - 1) <=> b >= m + n
    <3>1. b < m + n => b - m + 1 \in 1 .. n /\ b = m + (b - m + 1) - 1
      BY <1>2, <2>1
    <3> QED
      BY <1>2, <2>1, <3>1
  <2>3. \A b : b \in Left2(1 .. n) <=> b \in run /\ b >= m + n
    BY <2>2 DEF Left2
  <2> QED
    BY <2>3 DEF n
<1> QED
  BY <1>10, <1>11 DEF Ok

LEMMA WriteInRunFits ==
  ASSUME NEW s, NEW run, Fair(s, run), RunOf(run, Min(run), Cardinality(run)), NEW c,
         ClusterOf(c, ToPageFile(s), Cardinality(run)), NEW t, t = WriteInRun(s, c, run)
  PROVE  Fair(t, {}) /\ Settled(s, t)
<1> DEFINE m == Min(run)
           size == Cardinality(run)
           at == [i \in DOMAIN c |-> i]
           u == RunWritten(s, c, m, at)
           rest == {b \in run : b >= m + Len(c)}
<1>1. t = FreePageFile(u, rest)
  BY Zenon DEF WriteInRun, RunWritten
<1>2. Fair(u, rest) /\ Settled(s, u)
  <2>1. RunOf(run, m, size) /\ ClusterOf(c, ToPageFile(s), size)
    OBVIOUS
  <2>2. Counts(at, Len(c))
    BY ClusterPlaces DEF Counts
  <2> HIDE DEF m, size, at
  <2> QED
    BY <2>1, <2>2, RunFits
<1> HIDE DEF u, rest
<1>3. Fair(t, rest \ rest) /\ Settled(u, t)
  BY <1>1, <1>2, FreeSpareFits
<1>4. rest \ rest = {}
  OBVIOUS
<1> QED
  BY <1>2, <1>3, <1>4, SettledAgain

\* The modified page writer's loop, at the places of at.
WriterRun(base, frames, goal, at) == FoldLeft(LAMBDA r, i : WriteNext(r, frames, i, goal), base, at)

\* The same of that loop.
LEMMA WriterReaches ==
  ASSUME NEW start, NEW frames, NEW goal, NEW at, NEW n \in Nat, 1 .. n = DOMAIN at, NEW G,
         start \in G[{}],
         \A T \in SUBSET (1 .. n) : \A x \in T : \A u \in G[T \ {x}] :
           (\A y \in T : y <= x) => WriteNext(u, frames, at[x], goal) \in G[T]
  PROVE  WriterRun(start, frames, goal, at) \in G[1 .. n]
<1> DEFINE base == start
           U == UNION {G[T] : T \in SUBSET (1 .. n)}
           F == [z \in (1 .. n) \X U |-> WriteNext(z[2], frames, at[z[1]], goal)]
           Follows(f) == f = [T \in SUBSET (1 .. n) |->
                                IF T = {} THEN base ELSE WriteNext(f[T \ {Max(T)}], frames, at[Max(T)], goal)]
           h == CHOOSE f : Follows(f)
<1>1. WriterRun(start, frames, goal, at) = h[1 .. n]
  BY Zenon DEF WriterRun, FoldLeft, MapThenFoldSet
<1>2. \A T \in SUBSET (1 .. n) : T # {} => Max(T) \in T /\ \A y \in T : y <= Max(T)
  BY GreatestPlace
<1>3. \A T \in SUBSET (1 .. n) : \A x \in T : \A u \in G[T \ {x}] : F[<<x, u>>] = WriteNext(u, frames, at[x], goal)
  OBVIOUS
<1> HIDE DEF F, base, h
<1>4. StepsStay(n, F, G)
  BY <1>3 DEF StepsStay
<1>5. base \in G[{}]
  BY DEF base
<1> HIDE DEF U
<1>6. PICK g : FoldsOver(n, base, F, g) /\ StaysIn(n, g, G)
  BY <1>4, <1>5, SeqFoldExists, ZenonT(60)
<1>7. \A T \in SUBSET (1 .. n) : T # {} => F[<<Max(T), g[T \ {Max(T)}]>>]
                                      = WriteNext(g[T \ {Max(T)}], frames, at[Max(T)], goal)
  BY <1>2, <1>3, <1>6 DEF StaysIn
<1>8. Follows(g)
  BY <1>6, <1>7, Zenon DEF FoldsOver
<1>9. Follows(h)
  BY <1>8, Zenon DEF h
<1>10. \A T \in SUBSET (1 .. n) : h[T] = IF T = {} THEN base ELSE WriteNext(h[T \ {Max(T)}], frames, at[Max(T)], goal)
  BY <1>9
<1>11. h[{}] \in G[{}]
  BY <1>5, <1>10
<1>12. \A T \in SUBSET (1 .. n) : T # {} /\ h[T \ {Max(T)}] \in G[T \ {Max(T)}] => h[T] \in G[T]
  BY <1>2, <1>10, ZenonT(60)
<1>13. h[1 .. n] \in G[1 .. n]
  BY <1>11, <1>12, SeqFoldInduction, Zenon
<1> QED
  BY <1>1, <1>13

LEMMA WantedFits ==
  ASSUME NEW s, NEW frames
  PROVE  Wanted(s, frames) \in Nat
<1> DEFINE S == ToSet(frames) \cap ToPageFile(s)
           k == Cardinality(S)
           w == WriteCluster
<1>1. S \in SUBSET PFN
  BY DEF ToPageFile
<1>2. IsFiniteSet(PFN)
  BY FramesAssumption, FS_Interval DEF PFN
<1>3. k \in Nat
  BY <1>1, <1>2, FS_Subset, FS_CardinalityType
<1>4. w \in Nat
  BY MapTypes
<1>5. Wanted(s, frames) = Min({k, w})
  BY DEF Wanted
<1> HIDE DEF k, w
<1>6. Min({k, w}) = k \/ Min({k, w}) = w
  <2>1. k \in Int /\ w \in Int
    BY <1>3, <1>4
  <2> QED
    BY <2>1, LesserOf
<1> QED
  BY <1>3, <1>4, <1>5, <1>6

LEMMA WriteWithFits ==
  ASSUME NEW s, Fair(s, {}), s.pageFile = "open", NEW frames \in Seq(PFN), NEW g, Given(s.map, g),
         NEW t, t = WriteWith(s, frames, g)
  PROVE  Fair(t, {}) /\ Settled(s, t)
<1> DEFINE u == Allocated(s, g.map)
           run == g.run
           size == Cardinality(run)
           c == PageFileCluster(s, frames, size)
<1>1. Fair(u, run) /\ Settled(s, u) /\ u.db = s.db
  BY AllocatedFits
<1>2. RunOf(run, Min(run), size) /\ size \in Nat
  BY DEF Given, RunOf
<1>3. t = WriteInRun(u, c, run)
  BY DEF WriteWith, Allocated
<1> HIDE DEF u, c, run, size
<1>4. ClusterOf(c, ToPageFile(s), size)
  <2>1. c = PageFileCluster(s, frames, size)
    BY DEF c
  <2> QED
    BY <1>2, <2>1, PageFileClusterFits
<1>5. ToPageFile(u) = ToPageFile(s)
  BY <1>1 DEF ToPageFile, IsModified, PageFileBound
<1>6. RunOf(run, Min(run), Cardinality(run)) /\ ClusterOf(c, ToPageFile(u), Cardinality(run))
  BY <1>2, <1>4, <1>5 DEF size
<1>7. Fair(t, {}) /\ Settled(u, t)
  BY <1>1, <1>3, <1>6, WriteInRunFits
<1> QED
  BY <1>1, <1>7, SettledAgain

\* The writer's counts, the page file's state and the boundary changed.
Noted(s, t) ==
  /\ SameMemory(s, t) /\ t.map = s.map /\ t.ws = s.ws /\ t.asked = s.asked /\ t.touched = s.touched /\ t.inTB = s.inTB
  /\ t \in States(On(s)) /\ (s.pageFile # "unopened" => t.pageFile = s.pageFile)

LEMMA NotedFits ==
  ASSUME NEW s, Fair(s, {}), NEW t, Noted(s, t)
  PROVE  Fair(t, {}) /\ Settled(s, t)
<1>1. Fair(t, {}) /\ \A o \in On(s) : Seen(t, o) = Seen(s, o)
  BY PlainFits DEF Noted
<1> QED
  BY <1>1 DEF Noted, SameMemory, Settled, Still

LEMMA NotedIs ==
  ASSUME NEW s, Typed(s), NEW n \in Nat, NEW b \in BOOLEAN
  PROVE  /\ Noted(s, [s EXCEPT !.stuck.full = TRUE])
         /\ Noted(s, [s EXCEPT !.stuck.writer = n]) /\ Noted(s, [s EXCEPT !.stuck.reclaimer = n])
         /\ Noted(s, [s EXCEPT !.boundary = b])
<1>1. s \in States(On(s)) /\ 0 \in Nat
  BY DEF Typed
<1>2. Noted(s, [s EXCEPT !.boundary = b])
  BY <1>1 DEF States, Noted, SameMemory
<1> DEFINE k == s.stuck
<1>3. k \in [writer : Nat, reclaimer : Nat, full : BOOLEAN]
  BY <1>1 DEF States
<1>4. ASSUME NEW h \in [writer : Nat, reclaimer : Nat, full : BOOLEAN]
      PROVE  Noted(s, [s EXCEPT !.stuck = h])
  BY <1>1, <1>4 DEF States, Noted, SameMemory
<1>5. [k EXCEPT !.full = TRUE] \in [writer : Nat, reclaimer : Nat, full : BOOLEAN]
  BY <1>3
<1>6. [k EXCEPT !.writer = n] \in [writer : Nat, reclaimer : Nat, full : BOOLEAN]
  BY <1>3
<1>7. [k EXCEPT !.reclaimer = n] \in [writer : Nat, reclaimer : Nat, full : BOOLEAN]
  BY <1>3
<1> QED
  BY <1>2, <1>4, <1>5, <1>6, <1>7

LEMMA WriteFileFits ==
  ASSUME NEW s, Fair(s, {}), NEW frames \in Seq(PFN), NEW r, r = WritePageFileCluster(s, frames)
  PROVE  Fair(r.s, {}) /\ Settled(s, r.s) /\ r.written \in BOOLEAN
<1>1. CASE s.pageFile # "open"
  <2>1. r.s = s /\ r.written = FALSE
    BY <1>1 DEF WritePageFileCluster
  <2> QED
    BY <2>1, StillSame
<1>2. CASE s.pageFile = "open" /\ ~CanAllocateRun(s.map, Wanted(s, frames))
  <2> DEFINE t == [s EXCEPT !.stuck.full = TRUE]
  <2>1. r.s = t /\ r.written = FALSE
    BY <1>2 DEF WritePageFileCluster
  <2>2. Noted(s, t)
    BY NotedIs DEF Fair
  <2> HIDE DEF t
  <2> QED
    BY <2>1, <2>2, NotedFits
<1>3. CASE s.pageFile = "open" /\ CanAllocateRun(s.map, Wanted(s, frames))
  <2> DEFINE g == AllocateRun(s.map, Wanted(s, frames))
             t == WriteWith(s, frames, g)
  <2>1. r.s = t /\ r.written = TRUE
    BY <1>3 DEF WritePageFileCluster
  <2>2. MapOK(s.map)
    BY DEF Fair, BlocksFit
  <2>3. Given(s.map, g)
    BY <1>3, <2>2, WantedFits, AllocateFits
  <2> HIDE DEF g
  <2>4. t = WriteWith(s, frames, g)
    OBVIOUS
  <2> HIDE DEF t
  <2>5. Fair(t, {}) /\ Settled(s, t)
    BY <1>3, <2>3, <2>4, WriteWithFits
  <2> QED
    BY <2>1, <2>5
<1> QED
  BY <1>1, <1>2, <1>3

\* What the writer's loop keeps.
Writing(s, r) == Fair(r.s, {}) /\ Settled(s, r.s) /\ r \in [s : States(On(s)), passed : Nat, tryFile : BOOLEAN]

LEMMA WritingNext ==
  ASSUME NEW s, NEW r, Writing(s, r), NEW u, Fair(u, {}), Settled(r.s, u)
  PROVE  Settled(s, u) /\ u \in States(On(s))
<1>1. Settled(s, u)
  BY SettledAgain DEF Writing
<1> QED
  BY <1>1, SettledQuiet DEF Fair, Typed

LEMMA WriteNextFits ==
  ASSUME NEW s, NEW r, Writing(s, r), NEW frames \in Seq(PFN), NEW i \in 1 .. Len(frames), NEW goal,
         NEW v, v = WriteNext(r, frames, i, goal)
  PROVE  Writing(s, v)
<1> DEFINE f == frames[i]
<1>1. f \in PFN
  BY ElementOfSeq
<1>2. r \in [s : States(On(s)), passed : Nat, tryFile : BOOLEAN] /\ Fair(r.s, {})
  BY DEF Writing
<1>3. CASE v = r
  BY <1>3
<1>4. CASE IsModified(r.s, f) /\ SectionBound(r.s, f) /\ v = [r EXCEPT !.s = WriteSectionCluster(@, f)]
  <2> DEFINE u == WriteSectionCluster(r.s, f)
  <2>1. f \in ToSection(r.s)
    BY <1>1, <1>4 DEF ToSection
  <2>2. Fair(u, {}) /\ Settled(r.s, u)
    BY <1>2, <2>1, WriteSectionClusterFits
  <2>3. v = [r EXCEPT !.s = u]
    BY <1>4
  <2> HIDE DEF u
  <2>4. Settled(s, u) /\ u \in States(On(s))
    BY <2>2, WritingNext
  <2> QED
    BY <1>2, <2>2, <2>3, <2>4 DEF Writing
<1>5. CASE v = AfterPageFile(r, WritePageFileCluster(r.s, SubSeq(frames, i, Len(frames))))
  <2> DEFINE rest == SubSeq(frames, i, Len(frames))
             try == WritePageFileCluster(r.s, rest)
             u == try.s
  <2>1. rest \in Seq(PFN)
    BY SubSeqProperties, LenProperties
  <2>2. v = AfterPageFile(r, try)
    BY <1>5
  <2> HIDE DEF rest
  <2>3. Fair(u, {}) /\ Settled(r.s, u) /\ try.written \in BOOLEAN
    BY <1>2, <2>1, WriteFileFits
  <2> HIDE DEF try
  <2>4. v = IF try.written THEN [r EXCEPT !.s = u] ELSE [s |-> u, passed |-> r.passed + 1, tryFile |-> FALSE]
    BY <2>2 DEF AfterPageFile
  <2> HIDE DEF u
  <2>5. Settled(s, u) /\ u \in States(On(s))
    BY <2>3, WritingNext
  <2>6. CASE try.written
    BY <1>2, <2>3, <2>4, <2>5, <2>6 DEF Writing
  <2>7. CASE ~try.written
    BY <1>2, <2>3, <2>4, <2>5, <2>7 DEF Writing
  <2> QED
    BY <2>6, <2>7
<1>6. CASE v = [r EXCEPT !.passed = @ + 1]
  BY <1>2, <1>6 DEF Writing
<1> QED
  BY <1>3, <1>4, <1>5, <1>6 DEF WriteNext

LEMMA WriteModifiedFits ==
  ASSUME NEW s, Fair(s, {}), NEW goal, NEW r, r = WriteModifiedPages(s, goal)
  PROVE  Writing(s, r)
<1> DEFINE frames == s.db.modified
           n == Len(frames)
           start == [s |-> s, passed |-> 0, tryFile |-> TRUE]
           at == [i \in DOMAIN frames |-> i]
           G == [T \in SUBSET (1 .. n) |-> {u \in [s : States(On(s)), passed : Nat, tryFile : BOOLEAN] : Writing(s, u)}]
<1>1. frames \in Seq(PFN) /\ n \in Nat /\ DOMAIN frames = 1 .. n
  <2>1. s.db \in DatabaseRecord
    BY DEF Fair, InPlace
  <2>2. frames \in Seq(PFN)
    BY <2>1 DEF DatabaseRecord
  <2> QED
    BY <2>2, LenProperties
<1>2. r = WriterRun(start, frames, goal, at)
  BY Zenon DEF WriteModifiedPages, WriterRun
<1>3. 1 .. n = DOMAIN at /\ \A i \in 1 .. n : at[i] = i
  BY <1>1
<1>4. Writing(s, start)
  BY StillSame DEF Writing, Fair, Typed
<1>5. \A u : Writing(s, u) => u \in [s : States(On(s)), passed : Nat, tryFile : BOOLEAN]
  BY DEF Writing
<1> HIDE DEF start, at, frames
<1>6. start \in G[{}]
  BY <1>1, <1>4, <1>5
<1>7. ASSUME NEW T \in SUBSET (1 .. n), NEW x \in T, NEW u \in G[T \ {x}]
      PROVE  WriteNext(u, frames, at[x], goal) \in G[T]
  <2>1. Writing(s, u) /\ at[x] \in 1 .. Len(frames)
    BY <1>3
  <2> DEFINE v == WriteNext(u, frames, at[x], goal)
  <2>2. Writing(s, v)
    BY <1>1, <2>1, WriteNextFits
  <2> HIDE DEF v
  <2> QED
    BY <1>5, <2>2 DEF v
<1> HIDE DEF G, n
<1>8. \A T \in SUBSET (1 .. n) : \A x \in T : \A u \in G[T \ {x}] :
        (\A y \in T : y <= x) => WriteNext(u, frames, at[x], goal) \in G[T]
  BY <1>7
<1>9. n \in Nat /\ 1 .. n = DOMAIN at
  BY <1>1, <1>3
<1>10. WriterRun(start, frames, goal, at) \in G[1 .. n]
  BY <1>6, <1>8, <1>9, WriterReaches
<1>11. r \in G[1 .. n]
  BY <1>2, <1>10
<1> QED
  BY <1>11 DEF G

\* The modified page writer changes nothing that its callers rely on.
LEMMA WakeWriterFits ==
  ASSUME NEW s, Fair(s, {}), NEW t, t = WakeModifiedPageWriter(s)
  PROVE  Fair(t, {}) /\ Settled(s, t)
<1>1. Typed(s) /\ s.boundary \in BOOLEAN /\ 0 \in Nat
  BY DEF Fair, Typed, States
<1>2. CASE Len(s.db.modified) <= HiLimit
  <2> DEFINE u == [s EXCEPT !.stuck.writer = 0]
  <2>1. t = u
    BY <1>2 DEF WakeModifiedPageWriter
  <2>2. Noted(s, u)
    BY <1>1, NotedIs
  <2> HIDE DEF u
  <2> QED
    BY <2>1, <2>2, NotedFits
<1>3. CASE ~(Len(s.db.modified) <= HiLimit)
  <2> DEFINE b == s.boundary \/ PageFileWanted(s)
             u == [s EXCEPT !.boundary = b]
             r == WriteModifiedPages(u, WriterGoal)
             w == AfterWriter(r)
  <2>1. b \in BOOLEAN
    BY <1>1 DEF PageFileWanted
  <2>2. t = u \/ t = w
    BY <1>3 DEF WakeModifiedPageWriter
  <2> HIDE DEF b
  <2>3. Noted(s, u)
    BY <1>1, <2>1, NotedIs
  <2> HIDE DEF u
  <2>4. Fair(u, {}) /\ Settled(s, u)
    BY <2>3, NotedFits
  <2>5. Writing(u, r)
    BY <2>4, WriteModifiedFits
  <2> HIDE DEF r
  <2>6. Fair(r.s, {}) /\ Settled(u, r.s) /\ r.passed \in Nat
    BY <2>5 DEF Writing
  <2>7. w = [r.s EXCEPT !.stuck.writer = r.passed]
    BY DEF AfterWriter
  <2> DEFINE a == r.s
             k == r.passed
  <2>8. Fair(a, {}) /\ k \in Nat /\ w = [a EXCEPT !.stuck.writer = k] /\ Settled(u, a)
    BY <2>6, <2>7
  <2> HIDE DEF a, k, w
  <2>9. Noted(a, w)
    BY <2>8, NotedIs DEF Fair
  <2>10. Fair(w, {}) /\ Settled(a, w)
    BY <2>8, <2>9, NotedFits
  <2>11. Settled(s, w)
    BY <2>4, <2>8, <2>10, SettledAgain
  <2> QED
    BY <2>2, <2>4, <2>10, <2>11
<1> QED
  BY <1>2, <1>3

-----------------------------------------------------------------------------
(* Evictions, and working sets. *)

\* The evictions of the pages q of the process p.
EvictAll(s, p, q) == FoldLeft(LAMBDA t, v : EvictPage(t, <<p, v>>), s, q)

\* The same of those.
LEMMA EvictReaches ==
  ASSUME NEW s, NEW p, NEW q, NEW n \in Nat, 1 .. n = DOMAIN q, NEW G,
         s \in G[{}],
         \A T \in SUBSET (1 .. n) : \A x \in T : \A u \in G[T \ {x}] :
           (\A y \in T : y <= x) => EvictPage(u, <<p, q[x]>>) \in G[T]
  PROVE  EvictAll(s, p, q) \in G[1 .. n]
<1> DEFINE base == s
           U == UNION {G[T] : T \in SUBSET (1 .. n)}
           F == [z \in (1 .. n) \X U |-> EvictPage(z[2], <<p, q[z[1]]>>)]
           Follows(f) == f = [T \in SUBSET (1 .. n) |->
                                IF T = {} THEN base ELSE EvictPage(f[T \ {Max(T)}], <<p, q[Max(T)]>>)]
           h == CHOOSE f : Follows(f)
<1>1. EvictAll(s, p, q) = h[1 .. n]
  BY Zenon DEF EvictAll, FoldLeft, MapThenFoldSet
<1>2. \A T \in SUBSET (1 .. n) : T # {} => Max(T) \in T /\ \A y \in T : y <= Max(T)
  BY GreatestPlace
<1>3. \A T \in SUBSET (1 .. n) : \A x \in T : \A u \in G[T \ {x}] : F[<<x, u>>] = EvictPage(u, <<p, q[x]>>)
  OBVIOUS
<1> HIDE DEF F, base, h
<1>4. StepsStay(n, F, G)
  BY <1>3 DEF StepsStay
<1>5. base \in G[{}]
  BY DEF base
<1> HIDE DEF U
<1>6. PICK g : FoldsOver(n, base, F, g) /\ StaysIn(n, g, G)
  BY <1>4, <1>5, SeqFoldExists, ZenonT(60)
<1>7. \A T \in SUBSET (1 .. n) : T # {} => F[<<Max(T), g[T \ {Max(T)}]>>]
                                      = EvictPage(g[T \ {Max(T)}], <<p, q[Max(T)]>>)
  BY <1>2, <1>3, <1>6 DEF StaysIn
<1>8. Follows(g)
  BY <1>6, <1>7, Zenon DEF FoldsOver
<1>9. Follows(h)
  BY <1>8, Zenon DEF h
<1>10. \A T \in SUBSET (1 .. n) : h[T] = IF T = {} THEN base ELSE EvictPage(h[T \ {Max(T)}], <<p, q[Max(T)]>>)
  BY <1>9
<1>11. h[{}] \in G[{}]
  BY <1>5, <1>10
<1>12. \A T \in SUBSET (1 .. n) : T # {} /\ h[T \ {Max(T)}] \in G[T \ {Max(T)}] => h[T] \in G[T]
  BY <1>2, <1>10, ZenonT(60)
<1>13. h[1 .. n] \in G[1 .. n]
  BY <1>11, <1>12, SeqFoldInduction, Zenon
<1> QED
  BY <1>1, <1>13

\* A page out of memory, or on its way.
Out(s, t, R) ==
  /\ On(t) = On(s) /\ Still(s, t) /\ t.ws = s.ws
  /\ \A q \in On(s) : IF q \in R THEN ~IsValid(t, q) ELSE t.pte[q] = s.pte[q]

LEMMA EvictFits ==
  ASSUME NEW s, Fair(s, {}), NEW o \in On(s), NEW t, t = EvictPage(s, o)
  PROVE  Fair(t, {}) /\ Out(s, t, {o})
<1> DEFINE f == s.pte[o].at
           u == Released(s, o)
<1>1. CASE ~IsValid(s, o)
  <2>1. t = s
    BY <1>1 DEF EvictPage
  <2> QED
    BY <1>1, <2>1, StillSame DEF Out
<1>2. CASE IsValid(s, o)
  <2>1. HasFrame(s, o) /\ At(s, o, f) /\ PageOK(s, o)
    BY <1>2 DEF HasFrame, IsValid, At, Fair, PagesFit
  <2> HIDE DEF f
  <2>2. f \in PFN /\ Holds(s, f, o)
    BY <2>1, FrameOfPage
  <2>3. s.db.entry[f].state = "active" /\ s.db.entry[f].owner = o
    BY <1>2, <2>1, <2>2 DEF PageOK, IsValid, At, Holds
  <2>4. FrameOK(s, f)
    BY <2>2 DEF Fair, FramesFit
  <2>5. s.db.entry[f].refs = 1
    BY <2>2, <2>3, <2>4 DEF FrameOK, Holds
  <2>6. t = AfterRelease(u, f)
    BY <1>2, <2>1, <2>3, <2>5 DEF EvictPage, Released, At, f
  <2> DEFINE v == ForgetPageFileBlock(u, f)
             w == LeaveReadOnlySection(v, f)
             x == WakeModifiedPageWriter(w)
  <2>7. t = IF IsModified(u, f) THEN x ELSE u
    BY <2>6 DEF AfterRelease
  <2> HIDE DEF u
  <2>8. /\ Fair(u, {}) /\ Still(s, u) /\ u.ws = s.ws /\ f \in PFN /\ Holds(u, f, o)
        /\ u.db.entry[f].state = "modified" => u.db.entry[f].saved
        /\ u.pte = [s.pte EXCEPT ![o] = Transition(f)]
    BY <1>2, <2>1, ReleasedFits DEF u
  <2>9. s.pte \in [On(s) -> PTE]
    BY DEF Fair, Typed, States
  <2>10. Out(s, u, {o})
    <3>1. On(u) = On(s)
      BY <2>8 DEF Still, On
    <3> DEFINE P == Transition(f)
    <3>2. P.form = "transition"
      BY <2>2, TransitionIs
    <3> HIDE DEF P
    <3>3. u.pte = [s.pte EXCEPT ![o] = P]
      BY <2>8 DEF P
    <3>4. u.pte[o] = P /\ \A q \in On(s) \ {o} : u.pte[q] = s.pte[q]
      BY <2>9, <3>3
    <3>5. \A q \in On(s) : IF q \in {o} THEN ~IsValid(u, q) ELSE u.pte[q] = s.pte[q]
      BY <3>2, <3>4 DEF IsValid
    <3> QED
      BY <2>8, <3>1, <3>5 DEF Out
  <2>11. IsModified(u, f) => Fair(x, {}) /\ Settled(u, x)
    <3> HAVE IsModified(u, f)
    <3>1. u.db.entry[f].tied /\ u.db.entry[f].saved
      BY <2>8 DEF IsModified, Holds
    <3> HIDE DEF v, w, x
    <3>2. Fair(v, {}) /\ Rebacked(u, f, v)
      BY <2>2, <2>8, <3>1, ForgetFits DEF v
    <3>3. v.db.entry[f].tied /\ v.db.entry[f].saved /\ Settled(u, v)
      BY <3>2 DEF Rebacked
    <3>4. Fair(w, {}) /\ Settled(v, w)
      BY <2>2, <3>2, <3>3, LeaveSectionFits DEF w
    <3>5. Fair(x, {}) /\ Settled(w, x)
      BY <3>4, WakeWriterFits DEF x
    <3> QED
      BY <3>3, <3>4, <3>5, SettledAgain
  <2> HIDE DEF v, w, x
  <2>12. IsModified(u, f) => Out(s, x, {o})
    <3> HAVE IsModified(u, f)
    <3>1. Settled(u, x)
      BY <2>11
    <3>2. Still(s, x)
      BY <2>8, <3>1, StillAgain DEF Settled
    <3>3. On(x) = On(s)
      BY <3>2 DEF Still, On
    <3> QED
      BY <2>10, <3>1, <3>2, <3>3 DEF Out, Settled, IsValid
  <2> QED
    BY <2>7, <2>8, <2>10, <2>11, <2>12
<1> QED
  BY <1>1, <1>2

LEMMA OutAgain ==
  ASSUME NEW s, NEW t, NEW u, NEW R, NEW S, Out(s, t, R), Out(t, u, S)
  PROVE  Out(s, u, R \cup S)
<1>1. Still(s, u)
  BY StillAgain DEF Out
<1> QED
  BY <1>1 DEF Out, IsValid

LEMMA EvictAllFits ==
  ASSUME NEW s, Fair(s, {}), NEW p, NEW q \in Seq(Pages), \A v \in ToSet(q) : <<p, v>> \in On(s), NEW t, t = EvictAll(s, p, q)
  PROVE  Fair(t, {}) /\ Out(s, t, {<<p, v>> : v \in ToSet(q)})
<1> DEFINE n == Len(q)
           R(T) == {<<p, q[j]>> : j \in T}
           Ok(u, T) == Fair(u, {}) /\ Out(s, u, R(T))
           G == [T \in SUBSET (1 .. n) |-> {u \in States(On(s)) : Ok(u, T)}]
<1>1. n \in Nat /\ DOMAIN q = 1 .. n /\ \A j \in 1 .. n : <<p, q[j]>> \in On(s)
  <2>1. n \in Nat /\ DOMAIN q = 1 .. n
    BY LenProperties
  <2> QED
    BY <2>1 DEF ToSet
<1> HIDE DEF n
<1>2. s \in G[{}]
  <2>1. R({}) = {}
    OBVIOUS
  <2> HIDE DEF R
  <2>2. Ok(s, {}) /\ s \in States(On(s))
    BY <2>1, StillSame DEF Out, Fair, Typed
  <2> QED
    BY <1>1, <2>2
<1>3. ASSUME NEW T \in SUBSET (1 .. n), NEW x \in T, NEW u \in G[T \ {x}]
      PROVE  EvictPage(u, <<p, q[x]>>) \in G[T]
  <2> DEFINE o == <<p, q[x]>>
             v == EvictPage(u, o)
             L == R(T \ {x})
  <2>1. Ok(u, T \ {x})
    OBVIOUS
  <2>2. R(T) = L \cup {o}
    OBVIOUS
  <2>3. o \in On(s)
    BY <1>1
  <2> HIDE DEF o, L
  <2>4. Fair(u, {}) /\ Out(s, u, L) /\ o \in On(u)
    BY <2>1, <2>3 DEF L, Out
  <2> HIDE DEF v
  <2>5. Fair(v, {}) /\ Out(u, v, {o})
    BY <2>4, EvictFits DEF v
  <2>6. Out(s, v, L \cup {o})
    BY <2>4, <2>5, OutAgain
  <2>7. v \in States(On(s))
    BY <2>5, <2>6 DEF Fair, Typed, Out
  <2> HIDE DEF R
  <2>8. Ok(v, T)
    BY <2>2, <2>5, <2>6
  <2> QED
    BY <2>7, <2>8 DEF v, o
<1> HIDE DEF G, Ok
<1>4. \A T \in SUBSET (1 .. n) : \A x \in T : \A u \in G[T \ {x}] :
        (\A y \in T : y <= x) => EvictPage(u, <<p, q[x]>>) \in G[T]
  BY <1>3
<1>5. n \in Nat /\ 1 .. n = DOMAIN q
  BY <1>1
<1>6. t \in G[1 .. n]
  BY <1>2, <1>4, <1>5, EvictReaches
<1>7. Ok(t, 1 .. n)
  BY <1>6 DEF G
<1>8. R(1 .. n) = {<<p, v>> : v \in ToSet(q)}
  BY <1>5 DEF ToSet
<1> QED
  BY <1>7, <1>8 DEF Ok

\* What a call of the list's routines makes of the list of p: pages out, none of
\* them translated in this instruction, and those of E in.
Rearranged(s, p, r, E) ==
  /\ r \in [list : ListRecord, out : Seq(Pages)] /\ Sized(r.list)
  /\ ToSet(r.out) \subseteq PagesIn(s.ws[p]) /\ \A v \in ToSet(r.out) : v \notin Conditions(s, p).protected
  /\ PagesIn(r.list) = (PagesIn(s.ws[p]) \ ToSet(r.out)) \cup {q[2] : q \in E}
  /\ \A q \in E : q \in On(s) /\ q[1] = p /\ q[2] \notin PagesIn(s.ws[p])

\* What is known of a state whose lists are right.
Sound(s, E) == Fair(s, {}) /\ Listed(s, E) /\ On(s) = Existing

\* The pages that are not in memory stay as they are.
Absent(s, t) == \A q \in On(s) : ~IsValid(s, q) => t.pte[q] = s.pte[q]

LEMMA WithListFits ==
  ASSUME NEW s, Sound(s, {}), NEW p \in Procs, NEW E, NEW r, Rearranged(s, p, r, E), NEW t, t = WithList(s, p, r)
  PROVE  /\ Sound(t, E) /\ Quiet(s, t) /\ t.ws = [s.ws EXCEPT ![p] = r.list] /\ On(t) = On(s)
         /\ Absent(s, t)
<1> DEFINE l == r.list
           q == r.out
           u == SetList(s, p, l)
           R == {<<p, v>> : v \in ToSet(q)}
           I == {e[2] : e \in E}
<1>1. Fair(s, {}) /\ Listed(s, {}) /\ On(s) = Existing
  BY DEF Sound
<1>2. /\ l \in ListRecord /\ q \in Seq(Pages) /\ Sized(l) /\ ToSet(q) \subseteq PagesIn(s.ws[p])
      /\ PagesIn(l) = (PagesIn(s.ws[p]) \ ToSet(q)) \cup I
      /\ \A e \in E : e \in On(s) /\ e[1] = p /\ e[2] \notin PagesIn(s.ws[p])
  BY DEF Rearranged
<1>3. \A v \in ToSet(q) : v \notin Conditions(s, p).protected
  BY DEF Rearranged
<1>4. t = EvictAll(u, p, q)
  BY Zenon DEF WithList, EvictAll, SetList
<1> HIDE DEF l, q
<1>5. PagesIn(s.ws[p]) \subseteq PagesFor(s, p)
  BY <1>1 DEF Fair, ListsFit
<1>6. PagesIn(l) \subseteq PagesFor(s, p)
  <2>1. \A e \in E : e[2] \in PagesFor(s, p)
    BY <1>1, <1>2, OwnersAre DEF Fair
  <2> QED
    BY <1>2, <1>5, <2>1
<1> HIDE DEF u
<1>7. /\ Fair(u, {}) /\ Still(s, u) /\ u.pte = s.pte /\ u.ws = [s.ws EXCEPT ![p] = l] /\ On(u) = On(s)
  BY <1>1, <1>2, <1>6, SetListFits DEF u
<1>8. \A v \in ToSet(q) : <<p, v>> \in On(u)
  BY <1>2, <1>5, <1>7 DEF PagesFor
<1>9. Fair(t, {}) /\ Out(u, t, R)
  BY <1>2, <1>4, <1>7, <1>8, EvictAllFits
<1>10. /\ Still(s, t) /\ On(t) = On(s) /\ t.ws = [s.ws EXCEPT ![p] = l]
       /\ \A o \in On(s) : IF o \in R THEN ~IsValid(t, o) ELSE t.pte[o] = s.pte[o]
  <2>1. Still(s, t)
    BY <1>7, <1>9, StillAgain DEF Out
  <2> QED
    BY <1>7, <1>9, <2>1 DEF Out
<1>11. s.ws \in [Procs -> ListRecord]
  BY <1>1 DEF Fair, Typed, States
<1>12. \A o \in On(s) : o[1] \in Procs /\ o[2] \in Pages /\ o = <<o[1], o[2]>>
  BY <1>1, OwnersAre DEF Fair
<1>13. \A o \in On(s) : o \in R <=> o[1] = p /\ o[2] \in ToSet(q)
  BY <1>12
<1> HIDE DEF R
<1>14. ASSUME NEW o \in On(s)
       PROVE  o[2] \in PagesIn(t.ws[o[1]]) <=> IsValid(t, o) \/ o \in E
  <2>1. o[2] \in PagesIn(s.ws[o[1]]) <=> IsValid(s, o)
    BY <1>1 DEF Listed
  <2>2. CASE o[1] # p
    <3>1. t.ws[o[1]] = s.ws[o[1]]
      BY <1>10, <1>11, <1>12, <2>2
    <3>2. t.pte[o] = s.pte[o] /\ o \notin E
      BY <1>2, <1>10, <1>13, <2>2
    <3> QED
      BY <2>1, <3>1, <3>2 DEF IsValid
  <2>3. CASE o[1] = p
    <3>1. t.ws[o[1]] = l
      BY <1>10, <1>11, <2>3
    <3>2. o[2] \in I <=> o \in E
      <4>1. ASSUME NEW e \in E, e[2] = o[2]
            PROVE  e = o
        BY <1>2, <1>12, <2>3, <4>1
      <4> QED
        BY <4>1
    <3>3. o[2] \in ToSet(q) => o \notin E
      BY <1>2
    <3>4. CASE o \in R
      BY <1>2, <1>10, <1>13, <2>1, <3>1, <3>2, <3>3, <3>4
    <3>5. CASE o \notin R
      BY <1>2, <1>10, <1>13, <2>1, <2>3, <3>1, <3>2, <3>5 DEF IsValid
    <3> QED
      BY <3>4, <3>5
  <2> QED
    BY <2>2, <2>3
<1>15. ASSUME NEW o \in On(s), IsValid(s, o), s.pte[o].at \in s.touched
       PROVE  Stays(s, t, o)
  <2>1. o \notin R
    <3>1. SUFFICES ASSUME o \in R PROVE FALSE
      OBVIOUS
    <3>2. o[1] = p /\ o[2] \in ToSet(q) /\ o = <<p, o[2]>> /\ o[2] \in Pages
      BY <1>12, <1>13, <3>1
    <3>3. o[2] \in PagesOf(p)
      BY <1>1, <3>2 DEF PagesOf
    <3>4. o[2] \in Conditions(s, p).protected
      BY <1>15, <3>2, <3>3 DEF Conditions
    <3> QED
      BY <1>3, <3>2, <3>4
  <2>2. t.pte[o] = s.pte[o]
    BY <1>10, <2>1
  <2> QED
    BY <1>15, <2>2 DEF Stays, IsValid
<1>16. Quiet(s, t)
  BY <1>10, <1>15 DEF Quiet
<1>17. Sound(t, E)
  BY <1>1, <1>9, <1>10, <1>14 DEF Sound, Listed
<1>18. ASSUME NEW o \in On(s), ~IsValid(s, o)
       PROVE  t.pte[o] = s.pte[o]
  <2>1. o[2] \notin PagesIn(s.ws[o[1]])
    BY <1>1, <1>18 DEF Listed
  <2>2. o \notin R
    BY <1>2, <1>13, <2>1
  <2> QED
    BY <1>10, <2>2
<1> QED
  BY <1>10, <1>16, <1>17, <1>18 DEF l, Absent

\* Pages taken out, and pages taken out for one that comes in.
LEMMA TakenIs ==
  ASSUME NEW s, NEW p, NEW r, Taken(s.ws[p], r, Conditions(s, p)), Sized(r.list)
  PROVE  Rearranged(s, p, r, {})
BY DEF Taken, Rearranged

LEMMA EnteredIs ==
  ASSUME NEW s, NEW o \in On(s), NEW r, Entered(s.ws[o[1]], o[2], r, Conditions(s, o[1])),
         o[2] \notin PagesIn(s.ws[o[1]])
  PROVE  Rearranged(s, o[1], r, {o})
BY DEF Entered, Rearranged

LEMMA TrimIfOverFits ==
  ASSUME NEW s, NEW E, Sound(s, E), NEW p, NEW t, t = TrimIfOver(s, p)
  PROVE  Sound(t, E) /\ Settled(s, t)
<1>1. CASE t = s
  BY <1>1, StillSame
<1>2. CASE t = AtNextInstruction(s)
  <2>1. Noted(s, t)
    BY <1>2, NotedIs DEF AtNextInstruction, Sound, Fair
  <2>2. Fair(t, {}) /\ Settled(s, t)
    BY <2>1, NotedFits DEF Sound
  <2>3. On(t) = On(s) /\ Listed(t, E)
    BY <2>2, SettledQuiet DEF Sound
  <2> QED
    BY <2>2, <2>3 DEF Sound
<1> QED
  BY <1>1, <1>2 DEF TrimIfOver

LEMMA EnterFits ==
  ASSUME NEW s, Sound(s, {}), NEW o \in On(s), ~IsValid(s, o), NEW t, t = EnterWorkingSet(s, o[1], o[2])
  PROVE  Sound(t, {o}) /\ Quiet(s, t) /\ t.pte[o] = s.pte[o]
<1> DEFINE p == o[1]
           w == s.ws[p]
           r == Add(w, o[2], Conditions(s, p))
           u == WithList(s, p, r)
<1>1. Fair(s, {}) /\ p \in Procs /\ o[2] \in Pages
  BY OwnersAre DEF Sound, Fair
<1>2. o[2] \notin PagesIn(w) /\ Sized(w)
  BY <1>1 DEF Sound, Listed, Fair, ListsFit
<1>3. t = TrimIfOver(u, p)
  BY <1>2 DEF EnterWorkingSet
<1>4. Entered(w, o[2], r, Conditions(s, p))
  BY <1>1, <1>2, AddFits
<1> HIDE DEF r
<1>5. Rearranged(s, p, r, {o})
  BY <1>2, <1>4, EnteredIs
<1> HIDE DEF p, w, u
<1>6. Sound(u, {o}) /\ Quiet(s, u) /\ On(u) = On(s) /\ Absent(s, u)
  BY <1>1, <1>5, WithListFits DEF u
<1>7. u.pte[o] = s.pte[o]
  BY <1>6 DEF Absent
<1>8. Sound(t, {o}) /\ Settled(u, t)
  BY <1>3, <1>6, TrimIfOverFits
<1>9. Quiet(s, t)
  BY <1>6, <1>8, SettledQuiet, QuietAgain
<1> QED
  BY <1>7, <1>8, <1>9 DEF Settled

-----------------------------------------------------------------------------
(* Page faults. *)

\* A state that a routine may have left to the next instruction boundary.
WithFrame(u, d, r, bound) == [u EXCEPT !.db = d, !.ram = r, !.boundary = bound]

LEMMA WakeReclaimerIs ==
  ASSUME NEW E, NEW u \in States(E), NEW d, NEW r, NEW t, t = WakeReclaimerIfLow([u EXCEPT !.db = d, !.ram = r])
  PROVE  \E bound \in BOOLEAN : t = WithFrame(u, d, r, bound)
<1> DEFINE x == [u EXCEPT !.db = d, !.ram = r]
<1>1. u.boundary \in BOOLEAN /\ TRUE \in BOOLEAN
  BY DEF States
<1>2. x = WithFrame(u, d, r, u.boundary)
  BY DEF WithFrame, States
<1>3. AtNextInstruction(x) = WithFrame(u, d, r, TRUE)
  BY DEF WithFrame, States, AtNextInstruction
<1>4. t = x \/ t = AtNextInstruction(x)
  BY DEF WakeReclaimerIfLow
<1> HIDE DEF x
<1> QED
  BY <1>1, <1>2, <1>3, <1>4

LEMMA BreakTieTyped ==
  ASSUME NEW s, Fair(s, {}), CanAllocate(s.db)
  PROVE  BreakTie(s, NextFrame(s.db)) \in States(On(s)) /\ BreakTie(s, NextFrame(s.db)).db = s.db
         /\ BreakTie(s, NextFrame(s.db)).ram = s.ram
<1> DEFINE f == NextFrame(s.db)
           u == BreakTie(s, f)
<1>1. InPlace(s.db, PFN) /\ s \in States(On(s))
  BY DEF Fair, Typed
<1>2. f \in PFN /\ s.db.entry[f].state = "free"
  BY <1>1, NextFrameIsFree DEF CanReserve
<1> HIDE DEF f
<1>3. OnlyPTE(s, u)
  BY <1>2, BreakTieIs
<1>4. PICK h \in [On(s) -> PTE] : u = [s EXCEPT !.pte = h]
  BY <1>3 DEF OnlyPTE
<1> HIDE DEF u
<1>5. u \in States(On(s)) /\ u.db = s.db /\ u.ram = s.ram
  BY <1>1, <1>4 DEF States
<1> QED
  BY <1>5 DEF u, f

\* A page given the next free frame, as resolveFault does it.
Supplied(s, o, store, contents, saved) ==
  LET w == TakeFrameFor(s, o, store, contents)
      f == NextFrame(s.db)
  IN IF saved THEN [SaveModify(w, f) EXCEPT !.pte[o] = Valid(f)] ELSE [w EXCEPT !.pte[o] = Valid(f)]

LEMMA SuppliedIs ==
  ASSUME NEW s, Fair(s, {}), CanAllocate(s.db), NEW o, NEW store, NEW contents, NEW saved \in BOOLEAN
  PROVE  \E bound \in BOOLEAN : Supplied(s, o, store, contents, saved) = Took(s, o, store, contents, saved, bound)
<1> DEFINE f == NextFrame(s.db)
           w == TakeFrameFor(s, o, store, contents)
           u == BreakTie(s, f)
           a == Allocate(u.db, "process", o, store)
           r == [u.ram EXCEPT ![f] = contents]
           h == [u.pte EXCEPT ![o] = Valid(f)]
           m == SetModified(a, f)
<1>1. u \in States(On(s)) /\ u.db = s.db /\ u.ram = s.ram
  BY BreakTieTyped
<1>2. w = WakeReclaimerIfLow([u EXCEPT !.db = a, !.ram = r])
  BY DEF TakeFrameFor
<1>3. \A bound : Took(s, o, store, contents, FALSE, bound)
                   = [u EXCEPT !.pte = h, !.db = a, !.ram = r, !.boundary = bound]
  BY <1>1 DEF Took, TakenWith
<1>4. \A bound : Took(s, o, store, contents, TRUE, bound)
                   = [u EXCEPT !.pte = h, !.db = m, !.ram = r, !.boundary = bound]
  BY <1>1 DEF Took, TakenWith
<1>5. \A bound : WithFrame(u, a, r, bound).pte = u.pte /\ WithFrame(u, a, r, bound).db = a
  BY <1>1 DEF WithFrame, States
<1> DEFINE P == Valid(f)
<1>6. h = [u.pte EXCEPT ![o] = P] /\ m = SetModified(a, f)
  OBVIOUS
<1> HIDE DEF u, a, r, P
<1>7. PICK bound \in BOOLEAN : w = WithFrame(u, a, r, bound)
  BY <1>1, <1>2, WakeReclaimerIs
<1>8. w.pte = u.pte /\ w.db = a
  BY <1>5, <1>7
<1>9. [w EXCEPT !.pte[o] = P] = [w EXCEPT !.pte = h]
  BY <1>6, <1>8
<1>10. [SaveModify(w, f) EXCEPT !.pte[o] = P] = [[w EXCEPT !.db = m] EXCEPT !.pte = h]
  <2>1. SaveModify(w, f) = [w EXCEPT !.db = m]
    BY <1>8 DEF SaveModify
  <2>2. [w EXCEPT !.db = m].pte = u.pte
    BY <1>1, <1>7 DEF WithFrame, States
  <2> HIDE DEF h, m
  <2> QED
    BY <1>6, <2>1, <2>2
<1> HIDE DEF h, m
<1>11. [w EXCEPT !.pte = h] = [u EXCEPT !.pte = h, !.db = a, !.ram = r, !.boundary = bound]
  BY <1>1, <1>7 DEF WithFrame, States
<1>12. [[w EXCEPT !.db = m] EXCEPT !.pte = h] = [u EXCEPT !.pte = h, !.db = m, !.ram = r, !.boundary = bound]
  BY <1>1, <1>7 DEF WithFrame, States
<1>13. [w EXCEPT !.pte[o] = P] = Took(s, o, store, contents, FALSE, bound)
  BY <1>3, <1>9, <1>11
<1>14. [SaveModify(w, f) EXCEPT !.pte[o] = P] = Took(s, o, store, contents, TRUE, bound)
  BY <1>4, <1>10, <1>12
<1>15. Supplied(s, o, store, contents, saved)
         = IF saved THEN [SaveModify(w, f) EXCEPT !.pte[o] = P] ELSE [w EXCEPT !.pte[o] = P]
  BY DEF Supplied, P
<1> HIDE DEF w, f
<1>16. CASE saved = TRUE
  BY <1>7, <1>14, <1>15, <1>16
<1>17. CASE saved = FALSE
  BY <1>7, <1>13, <1>15, <1>17
<1> QED
  BY <1>16, <1>17

\* The entry a fault found.
Found(s, o, P) == P = s.pte[o]

LEMMA SuppliedFits ==
  ASSUME NEW s, Fair(s, {}), NEW o \in On(s), ~HasFrame(s, o), CanAllocate(s.db), NEW store, NEW contents,
         NEW saved \in BOOLEAN, Suits(s, o, store, contents, saved),
         NEW t, t = Supplied(s, o, store, contents, saved)
  PROVE  Fair(t, {}) /\ Still(s, t) /\ t.ws = s.ws /\ TookIn(s, t, o)
<1>1. PICK bound \in BOOLEAN : t = Took(s, o, store, contents, saved, bound)
  BY SuppliedIs
<1> QED
  BY <1>1, TookFits

\* A page taken back from transition.
LEMMA SoftFaultIs ==
  ASSUME NEW s, Typed(s), NEW o \in On(s), NEW f, At(s, o, f), NEW t, t = [SoftFault(s, f) EXCEPT !.pte[o] = Valid(f)]
  PROVE  \E bound \in BOOLEAN : t = Reclaimed(s, o, bound)
<1> DEFINE d == Reclaim(s.db, f)
           h == [s.pte EXCEPT ![o] = Valid(f)]
           P == Valid(f)
           x == [s EXCEPT !.db = d]
<1>1. s \in States(On(s)) /\ s.boundary \in BOOLEAN /\ TRUE \in BOOLEAN
  BY DEF Typed, States
<1>2. \A bound : Reclaimed(s, o, bound) = [s EXCEPT !.pte = h, !.db = d, !.boundary = bound]
  BY DEF Reclaimed, WithPage, At
<1>3. SoftFault(s, f) = x \/ SoftFault(s, f) = [x EXCEPT !.boundary = TRUE]
  BY DEF SoftFault, WakeReclaimerIfLow, AtNextInstruction
<1>4. x.pte = s.pte /\ [x EXCEPT !.boundary = TRUE].pte = s.pte
  BY <1>1 DEF States
<1>5. h = [s.pte EXCEPT ![o] = P]
  OBVIOUS
<1>6. t = [SoftFault(s, f) EXCEPT !.pte[o] = P]
  OBVIOUS
<1> HIDE DEF d, h, P
<1>7. [x EXCEPT !.pte = h] = [s EXCEPT !.pte = h, !.db = d, !.boundary = s.boundary]
  BY <1>1 DEF States
<1>8. [[x EXCEPT !.boundary = TRUE] EXCEPT !.pte = h] = [s EXCEPT !.pte = h, !.db = d, !.boundary = TRUE]
  BY <1>1 DEF States
<1> HIDE DEF x
<1>9. CASE SoftFault(s, f) = x
  <2>1. t = [x EXCEPT !.pte = h]
    BY <1>4, <1>5, <1>6, <1>9
  <2> QED
    BY <1>1, <1>2, <1>7, <2>1
<1>10. CASE SoftFault(s, f) = [x EXCEPT !.boundary = TRUE]
  <2>1. t = [[x EXCEPT !.boundary = TRUE] EXCEPT !.pte = h]
    BY <1>4, <1>5, <1>6, <1>10
  <2> QED
    BY <1>1, <1>2, <1>8, <2>1
<1> QED
  BY <1>3, <1>9, <1>10

\* resolveFault makes one page valid, and nothing else that a program could see.
LEMMA ResolvedFits ==
  ASSUME NEW s, Fair(s, {}), NEW o \in On(s), ~IsValid(s, o), NEW P, Found(s, o, P), CanResolveFault(s, o, P),
         NEW t, t = ResolveFault(s, o, P)
  PROVE  Fair(t, {}) /\ Still(s, t) /\ t.ws = s.ws /\ TookIn(s, t, o)
<1> DEFINE Good == Fair(t, {}) /\ Still(s, t) /\ t.ws = s.ws /\ TookIn(s, t, o)
<1>1. P.form \in {"valid", "transition", "pageFile", "section"} /\ P.form = s.pte[o].form /\ P.at = s.pte[o].at
      /\ s.pte \in [On(s) -> PTE] /\ s.mapped[o] \in SectionKinds
  BY DEF Found, Fair, Typed, States, PTE
<1>2. PageOK(s, o) /\ o \in Owners /\ Typed(s)
  BY DEF Fair, PagesFit, Typed
<1>3. CASE P.form = "transition"
  <2> DEFINE f == P.at
  <2>1. t = [SoftFault(s, f) EXCEPT !.pte[o] = Valid(f)]
    BY <1>3 DEF ResolveFault, Supplied
  <2>2. At(s, o, f) /\ InTransition(s, o)
    BY <1>1, <1>3 DEF At, InTransition
  <2>3. HasFrame(s, o)
    BY <1>1, <1>3 DEF HasFrame
  <2> HIDE DEF f
  <2>4. PICK bound \in BOOLEAN : t = Reclaimed(s, o, bound)
    BY <1>2, <2>1, <2>2, SoftFaultIs
  <2>5. Fair(t, {}) /\ Still(s, t) /\ t.ws = s.ws /\ t.pte = [s.pte EXCEPT ![o] = Valid(f)]
    BY <2>2, <2>4, ReclaimedFits
  <2>6. f \in PFN
    BY <2>2, <2>3, FrameOfPage
  <2>7. t.pte[o] = Valid(f) /\ \A q \in On(s) \ {o} : t.pte[q] = s.pte[q]
    BY <1>1, <2>5
  <2>8. TookIn(s, t, o)
    BY <2>6, <2>7, TransitionIs DEF TookIn, IsValid
  <2> QED
    BY <2>5, <2>8
<1>4. CASE P.form # "transition"
  <2>1. CanAllocate(s.db) /\ ~HasFrame(s, o)
    BY <1>1, <1>4 DEF CanResolveFault, HasFrame, IsValid
  <2>2. ASSUME NEW store, NEW contents, NEW saved \in BOOLEAN, Suits(s, o, store, contents, saved),
               t = Supplied(s, o, store, contents, saved)
        PROVE  Good
    BY <2>1, <2>2, SuppliedFits
  <2>3. TRUE \in BOOLEAN /\ FALSE \in BOOLEAN
    OBVIOUS
  <2>4. CASE P.form = "section" /\ s.mapped[o] = "copyOnRef"
    <3>1. t = Supplied(s, o, InPageFile(0), s.file[o], TRUE)
      BY <2>4 DEF ResolveFault, Supplied
    <3>2. Suits(s, o, InPageFile(0), s.file[o], TRUE)
      BY <1>1, <1>2, <2>1, <2>4, ZeroBlock, PageFileStores DEF Suits, Seen, Held, InPageFile
    <3> QED
      BY <2>2, <2>3, <3>1, <3>2
  <2>5. CASE P.form = "section" /\ s.mapped[o] # "copyOnRef"
    <3>1. t = Supplied(s, o, InSection(o), s.file[o], FALSE)
      BY <2>5 DEF ResolveFault, Supplied
    <3>2. Suits(s, o, InSection(o), s.file[o], FALSE)
      BY <1>1, <1>2, <2>1, <2>5, ZeroBlock, PageFileStores DEF Suits, Seen, Held, InSection, Stored
    <3> QED
      BY <2>2, <2>3, <3>1, <3>2
  <2>6. CASE P.form = "pageFile" /\ P.at # 0
    <3>1. t = Supplied(s, o, InPageFile(P.at), s.disk[P.at], FALSE)
      BY <2>6 DEF ResolveFault, Supplied
    <3>2. P.at \in 0 .. FileSize /\ s.mapped[o] # "writeBack"
      BY <1>1, <1>2, <2>6 DEF PageOK
    <3>3. Suits(s, o, InPageFile(P.at), s.disk[P.at], FALSE)
      BY <1>1, <1>2, <2>1, <2>6, <3>2, PageFileStores DEF Suits, Seen, Held, InPageFile, Stored
    <3> QED
      BY <2>2, <2>3, <3>1, <3>3
  <2>7. CASE P.form = "pageFile" /\ P.at = 0
    <3>1. t = Supplied(s, o, InPageFile(0), 0, TRUE)
      BY <2>7 DEF ResolveFault, Supplied
    <3>2. s.mapped[o] # "writeBack"
      BY <1>1, <1>2, <2>7 DEF PageOK
    <3>3. Suits(s, o, InPageFile(0), 0, TRUE)
      BY <1>1, <1>2, <2>1, <2>7, <3>2, ZeroBlock, PageFileStores DEF Suits, Seen, Held, InPageFile
    <3> QED
      BY <2>2, <2>3, <3>1, <3>3
  <2>8. P.form # "valid"
    BY <1>1 DEF IsValid
  <2> QED
    BY <1>1, <1>4, <2>4, <2>5, <2>6, <2>7, <2>8
<1> QED
  BY <1>3, <1>4

\* The page entered in its list is then valid, and the lists are right again.
LEMMA ResolveFits ==
  ASSUME NEW s, NEW o \in On(s), Sound(s, {o}), ~IsValid(s, o), NEW P, Found(s, o, P), CanResolveFault(s, o, P),
         NEW t, t = ResolveFault(s, o, P)
  PROVE  Sound(t, {}) /\ Quiet(s, t)
<1>1. Fair(s, {}) /\ Listed(s, {o}) /\ On(s) = Existing
  BY DEF Sound
<1>2. Fair(t, {}) /\ Still(s, t) /\ t.ws = s.ws /\ TookIn(s, t, o)
  BY <1>1, ResolvedFits
<1>3. On(t) = On(s)
  BY <1>2 DEF Still, On
<1>4. Listed(t, {})
  BY <1>1, <1>2, <1>3 DEF Listed, TookIn
<1>5. Quiet(s, t)
  BY <1>2 DEF Quiet, TookIn, Stays, IsValid
<1> QED
  BY <1>1, <1>2, <1>3, <1>4, <1>5 DEF Sound

\* The scan of the pages near one that is read, at the distances of at.
Scanned(s, o, P, dir, at) ==
  FoldLeft(LAMBDA r, k : ReadNeighbor(r, o, P, <<o[1], o[2] + dir * k>>),
           [s |-> s, stopped |-> FALSE, read |-> 0], at)

\* The same of that scan.
LEMMA ScanReaches ==
  ASSUME NEW s, NEW o, NEW P, NEW dir, NEW at, NEW n \in Nat, 1 .. n = DOMAIN at, NEW G,
         [s |-> s, stopped |-> FALSE, read |-> 0] \in G[{}],
         \A T \in SUBSET (1 .. n) : \A x \in T : \A u \in G[T \ {x}] :
           (\A y \in T : y <= x) => ReadNeighbor(u, o, P, <<o[1], o[2] + dir * at[x]>>) \in G[T]
  PROVE  Scanned(s, o, P, dir, at) \in G[1 .. n]
<1> DEFINE base == [s |-> s, stopped |-> FALSE, read |-> 0]
           U == UNION {G[T] : T \in SUBSET (1 .. n)}
           F == [z \in (1 .. n) \X U |-> ReadNeighbor(z[2], o, P, <<o[1], o[2] + dir * at[z[1]]>>)]
           Follows(f) == f = [T \in SUBSET (1 .. n) |->
                                IF T = {} THEN base ELSE ReadNeighbor(f[T \ {Max(T)}], o, P, <<o[1], o[2] + dir * at[Max(T)]>>)]
           h == CHOOSE f : Follows(f)
<1>1. Scanned(s, o, P, dir, at) = h[1 .. n]
  BY Zenon DEF Scanned, FoldLeft, MapThenFoldSet
<1>2. \A T \in SUBSET (1 .. n) : T # {} => Max(T) \in T /\ \A y \in T : y <= Max(T)
  BY GreatestPlace
<1>3. \A T \in SUBSET (1 .. n) : \A x \in T : \A u \in G[T \ {x}] : F[<<x, u>>] = ReadNeighbor(u, o, P, <<o[1], o[2] + dir * at[x]>>)
  OBVIOUS
<1> HIDE DEF F, base, h
<1>4. StepsStay(n, F, G)
  BY <1>3 DEF StepsStay
<1>5. base \in G[{}]
  BY DEF base
<1> HIDE DEF U
<1>6. PICK g : FoldsOver(n, base, F, g) /\ StaysIn(n, g, G)
  BY <1>4, <1>5, SeqFoldExists, ZenonT(60)
<1>7. \A T \in SUBSET (1 .. n) : T # {} => F[<<Max(T), g[T \ {Max(T)}]>>]
                                      = ReadNeighbor(g[T \ {Max(T)}], o, P, <<o[1], o[2] + dir * at[Max(T)]>>)
  BY <1>2, <1>3, <1>6 DEF StaysIn
<1>8. Follows(g)
  BY <1>6, <1>7, Zenon DEF FoldsOver
<1>9. Follows(h)
  BY <1>8, Zenon DEF h
<1>10. \A T \in SUBSET (1 .. n) : h[T] = IF T = {} THEN base ELSE ReadNeighbor(h[T \ {Max(T)}], o, P, <<o[1], o[2] + dir * at[Max(T)]>>)
  BY <1>9
<1>11. h[{}] \in G[{}]
  BY <1>5, <1>10
<1>12. \A T \in SUBSET (1 .. n) : T # {} /\ h[T \ {Max(T)}] \in G[T \ {Max(T)}] => h[T] \in G[T]
  BY <1>2, <1>10, ZenonT(60)
<1>13. h[1 .. n] \in G[1 .. n]
  BY <1>11, <1>12, SeqFoldInduction, Zenon
<1> QED
  BY <1>1, <1>13

\* A page that could not be read leaves the list it was entered in.
LEMMA LeaveSound ==
  ASSUME NEW s, NEW o \in On(s), Sound(s, {o}), ~IsValid(s, o), NEW t, t = LeaveWorkingSet(s, o[1], o[2])
  PROVE  Sound(t, {}) /\ Quiet(s, t)
<1>1. Fair(s, {}) /\ Listed(s, {o}) /\ On(s) = Existing
  BY DEF Sound
<1>2. Fair(t, {}) /\ Left(s, t, o)
  BY <1>1, LeaveFits
<1>3. Listed(t, {})
  BY <1>1, <1>2 DEF Listed, Left, InList, IsValid
<1>4. Quiet(s, t)
  BY <1>2 DEF Left, Quiet, Stays, IsValid
<1> QED
  BY <1>1, <1>2, <1>3, <1>4 DEF Sound, Left

\* A page that is to be read takes an available entry.
AvailableTaken(s, o) == [s EXCEPT !.ws[o[1]] = AddAvailable(@, o[2])]

LEMMA AvailableSound ==
  ASSUME NEW s, NEW o \in On(s), Sound(s, {}), ~IsValid(s, o), CanAddAvailable(s.ws[o[1]], Conditions(s, o[1])),
         NEW t, t = AvailableTaken(s, o)
  PROVE  Sound(t, {o}) /\ Quiet(s, t) /\ t.pte = s.pte /\ On(t) = On(s)
<1> DEFINE p == o[1]
           w == s.ws[p]
           l == AddAvailable(w, o[2])
<1>1. Fair(s, {}) /\ Listed(s, {}) /\ On(s) = Existing
  BY DEF Sound
<1>2. p \in Procs /\ o[2] \in Pages /\ o[2] \in PagesFor(s, p) /\ o = <<p, o[2]>>
  BY <1>1, OwnersAre DEF Fair
<1>3. Sized(w) /\ PagesIn(w) \subseteq PagesFor(s, p) /\ o[2] \notin PagesIn(w)
  BY <1>1, <1>2 DEF Fair, ListsFit, Listed
<1>4. Sized(l) /\ l \in ListRecord /\ PagesIn(l) = PagesIn(w) \cup {o[2]}
  BY <1>2, <1>3, AddAvailableFits
<1>5. t = SetList(s, p, l)
  BY DEF AvailableTaken, SetList
<1> HIDE DEF l
<1>6. PagesIn(l) \subseteq PagesFor(s, p)
  BY <1>2, <1>3, <1>4
<1>7. Fair(t, {}) /\ Still(s, t) /\ t.pte = s.pte /\ t.ws = [s.ws EXCEPT ![p] = l] /\ On(t) = On(s)
  BY <1>1, <1>2, <1>4, <1>5, <1>6, SetListFits
<1>8. s.ws \in [Procs -> ListRecord]
  BY <1>1 DEF Fair, Typed, States
<1>9. ASSUME NEW q \in On(s)
      PROVE  q[2] \in PagesIn(t.ws[q[1]]) <=> IsValid(t, q) \/ q \in {o}
  <2>1. q[1] \in Procs /\ q = <<q[1], q[2]>>
    BY <1>1, OwnersAre DEF Fair
  <2>2. q[2] \in PagesIn(s.ws[q[1]]) <=> IsValid(s, q)
    BY <1>1 DEF Listed
  <2>3. IsValid(t, q) <=> IsValid(s, q)
    BY <1>7 DEF IsValid
  <2>4. CASE q[1] = p
    <3>1. t.ws[q[1]] = l
      BY <1>2, <1>7, <1>8, <2>4
    <3> QED
      BY <1>2, <1>4, <2>1, <2>2, <2>3, <2>4, <3>1
  <2>5. CASE q[1] # p
    <3>1. t.ws[q[1]] = s.ws[q[1]] /\ q # o
      BY <1>7, <1>8, <2>1, <2>5
    <3> QED
      BY <2>2, <2>3, <3>1
  <2> QED
    BY <2>4, <2>5
<1>10. Quiet(s, t)
  BY <1>7 DEF Quiet, Stays, IsValid
<1> QED
  BY <1>1, <1>7, <1>9, <1>10 DEF Sound, Listed

\* What is known of a scan of the pages near one that is read.
Scanning(s, r) ==
  r \in [s : States(On(s)), stopped : BOOLEAN, read : Nat] /\ Sound(r.s, {}) /\ Quiet(s, r.s)

LEMMA ReadNeighborFits ==
  ASSUME NEW s, NEW r, Scanning(s, r), NEW o, NEW P, P.form \in {"section", "pageFile"}, NEW near, near[1] = o[1],
         NEW t, t = ReadNeighbor(r, o, P, near)
  PROVE  Scanning(s, t)
<1> DEFINE a == AvailableTaken(r.s, near)
           f == r.s.pte[near]
           b == ResolveFault(a, near, f)
           c == LeaveWorkingSet(a, near[1], near[2])
<1>1. Sound(r.s, {}) /\ Quiet(s, r.s) /\ r \in [s : States(On(s)), stopped : BOOLEAN, read : Nat]
  BY DEF Scanning
<1>2. On(r.s) = On(s)
  BY <1>1 DEF Quiet, Still, On
<1>3. CASE t = [r EXCEPT !.stopped = TRUE]
  BY <1>1, <1>3 DEF Scanning
<1>4. CASE /\ ClusterMatch(r.s, o, P, near) /\ CanAddAvailable(r.s.ws[o[1]], Conditions(r.s, o[1]))
           /\ t = ResolveNeighbor(a, near, f, r.read)
  <2>1. near \in On(r.s) /\ ~IsValid(r.s, near)
    BY <1>1, <1>4 DEF ClusterMatch, IsValid, Sound
  <2>2. CanAddAvailable(r.s.ws[near[1]], Conditions(r.s, near[1]))
    BY <1>4
  <2> HIDE DEF a
  <2>3. Sound(a, {near}) /\ Quiet(r.s, a) /\ a.pte = r.s.pte /\ On(a) = On(r.s)
    BY <1>1, <2>1, <2>2, AvailableSound DEF a
  <2>4. Quiet(s, a)
    BY <1>1, <2>3, QuietAgain
  <2>5. Found(a, near, f) /\ ~IsValid(a, near) /\ near \in On(a)
    BY <2>1, <2>3 DEF Found, IsValid
  <2> HIDE DEF f
  <2>6. CASE CanResolveFault(a, near, f)
    <3>1. t = [s |-> b, stopped |-> FALSE, read |-> r.read + 1]
      BY <1>4, <2>6 DEF ResolveNeighbor
    <3> HIDE DEF b
    <3>2. Sound(b, {}) /\ Quiet(a, b)
      BY <2>3, <2>5, <2>6, ResolveFits DEF b
    <3>3. Quiet(s, b)
      BY <2>4, <3>2, QuietAgain
    <3>4. b \in States(On(s))
      BY <3>2, <3>3 DEF Sound, Fair, Typed, Quiet, Still, On
    <3> QED
      BY <1>1, <3>1, <3>2, <3>3, <3>4 DEF Scanning
  <2>7. CASE ~CanResolveFault(a, near, f)
    <3>1. t = [s |-> c, stopped |-> TRUE, read |-> r.read]
      BY <1>4, <2>7 DEF ResolveNeighbor
    <3> HIDE DEF c
    <3>2. Sound(c, {}) /\ Quiet(a, c)
      BY <2>3, <2>5, LeaveSound DEF c
    <3>3. Quiet(s, c)
      BY <2>4, <3>2, QuietAgain
    <3>4. c \in States(On(s))
      BY <3>2, <3>3 DEF Sound, Fair, Typed, Quiet, Still, On
    <3> QED
      BY <1>1, <3>1, <3>2, <3>3, <3>4 DEF Scanning
  <2> QED
    BY <2>6, <2>7
<1> QED
  BY <1>3, <1>4 DEF ReadNeighbor, AvailableTaken

LEMMA ScanFits ==
  ASSUME NEW s, Sound(s, {}), NEW o, NEW P, P.form \in {"section", "pageFile"}, NEW dir, NEW t, t = ScanCluster(s, o, P, dir)
  PROVE  Scanning(s, t)
<1> DEFINE n == IF ReadCluster = 0 THEN 0 ELSE ReadCluster - 1
           at == [k \in 1 .. ReadCluster - 1 |-> k]
           r == [s |-> s, stopped |-> FALSE, read |-> 0]
           U == [s : States(On(s)), stopped : BOOLEAN, read : Nat]
           G == [T \in SUBSET (1 .. n) |-> {u \in U : Scanning(s, u)}]
           near(x) == <<o[1], o[2] + dir * at[x]>>
<1>1. n \in Nat /\ 1 .. n = DOMAIN at
  <2>1. ReadCluster \in Nat
    BY PagerAssumption
  <2>2. 1 .. n = 1 .. ReadCluster - 1
    BY <2>1
  <2> QED
    BY <2>1, <2>2
<1>2. t = Scanned(s, o, P, dir, at)
  BY DEF ScanCluster, Scanned
<1> HIDE DEF n, at
<1>3. r \in U /\ Scanning(s, r)
  BY StillSame DEF Scanning, Sound, Fair, Typed
<1>4. r \in G[{}]
  BY <1>1, <1>3
<1>5. ASSUME NEW T \in SUBSET (1 .. n), NEW x \in T, NEW u \in G[T \ {x}]
      PROVE  ReadNeighbor(u, o, P, near(x)) \in G[T]
  <2> DEFINE v == ReadNeighbor(u, o, P, near(x))
  <2>1. Scanning(s, u)
    OBVIOUS
  <2>2. near(x)[1] = o[1]
    OBVIOUS
  <2> HIDE DEF v, near
  <2>3. Scanning(s, v)
    BY <2>1, <2>2, ReadNeighborFits DEF v
  <2>4. v \in U
    BY <2>3 DEF Scanning
  <2> QED
    BY <2>3, <2>4 DEF v
<1> HIDE DEF G
<1>6. \A T \in SUBSET (1 .. n) : \A x \in T : \A u \in G[T \ {x}] :
        (\A y \in T : y <= x) => ReadNeighbor(u, o, P, <<o[1], o[2] + dir * at[x]>>) \in G[T]
  BY <1>5
<1>7. t \in G[1 .. n]
  BY <1>1, <1>2, <1>4, <1>6, ScanReaches, SMTT(60)
<1> QED
  BY <1>7 DEF G

\* readCluster, of the pages above, then of those below.
LEMMA ReadNeighborsFits ==
  ASSUME NEW s, Sound(s, {}), NEW o, NEW P, NEW t, t = ReadNeighbors(s, o, P)
  PROVE  Sound(t, {}) /\ Quiet(s, t)
<1> DEFINE up == ScanCluster(s, o, P, 1)
           down == ScanCluster(up.s, o, P, -1)
           again == ScanCluster(s, o, P, -1)
<1>1. CASE ~(P.form = "section" \/ (P.form = "pageFile" /\ P.at # 0))
  <2>1. t = s
    BY <1>1 DEF ReadNeighbors
  <2> QED
    BY <2>1, StillSame
<1>2. CASE P.form = "section" \/ (P.form = "pageFile" /\ P.at # 0)
  <2>1. P.form \in {"section", "pageFile"}
    BY <1>2
  <2>2. t = up.s \/ t = again.s
    BY <1>2 DEF ReadNeighbors, ReadDown
  <2> HIDE DEF up, again
  <2>3. Scanning(s, up)
    BY <2>1, ScanFits DEF up
  <2>4. Scanning(s, again)
    BY <2>1, ScanFits DEF again
  <2> QED
    BY <2>2, <2>3, <2>4 DEF Scanning
<1> QED
  BY <1>1, <1>2

LEMMA PageInFits ==
  ASSUME NEW s, Sound(s, {}), NEW o \in On(s), ~IsValid(s, o), NEW t, t = PageIn(s, o)
  PROVE  Sound(t, {}) /\ Quiet(s, t)
<1> DEFINE P == s.pte[o]
           a == EnterWorkingSet(s, o[1], o[2])
           b == ResolveFault(a, o, P)
           c == ReadNeighbors(b, o, P)
           d == LeaveWorkingSet(a, o[1], o[2])
<1>1. t = IF CanResolveFault(a, o, P) THEN c ELSE d
  BY DEF PageIn, AfterEntering
<1> HIDE DEF a
<1>2. Sound(a, {o}) /\ Quiet(s, a) /\ a.pte[o] = s.pte[o]
  BY EnterFits DEF a
<1>3. Found(a, o, P) /\ ~IsValid(a, o) /\ o \in On(a)
  BY <1>2 DEF Found, IsValid, Sound
<1> HIDE DEF P, d
<1>4. CASE CanResolveFault(a, o, P)
  <2> HIDE DEF b, c
  <2>1. Sound(b, {}) /\ Quiet(a, b)
    BY <1>2, <1>3, <1>4, ResolveFits DEF b
  <2>2. Sound(c, {}) /\ Quiet(b, c)
    BY <2>1, ReadNeighborsFits DEF c
  <2>3. Quiet(s, c)
    BY <1>2, <2>1, <2>2, QuietAgain
  <2> QED
    BY <1>1, <1>4, <2>2, <2>3
<1>5. CASE ~CanResolveFault(a, o, P)
  <2>1. Sound(d, {}) /\ Quiet(a, d)
    BY <1>2, <1>3, LeaveSound DEF d
  <2>2. Quiet(s, d)
    BY <1>2, <2>1, QuietAgain
  <2> QED
    BY <1>1, <1>5, <2>1, <2>2
<1> QED
  BY <1>4, <1>5

\* What a call changes that notes the frames it translated.
Calm(s, t) == Unseen(s, t) /\ \A o \in On(s) : IsValid(s, o) /\ s.pte[o].at \in s.touched => Stays(s, t, o)

LEMMA QuietCalm ==
  ASSUME NEW s, NEW t, Quiet(s, t)
  PROVE  Calm(s, t) /\ On(t) = On(s)
BY DEF Quiet, Still, Calm, Unseen, On

LEMMA TranslateFits ==
  ASSUME NEW s, Sound(s, {}), NEW o \in On(s), NEW t, t = Translate(s, o)
  PROVE  Sound(t, {}) /\ Calm(s, t) /\ On(t) = On(s)
<1> DEFINE u == IF IsValid(s, o) THEN s ELSE PageIn(s, o)
           F == u.touched \cup {u.pte[o].at}
<1>1. Sound(u, {}) /\ Quiet(s, u)
  BY PageInFits, StillSame
<1>2. t = IF IsValid(u, o) THEN [u EXCEPT !.touched = F] ELSE u
  BY DEF Translate, NoteTranslated
<1> HIDE DEF u
<1>3. Calm(s, u) /\ On(u) = On(s)
  BY <1>1, QuietCalm
<1>4. CASE IsValid(u, o)
  <2>1. Fair(u, {}) /\ u \in States(On(u)) /\ Listed(u, {}) /\ On(u) = Existing
    BY <1>1 DEF Sound, Fair, Typed
  <2>2. u.pte[o].at \in PFN
    BY <1>3, <1>4, <2>1 DEF Fair, PagesFit, PageOK, HasFrame, IsValid
  <2>3. F \in SUBSET PFN
    BY <2>1, <2>2 DEF States
  <2> HIDE DEF F
  <2>4. /\ SameMemory(u, t) /\ t.map = u.map /\ t.ws = u.ws /\ t \in States(On(u)) /\ t.pageFile = u.pageFile
        /\ t.asked = u.asked /\ t.pte = u.pte /\ t.mapped = u.mapped /\ t.file = u.file
    BY <1>2, <1>4, <2>1, <2>3 DEF States, SameMemory
  <2>5. Fair(t, {}) /\ \A q \in On(u) : Seen(t, q) = Seen(u, q)
    BY <2>1, <2>4, PlainFits
  <2>6. On(t) = On(u)
    BY <2>4 DEF On
  <2>7. Sound(t, {})
    BY <2>1, <2>4, <2>5, <2>6 DEF Sound, Listed, IsValid
  <2>8. Calm(s, t)
    BY <1>3, <2>4, <2>5, <2>6 DEF Calm, Unseen, Stays, IsValid
  <2> QED
    BY <1>3, <2>6, <2>7, <2>8
<1> QED
  BY <1>1, <1>2, <1>3, <1>4

-----------------------------------------------------------------------------
(* The calls of an instruction. *)

\* A call that moves no page, and changes no list's pages.
SamePages(s, t) == \A p \in Procs : PagesIn(t.ws[p]) = PagesIn(s.ws[p])

LEMMA SamePlacesSound ==
  ASSUME NEW s, Sound(s, {}), NEW t, Fair(t, {}), t.mapped = s.mapped, SamePages(s, t), SamePlaces(s, t)
  PROVE  Sound(t, {}) /\ On(t) = On(s) /\ \A o \in On(s) : IsValid(s, o) => Stays(s, t, o)
<1>1. On(t) = On(s) /\ On(s) = Existing /\ Listed(s, {}) /\ Fair(s, {})
  BY DEF On, Sound
<1>2. \A o \in On(s) : o[1] \in Procs
  BY <1>1, OwnersAre DEF Fair
<1>3. \A o \in On(s) : IsValid(t, o) <=> IsValid(s, o)
  BY DEF SamePlaces, IsValid
<1>4. Listed(t, {})
  BY <1>1, <1>2, <1>3 DEF Listed, SamePages
<1> QED
  BY <1>1, <1>4 DEF Sound, SamePlaces, Stays, IsValid

LEMMA StoreSound ==
  ASSUME NEW s, Sound(s, {}), NEW o \in On(s), NEW contents \in Values[o], NEW t, t = Store(Translate(s, o), o, contents)
  PROVE  /\ Sound(t, {})
         /\ \/ Calm(s, t)
            \/ \E u : Calm(s, u) /\ Written(u, t, o, contents) /\ SamePlaces(u, t)
<1> DEFINE u == Translate(s, o)
<1>1. Sound(u, {}) /\ Calm(s, u) /\ On(u) = On(s)
  BY TranslateFits
<1> HIDE DEF u
<1>2. CASE ~IsValid(u, o)
  <2>1. t = u
    BY <1>2 DEF Store, u
  <2> QED
    BY <1>1, <2>1
<1>3. CASE IsValid(u, o)
  <2>1. contents \in Data
    <3>1. o \in Owners
      BY DEF Sound, Fair, Typed
    <3> QED
      BY <3>1 DEF Data
  <2>2. Fair(u, {}) /\ o \in On(u) /\ t = Store(u, o, contents)
    BY <1>1 DEF Sound, u
  <2>3. Fair(t, {}) /\ Written(u, t, o, contents) /\ SamePlaces(u, t)
    BY <1>3, <2>1, <2>2, StoreFits DEF SamePlaces
  <2>4. t.mapped = u.mapped /\ SamePages(u, t)
    BY <2>3 DEF Written, SamePages
  <2>5. Sound(t, {})
    BY <1>1, <2>3, <2>4, SamePlacesSound
  <2> QED
    BY <1>1, <2>3, <2>5
<1> QED
  BY <1>2, <1>3

LEMMA UpdateSound ==
  ASSUME NEW s, Sound(s, {}), NEW o \in On(s), s.mapped[o] = "writeBack", NEW f, At(s, o, f), NEW t,
         \/ IsValid(s, o) /\ t = Updated(s, o, f)
         \/ InTransition(s, o) /\ IsModified(s, f) /\ t = [s EXCEPT !.file[o] = s.ram[f], !.db = Cleaned(@, f)]
  PROVE  Sound(t, {}) /\ Quiet(s, t)
<1>1. Fair(s, {}) /\ Listed(s, {}) /\ On(s) = Existing
  BY DEF Sound
<1>2. CASE IsValid(s, o) /\ t = Updated(s, o, f)
  <2>1. Fair(t, {}) /\ Still(s, t) /\ t.ws = s.ws /\ SamePlaces(s, t)
    BY <1>1, <1>2, UpdatedFits
  <2>2. t.mapped = s.mapped /\ SamePages(s, t)
    BY <2>1 DEF Still, SamePages
  <2> QED
    BY <2>1, <2>2, SamePlacesSound DEF Quiet
<1>3. CASE InTransition(s, o) /\ IsModified(s, f) /\ t = [s EXCEPT !.file[o] = s.ram[f], !.db = Cleaned(@, f)]
  <2>1. HasFrame(s, o)
    BY <1>3 DEF InTransition, HasFrame
  <2>2. f \in PFN /\ Holds(s, f, o)
    BY <1>1, <2>1, FrameOfPage
  <2>3. s.db.entry[f].backing.kind = "section"
    BY <1>1, <2>2, StoreIsFile
  <2>4. t = WriteToSection(s, f)
    BY <1>3, <2>2 DEF WriteToSection, Holds
  <2>5. Fair(t, {}) /\ Settled(s, t)
    BY <1>1, <1>3, <2>2, <2>3, <2>4, WriteToSectionFits
  <2> QED
    BY <1>1, <2>5, SettledQuiet DEF Sound
<1> QED
  BY <1>2, <1>3

\* A list that has the same pages in another order, or other locks.
LEMMA ListSound ==
  ASSUME NEW s, Sound(s, {}), NEW p \in Procs, NEW l \in ListRecord, Sized(l), PagesIn(l) = PagesIn(s.ws[p]),
         NEW t, t = SetList(s, p, l)
  PROVE  Sound(t, {}) /\ Quiet(s, t) /\ t.pte = s.pte
<1>1. Fair(s, {}) /\ PagesIn(l) \subseteq PagesFor(s, p)
  BY DEF Sound, Fair, ListsFit
<1>2. Fair(t, {}) /\ Still(s, t) /\ t.pte = s.pte /\ t.ws = [s.ws EXCEPT ![p] = l]
  BY <1>1, SetListFits
<1>3. s.ws \in [Procs -> ListRecord]
  BY <1>1 DEF Fair, Typed, States
<1>4. t.mapped = s.mapped /\ SamePages(s, t) /\ SamePlaces(s, t)
  BY <1>2, <1>3 DEF Still, SamePages, SamePlaces
<1>5. Sound(t, {}) /\ \A o \in On(s) : IsValid(s, o) => Stays(s, t, o)
  BY <1>2, <1>4, SamePlacesSound
<1> QED
  BY <1>2, <1>5 DEF Quiet

LEMMA LockSound ==
  ASSUME NEW s, Sound(s, {}), current \in Procs, NEW v, NEW kind \in LockKinds, NEW t, t = LockIfIn(s, v, kind)
  PROVE  Sound(t, {}) /\ Quiet(s, t) /\ t.pte = s.pte
<1> DEFINE p == current
           l == LockPage(s.ws[p], v, kind)
<1>1. CASE t = s
  BY <1>1, StillSame
<1>2. CASE v \in PagesIn(s.ws[p]) /\ t = SetList(s, p, l)
  <2>1. Sized(s.ws[p])
    BY DEF Sound, Fair, ListsFit
  <2>2. Sized(l) /\ l \in ListRecord /\ PagesIn(l) = PagesIn(s.ws[p])
    BY <1>2, <2>1, LockFits
  <2> HIDE DEF l
  <2> QED
    BY <1>2, <2>2, ListSound
<1> QED
  BY <1>1, <1>2 DEF LockIfIn, SetList

LEMMA UnlockSound ==
  ASSUME NEW s, Sound(s, {}), NEW p \in Procs, NEW v \in PagesIn(s.ws[p]), NEW kind,
         kind \in s.ws[p].slots[SlotOf(s.ws[p], v)].locks, NEW t, t = SetList(s, p, UnlockPage(s.ws[p], v, kind))
  PROVE  Sound(t, {}) /\ Quiet(s, t) /\ t.pte = s.pte
<1> DEFINE l == UnlockPage(s.ws[p], v, kind)
<1>1. Sized(s.ws[p])
  BY DEF Sound, Fair, ListsFit
<1>2. Sized(l) /\ l \in ListRecord /\ PagesIn(l) = PagesIn(s.ws[p])
  BY <1>1, UnlockFits
<1> HIDE DEF l
<1> QED
  BY <1>2, ListSound DEF l

LEMMA TakenSound ==
  ASSUME NEW s, Sound(s, {}), NEW p \in Procs, NEW r, Taken(s.ws[p], r, Conditions(s, p)), Sized(r.list),
         NEW t, t = WithList(s, p, r)
  PROVE  Sound(t, {}) /\ Quiet(s, t)
<1>1. Rearranged(s, p, r, {})
  BY TakenIs
<1> QED
  BY <1>1, WithListFits

LEMMA PurgeSound ==
  ASSUME NEW s, Sound(s, {}), NEW p \in Procs, NEW t, t = WithList(s, p, Purge(s.ws[p], Conditions(s, p)))
  PROVE  Sound(t, {}) /\ Quiet(s, t)
<1> DEFINE r == Purge(s.ws[p], Conditions(s, p))
<1>1. Sized(s.ws[p])
  BY DEF Sound, Fair, ListsFit
<1>2. Taken(s.ws[p], r, Conditions(s, p)) /\ Sized(r.list)
  BY <1>1, PurgeFits
<1> HIDE DEF r
<1> QED
  BY <1>2, TakenSound DEF r

LEMMA AdjustSound ==
  ASSUME NEW s, Sound(s, {}), NEW p \in Procs, NEW n \in Int,
         NEW t, t = TrimIfOver(WithList(s, p, Resize(s.ws[p], n, Conditions(s, p))), p)
  PROVE  Sound(t, {}) /\ Quiet(s, t)
<1> DEFINE r == Resize(s.ws[p], n, Conditions(s, p))
           u == WithList(s, p, r)
<1>1. Sized(s.ws[p])
  BY DEF Sound, Fair, ListsFit
<1>2. Taken(s.ws[p], r, Conditions(s, p)) /\ Sized(r.list)
  BY <1>1, ResizeFits
<1> HIDE DEF r
<1>3. t = TrimIfOver(u, p)
  BY DEF r
<1> HIDE DEF u
<1>4. Sound(u, {}) /\ Quiet(s, u)
  BY <1>2, TakenSound DEF u
<1>5. Sound(t, {}) /\ Settled(u, t)
  BY <1>3, <1>4, TrimIfOverFits
<1> QED
  BY <1>4, <1>5, SettledQuiet, QuietAgain

\* $CRETVA's page is demand zero, and no other page is moved.
LEMMA CreatedSound ==
  ASSUME NEW s, Sound(s, {}), NEW o \in On(s), NEW t, t = Zeroed(ReleasePTE(s, o), o)
  PROVE  Sound(t, {}) /\ Created(s, t, o) /\ t.pte[o] = PageFileForm(0) /\ \A q \in On(s) \ {o} : t.pte[q] = s.pte[q]
<1>1. Fair(s, {}) /\ Listed(s, {}) /\ On(s) = Existing
  BY DEF Sound
<1>2. Fair(t, {}) /\ Created(s, t, o)
  BY <1>1, CreatedFits
<1>3. s.pte \in [On(s) -> PTE]
  BY <1>1 DEF Fair, Typed, States
<1> DEFINE P == PageFileForm(0)
<1>4. P.form # "valid"
  BY DEF PageFileForm
<1> HIDE DEF P
<1>5. t.pte[o] = P /\ \A q \in On(s) \ {o} : t.pte[q] = s.pte[q]
  <2>1. t.pte = [s.pte EXCEPT ![o] = P]
    BY <1>2 DEF Created, P
  <2> QED
    BY <1>3, <2>1
<1>6. On(t) = On(s) /\ \A q \in On(s) : InList(t, q) <=> InList(s, q) /\ q # o
  BY <1>2 DEF Created
<1>7. Listed(t, {})
  BY <1>1, <1>4, <1>5, <1>6 DEF Listed, InList, IsValid
<1> QED
  BY <1>1, <1>2, <1>5, <1>6, <1>7 DEF Sound, P

\* A frame of S0 is taken from its page's transition.
WithNote(u, d, T, bound) == [u EXCEPT !.db = d, !.touched = T, !.boundary = bound]

LEMMA SystemFaultSound ==
  ASSUME NEW s, Sound(s, {}), CanAllocate(s.db), NEW f, f = NextFrame(s.db), NEW t,
         t = WakeReclaimerIfLow([BreakTie(s, f) EXCEPT !.db = AllocateSystem(@), !.touched = @ \cup {f}])
  PROVE  Sound(t, {}) /\ Calm(s, t)
<1> DEFINE u == BreakTie(s, f)
           d == AllocateSystem(u.db)
           T == u.touched \cup {f}
           x == [u EXCEPT !.db = d, !.touched = T]
<1>1. Fair(s, {}) /\ Listed(s, {}) /\ On(s) = Existing
  BY DEF Sound
<1>2. u \in States(On(s))
  BY <1>1, BreakTieTyped
<1>3. \A bound : TookSystem(s, bound) = WithNote(u, d, T, bound)
  BY DEF TookSystem, WithNote
<1>4. t = x \/ t = AtNextInstruction(x)
  BY DEF WakeReclaimerIfLow
<1> HIDE DEF u, d, T
<1>5. u.boundary \in BOOLEAN /\ TRUE \in BOOLEAN
  BY <1>2 DEF States
<1>6. x = WithNote(u, d, T, u.boundary)
  BY <1>2 DEF WithNote, States
<1>7. AtNextInstruction(x) = WithNote(u, d, T, TRUE)
  BY <1>2 DEF WithNote, States, AtNextInstruction
<1> HIDE DEF x
<1>8. PICK bound \in BOOLEAN : t = TookSystem(s, bound)
  BY <1>3, <1>4, <1>5, <1>6, <1>7
<1>9. Fair(t, {}) /\ Unseen(s, t) /\ t.ws = s.ws /\ ValidSame(s, t)
  BY <1>1, <1>8, TookSystemFits
<1>10. On(t) = On(s)
  BY <1>9 DEF Unseen, On
<1>11. Listed(t, {})
  BY <1>1, <1>9, <1>10 DEF Listed, ValidSame
<1>12. Calm(s, t)
  BY <1>9 DEF Calm, ValidSame, Stays, IsValid
<1> QED
  BY <1>1, <1>9, <1>10, <1>11, <1>12 DEF Sound

-----------------------------------------------------------------------------
(* The instruction boundary. *)

\* The same of the trims of a boundary.
LEMMA TrimsReach ==
  ASSUME NEW s, NEW order, NEW n \in Nat, 1 .. n = DOMAIN order, NEW G,
         s \in G[{}],
         \A T \in SUBSET (1 .. n) : \A x \in T : \A u \in G[T \ {x}] :
           (\A y \in T : y <= x) => TrimWorkingSet(u, order[x]) \in G[T]
  PROVE  FoldLeft(TrimWorkingSet, s, order) \in G[1 .. n]
<1> DEFINE base == s
           U == UNION {G[T] : T \in SUBSET (1 .. n)}
           F == [z \in (1 .. n) \X U |-> TrimWorkingSet(z[2], order[z[1]])]
           Follows(f) == f = [T \in SUBSET (1 .. n) |->
                                IF T = {} THEN base ELSE TrimWorkingSet(f[T \ {Max(T)}], order[Max(T)])]
           h == CHOOSE f : Follows(f)
<1>1. FoldLeft(TrimWorkingSet, s, order) = h[1 .. n]
  BY Zenon DEF FoldLeft, MapThenFoldSet
<1>2. \A T \in SUBSET (1 .. n) : T # {} => Max(T) \in T /\ \A y \in T : y <= Max(T)
  BY GreatestPlace
<1>3. \A T \in SUBSET (1 .. n) : \A x \in T : \A u \in G[T \ {x}] : F[<<x, u>>] = TrimWorkingSet(u, order[x])
  OBVIOUS
<1> HIDE DEF F, base, h
<1>4. StepsStay(n, F, G)
  BY <1>3 DEF StepsStay
<1>5. base \in G[{}]
  BY DEF base
<1> HIDE DEF U
<1>6. PICK g : FoldsOver(n, base, F, g) /\ StaysIn(n, g, G)
  BY <1>4, <1>5, SeqFoldExists, ZenonT(60)
<1>7. \A T \in SUBSET (1 .. n) : T # {} => F[<<Max(T), g[T \ {Max(T)}]>>]
                                      = TrimWorkingSet(g[T \ {Max(T)}], order[Max(T)])
  BY <1>2, <1>3, <1>6 DEF StaysIn
<1>8. Follows(g)
  BY <1>6, <1>7, Zenon DEF FoldsOver
<1>9. Follows(h)
  BY <1>8, Zenon DEF h
<1>10. \A T \in SUBSET (1 .. n) : h[T] = IF T = {} THEN base ELSE TrimWorkingSet(h[T \ {Max(T)}], order[Max(T)])
  BY <1>9
<1>11. h[{}] \in G[{}]
  BY <1>5, <1>10
<1>12. \A T \in SUBSET (1 .. n) : T # {} /\ h[T \ {Max(T)}] \in G[T \ {Max(T)}] => h[T] \in G[T]
  BY <1>2, <1>10, ZenonT(60)
<1>13. h[1 .. n] \in G[1 .. n]
  BY <1>11, <1>12, SeqFoldInduction, Zenon
<1> QED
  BY <1>1, <1>13

\* The same of the reclaimer's.
LEMMA QuotasReach ==
  ASSUME NEW s, NEW order, NEW n \in Nat, 1 .. n = DOMAIN order, NEW G,
         s \in G[{}],
         \A T \in SUBSET (1 .. n) : \A x \in T : \A u \in G[T \ {x}] :
           (\A y \in T : y <= x) => TrimToQuota(u, order[x]) \in G[T]
  PROVE  FoldLeft(TrimToQuota, s, order) \in G[1 .. n]
<1> DEFINE base == s
           U == UNION {G[T] : T \in SUBSET (1 .. n)}
           F == [z \in (1 .. n) \X U |-> TrimToQuota(z[2], order[z[1]])]
           Follows(f) == f = [T \in SUBSET (1 .. n) |->
                                IF T = {} THEN base ELSE TrimToQuota(f[T \ {Max(T)}], order[Max(T)])]
           h == CHOOSE f : Follows(f)
<1>1. FoldLeft(TrimToQuota, s, order) = h[1 .. n]
  BY Zenon DEF FoldLeft, MapThenFoldSet
<1>2. \A T \in SUBSET (1 .. n) : T # {} => Max(T) \in T /\ \A y \in T : y <= Max(T)
  BY GreatestPlace
<1>3. \A T \in SUBSET (1 .. n) : \A x \in T : \A u \in G[T \ {x}] : F[<<x, u>>] = TrimToQuota(u, order[x])
  OBVIOUS
<1> HIDE DEF F, base, h
<1>4. StepsStay(n, F, G)
  BY <1>3 DEF StepsStay
<1>5. base \in G[{}]
  BY DEF base
<1> HIDE DEF U
<1>6. PICK g : FoldsOver(n, base, F, g) /\ StaysIn(n, g, G)
  BY <1>4, <1>5, SeqFoldExists, ZenonT(60)
<1>7. \A T \in SUBSET (1 .. n) : T # {} => F[<<Max(T), g[T \ {Max(T)}]>>]
                                      = TrimToQuota(g[T \ {Max(T)}], order[Max(T)])
  BY <1>2, <1>3, <1>6 DEF StaysIn
<1>8. Follows(g)
  BY <1>6, <1>7, Zenon DEF FoldsOver
<1>9. Follows(h)
  BY <1>8, Zenon DEF h
<1>10. \A T \in SUBSET (1 .. n) : h[T] = IF T = {} THEN base ELSE TrimToQuota(h[T \ {Max(T)}], order[Max(T)])
  BY <1>9
<1>11. h[{}] \in G[{}]
  BY <1>5, <1>10
<1>12. \A T \in SUBSET (1 .. n) : T # {} /\ h[T \ {Max(T)}] \in G[T \ {Max(T)}] => h[T] \in G[T]
  BY <1>2, <1>10, ZenonT(60)
<1>13. h[1 .. n] \in G[1 .. n]
  BY <1>11, <1>12, SeqFoldInduction, Zenon
<1> QED
  BY <1>1, <1>13

\* A list over its limit has no page the rules may still take out.
Ready(s, p) == Over(s.ws[p]) => NoneOpen(s.ws[p], Conditions(s, p))

\* A page translated in this instruction stays protected until it is over.
LEMMA StillProtected ==
  ASSUME NEW s, Sound(s, {}), NEW t, Quiet(s, t), NEW p, NEW w, NoneOpen(w, Conditions(s, p))
  PROVE  NoneOpen(w, Conditions(t, p))
<1> DEFINE c == Conditions(s, p)
           d == Conditions(t, p)
<1>1. c.protected \subseteq d.protected
  <2>1. ASSUME NEW v \in PagesOf(p), IsValid(s, <<p, v>>), s.pte[<<p, v>>].at \in s.touched
        PROVE  IsValid(t, <<p, v>>) /\ t.pte[<<p, v>>].at \in t.touched
    <3> DEFINE o == <<p, v>>
    <3>1. o \in On(s)
      BY DEF PagesOf, Sound
    <3> HIDE DEF o
    <3>2. Stays(s, t, o) /\ t.touched = s.touched
      BY <2>1, <3>1 DEF Quiet, Still, o
    <3> QED
      BY <2>1, <3>2 DEF Stays, IsValid, o
  <2> QED
    BY <2>1 DEF Conditions
<1> HIDE DEF c, d
<1>2. NoneOpen(w, c) => NoneOpen(w, d)
  BY <1>1 DEF NoneOpen
<1> QED
  BY <1>2 DEF c, d

\* The same of all the lists whose processes are in Q.
AllReady(s, Q) == \A p \in Q : Ready(s, p)

LEMMA SettledReady ==
  ASSUME NEW s, Sound(s, {}), NEW t, Settled(s, t), NEW Q, AllReady(s, Q)
  PROVE  AllReady(t, Q)
<1>1. Quiet(s, t) /\ t.ws = s.ws
  BY SettledQuiet DEF Settled
<1> QED
  BY <1>1, StillProtected DEF AllReady, Ready

\* One list changed, and right for its process.
LEMMA OneReady ==
  ASSUME NEW s, Sound(s, {}), NEW t, Quiet(s, t), NEW p \in Procs, NEW l, t.ws = [s.ws EXCEPT ![p] = l],
         Over(l) => NoneOpen(l, Conditions(s, p)), NEW Q \in SUBSET Procs, AllReady(s, Q \ {p})
  PROVE  AllReady(t, Q)
<1>1. s.ws \in [Procs -> ListRecord]
  BY DEF Sound, Fair, Typed, States
<1>2. ASSUME NEW q \in Q, q # p
      PROVE  Ready(t, q)
  <2>1. t.ws[q] = s.ws[q] /\ Ready(s, q)
    BY <1>1, <1>2 DEF AllReady
  <2> QED
    BY <2>1, StillProtected DEF Ready
<1>3. Ready(t, p)
  <2>1. t.ws[p] = l
    BY <1>1
  <2> QED
    BY <2>1, StillProtected DEF Ready
<1> QED
  BY <1>2, <1>3 DEF AllReady

LEMMA TrimSound ==
  ASSUME NEW s, Sound(s, {}), NEW p \in Procs, NEW Q \in SUBSET Procs, AllReady(s, Q \ {p}),
         NEW t, t = TrimWorkingSet(s, p)
  PROVE  Sound(t, {}) /\ Quiet(s, t) /\ AllReady(t, Q)
<1>1. Sized(s.ws[p])
  BY DEF Sound, Fair, ListsFit
<1>2. CASE ~Over(s.ws[p])
  <2>1. t = s
    BY <1>2 DEF TrimWorkingSet
  <2>2. AllReady(s, Q)
    BY <1>2 DEF AllReady, Ready
  <2> QED
    BY <2>1, <2>2, StillSame
<1>3. CASE Over(s.ws[p])
  <2> DEFINE c == Conditions(s, p)
             r == Trim(s.ws[p], c)
  <2>1. t = WithList(s, p, r)
    BY <1>3 DEF TrimWorkingSet
  <2>2. Taken(s.ws[p], r, c) /\ Sized(r.list) /\ (Len(r.list.slots) > r.list.size => NoneOpen(r.list, c))
    BY <1>1, TrimFits
  <2> HIDE DEF r
  <2>3. Rearranged(s, p, r, {})
    BY <2>2, TakenIs
  <2>4. Sound(t, {}) /\ Quiet(s, t) /\ t.ws = [s.ws EXCEPT ![p] = r.list]
    BY <2>1, <2>3, WithListFits
  <2> DEFINE l == r.list
  <2>5. Over(l) => NoneOpen(l, c)
    BY <2>2 DEF Over
  <2>6. t.ws = [s.ws EXCEPT ![p] = l]
    BY <2>4
  <2> HIDE DEF l
  <2>7. AllReady(t, Q)
    BY <2>4, <2>5, <2>6, OneReady
  <2> QED
    BY <2>4, <2>7
<1> QED
  BY <1>2, <1>3

LEMMA QuotaSound ==
  ASSUME NEW s, Sound(s, {}), NEW p \in Procs, NEW Q \in SUBSET Procs, p \in Q, AllReady(s, Q),
         NEW t, t = TrimToQuota(s, p)
  PROVE  Sound(t, {}) /\ Quiet(s, t) /\ AllReady(t, Q)
<1>1. Sized(s.ws[p]) /\ Tidy(s.ws[p]) /\ Quota \in Int
  BY WorkingSetAssumption DEF Sound, Fair, ListsFit, Sized
<1>2. CASE t = s
  BY <1>2, StillSame
<1>3. CASE t # s
  <2> DEFINE c == Conditions(s, p)
             w == s.ws[p]
             r == Shrink(w, Quota, c)
             l == r.list
  <2>1. t = WithList(s, p, r)
    BY <1>3 DEF TrimToQuota
  <2>2. /\ Taken(w, r, c) /\ Tidy(l) /\ l.size = w.size /\ Len(l.slots) = Len(w.slots)
        /\ NoneOpen(w, c) => r = [list |-> w, out |-> <<>>]
    BY <1>1, ShrinkFits
  <2>3. Ready(s, p)
    BY DEF AllReady
  <2> HIDE DEF r
  <2>4. Sized(l) /\ (Over(l) => NoneOpen(l, c))
    <3>1. CASE Over(w)
      <4>1. l = w /\ NoneOpen(w, c)
        BY <2>2, <2>3, <3>1 DEF Ready
      <4> QED
        BY <1>1, <4>1
    <3>2. CASE ~Over(w)
      <4>1. Len(w.slots) = w.size
        <5>1. Len(w.slots) >= w.size /\ Len(w.slots) \in Nat /\ w.size \in Nat
          BY <1>1, TidyTypes DEF Sized, Filled
        <5>2. ~(Len(w.slots) > w.size)
          BY <3>2 DEF Over
        <5> QED
          BY <5>1, <5>2
      <4>2. Len(l.slots) = l.size /\ Len(l.slots) \in Nat
        BY <2>2, <4>1, TidyTypes
      <4> QED
        BY <2>2, <4>2 DEF Sized, Filled, Over
    <3> QED
      BY <3>1, <3>2
  <2>5. Rearranged(s, p, r, {})
    BY <2>2, <2>4, TakenIs
  <2>6. Sound(t, {}) /\ Quiet(s, t) /\ t.ws = [s.ws EXCEPT ![p] = r.list]
    BY <2>1, <2>5, WithListFits
  <2>7. t.ws = [s.ws EXCEPT ![p] = l] /\ AllReady(s, Q \ {p})
    BY <2>6 DEF AllReady
  <2> HIDE DEF l
  <2>8. AllReady(t, Q)
    BY <2>4, <2>6, <2>7, OneReady
  <2> QED
    BY <2>6, <2>8
<1> QED
  BY <1>2, <1>3

\* What a boundary's calls keep, of the processes of Q.
Kept(s, t, Q) == Sound(t, {}) /\ Quiet(s, t) /\ AllReady(t, Q)

LEMMA KeptAgain ==
  ASSUME NEW s, NEW t, NEW u, NEW Q, NEW R, Kept(s, t, Q), Kept(t, u, R)
  PROVE  Kept(s, u, R)
BY QuietAgain DEF Kept

LEMMA SettledKept ==
  ASSUME NEW s, NEW t, NEW u, NEW Q, Kept(s, t, Q), Fair(u, {}), Settled(t, u)
  PROVE  Kept(s, u, Q)
<1>1. Sound(t, {}) /\ Quiet(s, t) /\ AllReady(t, Q)
  BY DEF Kept
<1>2. AllReady(u, Q)
  BY <1>1, SettledReady
<1>3. Quiet(t, u) /\ On(u) = On(t) /\ Listed(u, {})
  BY <1>1, SettledQuiet DEF Sound
<1>4. Sound(u, {}) /\ Quiet(s, u)
  BY <1>1, <1>3, QuietAgain DEF Sound
<1> QED
  BY <1>2, <1>4 DEF Kept

LEMMA TrimsFit ==
  ASSUME NEW s, Sound(s, {}), NEW n \in Nat, NEW order \in [1 .. n -> Procs], NEW t,
         t = FoldLeft(TrimWorkingSet, s, order)
  PROVE  Kept(s, t, {order[i] : i \in 1 .. n})
<1> DEFINE Q(T) == {order[i] : i \in T}
           G == [T \in SUBSET (1 .. n) |-> {u \in States(On(s)) : Kept(s, u, Q(T))}]
<1>1. s \in G[{}]
  <2>1. Q({}) = {} /\ s \in States(On(s))
    BY DEF Sound, Fair, Typed
  <2> HIDE DEF Q
  <2>2. Kept(s, s, Q({}))
    BY <2>1, StillSame DEF Kept, AllReady
  <2> QED
    BY <2>1, <2>2
<1>2. ASSUME NEW T \in SUBSET (1 .. n), NEW x \in T, NEW u \in G[T \ {x}]
      PROVE  TrimWorkingSet(u, order[x]) \in G[T]
  <2> DEFINE p == order[x]
             v == TrimWorkingSet(u, p)
             R == Q(T)
  <2>1. Kept(s, u, Q(T \ {x})) /\ p \in Procs
    OBVIOUS
  <2>2. R \in SUBSET Procs /\ R \ {p} \subseteq Q(T \ {x})
    OBVIOUS
  <2> HIDE DEF p, R, Q
  <2>3. Sound(u, {}) /\ AllReady(u, R \ {p})
    BY <2>1, <2>2 DEF Kept, AllReady
  <2> HIDE DEF v
  <2>4. Sound(v, {}) /\ Quiet(u, v) /\ AllReady(v, R)
    BY <2>1, <2>2, <2>3, TrimSound DEF v
  <2>5. Kept(u, v, R)
    BY <2>4 DEF Kept
  <2>6. Kept(s, v, R)
    BY <2>1, <2>5, KeptAgain
  <2>7. v \in States(On(s))
    BY <2>6 DEF Kept, Sound, Fair, Typed, Quiet, Still, On
  <2> QED
    BY <2>6, <2>7 DEF v, R, p
<1> HIDE DEF G
<1>3. \A T \in SUBSET (1 .. n) : \A x \in T : \A u \in G[T \ {x}] :
        (\A y \in T : y <= x) => TrimWorkingSet(u, order[x]) \in G[T]
  BY <1>2
<1>4. n \in Nat /\ 1 .. n = DOMAIN order
  OBVIOUS
<1>5. t \in G[1 .. n]
  BY <1>1, <1>3, <1>4, TrimsReach
<1> QED
  BY <1>5 DEF G

LEMMA QuotasFit ==
  ASSUME NEW s, Sound(s, {}), NEW n \in Nat, NEW order \in [1 .. n -> Procs], AllReady(s, {order[i] : i \in 1 .. n}),
         NEW t, t = FoldLeft(TrimToQuota, s, order)
  PROVE  Kept(s, t, {order[i] : i \in 1 .. n})
<1> DEFINE Q == {order[i] : i \in 1 .. n}
           G == [T \in SUBSET (1 .. n) |-> {u \in States(On(s)) : Kept(s, u, Q)}]
<1>1. Q \in SUBSET Procs /\ \A x \in 1 .. n : order[x] \in Q /\ order[x] \in Procs
  OBVIOUS
<1>2. s \in G[{}]
  <2> HIDE DEF Q
  <2>1. Kept(s, s, Q) /\ s \in States(On(s))
    BY StillSame DEF Kept, Q, Sound, Fair, Typed
  <2> QED
    BY <2>1
<1> HIDE DEF Q
<1>3. ASSUME NEW T \in SUBSET (1 .. n), NEW x \in T, NEW u \in G[T \ {x}]
      PROVE  TrimToQuota(u, order[x]) \in G[T]
  <2> DEFINE p == order[x]
             v == TrimToQuota(u, p)
  <2>1. Kept(s, u, Q) /\ p \in Procs /\ p \in Q
    BY <1>1
  <2> HIDE DEF p
  <2>2. Sound(u, {}) /\ AllReady(u, Q)
    BY <2>1 DEF Kept
  <2> HIDE DEF v
  <2>3. Sound(v, {}) /\ Quiet(u, v) /\ AllReady(v, Q)
    BY <1>1, <2>1, <2>2, QuotaSound DEF v
  <2>4. Kept(u, v, Q)
    BY <2>3 DEF Kept
  <2>5. Kept(s, v, Q)
    BY <2>1, <2>4, KeptAgain
  <2>6. v \in States(On(s))
    BY <2>5 DEF Kept, Sound, Fair, Typed, Quiet, Still, On
  <2> QED
    BY <2>5, <2>6 DEF v, p
<1> HIDE DEF G
<1>4. \A T \in SUBSET (1 .. n) : \A x \in T : \A u \in G[T \ {x}] :
        (\A y \in T : y <= x) => TrimToQuota(u, order[x]) \in G[T]
  BY <1>3
<1>5. n \in Nat /\ 1 .. n = DOMAIN order
  OBVIOUS
<1>6. t \in G[1 .. n]
  BY <1>2, <1>4, <1>5, QuotasReach
<1> QED
  BY <1>6 DEF G, Q

LEMMA OpenFits ==
  ASSUME NEW s, Fair(s, {}), NEW limit, NEW opened, NEW t, t = OpenWantedPageFile(s, limit, opened)
  PROVE  Fair(t, {}) /\ Settled(s, t)
<1> DEFINE u == [s EXCEPT !.pageFile = "failed"]
           v == [s EXCEPT !.pageFile = "open", !.stuck.writer = 0, !.stuck.reclaimer = 0]
           k == [[s.stuck EXCEPT !.writer = 0] EXCEPT !.reclaimer = 0]
           w == [s EXCEPT !.pageFile = "open", !.stuck = k]
           x == WakeModifiedPageWriter(v)
<1>1. s \in States(On(s)) /\ s.stuck \in [writer : Nat, reclaimer : Nat, full : BOOLEAN]
  BY DEF Fair, Typed, States
<1>2. k \in [writer : Nat, reclaimer : Nat, full : BOOLEAN]
  BY <1>1
<1>3. v = w
  OBVIOUS
<1>4. CASE t = s
  BY <1>4, StillSame
<1>5. CASE s.pageFile = "unopened" /\ t \in {u, x}
  <2> HIDE DEF k
  <2>1. SameMemory(s, u) /\ u.map = s.map /\ u.ws = s.ws /\ u \in States(On(s))
        /\ u.asked = s.asked /\ u.touched = s.touched /\ u.inTB = s.inTB
    BY <1>1 DEF States, SameMemory
  <2>2. SameMemory(s, w) /\ w.map = s.map /\ w.ws = s.ws /\ w \in States(On(s))
        /\ w.asked = s.asked /\ w.touched = s.touched /\ w.inTB = s.inTB
    BY <1>1, <1>2 DEF States, SameMemory
  <2> HIDE DEF u, v, w
  <2>3. Fair(u, {}) /\ \A o \in On(s) : Seen(u, o) = Seen(s, o)
    BY <1>5, <2>1, PlainFits
  <2>4. Fair(w, {}) /\ \A o \in On(s) : Seen(w, o) = Seen(s, o)
    BY <1>5, <2>2, PlainFits
  <2>5. Settled(s, u) /\ Settled(s, w)
    BY <2>1, <2>2, <2>3, <2>4 DEF Settled, Still, SameMemory
  <2>6. x = WakeModifiedPageWriter(w)
    BY <1>3
  <2> HIDE DEF x
  <2>7. Fair(x, {}) /\ Settled(w, x)
    BY <2>4, <2>6, WakeWriterFits
  <2> QED
    BY <1>5, <2>3, <2>5, <2>7, SettledAgain
<1> QED
  BY <1>4, <1>5 DEF OpenWantedPageFile, PageFileWanted

LEMMA WriteForReclaimerFits ==
  ASSUME NEW s, Fair(s, {}), NEW t, t = WriteForReclaimer(s)
  PROVE  Fair(t, {}) /\ Settled(s, t)
<1> DEFINE r == WriteModifiedPages(s, LoLimit)
           a == r.s
           k == r.passed
           w == [a EXCEPT !.stuck.reclaimer = k]
<1>1. t = s \/ t = w
  BY DEF WriteForReclaimer, AfterReclaimer
<1> HIDE DEF r
<1>2. Writing(s, r)
  BY WriteModifiedFits DEF r
<1>3. Fair(a, {}) /\ Settled(s, a) /\ k \in Nat
  BY <1>2 DEF Writing
<1> HIDE DEF a, k
<1>4. Noted(a, w)
  BY <1>3, NotedIs DEF Fair
<1> HIDE DEF w
<1>5. Fair(w, {}) /\ Settled(a, w)
  BY <1>3, <1>4, NotedFits
<1> QED
  BY <1>1, <1>3, <1>5, SettledAgain, StillSame

LEMMA ReclaimWriteFits ==
  ASSUME NEW s, Fair(s, {}), NEW opened, NEW t, t = ReclaimWrite(s, opened)
  PROVE  Fair(t, {}) /\ Settled(s, t)
<1> DEFINE u == OpenWantedPageFile(s, LoLimit, opened)
<1>1. Fair(u, {}) /\ Settled(s, u)
  BY OpenFits
<1>2. t = WriteForReclaimer(u)
  BY DEF ReclaimWrite
<1> HIDE DEF u
<1>3. Fair(t, {}) /\ Settled(u, t)
  BY <1>1, <1>2, WriteForReclaimerFits
<1> QED
  BY <1>1, <1>3, SettledAgain

LEMMA ReclaimFits ==
  ASSUME NEW s, Sound(s, {}), NEW n \in Nat, NEW order \in [1 .. n -> Procs], AllReady(s, {order[i] : i \in 1 .. n}),
         NEW opened, NEW t, t = ReclaimFrames(s, order, opened)
  PROVE  Sound(t, {}) /\ Quiet(s, t)
<1> DEFINE Q == {order[i] : i \in 1 .. n}
           u == [s EXCEPT !.stuck.reclaimer = 0]
           a == ReclaimWrite(s, opened)
           b == FoldLeft(TrimToQuota, a, order)
           c == ReclaimAgain(b, opened)
<1>1. t = u \/ t = c
  BY DEF ReclaimFrames
<1>2. Kept(s, s, Q)
  BY StillSame DEF Kept
<1> HIDE DEF Q
<1>3. Fair(s, {}) /\ Typed(s) /\ 0 \in Nat
  BY DEF Sound, Fair
<1>4. Kept(s, u, Q)
  <2>1. Noted(s, u)
    BY <1>3, NotedIs
  <2> HIDE DEF u
  <2>2. Fair(u, {}) /\ Settled(s, u)
    BY <1>3, <2>1, NotedFits
  <2> QED
    BY <1>2, <2>2, SettledKept
<1>5. Kept(s, c, Q)
  <2> HIDE DEF a, b, c, u
  <2>1. Fair(a, {}) /\ Settled(s, a)
    BY <1>3, ReclaimWriteFits DEF a
  <2>2. Kept(s, a, Q)
    BY <1>2, <2>1, SettledKept
  <2>3. Kept(a, b, Q)
    <3>1. Sound(a, {}) /\ AllReady(a, {order[i] : i \in 1 .. n})
      BY <2>2 DEF Kept, Q
    <3> QED
      BY <3>1, QuotasFit DEF b, Q
  <2>4. Kept(s, b, Q)
    BY <2>2, <2>3, KeptAgain
  <2>5. Fair(b, {})
    BY <2>4 DEF Kept, Sound
  <2>6. CASE c = b
    BY <2>4, <2>6
  <2>7. CASE c = ReclaimWrite(b, opened)
    <3>1. Fair(c, {}) /\ Settled(b, c)
      BY <2>5, <2>7, ReclaimWriteFits
    <3> QED
      BY <2>4, <3>1, SettledKept
  <2> QED
    BY <2>6, <2>7 DEF ReclaimAgain, c
<1> QED
  BY <1>1, <1>4, <1>5 DEF Kept

LEMMA BoundarySound ==
  ASSUME NEW s, Sound(s, {}), NEW n \in Nat, NEW table \in [1 .. n -> Procs], NEW order \in [1 .. n -> Procs],
         {table[i] : i \in 1 .. n} = {order[i] : i \in 1 .. n},
         NEW opened, NEW t, t = AtInstructionBoundary(s, table, order, opened)
  PROVE  Sound(t, {}) /\ Quiet(s, t)
<1> DEFINE Q == {table[i] : i \in 1 .. n}
           a == [s EXCEPT !.boundary = FALSE]
           b == FoldLeft(TrimWorkingSet, a, table)
           c == OpenWantedPageFile(b, HiLimit, opened)
<1>1. Fair(s, {}) /\ Typed(s) /\ FALSE \in BOOLEAN
  BY DEF Sound, Fair
<1>2. Noted(s, a)
  BY <1>1, NotedIs
<1>3. t = ReclaimFrames(c, order, opened)
  BY DEF AtInstructionBoundary
<1> HIDE DEF a, b, c
<1>4. Fair(a, {}) /\ Settled(s, a)
  BY <1>1, <1>2, NotedFits
<1>5. Kept(s, a, {})
  BY <1>4, StillSame, SettledKept DEF Kept, AllReady
<1>6. Sound(a, {})
  BY <1>5 DEF Kept
<1>7. Kept(a, b, Q)
  BY <1>6, TrimsFit DEF b
<1> HIDE DEF Q
<1>8. Kept(s, b, Q)
  BY <1>5, <1>7, KeptAgain
<1>9. Fair(b, {})
  BY <1>8 DEF Kept, Sound
<1>10. Fair(c, {}) /\ Settled(b, c)
  BY <1>9, OpenFits DEF c
<1>11. Kept(s, c, Q)
  BY <1>8, <1>10, SettledKept
<1>12. Sound(c, {}) /\ Quiet(s, c) /\ AllReady(c, {order[i] : i \in 1 .. n})
  BY <1>11 DEF Kept, Q
<1>13. Sound(t, {}) /\ Quiet(c, t)
  BY <1>3, <1>12, ReclaimFits
<1> QED
  BY <1>12, <1>13, QuietAgain

-----------------------------------------------------------------------------
(* Steps. *)

\* A state as a call leaves it, with what is nobody's to read cleared.
Cleared(t, w) ==
  /\ w.db = t.db /\ w.pte = t.pte /\ w.mapped = t.mapped /\ w.ws = t.ws /\ w.file = t.file /\ w.map = t.map
  /\ w.pageFile = t.pageFile /\ w.touched = t.touched /\ w.asked = t.asked
  /\ w.ram = [f \in PFN |-> IF t.db.entry[f].tied THEN t.ram[f] ELSE 0]
  /\ w.disk = [b \in Blocks |-> IF b \in t.map.inUse THEN t.disk[b] ELSE 0]
  /\ w \in States(On(t))

LEMMA ClearedFits ==
  ASSUME NEW t, Fair(t, {}), Listed(t, {}), NEW w, Cleared(t, w)
  PROVE  Fair(w, {}) /\ Listed(w, {}) /\ Unseen(t, w) /\ On(w) = On(t)
<1> DEFINE F == {f \in PFN : ~t.db.entry[f].tied}
           D == Blocks \ t.map.inUse
<1>1. Typed(t) /\ PagesFit(t) /\ FramesFit(t) /\ BlocksFit(t, {})
  BY DEF Fair
<1>2. On(w) = On(t) /\ Typed(w)
  BY <1>1 DEF Cleared, On, Typed
<1>3. ChangedAt(t, w, {}, F, D)
  BY <1>2 DEF Cleared, ChangedAt
<1>4. 0 \notin Blocks
  BY MapTypes DEF Blocks
<1>5. Theirs(t, {}, F, D)
  BY <1>1, <1>4 DEF Theirs, BlocksFit
<1> HIDE DEF D
<1>6. Elsewhere(t, w, {}) /\ \A g \in PFN \ F : FrameOK(w, g)
  BY <1>1, <1>3, <1>5, ElsewhereFits
<1>7. PagesFit(w) /\ \A q \in On(t) : Held(w, q) = Held(t, q) /\ Seen(w, q) = Seen(t, q)
  BY <1>2, <1>6 DEF PagesFit, Elsewhere
<1>8. \A g \in F : FrameOK(w, g)
  BY DEF FrameOK, Cleared
<1>9. FramesFit(w)
  BY <1>6, <1>8 DEF FramesFit
<1>10. ListsFit(w) /\ InPlace(w.db, PFN)
  BY <1>2 DEF Cleared, Fair, ListsFit, PagesFor
<1>11. BlocksFit(w, {})
  <2>1. w.map = t.map /\ (t.map.inUse # {} => w.pageFile = "open")
    BY <1>1 DEF Cleared, BlocksFit
  <2> QED
    BY <1>1, <1>2, <1>7, <2>1, BlocksStay
<1>12. Listed(w, {})
  BY <1>2 DEF Listed, Cleared, IsValid
<1>13. Unseen(t, w)
  BY <1>7 DEF Unseen, Cleared
<1> QED
  BY <1>2, <1>7, <1>9, <1>10, <1>11, <1>12, <1>13 DEF Fair

\* The state that the variables hold.
LEMMA StateIs ==
  ASSUME NEW T
  PROVE  /\ State(T).db = db /\ State(T).pte = pte /\ State(T).mapped = mapped /\ State(T).ws = ws
         /\ State(T).ram = ram /\ State(T).disk = disk /\ State(T).file = file /\ State(T).map = map
         /\ State(T).pageFile = pageFile /\ State(T).stuck = stuck /\ State(T).boundary = boundary
         /\ State(T).touched = touched /\ State(T).asked = asked /\ State(T).inTB = T
BY DEF State

LEMMA BecomeIs ==
  ASSUME NEW t, Typed(t), Become(t)
  PROVE  Cleared(t, State({})')
<1> DEFINE w == State({})'
<1>1. /\ w.db = t.db /\ w.pte = t.pte /\ w.mapped = t.mapped /\ w.ws = t.ws /\ w.file = t.file /\ w.map = t.map
      /\ w.pageFile = t.pageFile /\ w.touched = t.touched /\ w.asked = t.asked /\ w.stuck = t.stuck
      /\ w.boundary = t.boundary /\ w.inTB = {}
      /\ w.ram = [f \in PFN |-> IF t.db.entry[f].tied THEN t.ram[f] ELSE 0]
      /\ w.disk = [b \in Blocks |-> IF b \in t.map.inUse THEN t.disk[b] ELSE 0]
  BY DEF Become, State
<1>2. t \in States(On(t))
  BY DEF Typed
<1>3. 0 \in Data
  BY DEF Data
<1>4. w \in States(On(t))
  BY <1>1, <1>2, <1>3 DEF States, State
<1> QED
  BY <1>1, <1>4 DEF Cleared

\* One page written, or created anew, as a program and its file see it.
Wrote(s, w, o, contents) ==
  /\ w.mapped = s.mapped /\ w.asked = [s.asked EXCEPT ![o] = contents]
  /\ Seen(w, o) = contents /\ \A q \in On(s) \ {o} : Seen(w, q) = Seen(s, q)
  /\ \A q \in On(s) : s.mapped[q] # "writeBack" => w.file[q] = s.file[q]

Zeroes(s, w, o) ==
  /\ w.mapped = [s.mapped EXCEPT ![o] = "none"] /\ w.asked = [s.asked EXCEPT ![o] = 0]
  /\ Seen(w, o) = 0 /\ \A q \in On(s) \ {o} : Seen(w, q) = Seen(s, q)
  /\ w.file[o] = IF s.mapped[o] = "writeBack" THEN Seen(s, o) ELSE s.file[o]
  /\ \A q \in On(s) \ {o} : w.file[q] = s.file[q]

Changes(s, w) ==
  Unseen(s, w) \/ \E o \in On(s) : Zeroes(s, w, o) \/ \E contents \in Values[o] : Wrote(s, w, o, contents)

\* A page translated before a step and not let go by it stays where it was,
\* unless the step creates it anew.
PlacesKept(s, w) ==
  \A o \in On(s) :
    /\ IsValid(s, o) /\ s.pte[o].at \in s.touched \cap w.touched
    /\ w.mapped[o] = s.mapped[o] /\ w.pte[o] # PageFileForm(0)
    => Stays(s, w, o)

NextFits(s, w) == Fair(w, {}) /\ Listed(w, {}) /\ On(w) = On(s) /\ Changes(s, w) /\ PlacesKept(s, w)

\* A state but for what it remembers of one instruction.
Alike(s, t) ==
  SameMemory(s, t) /\ t.ws = s.ws /\ t.asked = s.asked /\ t.map = s.map /\ t.pageFile = s.pageFile

LEMMA AlikeSound ==
  ASSUME NEW s, Sound(s, {}), NEW t, Alike(s, t), t \in States(On(s))
  PROVE  Sound(t, {}) /\ On(t) = On(s) /\ Unseen(s, t)
<1>1. Fair(s, {}) /\ Listed(s, {}) /\ On(s) = Existing
  BY DEF Sound
<1>2. SameMemory(s, t) /\ t.map = s.map /\ t.ws = s.ws /\ (s.pageFile # "unopened" => t.pageFile = s.pageFile)
  BY DEF Alike
<1>3. Fair(t, {}) /\ \A o \in On(s) : Seen(t, o) = Seen(s, o)
  BY <1>1, <1>2, PlainFits
<1>4. On(t) = On(s) /\ Listed(t, {})
  BY <1>1, <1>2 DEF SameMemory, On, Listed, IsValid
<1>5. Unseen(s, t)
  BY <1>3 DEF Unseen, Alike, SameMemory
<1> QED
  BY <1>1, <1>3, <1>4, <1>5 DEF Sound

LEMMA UnseenAgain ==
  ASSUME NEW s, NEW t, NEW u, Unseen(s, t), Unseen(t, u)
  PROVE  Unseen(s, u) /\ On(t) = On(s) /\ On(u) = On(s)
BY DEF Unseen, On

LEMMA CalmNext ==
  ASSUME NEW r, Sound(r, {}), NEW s, Alike(r, s), s \in States(On(r)), NEW t, Sound(t, {}), Calm(s, t),
         NEW w, Cleared(t, w), r.touched \cap w.touched \subseteq s.touched
  PROVE  NextFits(r, w)
<1>1. Unseen(r, s) /\ s.pte = r.pte
  BY AlikeSound DEF Alike, SameMemory
<1>2. Fair(w, {}) /\ Listed(w, {}) /\ Unseen(t, w) /\ w.pte = t.pte
  BY ClearedFits DEF Sound, Cleared
<1>3. Unseen(s, t)
  BY DEF Calm
<1>4. Unseen(r, t) /\ On(s) = On(r)
  BY <1>1, <1>3, UnseenAgain
<1>5. Unseen(r, w) /\ On(w) = On(r)
  BY <1>2, <1>4, UnseenAgain
<1>6. PlacesKept(r, w)
  BY <1>1, <1>2, <1>4 DEF PlacesKept, Calm, Stays, IsValid
<1> QED
  BY <1>2, <1>5, <1>6 DEF NextFits, Changes

LEMMA WrittenNext ==
  ASSUME NEW r, Sound(r, {}), NEW s, Alike(r, s), s \in States(On(r)), s.touched = r.touched, NEW u, Calm(s, u),
         NEW t, Sound(t, {}), NEW o \in On(r), NEW contents \in Values[o], Written(u, t, o, contents), SamePlaces(u, t),
         NEW w, Cleared(t, w)
  PROVE  NextFits(r, w)
<1>1. Unseen(r, s) /\ s.pte = r.pte
  BY AlikeSound DEF Alike, SameMemory
<1>2. Fair(w, {}) /\ Listed(w, {}) /\ Unseen(t, w) /\ w.pte = t.pte
  BY ClearedFits DEF Sound, Cleared
<1>3. Unseen(s, u)
  BY DEF Calm
<1>4. Unseen(r, u) /\ On(u) = On(r) /\ On(s) = On(r)
  BY <1>1, <1>3, UnseenAgain
<1>5. On(t) = On(u) /\ On(w) = On(t)
  BY <1>2 DEF Written, Unseen, On
<1>6. Wrote(r, w, o, contents)
  BY <1>2, <1>4, <1>5 DEF Wrote, Unseen, Written
<1>7. PlacesKept(r, w)
  <2>1. ASSUME NEW q \in On(r), IsValid(r, q), r.pte[q].at \in r.touched
        PROVE  Stays(r, w, q)
    <3>1. Stays(s, u, q)
      BY <1>1, <1>4, <2>1 DEF Calm, IsValid
    <3>2. t.pte[q].form = u.pte[q].form /\ t.pte[q].at = u.pte[q].at
      BY <1>4 DEF SamePlaces
    <3> QED
      BY <1>1, <1>2, <3>1, <3>2 DEF Stays
  <2> QED
    BY <2>1 DEF PlacesKept
<1> QED
  BY <1>2, <1>4, <1>5, <1>6, <1>7 DEF NextFits, Changes

LEMMA CreatedNext ==
  ASSUME NEW s, Sound(s, {}), NEW t, Sound(t, {}), NEW o \in On(s), Created(s, t, o),
         t.pte[o] = PageFileForm(0), \A q \in On(s) \ {o} : t.pte[q] = s.pte[q], NEW w, Cleared(t, w)
  PROVE  NextFits(s, w)
<1>1. Fair(w, {}) /\ Listed(w, {}) /\ Unseen(t, w) /\ w.pte = t.pte
  BY ClearedFits DEF Sound, Cleared
<1>2. On(t) = On(s) /\ On(w) = On(t)
  BY <1>1 DEF Created, Unseen, On
<1>3. w.file = t.file
  BY DEF Cleared
<1>4. Zeroes(s, w, o)
  BY <1>1, <1>2, <1>3 DEF Zeroes, Created, Unseen
<1>5. PlacesKept(s, w)
  BY <1>1 DEF PlacesKept, Stays, IsValid
<1> QED
  BY <1>1, <1>2, <1>4, <1>5 DEF NextFits, Changes

\* What holds between any two steps of the pager's: the page tables, the
\* database, the lists and the map agree; and what a page holds is what its
\* program last put in it.
PagingInv ==
  /\ Fair(State({}), {}) /\ Listed(State({}), {})
  /\ \A o \in Existing : asked[o] = Seen(State({}), o)
  /\ current \in Processes

\* The state before a step, and the one a call starts from.
LEMMA BeforeStep ==
  ASSUME PagingInv, NEW T \in SUBSET Pages, NEW F \in SUBSET PFN, NEW s, s = [State(T) EXCEPT !.touched = F]
  PROVE  /\ Sound(State({}), {}) /\ On(State({})) = Existing /\ current \in Procs
         /\ Sound(s, {}) /\ Alike(State({}), s) /\ s \in States(On(State({}))) /\ On(s) = Existing
         /\ s.touched = F
<1> DEFINE r == State({})
<1>1. Sound(r, {}) /\ On(r) = Existing
  BY DEF PagingInv, Sound, On, State, Existing
<1>2. current \in Procs
  <2>1. PICK o \in Existing : current = o[1]
    BY DEF PagingInv, Processes
  <2> QED
    BY <1>1, <2>1, OwnersAre DEF Sound, Fair
<1>3. Alike(r, s) /\ s.touched = F
  BY DEF State, Alike, SameMemory
<1>4. r \in States(On(r))
  BY <1>1 DEF Sound, Fair, Typed
<1>5. s \in States(On(r))
  BY <1>4, ZenonT(60) DEF States, State
<1> HIDE DEF r
<1>6. Sound(s, {}) /\ On(s) = On(r)
  BY <1>1, <1>3, <1>5, AlikeSound
<1> QED
  BY <1>1, <1>2, <1>3, <1>5, <1>6 DEF r

LEMMA StateBefore ==
  ASSUME PagingInv, NEW T \in SUBSET Pages, NEW s, s = State(T)
  PROVE  /\ Sound(State({}), {}) /\ On(State({})) = Existing /\ current \in Procs
         /\ Sound(s, {}) /\ Alike(State({}), s) /\ s \in States(On(State({}))) /\ On(s) = Existing
         /\ s.touched = touched /\ State({}).touched = touched
<1>1. touched \in SUBSET PFN
  BY DEF PagingInv, Fair, Typed, States, State
<1>2. s = [State(T) EXCEPT !.touched = touched]
  BY DEF State
<1>3. State({}).touched = touched
  BY DEF State
<1> QED
  BY <1>1, <1>2, <1>3, BeforeStep

\* A call that leaves all as a program sees it.
LEMMA CalmStep ==
  ASSUME PagingInv, NEW T \in SUBSET Pages, NEW s, s = State(T), NEW t, Sound(t, {}), Calm(s, t), Become(t)
  PROVE  NextFits(State({}), State({})')
<1> DEFINE r == State({})
           w == State({})'
<1>1. Sound(r, {}) /\ Alike(r, s) /\ s \in States(On(r)) /\ s.touched = r.touched
  BY StateBefore
<1>2. Cleared(t, w)
  BY BecomeIs DEF Sound, Fair
<1> HIDE DEF r, w
<1> QED
  BY <1>1, <1>2, CalmNext DEF r, w

LEMMA PageIsOn ==
  ASSUME NEW v \in PagesOf(current)
  PROVE  <<current, v>> \in Existing
BY DEF PagesOf

LEMMA ReadStep ==
  ASSUME PagingInv, NEW v \in PagesOf(current), NEW T \in SUBSET Pages, Read(v, T)
  PROVE  NextFits(State({}), State({})')
<1> DEFINE s == State(T)
           o == <<current, v>>
           t == Translate(s, o)
<1>1. Sound(s, {}) /\ o \in On(s)
  BY StateBefore, PageIsOn
<1>2. Become(t)
  BY DEF Read
<1> HIDE DEF s, o, t
<1>3. Sound(t, {}) /\ Calm(s, t)
  BY <1>1, TranslateFits DEF t
<1> QED
  BY <1>2, <1>3, CalmStep DEF s

LEMMA WriteStep ==
  ASSUME PagingInv, NEW v \in PagesOf(current), NEW T \in SUBSET Pages, NEW contents \in Values[<<current, v>>],
         Write(v, contents, T)
  PROVE  NextFits(State({}), State({})')
<1> DEFINE s == State(T)
           o == <<current, v>>
           t == Store(Translate(s, o), o, contents)
           r == State({})
           w == State({})'
<1>1. Sound(s, {}) /\ o \in On(s) /\ contents \in Values[o]
  BY StateBefore, PageIsOn
<1>2. Become(t)
  BY DEF Write
<1>3. Sound(r, {}) /\ Alike(r, s) /\ s \in States(On(r)) /\ s.touched = r.touched /\ o \in On(r)
  BY StateBefore, PageIsOn
<1> HIDE DEF s, o, t
<1>4. /\ Sound(t, {})
      /\ \/ Calm(s, t)
         \/ \E u : Calm(s, u) /\ Written(u, t, o, contents) /\ SamePlaces(u, t)
  BY <1>1, StoreSound DEF t
<1>5. Cleared(t, w)
  BY <1>2, <1>4, BecomeIs DEF Sound, Fair
<1>6. CASE Calm(s, t)
  BY <1>2, <1>4, <1>6, CalmStep DEF s
<1>7. CASE \E u : Calm(s, u) /\ Written(u, t, o, contents) /\ SamePlaces(u, t)
  <2>1. PICK u : Calm(s, u) /\ Written(u, t, o, contents) /\ SamePlaces(u, t)
    BY <1>7
  <2> HIDE DEF r, w
  <2> QED
    BY <1>1, <1>3, <1>4, <1>5, <2>1, WrittenNext DEF r, w
<1> QED
  BY <1>4, <1>6, <1>7

LEMMA SystemFaultStep ==
  ASSUME PagingInv, SystemFault
  PROVE  NextFits(State({}), State({})')
<1> DEFINE s == State({})
           f == NextFrame(s.db)
           t == WakeReclaimerIfLow([BreakTie(s, f) EXCEPT !.db = AllocateSystem(@), !.touched = @ \cup {f}])
<1>1. Sound(s, {}) /\ {} \in SUBSET Pages
  BY StateBefore
<1>2. s.db = db
  BY DEF State
<1>3. CanAllocate(s.db) /\ Become(t)
  BY <1>2 DEF SystemFault
<1> HIDE DEF t, s
<1>4. Sound(t, {}) /\ Calm(s, t)
  BY <1>1, <1>3, SystemFaultSound DEF t
<1> QED
  BY <1>1, <1>3, <1>4, CalmStep DEF s

LEMMA CreateStep ==
  ASSUME PagingInv, NEW v \in PagesOf(current), CreatePage(v)
  PROVE  NextFits(State({}), State({})')
<1> DEFINE s == State({})
           w == State({})'
           o == <<current, v>>
           t == Zeroed(ReleasePTE(s, o), o)
<1>1. Sound(s, {}) /\ o \in On(s)
  BY StateBefore, PageIsOn
<1>2. Become(t)
  BY DEF CreatePage, Zeroed
<1> HIDE DEF s, o, t
<1>3. Sound(t, {}) /\ Created(s, t, o) /\ t.pte[o] = PageFileForm(0) /\ \A q \in On(s) \ {o} : t.pte[q] = s.pte[q]
  BY <1>1, CreatedSound DEF t
<1>4. Cleared(t, w)
  BY <1>2, <1>3, BecomeIs DEF Sound, Fair
<1> HIDE DEF w
<1> QED
  BY <1>1, <1>3, <1>4, CreatedNext DEF s, w

LEMMA QuietStep ==
  ASSUME PagingInv, NEW T \in SUBSET Pages, NEW s, s = State(T), NEW t, Sound(t, {}), Quiet(s, t), Become(t)
  PROVE  NextFits(State({}), State({})')
BY QuietCalm, CalmStep

LEMMA AdjustStep ==
  ASSUME PagingInv, NEW n \in Limits, NEW T \in SUBSET Pages, AdjustLimit(n, T)
  PROVE  NextFits(State({}), State({})')
<1> DEFINE s == State(T)
           t == TrimIfOver(WithList(s, current, Resize(s.ws[current], n, Conditions(s, current))), current)
<1>1. Sound(s, {}) /\ current \in Procs /\ n \in Int
  BY StateBefore, PagerAssumption
<1>2. s.ws = ws
  BY DEF State
<1>3. Become(t)
  BY <1>2 DEF AdjustLimit
<1> HIDE DEF s, t
<1>4. Sound(t, {}) /\ Quiet(s, t)
  BY <1>1, AdjustSound DEF t
<1> QED
  BY <1>3, <1>4, QuietStep DEF s

LEMMA PurgeStep ==
  ASSUME PagingInv, PurgeWorkingSet
  PROVE  NextFits(State({}), State({})')
<1> DEFINE s == State({})
           t == WithList(s, current, Purge(s.ws[current], Conditions(s, current)))
<1>1. Sound(s, {}) /\ current \in Procs /\ {} \in SUBSET Pages
  BY StateBefore
<1>2. s.ws = ws
  BY DEF State
<1>3. Become(t)
  BY <1>2 DEF PurgeWorkingSet
<1> HIDE DEF s, t
<1>4. Sound(t, {}) /\ Quiet(s, t)
  BY <1>1, PurgeSound DEF t
<1> QED
  BY <1>1, <1>3, <1>4, QuietStep DEF s

LEMMA LockStep ==
  ASSUME PagingInv, NEW v \in PagesOf(current), NEW kind \in LockKinds, NEW T \in SUBSET Pages,
         LockInWorkingSet(v, kind, T)
  PROVE  NextFits(State({}), State({})')
<1> DEFINE s == State(T)
           o == <<current, v>>
           u == IF v \in PagesIn(ws[current]) THEN s ELSE Translate(s, o)
           t == LockIfIn(u, v, kind)
<1>1. Sound(s, {}) /\ o \in On(s) /\ current \in Procs
  BY StateBefore, PageIsOn
<1>2. Become(t)
  BY DEF LockInWorkingSet
<1> HIDE DEF s, o, t
<1>3. Sound(u, {}) /\ Calm(s, u) /\ On(u) = On(s)
  BY <1>1, TranslateFits, StillSame, QuietCalm
<1> HIDE DEF u
<1>4. Sound(t, {}) /\ Quiet(u, t) /\ t.pte = u.pte
  BY <1>1, <1>3, LockSound DEF t
<1>5. Unseen(u, t)
  BY <1>4, QuietCalm DEF Calm
<1>6. Unseen(s, t)
  BY <1>3, <1>5, UnseenAgain DEF Calm
<1>7. Calm(s, t)
  BY <1>3, <1>4, <1>6 DEF Calm, Stays
<1> QED
  BY <1>2, <1>4, <1>7, CalmStep DEF s

LEMMA UpdateStep ==
  ASSUME PagingInv, NEW v \in PagesOf(current), UpdateSection(v)
  PROVE  NextFits(State({}), State({})')
<1> DEFINE s == State({})
           o == <<current, v>>
           f == s.pte[o].at
           a == Updated(s, o, f)
           b == [s EXCEPT !.file[o] = s.ram[f], !.db = Cleaned(@, f)]
<1>1. Sound(s, {}) /\ o \in On(s) /\ {} \in SUBSET Pages
  BY StateBefore, PageIsOn
<1>2. s.pte = pte /\ s.mapped = mapped /\ s.db = db /\ s.ram = ram
  BY DEF State
<1>3. s.mapped[o] = "writeBack" /\ (\/ IsValid(s, o) /\ Become(a)
                                    \/ InTransition(s, o) /\ IsModified(s, f) /\ Become(b))
  BY <1>2 DEF UpdateSection, Updated
<1>4. At(s, o, f)
  BY DEF At
<1> HIDE DEF s, o, f
<1>5. CASE IsValid(s, o) /\ Become(a)
  <2> HIDE DEF a
  <2>1. Sound(a, {}) /\ Quiet(s, a)
    BY <1>1, <1>3, <1>4, <1>5, UpdateSound DEF a
  <2> QED
    BY <1>1, <1>5, <2>1, QuietStep DEF s
<1>6. CASE InTransition(s, o) /\ IsModified(s, f) /\ Become(b)
  <2> HIDE DEF b
  <2>1. Sound(b, {}) /\ Quiet(s, b)
    BY <1>1, <1>3, <1>4, <1>6, UpdateSound DEF b
  <2> QED
    BY <1>1, <1>6, <2>1, QuietStep DEF s
<1> QED
  BY <1>3, <1>5, <1>6

LEMMA CalmThen ==
  ASSUME NEW s, Sound(s, {}), NEW t, Sound(t, {}), Calm(s, t)
  PROVE  NextFits(s, t)
BY DEF NextFits, Sound, Calm, Changes, PlacesKept

LEMMA UnlockStep ==
  ASSUME PagingInv, NEW v \in PagesOf(current), NEW kind \in LockKinds, UnlockInWorkingSet(v, kind)
  PROVE  NextFits(State({}), State({})')
<1> DEFINE s == State({})
           p == current
           w == State({})'
           t == SetList(s, p, UnlockPage(s.ws[p], v, kind))
<1>1. Sound(s, {}) /\ p \in Procs /\ {} \in SUBSET Pages
  BY StateBefore
<1>2. v \in PagesIn(s.ws[p]) /\ kind \in s.ws[p].slots[SlotOf(s.ws[p], v)].locks
  BY DEF State, UnlockInWorkingSet
<1>3. w = t
  BY DEF State, UnlockInWorkingSet, SetList
<1> HIDE DEF s, t, w, p
<1>4. Sound(t, {}) /\ Quiet(s, t)
  BY <1>1, <1>2, UnlockSound DEF t
<1>5. Calm(s, t)
  BY <1>4, QuietCalm
<1>6. NextFits(s, t)
  BY <1>1, <1>4, <1>5, CalmThen
<1> QED
  BY <1>3, <1>6 DEF s, w

LEMMA BeginStep ==
  ASSUME PagingInv, NEW kept, NEW next, BeginInstruction(kept, next)
  PROVE  NextFits(State({}), State({})')
<1> DEFINE r == State({})
           w == State({})'
           s == [State({}) EXCEPT !.touched = kept]
<1>1. kept \subseteq touched /\ touched \in SUBSET PFN /\ {} \in SUBSET Pages
  BY DEF PagingInv, Fair, Typed, States, State, BeginInstruction, CanKeep
<1>2. Sound(r, {}) /\ On(r) = Existing /\ Sound(s, {}) /\ Alike(r, s) /\ s \in States(On(r))
  BY <1>1, BeforeStep
<1>3. w = s
  BY DEF State, BeginInstruction
<1> HIDE DEF r, s, w
<1>4. Unseen(r, s) /\ s.pte = r.pte
  BY <1>2, AlikeSound DEF Alike, SameMemory
<1>5. Calm(r, s)
  BY <1>4 DEF Calm, Stays, IsValid
<1>6. NextFits(r, s)
  BY <1>2, <1>5, CalmThen
<1> QED
  BY <1>3, <1>6 DEF r, w

LEMMA BoundaryStep ==
  ASSUME PagingInv, NEW kept, NEW next, NEW table \in Orders, NEW order \in Orders, NEW opened, NEW T \in SUBSET Pages,
         RunAtBoundary(kept, next, table, order, opened, T)
  PROVE  NextFits(State({}), State({})')
<1> DEFINE r == State({})
           w == State({})'
           s == [State(T) EXCEPT !.touched = kept]
           t == AtInstructionBoundary(s, table, order, opened)
           n == Cardinality(Processes)
<1>1. kept \subseteq touched /\ touched \in SUBSET PFN
  BY DEF PagingInv, Fair, Typed, States, State, RunAtBoundary, CanKeep
<1>2. /\ Sound(r, {}) /\ Sound(s, {}) /\ Alike(r, s) /\ s \in States(On(r)) /\ s.touched = kept
      /\ On(s) = Existing
  BY <1>1, BeforeStep
<1>3. Processes \subseteq Procs
  BY <1>2, OwnersAre DEF Processes, Sound, Fair
<1>4. n \in Nat
  BY <1>3, PagerAssumption, FS_Subset, FS_CardinalityType
<1>5. /\ table \in [1 .. n -> Procs] /\ order \in [1 .. n -> Procs]
      /\ {table[i] : i \in 1 .. n} = {order[i] : i \in 1 .. n}
  BY <1>3 DEF Orders, Surjection
<1>6. Become(t)
  BY DEF RunAtBoundary
<1> HIDE DEF r, s, t, n
<1>7. Sound(t, {}) /\ Quiet(s, t)
  BY <1>2, <1>4, <1>5, BoundarySound DEF t
<1>8. Cleared(t, w)
  BY <1>6, <1>7, BecomeIs DEF Sound, Fair
<1>9. w.touched = s.touched
  BY <1>7, <1>8 DEF Cleared, Quiet, Still
<1>10. Calm(s, t)
  BY <1>7, QuietCalm
<1> HIDE DEF w
<1> QED
  BY <1>2, <1>7, <1>8, <1>9, <1>10, CalmNext DEF r, w

LEMMA StepFits ==
  ASSUME PagingInv, PagerNext
  PROVE  NextFits(State({}), State({})') /\ current' \in Processes
<1> DEFINE Good == NextFits(State({}), State({})')
<1>1. \A T \in TBContents : T \in SUBSET Pages
  BY DEF TBContents, PagesOf
<1>2. LocksOf(current) \subseteq LockKinds
  BY DEF LocksOf
<1>3. current \in Processes
  BY DEF PagingInv
<1>4. CASE UsePages
  <2>1. PICK v \in PagesOf(current), T \in TBContents :
          \/ Read(v, T)
          \/ \E contents \in Values[<<current, v>>] : Write(v, contents, T)
          \/ \E kind \in LocksOf(current) : LockInWorkingSet(v, kind, T)
    BY <1>4 DEF UsePages
  <2>2. T \in SUBSET Pages
    BY <1>1
  <2>3. CASE Read(v, T)
    BY <1>3, <2>2, <2>3, ReadStep DEF Read
  <2>4. ASSUME NEW contents \in Values[<<current, v>>], Write(v, contents, T)
        PROVE  Good /\ current' = current
    BY <2>2, <2>4, WriteStep DEF Write
  <2>5. ASSUME NEW kind \in LocksOf(current), LockInWorkingSet(v, kind, T)
        PROVE  Good /\ current' = current
    BY <1>2, <2>2, <2>5, LockStep DEF LockInWorkingSet
  <2> QED
    BY <1>3, <2>1, <2>3, <2>4, <2>5
<1>5. CASE SystemFault
  BY <1>3, <1>5, SystemFaultStep DEF SystemFault
<1>6. CASE ChangePages
  <2>1. PICK v \in PagesOf(current) :
          CreatePage(v) \/ UpdateSection(v) \/ \E kind \in LocksOf(current) : UnlockInWorkingSet(v, kind)
    BY <1>6 DEF ChangePages
  <2>2. CASE CreatePage(v)
    BY <1>3, <2>2, CreateStep DEF CreatePage
  <2>3. CASE UpdateSection(v)
    BY <1>3, <2>3, UpdateStep DEF UpdateSection
  <2>4. ASSUME NEW kind \in LocksOf(current), UnlockInWorkingSet(v, kind)
        PROVE  Good /\ current' = current
    BY <1>2, <2>4, UnlockStep DEF UnlockInWorkingSet
  <2> QED
    BY <1>3, <2>1, <2>2, <2>3, <2>4
<1>7. CASE ChangeWorkingSet
  <2>1. ASSUME NEW n \in Limits, NEW T \in TBContents, AdjustLimit(n, T)
        PROVE  Good /\ current' = current
    BY <1>1, <2>1, AdjustStep DEF AdjustLimit
  <2>2. CASE PurgeWorkingSet
    BY <1>3, <2>2, PurgeStep DEF PurgeWorkingSet
  <2> QED
    BY <1>3, <1>7, <2>1, <2>2 DEF ChangeWorkingSet
<1>8. CASE NextInstruction
  <2>1. PICK kept \in SUBSET touched, next \in Processes :
          \/ BeginInstruction(kept, next)
          \/ \E table, order \in Orders, opened \in {TRUE, pageFile # "unopened"}, T \in TBContents :
               RunAtBoundary(kept, next, table, order, opened, T)
    BY <1>8 DEF NextInstruction
  <2>2. CASE BeginInstruction(kept, next)
    BY <2>1, <2>2, BeginStep DEF BeginInstruction
  <2>3. ASSUME NEW table \in Orders, NEW order \in Orders, NEW opened, NEW T \in TBContents, RunAtBoundary(kept, next, table, order, opened, T)
        PROVE  Good /\ current' \in Processes
    BY <1>1, <2>1, <2>3, BoundaryStep DEF RunAtBoundary
  <2> QED
    BY <2>1, <2>2, <2>3
<1> QED
  BY <1>4, <1>5, <1>6, <1>7, <1>8 DEF PagerNext

\* What is asked of each page is what it holds.
AsAsked(s) == \A o \in On(s) : s.asked[o] = Seen(s, o)

LEMMA AskedFits ==
  ASSUME NEW s, Typed(s), AsAsked(s), NEW w, On(w) = On(s), Changes(s, w)
  PROVE  AsAsked(w)
<1>1. s.asked \in [On(s) -> Data]
  BY DEF Typed, States
<1>2. CASE Unseen(s, w)
  BY <1>2 DEF Unseen, AsAsked
<1>3. ASSUME NEW o \in On(s), Zeroes(s, w, o)
      PROVE  AsAsked(w)
  BY <1>1, <1>3 DEF Zeroes, AsAsked
<1>4. ASSUME NEW o \in On(s), NEW contents, Wrote(s, w, o, contents)
      PROVE  AsAsked(w)
  BY <1>1, <1>4 DEF Wrote, AsAsked
<1> QED
  BY <1>2, <1>3, <1>4 DEF Changes

LEMMA InvFits ==
  ASSUME PagingInv, NextFits(State({}), State({})'), current' \in Processes
  PROVE  PagingInv' /\ Existing' = Existing
<1> DEFINE s == State({})
           w == State({})'
<1>1. Fair(w, {}) /\ Listed(w, {}) /\ On(w) = On(s) /\ Changes(s, w)
  BY DEF NextFits
<1>2. On(s) = Existing /\ On(w) = Existing' /\ s.asked = asked /\ w.asked = asked'
  BY DEF On, Existing, State
<1>3. Typed(s) /\ AsAsked(s)
  BY <1>2 DEF PagingInv, Fair, AsAsked
<1>4. AsAsked(w)
  BY <1>1, <1>3, AskedFits
<1>5. \A o \in Existing' : asked'[o] = Seen(w, o)
  BY <1>2, <1>4 DEF AsAsked
<1>6. Existing' = Existing
  BY <1>1, <1>2
<1>7. Processes' = Processes
  BY <1>6 DEF Processes
<1> QED
  BY <1>1, <1>5, <1>6, <1>7 DEF PagingInv

LEMMA PagingInvIsInductive == PagingInv /\ [PagerNext]_vars => PagingInv'
<1> SUFFICES ASSUME PagingInv, [PagerNext]_vars
             PROVE  PagingInv'
  OBVIOUS
<1>1. CASE PagerNext
  BY <1>1, StepFits, InvFits
<1>2. CASE UNCHANGED vars
  BY <1>2 DEF vars, PagingInv, State, Existing, Processes
<1> QED
  BY <1>1, <1>2

-----------------------------------------------------------------------------
(* What holds at first, and therefore always. *)

\* At first the frames are free and tied to nothing, but for the system's.
LEMMA FirstFrames ==
  ASSUME NEW d, d = Reserve(NewDatabase, 0)
  PROVE  InPlace(d, PFN) /\ \A f \in PFN : ~d.entry[f].tied
<1>1. 0 \in PFN /\ NewDatabase.entry = [p \in PFN |-> Blank] /\ InPlace(NewDatabase, PFN)
  BY FramesAssumption, PagerAssumption, NewInPlace DEF PFN, NewDatabase
<1>2. ~Blank.tied /\ Blank.state = "free" /\ ~SystemPage.tied
  BY NewRecords DEF SystemPage
<1>3. InPlace(d, PFN)
  BY <1>1, <1>2, ReserveKeeps DEF CanReserve
<1>4. d.entry = Put(NewDatabase.entry, 0, Woken(SystemPage))
  <2>1. NewDatabase \in DatabaseRecord
    BY <1>1 DEF InPlace
  <2> QED
    BY <1>1, <2>1, ActivateIs DEF Reserve
<1>5. ~Woken(SystemPage).tied
  BY NewRecords DEF Woken
<1> QED
  BY <1>1, <1>2, <1>3, <1>4, <1>5 DEF Put

\* What the pages are mapped to as the processes start.
LEMMA FirstMapping ==
  ASSUME PagerInit
  PROVE  /\ Existing \subseteq Owners /\ mapped \in [Existing -> SectionKinds]
         /\ \A o \in Owners : o[1] \in Procs /\ o[2] \in Pages /\ FileValue[o] \in Data
         /\ 0 \in Data /\ Processes \subseteq Procs
<1>1. Existing \subseteq Owners /\ mapped \in [Existing -> SectionKinds]
  BY PagerAssumption DEF PagerInit, Existing
<1>2. \A o \in Owners : o[1] \in Procs /\ o[2] \in Pages /\ FileValue[o] \in Data
  <2>1. Owners \subseteq Procs \X Pages
    BY PagerAssumption
  <2>2. \A o \in Owners : FileValue[o] \in Data
    <3> DEFINE V == {FileValue[o] : o \in Owners}
    <3>1. \A o \in Owners : FileValue[o] \in V
      OBVIOUS
    <3> HIDE DEF V
    <3>2. V \subseteq Data
      BY DEF Data, V
    <3> QED
      BY <3>1, <3>2
  <2> QED
    BY <2>1, <2>2
<1> QED
  BY <1>1, <1>2 DEF Data, Processes

\* Each page is zeros, or in its section's file.
LEMMA FirstPages ==
  ASSUME PagerInit, NEW o \in Existing
  PROVE  /\ pte[o] \in PTE /\ PageOK(State({}), o)
         /\ asked[o] = Seen(State({}), o) /\ asked[o] \in Data /\ file[o] = FileValue[o]
         /\ ~IsValid(State({}), o) /\ Held(State({}), o) = 0
         /\ (mapped[o] = "writeBack" => asked[o] = file[o]) /\ asked[o] \in {0, FileValue[o]}
<1> DEFINE s == State({})
<1>1. s.pte = pte /\ s.mapped = mapped /\ s.file = file /\ s.asked = asked
  BY DEF State
<1>2. o \in Owners /\ mapped[o] \in SectionKinds /\ o[2] \in Pages /\ FileValue[o] \in Data /\ 0 \in Data
  BY FirstMapping
<1>3. 0 \in 0 .. FileSize
  BY MapAssumption
<1>4. /\ pte[o] = IF mapped[o] = "none" THEN PageFileForm(0) ELSE SectionForm(o[2])
      /\ file[o] = FileValue[o] /\ asked[o] = IF mapped[o] = "none" THEN 0 ELSE FileValue[o]
  BY DEF PagerInit
<1> HIDE DEF s
<1>5. CASE mapped[o] = "none"
  <2>1. pte[o].form = "pageFile" /\ pte[o].at = 0 /\ ~pte[o].modified /\ pte[o] \in PTE
    BY <1>4, <1>5 DEF PageFileForm, PTE
  <2>2. PageOK(s, o) /\ Seen(s, o) = 0 /\ ~IsValid(s, o) /\ Held(s, o) = 0
    BY <1>1, <1>3, <1>5, <2>1 DEF PageOK, HasFrame, Seen, IsValid, Held
  <2> QED
    BY <1>1, <1>2, <1>4, <1>5, <2>1, <2>2 DEF s
<1>6. CASE mapped[o] # "none"
  <2>1. pte[o].form = "section" /\ ~pte[o].modified /\ pte[o] \in PTE
    BY <1>2, <1>4, <1>6 DEF SectionForm, PTE, Pages
  <2>2. PageOK(s, o) /\ Seen(s, o) = file[o] /\ ~IsValid(s, o) /\ Held(s, o) = 0
    BY <1>1, <1>6, <2>1 DEF PageOK, HasFrame, Seen, IsValid, Held
  <2> QED
    BY <1>1, <1>2, <1>4, <1>6, <2>1, <2>2 DEF s
<1> QED
  BY <1>5, <1>6

LEMMA FirstTyped ==
  ASSUME PagerInit
  PROVE  Typed(State({}))
<1> DEFINE s == State({})
<1>1. Existing \subseteq Owners /\ mapped \in [Existing -> SectionKinds] /\ 0 \in Data
  BY FirstMapping
<1>2. pte \in [Existing -> PTE] /\ asked \in [Existing -> Data]
  <2>1. /\ pte = [o \in Existing |-> IF mapped[o] = "none" THEN PageFileForm(0) ELSE SectionForm(o[2])]
        /\ asked = [o \in Existing |-> IF mapped[o] = "none" THEN 0 ELSE FileValue[o]]
    BY DEF PagerInit
  <2> QED
    BY <2>1, FirstPages
<1>3. file \in [Existing -> Data]
  BY <1>1, FirstMapping DEF PagerInit
<1>4. ws \in [Procs -> ListRecord]
  <2>1. ws = [p \in Procs |-> NewWorkingSet(DefaultSize[p])]
    BY DEF PagerInit
  <2>2. ASSUME NEW p \in Procs
        PROVE  NewWorkingSet(DefaultSize[p]) \in ListRecord
    BY PagerAssumption, NewWorkingSetFits
  <2> QED
    BY <2>1, <2>2
<1>5. ram \in [PFN -> Data] /\ disk \in [Blocks -> Data]
  BY <1>1 DEF PagerInit
<1>6. db \in DatabaseRecord
  BY FirstFrames DEF PagerInit, InPlace
<1>7. map \in [inUse : SUBSET Blocks, allocSize : Nat]
  BY NewMapFits DEF PagerInit
<1>8. /\ pageFile \in {"unopened", "open", "failed"} /\ boundary \in BOOLEAN /\ touched \in SUBSET PFN
      /\ stuck \in [writer : Nat, reclaimer : Nat, full : BOOLEAN]
  BY PagerAssumption DEF PagerInit
<1>9. On(s) = Existing
  BY DEF On, State, Existing
<1>10. s \in States(Existing)
  BY <1>1, <1>2, <1>3, <1>4, <1>5, <1>6, <1>7, <1>8 DEF State, States
<1> QED
  BY <1>1, <1>9, <1>10 DEF Typed

LEMMA FirstFair ==
  ASSUME PagerInit
  PROVE  Fair(State({}), {}) /\ Listed(State({}), {})
<1> DEFINE s == State({})
<1>1. s.db = db /\ s.ws = ws /\ s.map = map /\ On(s) = Existing
  BY DEF State, On, Existing
<1>2. InPlace(s.db, PFN) /\ \A f \in PFN : ~s.db.entry[f].tied
  BY <1>1, FirstFrames DEF PagerInit
<1>3. MapOK(s.map) /\ s.map.inUse = {}
  BY <1>1, NewMapFits DEF PagerInit
<1>4. \A p \in Procs : Sized(s.ws[p]) /\ PagesIn(s.ws[p]) = {}
  <2>1. ws = [p \in Procs |-> NewWorkingSet(DefaultSize[p])]
    BY DEF PagerInit
  <2>2. ASSUME NEW p \in Procs
        PROVE  Sized(NewWorkingSet(DefaultSize[p])) /\ PagesIn(NewWorkingSet(DefaultSize[p])) = {}
    BY PagerAssumption, NewWorkingSetFits
  <2> QED
    BY <1>1, <2>1, <2>2
<1>5. Typed(s)
  BY FirstTyped
<1>6. \A o \in On(s) : o[1] \in Procs
  BY <1>1, FirstMapping
<1>7. \A o \in On(s) : PageOK(s, o) /\ ~IsValid(s, o) /\ Held(s, o) = 0
  BY <1>1, FirstPages
<1> HIDE DEF s
<1>8. PagesFit(s) /\ FramesFit(s) /\ ListsFit(s) /\ BlocksFit(s, {})
  BY <1>2, <1>3, <1>4, <1>7 DEF PagesFit, FramesFit, FrameOK, ListsFit, BlocksFit
<1>9. Listed(s, {})
  BY <1>4, <1>6, <1>7 DEF Listed
<1> QED
  BY <1>2, <1>5, <1>8, <1>9 DEF Fair, s

LEMMA InitFits == PagerInit => PagingInv
<1> SUFFICES ASSUME PagerInit
             PROVE  PagingInv
  OBVIOUS
<1>1. \A o \in Existing : asked[o] = Seen(State({}), o)
  BY FirstPages
<1>2. current \in Processes
  BY DEF PagerInit
<1> QED
  BY <1>1, <1>2, FirstFair DEF PagingInv

\* What PagingInv says is never broken by a fault, an eviction, a write of
\* modified pages, a reclaim or a system service, in any order.
THEOREM PagingInvHolds == PagerSpec => []PagingInv
<1>1. PagerInit => PagingInv
  BY InitFits
<1>2. PagingInv /\ [PagerNext]_vars => PagingInv'
  BY PagingInvIsInductive
<1> QED
  BY <1>1, <1>2, PTL DEF PagerSpec

\* What the invariant says of the pages, as the properties state it.
LEMMA InvImpliesOwners == PagingInv => PagesOwnTheirFrames
<1> SUFFICES ASSUME PagingInv
             PROVE  PagesOwnTheirFrames
  OBVIOUS
<1> DEFINE s == State({})
<1>1. s.db = db /\ s.pte = pte /\ On(s) = Existing
  BY DEF State, On, Existing
<1>2. PagesFit(s) /\ FramesFit(s)
  BY DEF PagingInv, Fair
<1> HIDE DEF s
<1>3. \A o \in Existing : pte[o].form \in {"valid", "transition"} =>
        db.entry[pte[o].at].tied /\ db.entry[pte[o].at].owner = o
        /\ (db.entry[pte[o].at].state = "active" <=> pte[o].form = "valid")
  BY <1>1, <1>2 DEF PagesFit, PageOK, HasFrame
<1>4. \A f \in PFN : db.entry[f].tied =>
        pte[db.entry[f].owner].form \in {"valid", "transition"} /\ pte[db.entry[f].owner].at = f
  BY <1>1, <1>2 DEF FramesFit, FrameOK, HasFrame
<1> QED
  BY <1>3, <1>4 DEF PagesOwnTheirFrames

LEMMA InvImpliesBlocks == PagingInv => BlocksHaveOneHolder
<1> SUFFICES ASSUME PagingInv
             PROVE  BlocksHaveOneHolder
  OBVIOUS
<1> DEFINE s == State({})
<1>1. s.db = db /\ s.pte = pte /\ s.map = map /\ On(s) = Existing
  BY DEF State, On, Existing
<1>2. BlocksFit(s, {})
  BY DEF PagingInv, Fair
<1> HIDE DEF s
<1>3. \A o \in Existing : HeldBlock(o) = Held(s, o)
  BY <1>1 DEF HeldBlock, Held
<1> QED
  BY <1>1, <1>2, <1>3 DEF BlocksHaveOneHolder, BlocksFit

LEMMA InvImpliesLists == PagingInv => WorkingSetsAreValidPages
<1> SUFFICES ASSUME PagingInv
             PROVE  WorkingSetsAreValidPages
  OBVIOUS
<1> DEFINE s == State({})
<1>1. s.ws = ws /\ s.pte = pte /\ On(s) = Existing
  BY DEF State, On, Existing
<1>2. ListsFit(s) /\ Listed(s, {}) /\ On(s) \subseteq Owners
  BY DEF PagingInv, Fair, Typed
<1> HIDE DEF s
<1> SUFFICES ASSUME NEW p \in Processes
             PROVE  ListOK(ws[p]) /\ PagesIn(ws[p]) = {v \in PagesOf(p) : pte[<<p, v>>].form = "valid"}
  BY DEF WorkingSetsAreValidPages
<1>3. p \in Procs
  <2>1. Owners \subseteq Procs \X Pages
    BY PagerAssumption
  <2> QED
    BY <1>1, <1>2, <2>1 DEF Processes
<1>4. Sized(ws[p]) /\ PagesIn(ws[p]) \subseteq PagesFor(s, p)
  BY <1>1, <1>2, <1>3 DEF ListsFit
<1>5. PagesFor(s, p) = PagesOf(p)
  BY <1>1 DEF PagesFor, PagesOf
<1>6. \A v \in PagesOf(p) : v \in PagesIn(ws[p]) <=> pte[<<p, v>>].form = "valid"
  BY <1>1, <1>2 DEF Listed, IsValid, PagesOf
<1> QED
  BY <1>4, <1>5, <1>6, SizedIsOK

\* The page frame database passes its Check after every call of the pager's.
THEOREM PagingKeepsTheDatabase == PagerSpec => []Check
<1>1. PagingInv => Check
  BY IInvImpliesCheck DEF PagingInv, Fair, State, IInv
<1> QED
  BY <1>1, PagingInvHolds, PTL

\* A page's page table entry and the database's entry of its frame name each
\* other, however pageIn, evictPage and the modified page writer moved it.
THEOREM PagingOwnsFrames == PagerSpec => []PagesOwnTheirFrames
  BY PagingInvHolds, InvImpliesOwners, PTL

\* Each working set list is its process's valid pages and one that
\* WorkingSet.Check accepts, after any replacement, purge, adjustment or trim.
THEOREM PagingListsPages == PagerSpec => []WorkingSetsAreValidPages
  BY PagingInvHolds, InvImpliesLists, PTL

\* The page file's blocks that AllocateRun took are each one page's, and those
\* Free gave back are nobody's: none is lost and none has two pages.
THEOREM PagingKeepsBlocks == PagerSpec => []BlocksHaveOneHolder
  BY PagingInvHolds, InvImpliesBlocks, PTL

-----------------------------------------------------------------------------
(* What a program sees. *)

\* A frame an instruction has translated stays its page's until the instruction
\* is over, whatever the calls of the pager fault in, trim or write meanwhile.
THEOREM TranslatedPagesStay == PagerSpec => TouchedPagesStay
<1> DEFINE Stay(o) ==
      /\ pte[o].form = "valid" /\ pte[o].at \in touched \cap touched'
      /\ mapped'[o] = mapped[o] /\ pte'[o] # PageFileForm(0)
      => pte'[o].form = "valid" /\ pte'[o].at = pte[o].at
<1>1. ASSUME PagingInv, PagerNext, NEW o \in Existing
      PROVE  Stay(o)
  <2> DEFINE s == State({})
             w == State({})'
  <2>1. PlacesKept(s, w)
    BY <1>1, StepFits DEF NextFits
  <2>2. /\ s.pte = pte /\ s.touched = touched /\ s.mapped = mapped /\ On(s) = Existing
        /\ w.pte = pte' /\ w.touched = touched' /\ w.mapped = mapped'
    BY DEF State, On, Existing
  <2> HIDE DEF s, w
  <2> QED
    BY <1>1, <2>1, <2>2 DEF PlacesKept, Stays, IsValid
<1>2. PagingInv /\ [PagerNext]_vars => [\A o \in Existing : Stay(o)]_vars
  BY <1>1
<1> HIDE DEF Stay
<1>3. PagerSpec => [][\A o \in Existing : Stay(o)]_vars
  BY <1>2, PagingInvHolds, PTL DEF PagerSpec
<1> QED
  BY <1>3 DEF TouchedPagesStay, Stay

\* What a program sees of each page, as the refinement maps it.
LEMMA ContentsAreSeen ==
  /\ On(State({})) = Existing /\ State({}).asked = asked /\ State({}).mapped = mapped /\ State({}).file = file
  /\ \A o \in Existing : Contents(o) = Seen(State({}), o)
<1> DEFINE s == State({})
<1>1. /\ s.pte = pte /\ s.ram = ram /\ s.file = file /\ s.disk = disk
      /\ s.asked = asked /\ s.mapped = mapped /\ On(s) = Existing
  BY DEF State, On, Existing
<1> HIDE DEF s
<1>2. \A o \in Existing : Contents(o) = Seen(s, o)
  BY <1>1 DEF Contents, Seen, HasFrame
<1> QED
  BY <1>1, <1>2 DEF s

\* The variables of VirtualMemory, of a state s.
MemoryOf(s) == [o \in On(s) |-> Seen(s, o)]
SharedOf(s) == {o \in On(s) : s.mapped[o] = "writeBack"}
StoredOf(s) == [o \in On(s) |-> IF s.mapped[o] = "writeBack" THEN Seen(s, o) ELSE s.file[o]]

\* What a step of VirtualMemory's is, of two states.
Stutters(s, w) ==
  w.asked = s.asked /\ MemoryOf(w) = MemoryOf(s) /\ StoredOf(w) = StoredOf(s) /\ SharedOf(w) = SharedOf(s)

Creates(s, w, o) ==
  /\ w.asked = [s.asked EXCEPT ![o] = 0] /\ MemoryOf(w) = w.asked
  /\ SharedOf(w) = SharedOf(s) \ {o} /\ StoredOf(w) = StoredOf(s)

Writes(s, w, o, contents) ==
  /\ w.asked = [s.asked EXCEPT ![o] = contents] /\ MemoryOf(w) = w.asked /\ SharedOf(w) = SharedOf(s)
  /\ StoredOf(w) = IF o \in SharedOf(s) THEN [StoredOf(s) EXCEPT ![o] = contents] ELSE StoredOf(s)

LEMMA AskedIsMemory ==
  ASSUME NEW s, s.asked \in [On(s) -> Data], AsAsked(s)
  PROVE  MemoryOf(s) = s.asked
BY DEF MemoryOf, AsAsked

LEMMA UnseenStutters ==
  ASSUME NEW s, NEW w, Unseen(s, w), On(w) = On(s)
  PROVE  Stutters(s, w)
<1>1. MemoryOf(w) = MemoryOf(s)
  BY DEF Unseen, MemoryOf
<1>2. SharedOf(w) = SharedOf(s)
  BY DEF Unseen, SharedOf
<1>3. StoredOf(w) = StoredOf(s)
  BY DEF Unseen, StoredOf
<1> QED
  BY <1>1, <1>2, <1>3 DEF Stutters, Unseen

LEMMA ZeroesCreates ==
  ASSUME NEW s, Typed(s), NEW w, w.asked \in [On(w) -> Data], AsAsked(w), On(w) = On(s), NEW o \in On(s), Zeroes(s, w, o)
  PROVE  Creates(s, w, o)
<1>1. s.mapped \in [On(s) -> SectionKinds]
  BY DEF Typed, States
<1>2. SharedOf(w) = SharedOf(s) \ {o}
  BY <1>1 DEF Zeroes, SharedOf
<1>3. ASSUME NEW q \in On(s)
      PROVE  StoredOf(w)[q] = StoredOf(s)[q]
  BY <1>1, <1>3 DEF Zeroes, StoredOf
<1>4. StoredOf(w) = StoredOf(s)
  BY <1>3 DEF StoredOf
<1> QED
  BY <1>2, <1>4, AskedIsMemory DEF Creates, Zeroes

LEMMA WroteWrites ==
  ASSUME NEW s, Typed(s), NEW w, w.asked \in [On(w) -> Data], AsAsked(w), On(w) = On(s), NEW o \in On(s), NEW contents,
         Wrote(s, w, o, contents)
  PROVE  Writes(s, w, o, contents)
<1>1. SharedOf(w) = SharedOf(s)
  BY DEF Wrote, SharedOf
<1>2. ASSUME NEW q \in On(s)
      PROVE  StoredOf(w)[q] = IF q = o /\ o \in SharedOf(s) THEN contents ELSE StoredOf(s)[q]
  BY <1>2 DEF Wrote, StoredOf, SharedOf
<1>3. StoredOf(w) = IF o \in SharedOf(s) THEN [StoredOf(s) EXCEPT ![o] = contents] ELSE StoredOf(s)
  BY <1>2 DEF StoredOf
<1> QED
  BY <1>1, <1>3, AskedIsMemory DEF Writes, Wrote

\* The mapping of VirtualMemory's variables is of the state before and of the one after.
LEMMA MemoryIs ==
  /\ [o \in Existing |-> Contents(o)] = MemoryOf(State({}))
  /\ {o \in Existing : mapped[o] = "writeBack"} = SharedOf(State({}))
  /\ [o \in Existing |-> IF mapped[o] = "writeBack" THEN Contents(o) ELSE file[o]] = StoredOf(State({}))
<1> DEFINE s == State({})
<1>1. On(s) = Existing /\ s.mapped = mapped /\ s.file = file /\ \A o \in Existing : Contents(o) = Seen(s, o)
  BY ContentsAreSeen
<1> HIDE DEF s
<1>2. [o \in Existing |-> Contents(o)] = MemoryOf(s)
  BY <1>1 DEF MemoryOf
<1>3. {o \in Existing : mapped[o] = "writeBack"} = SharedOf(s)
  BY <1>1 DEF SharedOf
<1>4. [o \in Existing |-> IF mapped[o] = "writeBack" THEN Contents(o) ELSE file[o]] = StoredOf(s)
  BY <1>1 DEF StoredOf
<1> QED
  BY <1>2, <1>3, <1>4 DEF s

LEMMA MemoryIsNext ==
  /\ [o \in Existing |-> Contents(o)]' = MemoryOf(State({})')
  /\ {o \in Existing : mapped[o] = "writeBack"}' = SharedOf(State({})')
  /\ [o \in Existing |-> IF mapped[o] = "writeBack" THEN Contents(o) ELSE file[o]]' = StoredOf(State({})')
<1>1. (/\ [o \in Existing |-> Contents(o)] = MemoryOf(State({}))
       /\ {o \in Existing : mapped[o] = "writeBack"} = SharedOf(State({}))
       /\ [o \in Existing |-> IF mapped[o] = "writeBack" THEN Contents(o) ELSE file[o]] = StoredOf(State({})))'
  BY MemoryIs, PTL
<1> QED
  BY <1>1

LEMMA MemoryInit == PagerInit => Memory!Init
<1> SUFFICES ASSUME PagerInit
             PROVE  Memory!Init
  OBVIOUS
<1> DEFINE s == State({})
           memory == [o \in Existing |-> Contents(o)]
           stored == [o \in Existing |-> IF mapped[o] = "writeBack" THEN Contents(o) ELSE file[o]]
           shared == {o \in Existing : mapped[o] = "writeBack"}
<1>1. \A o \in Existing : Contents(o) = asked[o]
  BY ContentsAreSeen, FirstPages
<1>2. \A o \in Existing : /\ file[o] = FileValue[o] /\ asked[o] \in {0, FileValue[o]}
                          /\ (mapped[o] = "writeBack" => asked[o] = file[o])
  BY FirstPages
<1>3. asked = memory
  BY <1>1 DEF PagerInit
<1>4. DOMAIN memory = Existing /\ shared \subseteq Existing
  OBVIOUS
<1>5. stored = [o \in Existing |-> FileValue[o]]
  BY <1>1, <1>2
<1>6. \A o \in Existing : memory[o] \in {0, FileValue[o]} /\ (o \in shared => memory[o] = FileValue[o])
  BY <1>1, <1>2
<1> QED
  BY <1>3, <1>4, <1>5, <1>6 DEF Memory!Init

LEMMA MemoryNext == PagingInv /\ [PagerNext]_vars =>
   [Memory!Next]_<<asked, [o \in Existing |-> Contents(o)],
                   [o \in Existing |-> IF mapped[o] = "writeBack" THEN Contents(o) ELSE file[o]],
                   {o \in Existing : mapped[o] = "writeBack"}>>
<1> DEFINE memory == [o \in Existing |-> Contents(o)]
           stored == [o \in Existing |-> IF mapped[o] = "writeBack" THEN Contents(o) ELSE file[o]]
           shared == {o \in Existing : mapped[o] = "writeBack"}
<1> SUFFICES ASSUME PagingInv, [PagerNext]_vars
             PROVE  Memory!Next \/ UNCHANGED <<asked, memory, stored, shared>>
  OBVIOUS
<1> DEFINE s == State({})
           w == State({})'
<1>1. CASE UNCHANGED vars
  BY <1>1 DEF vars, Contents, Existing
<1>2. CASE PagerNext
  <2>1. Changes(s, w) /\ On(w) = On(s) /\ Fair(w, {})
    BY <1>2, StepFits DEF NextFits
  <2>2. Typed(s) /\ AsAsked(s)
    BY ContentsAreSeen DEF PagingInv, Fair, AsAsked
  <2>3. w.asked \in [On(w) -> Data] /\ AsAsked(w)
    BY <2>1, <2>2, AskedFits DEF Fair, Typed, States
  <2>4. s.asked = asked /\ w.asked = asked' /\ On(s) = Existing
    BY DEF State, On, Existing
  <2>5. memory = MemoryOf(s) /\ stored = StoredOf(s) /\ shared = SharedOf(s) /\ DOMAIN memory = Existing
    BY MemoryIs
  <2>6. memory' = MemoryOf(w) /\ stored' = StoredOf(w) /\ shared' = SharedOf(w)
    BY MemoryIsNext
  <2> HIDE DEF s, w
  <2>7. CASE Unseen(s, w)
    <3>1. Stutters(s, w)
      BY <2>1, <2>7, UnseenStutters
    <3> QED
      BY <2>4, <2>5, <2>6, <3>1 DEF Stutters
  <2>8. ASSUME NEW o \in On(s), Zeroes(s, w, o)
        PROVE  Memory!Next
    <3>1. Creates(s, w, o)
      BY <2>1, <2>2, <2>3, <2>8, ZeroesCreates
    <3>2. Memory!Create(o)
      BY <2>4, <2>5, <2>6, <3>1 DEF Creates, Memory!Create
    <3> QED
      BY <2>4, <2>5, <3>2 DEF Memory!Next
  <2>9. ASSUME NEW o \in On(s), NEW contents \in Values[o], Wrote(s, w, o, contents)
        PROVE  Memory!Next
    <3>1. Writes(s, w, o, contents)
      BY <2>1, <2>2, <2>3, <2>9, WroteWrites
    <3>2. Memory!Write(o, contents)
      BY <2>4, <2>5, <2>6, <3>1 DEF Writes, Memory!Write
    <3> QED
      BY <2>4, <2>5, <3>2 DEF Memory!Next
  <2> QED
    BY <2>1, <2>7, <2>8, <2>9 DEF Changes
<1> QED
  BY <1>1, <1>2

\* The pager implements VirtualMemory: a program reads in each page what it last
\* wrote there, zeroes or its section's contents before that, wherever the pager
\* kept the page meanwhile.
THEOREM PagingImplementsMemory == PagerSpec => PagingIsInvisible
<1>1. PagerSpec => Memory!Init
  BY MemoryInit DEF PagerSpec
<1> QED
  BY <1>1, MemoryNext, PagingInvHolds, PTL DEF PagerSpec, PagingIsInvisible, Memory!Spec

=============================================================================
