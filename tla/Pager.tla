-------------------------------- MODULE Pager --------------------------------
(***************************************************************************)
(* Demand paging: how a page moves between its frame, the page lists, the  *)
(* page file and its section's file as processes touch, delete, lock,      *)
(* purge and update pages.  One call of the code runs through many others: *)
(* a fault adds the page to the working set, which evicts another, whose   *)
(* frame may wake the modified page writer, before a frame is taken whose  *)
(* last page must be told.  Those routines are operators on a record s of  *)
(* all the state, and an action is the whole of one call.                  *)
(*                                                                         *)
(* Modelled: private pages of P0: demand-zero, and of private sections     *)
(* that are copy-on-reference, written back, or read-only (an image's,     *)
(* which fixups still write).  Each of a process's pages of one kind is a  *)
(* page of one section.  Global sections, S0 and failing disks are not.    *)
(***************************************************************************)
EXTENDS PageFrames, WorkingSetList, PageFileMap

CONSTANTS
  Procs,          \* the processes
  Mappings,       \* the pages the processes may have, and how they are mapped at first
  Values,         \* what may be written to each page; 0 is a page of zeros
  FileValue,      \* what a section's file holds for each page at first
  DefaultSize,    \* DFWSCNT: each working set's first limit
  Limits,         \* the limits $ADJWSL is asked for
  FreeLimit,      \* FREELIM
  FreeGoal,       \* FREEGOAL
  HiLimit,        \* MPW_HILIMIT
  LoLimit,        \* MPW_LOLIMIT
  Locks,          \* which locks processes take on their pages, in Procs \X LockKinds
  ReadCluster,    \* PFCDEFAULT
  MaxSystem,      \* how many frames S0 pages may come to take
  MaxKept,        \* how many frames outlive an instruction: the STC's, the fetch window's
  PageFileNamed,  \* whether the configuration names a page file
  PageFileAtBoot  \* whether it is open once the system is up

SectionKinds == {"none", "copyOnRef", "writeBack", "readOnly"}

ASSUME PagerAssumption ==
  /\ Owners \subseteq Procs \X Pages
  /\ \A m \in Mappings : DOMAIN m \subseteq Owners /\ m \in [DOMAIN m -> SectionKinds]
  /\ DOMAIN Values = Owners /\ DOMAIN FileValue = Owners /\ DOMAIN DefaultSize = Procs
  /\ Locks \subseteq Procs \X LockKinds
  /\ Frames # 0 /\ IsFiniteSet(Procs)
  /\ \A p \in Procs : DefaultSize[p] \in Int
  /\ Limits \subseteq Int /\ ReadCluster \in Nat
  /\ PageFileAtBoot \subseteq {"unopened", "open", "failed"}
  /\ [kind : {"pageFile"}, at : 0 .. FileSize] \cup [kind : {"section"}, at : Pages] \subseteq Stores

VARIABLES
  pte,        \* each page's page table entry
  mapped,     \* the section a page still belongs to
  ws,         \* each process's working set list
  ram,        \* what each frame holds
  disk,       \* what each page file block holds
  file,       \* what the section's file holds for each page
  map,        \* the page file's allocation map
  pageFile,   \* pageFileState
  stuck,      \* mpwStuck, reclaimStuck and pageFileFull
  boundary,   \* whether a routine waits for the next instruction boundary
  touched,    \* the frames translated in this instruction
  current,    \* the process the CPU runs
  asked       \* what each page's program last put in it: a history, read by no action

vars == <<db, pte, mapped, ws, ram, disk, file, map, pageFile, stuck, boundary, touched, current, asked>>

\* The state as a call starts, with inTB, the pages of the current process the
\* translation buffer still holds.
State(inTB) ==
  [db |-> db, pte |-> pte, mapped |-> mapped, ws |-> ws, ram |-> ram, disk |-> disk,
   file |-> file, map |-> map, pageFile |-> pageFile, stuck |-> stuck, boundary |-> boundary,
   touched |-> touched, asked |-> asked, inTB |-> inTB]

\* The state a call leaves.  What a free block or a frame no page is tied to
\* holds is nobody's to read, and is kept as 0.
Become(s) ==
  /\ db' = s.db /\ pte' = s.pte /\ mapped' = s.mapped /\ ws' = s.ws
  /\ ram' = [f \in PFN |-> IF s.db.entry[f].tied THEN s.ram[f] ELSE 0]
  /\ disk' = [b \in Blocks |-> IF b \in s.map.inUse THEN s.disk[b] ELSE 0]
  /\ file' = s.file /\ map' = s.map /\ pageFile' = s.pageFile
  /\ stuck' = s.stuck /\ boundary' = s.boundary /\ touched' = s.touched /\ asked' = s.asked

\* The pages there are: the same from first to last, as a deleted page is here
\* always created anew.
Existing == DOMAIN mapped
PagesOf(p) == {v \in Pages : <<p, v>> \in Existing}
Processes == {o[1] : o \in Existing}

-----------------------------------------------------------------------------
(* Page table entries and backing stores. *)

Valid(f) == [form |-> "valid", at |-> f, modified |-> FALSE]
Transition(f) == [form |-> "transition", at |-> f, modified |-> FALSE]
PageFileForm(b) == [form |-> "pageFile", at |-> b, modified |-> FALSE]   \* 0: demand zero
SectionForm(v) == [form |-> "section", at |-> v, modified |-> FALSE]

IsValid(s, o) == s.pte[o].form = "valid"
InTransition(s, o) == s.pte[o].form = "transition"

InPageFile(b) == [kind |-> "pageFile", at |-> b]     \* 0: a block when it is written
InSection(o) == [kind |-> "section", at |-> o[2]]

\* backingPTE
BackingForm(store) ==
  IF store.kind = "section" THEN SectionForm(store.at)
  ELSE IF store.kind = "pageFile" THEN PageFileForm(store.at) ELSE PageFileForm(0)

\* Mutant: only a page of the page file is told.
BreakPageFileTie(s, f) ==
  LET e == s.db.entry[f]
  IN IF e.tied /\ e.backing.kind # "section" /\ s.pte[e.owner] = Transition(f)
     THEN [s EXCEPT !.pte[e.owner] = BackingForm(e.backing)] ELSE s

\* BreakTie: the page that loses its frame finds its contents in its backing.
BreakTie(s, f) ==
  LET e == s.db.entry[f]
  IN IF e.tied /\ s.pte[e.owner] = Transition(f) THEN [s EXCEPT !.pte[e.owner] = BackingForm(e.backing)]
     ELSE s

-----------------------------------------------------------------------------
(* The page file. *)

AtNextInstruction(s) == [s EXCEPT !.boundary = TRUE]

PageFileWanted(s) == s.pageFile = "unopened" /\ PageFileNamed

\* FreePageFile: with room in a file that was full, the writer may try again.
FreePageFile(s, run) ==
  IF run = {} \/ s.pageFile # "open" \/ ~CanFreeRun(s.map, run) THEN s
  ELSE LET freed == [s EXCEPT !.map = FreeBlocks(@, run)]
       IN IF s.stuck.full THEN [freed EXCEPT !.stuck = [writer |-> 0, reclaimer |-> 0, full |-> FALSE]]
          ELSE freed

BlockOf(store) == IF store.kind = "pageFile" /\ store.at # 0 THEN {store.at} ELSE {}

\* Mutant: the block is freed, and the frame's backing still names it.
ForgetBlockOnly(s, f) == FreePageFile(s, BlockOf(s.db.entry[f].backing))

\* forgetPageFileBlock: a page modified again no longer matches its block.
ForgetPageFileBlock(s, f) ==
  LET store == s.db.entry[f].backing
  IN IF BlockOf(store) = {} THEN s
     ELSE [FreePageFile(s, BlockOf(store)) EXCEPT !.db = SetBacking(@, f, InPageFile(0))]

\* leaveReadOnlySection: a modified page of a section not written back.
LeaveReadOnlySection(s, f) ==
  LET e == s.db.entry[f]
  IN IF e.backing.kind = "section" /\ s.mapped[e.owner] \notin {"none", "writeBack"}
     THEN [s EXCEPT !.db = SetBacking(@, f, InPageFile(0))] ELSE s

-----------------------------------------------------------------------------
(* The modified page writer. *)

IsModified(s, f) == s.db.entry[f].state = "modified"

PageFileBound(s, f) == s.db.entry[f].tied /\ s.db.entry[f].backing.kind \in {"pageFile", "none"}

SectionBound(s, f) ==
  LET e == s.db.entry[f]
  IN e.tied /\ e.backing.kind = "section" /\ s.mapped[e.owner] = "writeBack"

\* The frames that wait to be written to the page file, and to a section's file.
ToPageFile(s) == {f \in PFN : IsModified(s, f) /\ PageFileBound(s, f)}
ToSection(s) == {f \in PFN : IsModified(s, f) /\ SectionBound(s, f)}

\* miniCluster: the frame with its neighbours in the page table, first below,
\* then above, whose frames are in waiting: those to be written to the same place.
MiniCluster(s, f, size, waiting) ==
  LET p == s.db.entry[f].owner[1]
      page == s.db.entry[f].owner[2]
      frame(v) == s.pte[<<p, v>>].at
      joins(v) == /\ v \in PagesOf(p) /\ InTransition(s, <<p, v>>)
                  /\ frame(v) \in waiting /\ s.db.entry[frame(v)].owner = <<p, v>>
      below == Max({n \in 0 .. size - 1 : \A i \in 1 .. n : joins(page - i)})
      above == Max({n \in 0 .. size - 1 - below : \A i \in 1 .. n : joins(page + i)})
  IN [i \in 1 .. below + 1 + above |->
        IF i = below + 1 THEN f ELSE frame(page - below + i - 1)]

WriteToSection(s, f) ==
  [s EXCEPT !.file[s.db.entry[f].owner] = s.ram[f], !.db = Cleaned(@, f)]

WriteSectionCluster(s, f) ==
  FoldLeft(WriteToSection, s, MiniCluster(s, f, WriteCluster, ToSection(s)))

WriteToBlock(s, f, b) ==
  LET freed == FreePageFile(s, BlockOf(s.db.entry[f].backing))
  IN [freed EXCEPT !.disk[b] = s.ram[f], !.db = Cleaned(SetBacking(@, f, InPageFile(b)), f)]

\* The frames, in the list's order and with their neighbours, that fill a run of
\* room blocks.
MoreOfCluster(s, cluster, f, room) ==
  LET waiting == ToPageFile(s) \ ToSet(cluster)
  IN IF Len(cluster) = room \/ f \notin waiting THEN cluster
     ELSE cluster \o MiniCluster(s, f, room - Len(cluster), waiting)

PageFileCluster(s, frames, room) ==
  FoldLeft(LAMBDA cluster, f : MoreOfCluster(s, cluster, f, room), <<>>, frames)

\* The pages of a cluster to the blocks of the run they were given; those left
\* over are given back.
WriteInRun(s, cluster, run) ==
  FreePageFile(
    FoldLeft(LAMBDA t, i : WriteToBlock(t, cluster[i], Min(run) + i - 1), s, [i \in DOMAIN cluster |-> i]),
    {b \in run : b >= Min(run) + Len(cluster)})

WriteWith(s, frames, given) ==
  WriteInRun([s EXCEPT !.map = given.map], PageFileCluster(s, frames, Cardinality(given.run)), given.run)

Wanted(s, frames) ==
  Min({Cardinality(ToSet(frames) \cap ToPageFile(s)), WriteCluster})

\* writePageFileCluster, of the frames still to be looked at; written says
\* whether there was a block.
WritePageFileCluster(s, frames) ==
  IF s.pageFile # "open" THEN [s |-> s, written |-> FALSE]
  ELSE IF ~CanAllocateRun(s.map, Wanted(s, frames))
    THEN [s |-> [s EXCEPT !.stuck.full = TRUE], written |-> FALSE]
  ELSE [s |-> WriteWith(s, frames, AllocateRun(s.map, Wanted(s, frames))), written |-> TRUE]

\* A page the page file has no room for is passed over, and those after it.
AfterPageFile(r, try) ==
  IF try.written THEN [r EXCEPT !.s = try.s]
  ELSE [s |-> try.s, passed |-> r.passed + 1, tryFile |-> FALSE]

\* One turn of writeModifiedPages' loop, at the i-th frame of the list as it was.
WriteNext(r, frames, i, goal) ==
  IF Len(r.s.db.modified) <= goal \/ ~IsModified(r.s, frames[i]) THEN r
  ELSE IF SectionBound(r.s, frames[i]) THEN [r EXCEPT !.s = WriteSectionCluster(@, frames[i])]
  ELSE IF r.tryFile /\ PageFileBound(r.s, frames[i])
    THEN AfterPageFile(r, WritePageFileCluster(r.s, SubSeq(frames, i, Len(frames))))
  ELSE [r EXCEPT !.passed = @ + 1]

\* writeModifiedPages, down to goal: passed counts the frames it cannot write.
WriteModifiedPages(s, goal) ==
  FoldLeft(LAMBDA r, i : WriteNext(r, s.db.modified, i, goal),
           [s |-> s, passed |-> 0, tryFile |-> TRUE], [i \in DOMAIN s.db.modified |-> i])

WriterGoal == Max({HiLimit - WriteCluster, LoLimit})

AfterWriter(run) == [run.s EXCEPT !.stuck.writer = run.passed]

WakeModifiedPageWriter(s) ==
  IF Len(s.db.modified) <= HiLimit THEN [s EXCEPT !.stuck.writer = 0]
  ELSE LET waiting == [s EXCEPT !.boundary = @ \/ PageFileWanted(s)]
       IN IF Len(s.db.modified) <= HiLimit + s.stuck.writer THEN waiting
          ELSE AfterWriter(WriteModifiedPages(waiting, WriterGoal))

-----------------------------------------------------------------------------
(* Working sets. *)

\* Mutant: nothing translated in this instruction is protected.
UnprotectedConditions(s, p) ==
  [free |-> Len(s.db.free), protected |-> {}, inTB |-> IF p = current THEN s.inTB ELSE {}]

\* replacementConditions
Conditions(s, p) ==
  [free |-> Len(s.db.free),
   protected |-> {v \in PagesOf(p) : IsValid(s, <<p, v>>) /\ s.pte[<<p, v>>].at \in s.touched},
   inTB |-> IF p = current THEN s.inTB ELSE {}]

\* evictPage: the page's own frame goes to the list its modify bits choose.
AfterRelease(s, f) ==
  IF ~IsModified(s, f) THEN s
  ELSE WakeModifiedPageWriter(LeaveReadOnlySection(ForgetPageFileBlock(s, f), f))

EvictPage(s, o) ==
  LET f == s.pte[o].at
      e == s.db.entry[f]
  IN IF ~IsValid(s, o) \/ e.state # "active" \/ e.owner # o \/ e.refs # 1 THEN s
     ELSE AfterRelease([s EXCEPT !.pte[o] = Transition(f), !.db = Release(@, f, s.pte[o].modified)], f)

\* The list as a call left it, and the pages it took out evicted.
WithList(s, p, r) ==
  FoldLeft(LAMBDA t, v : EvictPage(t, <<p, v>>), [s EXCEPT !.ws[p] = r.list], r.out)

TrimIfOver(s, p) == IF Over(s.ws[p]) THEN AtNextInstruction(s) ELSE s

EnterWorkingSet(s, p, v) ==
  IF v \in PagesIn(s.ws[p]) THEN s
  ELSE TrimIfOver(WithList(s, p, Add(s.ws[p], v, Conditions(s, p))), p)

LeaveWorkingSet(s, p, v) ==
  IF v \in PagesIn(s.ws[p]) THEN [s EXCEPT !.ws[p] = RemovePage(@, v)] ELSE s

-----------------------------------------------------------------------------
(* Page faults. *)

WakeReclaimerIfLow(s) == IF Len(s.db.free) < FreeLimit THEN AtNextInstruction(s) ELSE s

\* AllocateFrame, with the contents the page is given.
TakeFrameFor(s, o, store, contents) ==
  LET f == NextFrame(s.db)
  IN WakeReclaimerIfLow([BreakTie(s, f) EXCEPT !.db = Allocate(@, "process", o, store),
                                               !.ram[f] = contents])

\* Mutant: a page is modified only when it is written.
SaveNothing(s, f) == s

SaveModify(s, f) == [s EXCEPT !.db = SetModified(@, f)]

\* resolveFault, by the PTE the access found; a demand-zero or copy-on-reference
\* page is effectively modified from the first.
CanResolveFault(s, o, found) ==
  IF found.form = "transition" THEN s.db.entry[found.at].tied /\ s.db.entry[found.at].owner = o
  ELSE CanAllocate(s.db) /\ (found.form = "pageFile" /\ found.at # 0 => s.pageFile = "open")

SoftFault(s, f) ==
  LET reclaimed == [s EXCEPT !.db = Reclaim(@, f)]
  IN IF s.db.entry[f].state = "free" THEN WakeReclaimerIfLow(reclaimed) ELSE reclaimed

ResolveFault(s, o, found) ==
  LET f == IF found.form = "transition" THEN found.at ELSE NextFrame(s.db)
      resolved ==
        IF found.form = "transition" THEN SoftFault(s, f)
        ELSE IF found.form = "section" /\ s.mapped[o] = "copyOnRef" THEN
          SaveModify(TakeFrameFor(s, o, InPageFile(0), s.file[o]), f)
        ELSE IF found.form = "section" THEN TakeFrameFor(s, o, InSection(o), s.file[o])
        ELSE IF found.at # 0 THEN TakeFrameFor(s, o, InPageFile(found.at), s.disk[found.at])
        ELSE SaveModify(TakeFrameFor(s, o, InPageFile(0), 0), f)
  IN [resolved EXCEPT !.pte[o] = Valid(f)]

\* A page k pages away in the same backing store as the faulting one.
ClusterMatch(s, o, found, near) ==
  /\ near \in Existing /\ s.pte[near].form = found.form
  /\ IF found.form = "section" THEN s.mapped[near] = s.mapped[o]
     ELSE s.pte[near].at # 0 /\ s.pte[near].at - found.at = near[2] - o[2]

\* readNeighbor: the page takes an available entry and a free frame.
ResolveNeighbor(s, near, found, read) ==
  IF CanResolveFault(s, near, found)
    THEN [s |-> ResolveFault(s, near, found), stopped |-> FALSE, read |-> read + 1]
  ELSE [s |-> LeaveWorkingSet(s, near[1], near[2]), stopped |-> TRUE, read |-> read]

ReadNeighbor(r, o, found, near) ==
  IF /\ ~r.stopped /\ ClusterMatch(r.s, o, found, near) /\ CanAllocate(r.s.db)
     /\ CanAddAvailable(r.s.ws[o[1]], Conditions(r.s, o[1]))
  THEN ResolveNeighbor([r.s EXCEPT !.ws[o[1]] = AddAvailable(@, near[2])], near, r.s.pte[near], r.read)
  ELSE [r EXCEPT !.stopped = TRUE]

ScanCluster(s, o, found, dir) ==
  FoldLeft(LAMBDA r, k : ReadNeighbor(r, o, found, <<o[1], o[2] + dir * k>>),
           [s |-> s, stopped |-> FALSE, read |-> 0], [k \in 1 .. ReadCluster - 1 |-> k])

\* readCluster: the pages above, or, if there is none, those below.
ReadDown(s, up, o, found) == IF up.read > 0 THEN up.s ELSE ScanCluster(s, o, found, -1).s

ReadNeighbors(s, o, found) ==
  IF found.form = "section" \/ (found.form = "pageFile" /\ found.at # 0)
    THEN ReadDown(s, ScanCluster(s, o, found, 1), o, found) ELSE s

\* Mutant: a page whose fault fails keeps its working set entry.
AfterEnteringForGood(s, o, found) ==
  IF CanResolveFault(s, o, found) THEN ReadNeighbors(ResolveFault(s, o, found), o, found) ELSE s

\* PageIn: room in the working set first, then the frame, then the neighbours.
AfterEntering(s, o, found) ==
  IF CanResolveFault(s, o, found) THEN ReadNeighbors(ResolveFault(s, o, found), o, found)
  ELSE LeaveWorkingSet(s, o[1], o[2])

PageIn(s, o) == AfterEntering(EnterWorkingSet(s, o[1], o[2]), o, s.pte[o])

\* Translate: the page faulted in if it has to be, its frame noted.
NoteTranslated(s, o) == IF IsValid(s, o) THEN [s EXCEPT !.touched = @ \cup {s.pte[o].at}] ELSE s

Translate(s, o) == NoteTranslated(IF IsValid(s, o) THEN s ELSE PageIn(s, o), o)

-----------------------------------------------------------------------------
(* What the current process does in an instruction. *)

Read(v, inTB) ==
  Become(Translate(State(inTB), <<current, v>>)) /\ UNCHANGED current

\* A write sets the PTE's modify bit; a fault that fails writes nothing.
Store(s, o, contents) ==
  IF IsValid(s, o)
    THEN [s EXCEPT !.pte[o].modified = TRUE, !.ram[s.pte[o].at] = contents, !.asked[o] = contents]
  ELSE s

Write(v, contents, inTB) ==
  Become(Store(Translate(State(inTB), <<current, v>>), <<current, v>>, contents)) /\ UNCHANGED current

\* A fault on a page of S0, which enters no working set and is tied to nothing.
SystemFrames == {f \in PFN : IsActive(db, f) /\ db.entry[f].type = "system"}

SystemFault ==
  LET f == NextFrame(db)
  IN /\ CanAllocate(db) /\ Cardinality(SystemFrames) <= MaxSystem   \* frame 0 is one
     /\ Become(WakeReclaimerIfLow([BreakTie(State({}), f) EXCEPT !.db = AllocateSystem(@),
                                                                 !.touched = @ \cup {f}]))
     /\ UNCHANGED current

\* releasePTE: the page leaves the working set, its block and its section, and a
\* modified page of a section written back is written.
HeldFrame(s, o) ==
  LET e == s.db.entry[s.pte[o].at]
  IN IsValid(s, o) \/ (InTransition(s, o) /\ e.tied /\ e.owner = o /\ e.state # "active")

ReleaseBlock(s, o) ==
  IF s.pte[o].form = "pageFile" THEN FreePageFile(s, BlockOf(InPageFile(s.pte[o].at)))
  ELSE IF HeldFrame(s, o) THEN ForgetPageFileBlock(s, s.pte[o].at) ELSE s

WriteBack(s, o) ==
  LET f == s.pte[o].at
  IN IF s.mapped[o] = "writeBack" /\ (s.pte[o].modified \/ s.db.entry[f].saved)
     THEN [s EXCEPT !.file[o] = s.ram[f]] ELSE s

ReleasePTE(s, o) ==
  LET left == LeaveWorkingSet(s, o[1], o[2])
      freed == ReleaseBlock(left, o)
      unmapped == [freed EXCEPT !.mapped[o] = "none"]
  IN IF s.pte[o].form = "section" \/ ~HeldFrame(s, o) THEN unmapped
     ELSE [WriteBack(freed, o) EXCEPT !.mapped[o] = "none", !.db = Delete(@, s.pte[o].at)]

\* createPage, $CRETVA's: whatever the page was, it is demand zero.
CreatePage(v) ==
  LET o == <<current, v>>
  IN Become([ReleasePTE(State({}), o) EXCEPT !.pte[o] = PageFileForm(0), !.asked[o] = 0])
     /\ UNCHANGED current

\* $ADJWSL: setWorkingSetLimit
AdjustLimit(n, inTB) ==
  LET s == State(inTB)
  IN /\ Become(TrimIfOver(WithList(s, current, Resize(ws[current], n, Conditions(s, current))), current))
     /\ UNCHANGED current

\* $PURGWS of the whole address space.
PurgeWorkingSet ==
  LET s == State({})
  IN Become(WithList(s, current, Purge(ws[current], Conditions(s, current)))) /\ UNCHANGED current

\* lockInWorkingSet: the page is faulted in before it is locked.
LockIfIn(s, v, kind) ==
  IF v \in PagesIn(s.ws[current]) /\ CanLock(s.ws[current], v, kind)
    THEN [s EXCEPT !.ws[current] = LockPage(@, v, kind)] ELSE s

LockInWorkingSet(v, kind, inTB) ==
  /\ Become(LockIfIn(IF v \in PagesIn(ws[current]) THEN State(inTB)
                     ELSE Translate(State(inTB), <<current, v>>), v, kind))
  /\ UNCHANGED current

UnlockInWorkingSet(v, kind) ==
  /\ v \in PagesIn(ws[current]) /\ kind \in ws[current].slots[SlotOf(ws[current], v)].locks
  /\ ws' = [ws EXCEPT ![current] = UnlockPage(@, v, kind)]
  /\ UNCHANGED <<db, pte, mapped, ram, disk, file, map, pageFile, stuck, boundary, touched, current, asked>>

\* $UPDSEC of one page: written if it is modified, wherever its frame is.
UpdateSection(v) ==
  LET s == State({})
      o == <<current, v>>
      f == pte[o].at
  IN /\ mapped[o] = "writeBack"
     /\ \/ IsValid(s, o) /\ (pte[o].modified \/ db.entry[f].saved)
           /\ Become([s EXCEPT !.file[o] = ram[f], !.pte[o].modified = FALSE, !.db = ClearModified(@, f)])
        \/ InTransition(s, o) /\ IsModified(s, f)
           /\ Become([s EXCEPT !.file[o] = ram[f], !.db = Cleaned(@, f)])
     /\ UNCHANGED current

-----------------------------------------------------------------------------
(* The instruction boundary: atInstructionBoundary. *)

TrimWorkingSet(s, p) ==
  IF Over(s.ws[p]) THEN WithList(s, p, Trim(s.ws[p], Conditions(s, p))) ELSE s

\* openWantedPageFile; opened says whether the file is there to open.
OpenWantedPageFile(s, limit, opened) ==
  IF ~PageFileWanted(s) \/ Len(s.db.modified) <= limit THEN s
  ELSE IF ~opened THEN [s EXCEPT !.pageFile = "failed"]
  ELSE WakeModifiedPageWriter([s EXCEPT !.pageFile = "open", !.stuck.writer = 0, !.stuck.reclaimer = 0])

\* reclaimWrite
AfterReclaimer(run) == [run.s EXCEPT !.stuck.reclaimer = run.passed]

WriteForReclaimer(s) ==
  IF Len(s.db.modified) > LoLimit + s.stuck.reclaimer THEN AfterReclaimer(WriteModifiedPages(s, LoLimit))
  ELSE s

ReclaimWrite(s, opened) == WriteForReclaimer(OpenWantedPageFile(s, LoLimit, opened))

\* trimToQuota
TrimToQuota(s, p) ==
  IF Len(s.db.free) >= FreeGoal \/ InUse(s.ws[p]) <= Quota THEN s
  ELSE WithList(s, p, Shrink(s.ws[p], Quota, Conditions(s, p)))

\* reclaim, the processes taken in an order the scheduler's states choose.
ReclaimAgain(s, opened) == IF Len(s.db.free) < FreeGoal THEN ReclaimWrite(s, opened) ELSE s

ReclaimFrames(s, order, opened) ==
  IF Len(s.db.free) >= FreeLimit THEN [s EXCEPT !.stuck.reclaimer = 0]
  ELSE ReclaimAgain(FoldLeft(TrimToQuota, ReclaimWrite(s, opened), order), opened)

\* atInstructionBoundary, the lists that grew past their limits trimmed in the
\* process table's order.
AtInstructionBoundary(s, table, order, opened) ==
  LET trimmed == FoldLeft(TrimWorkingSet, [s EXCEPT !.boundary = FALSE], table)
  IN ReclaimFrames(OpenWantedPageFile(trimmed, HiLimit, opened), order, opened)

\* BeginInstruction: only the frames behind the STC and the instruction-fetch
\* window stay noted, and the routine that waits is run; then the scheduler may
\* switch processes.
CanKeep(kept) == kept \subseteq touched /\ Cardinality(kept) <= MaxKept

BeginInstruction(kept, next) ==
  /\ ~boundary /\ CanKeep(kept)
  /\ touched' = kept /\ current' = next
  /\ UNCHANGED <<db, pte, mapped, ws, ram, disk, file, map, pageFile, stuck, boundary, asked>>

RunAtBoundary(kept, next, table, order, opened, inTB) ==
  /\ boundary /\ CanKeep(kept)
  /\ Become(AtInstructionBoundary([State(inTB) EXCEPT !.touched = kept], table, order, opened))
  /\ current' = next

-----------------------------------------------------------------------------
PagerInit ==
  /\ db = Reserve(NewDatabase, 0)
  /\ mapped \in Mappings
  /\ pte = [o \in Existing |-> IF mapped[o] = "none" THEN PageFileForm(0) ELSE SectionForm(o[2])]
  /\ ws = [p \in Procs |-> NewWorkingSet(DefaultSize[p])]
  /\ ram = [f \in PFN |-> 0] /\ disk = [b \in Blocks |-> 0] /\ file = [o \in Existing |-> FileValue[o]]
  /\ map = NewMap /\ pageFile \in PageFileAtBoot
  /\ stuck = [writer |-> 0, reclaimer |-> 0, full |-> FALSE]
  /\ boundary = FALSE /\ touched = {} /\ current \in Processes
  /\ asked = [o \in Existing |-> IF mapped[o] = "none" THEN 0 ELSE FileValue[o]]

\* The orders the processes may be taken in.
Orders == Surjection(1 .. Cardinality(Processes), Processes)

\* What the translation buffer may still hold of the pages it could; with TBSKIPWSL
\* 0 nobody asks.
TBContents ==
  IF TBSkip = 0 THEN {{}} ELSE SUBSET (PagesOf(current) \cap PagesIn(ws[current]))

LocksOf(p) == {kind \in LockKinds : <<p, kind>> \in Locks}

UsePages ==
  \E v \in PagesOf(current), inTB \in TBContents :
    \/ Read(v, inTB)
    \/ \E contents \in Values[<<current, v>>] : Write(v, contents, inTB)
    \/ \E kind \in LocksOf(current) : LockInWorkingSet(v, kind, inTB)

ChangePages ==
  \E v \in PagesOf(current) :
    CreatePage(v) \/ UpdateSection(v) \/ \E kind \in LocksOf(current) : UnlockInWorkingSet(v, kind)

ChangeWorkingSet ==
  PurgeWorkingSet \/ \E n \in Limits, inTB \in TBContents : AdjustLimit(n, inTB)

NextInstruction ==
  \E kept \in SUBSET touched, next \in Processes :
    \/ BeginInstruction(kept, next)
    \/ \E table, order \in Orders, opened \in {TRUE, pageFile # "unopened"}, inTB \in TBContents :
         RunAtBoundary(kept, next, table, order, opened, inTB)

PagerNext == UsePages \/ SystemFault \/ ChangePages \/ ChangeWorkingSet \/ NextInstruction

PagerSpec == PagerInit /\ [][PagerNext]_vars

-----------------------------------------------------------------------------
(* Properties. *)

\* A working set is a process's valid pages, in a list WorkingSet.Check accepts,
\* whatever evictions, deletions, locks and trims changed under it.
WorkingSetsAreValidPages ==
  \A p \in Processes :
    /\ ListOK(ws[p])
    /\ PagesIn(ws[p]) = {v \in PagesOf(p) : pte[<<p, v>>].form = "valid"}

\* The page tables and the database agree: a page's frame is tied to it, active
\* exactly while the page is valid, and no frame keeps a page that forgot it.
PagesOwnTheirFrames ==
  /\ \A o \in Existing : pte[o].form \in {"valid", "transition"} =>
       LET e == db.entry[pte[o].at]
       IN e.tied /\ e.owner = o /\ (e.state = "active" <=> pte[o].form = "valid")
  /\ \A f \in PFN : db.entry[f].tied =>
       LET e == pte[db.entry[f].owner] IN e.form \in {"valid", "transition"} /\ e.at = f

\* The block of the page file a page holds, in its PTE or as its frame's backing.
HeldBlock(o) ==
  IF pte[o].form = "pageFile" THEN pte[o].at
  ELSE IF pte[o].form # "section" /\ db.entry[pte[o].at].backing.kind = "pageFile"
    THEN db.entry[pte[o].at].backing.at ELSE 0

\* No page file block is lost or given out twice: a block is in use exactly while
\* one page holds it.
BlocksHaveOneHolder ==
  /\ MapOK(map)
  /\ \A o \in Existing : HeldBlock(o) # 0 => HeldBlock(o) \in map.inUse
  /\ \A b \in map.inUse : \E o \in Existing : HeldBlock(o) = b
  /\ \A o, q \in Existing : HeldBlock(o) = HeldBlock(q) /\ HeldBlock(o) # 0 => o = q

\* A frame an instruction has translated stays its page's until the instruction
\* is over, whatever else it faults in; only the page's deletion takes it.
TouchedPagesStay ==
  [][\A o \in Existing :
       /\ pte[o].form = "valid" /\ pte[o].at \in touched \cap touched'
       /\ mapped'[o] = mapped[o] /\ pte'[o] # PageFileForm(0)
       => pte'[o].form = "valid" /\ pte'[o].at = pte[o].at]_vars

\* What a program sees: memory and its files, with none of the above (module
\* VirtualMemory).
Contents(o) ==
  IF pte[o].form \in {"valid", "transition"} THEN ram[pte[o].at]
  ELSE IF pte[o].form = "section" THEN file[o]
  ELSE IF pte[o].at = 0 THEN 0 ELSE disk[pte[o].at]

Memory == INSTANCE VirtualMemory WITH
  memory <- [o \in Existing |-> Contents(o)],
  stored <- [o \in Existing |-> IF mapped[o] = "writeBack" THEN Contents(o) ELSE file[o]],
  shared <- {o \in Existing : mapped[o] = "writeBack"}

\* Paging is invisible: reading, evicting, writing, clustering, trimming and
\* reclaiming change nothing a program or a reader of the file can see.
PagingIsInvisible == Memory!Spec

=============================================================================
