# A TLA+ model of govax

govax emulates a VAX running VMS, in Go. These modules model the parts of it
that keep shared state for several processes and have rules about who may do
what next: the lock manager, RMS's record locks over it, the process scheduler,
the waits, events, timers, mailboxes and deletion of processes, and demand
paging down to the page frame database. TLC checks the models on small
instances, and TLAPS proves some of their properties for every instance.

    tlasany M.tla                      parse a module
    tlc -config X.cfg M                check a run (PROJECT.json pairs X with M)
    tlapm M.tla                        check a module's proofs

## The system

A VMS process is an `Environment` in `internal/corevms`; all of them run on
one goroutine. The CPU engine executes one process's instructions until its
scheduling hook (`System.Schedule`) switches to another, so concurrency is
interleaving at instruction boundaries: a system service, and each method of
the lock manager or the scheduler, runs to completion. Hard behaviour
comes from what is spread over many calls: a request queued in one process's
call and granted in another's, a wait entered in one place and ended in a
third, counts kept beside the sets they count, a rundown that undoes all of it.

| component | state | operations | hard because | correct if |
|---|---|---|---|---|
| lock manager, `lck` | locks, resources with three queues, counts, last ID | Enqueue, Convert, Dequeue, DequeueAll, Release, CheckDeadlocks | queues regranted by others' calls; removal in bulk; circles | held modes compatible; no grant or notice lost; each request told once; counts exact; circles found |
| `$ENQW`, `$DEQ`, rundown, `corevms/enq.go`, `locks.go` | a stack of awaited requests per process | queue and wait, deliver events, delete | wake-up by another's call | a waiter's request is queued, and completes |
| RMS record locks, `rms/recordlock.go`, `relative.go` | each stream's locks, current record and wait | `$GET`, `$UPDATE`, `$DELETE`, `$PUT`, `$FREE`, `$RELEASE`, `$CLOSE` | a wait retried by calling again, in a file that changed | no update lost; no lock left behind; every wait ends |
| scheduler, `sched` | processes' states and priorities, 32 queues, current, reschedule request | Add, Remove, Wait, Ready, Charge, Yield, Reschedule, Choose, set priority or quantum | queue found through a priority that changes; a request for a choice that must not be forgotten | computable = queued once; CPU never idle beside work; priorities in range; equals take turns |
| waits and the hook, `waits.go`, `schedule.go`, `idle.go` | `waiting`, count of waiters, the engine's budget | enter, report event, poll, switch, idle | wake-up lost between test and wait | waiting = in a wait state; a wait that is over ends |
| suspend, hibernate | `suspended`, `WakePending` | `$SUSPND`, `$RESUME`, `$HIBER`, `$WAKE`, `$SCHDWK`, `$CANWAK` | combined with waits and deletion | a wake is never lost, a suspended process never runs |
| event flags, timers | clusters, reference counts, timer queue | set, clear, wait, associate, expire | shared cluster goes with its last user | counts exact; timers on time, deliver what they were set for, keep their beat |
| ASTs | queue, enabled and active per mode | declare, deliver, `$CLRAST`, `$SETAST` | nesting of modes | one active per mode, while its routine runs |
| mailboxes, `$QIO` | readers, messages, quota | read, write, cancel | full mailbox, cancelled requests in the lists | messages in order, each request in one place |
| process deletion | owner tree, `deletePending` | `$DELPRC`, rundown | parent waits for children | the tree goes from the leaves up, and leaves nothing |
| paging, `filesec.go`, `workingset.go`, `mpw.go`, `reclaim.go` | page tables, working sets, the instruction's touched frames | fault, evict, write, reclaim, lock, purge, delete | one fault runs through all the others | a program sees nothing of it |
| page frame database, page-file map, working-set list, `paging` | frames on lists with counts; a bitmap; an array with pointers | allocate, release, reclaim, write back; allocate runs; add, trim, lock | order of events on one frame | their own `Check` functions |
| logical names, vmheap, isam | tables, spans, buckets | sequential | — | their own `Check` functions |
| CPU, address translation, console, DCL, assembler, linker, compilers, run-time libraries, utilities | — | sequential translation, arithmetic or text | — | tested against VMS's output |

The calls between them: `$ENQ` and RMS call the lock manager, whose events
`lck.Deliver` hands to each lock's owner (`enqRequest`, `lockWaker`), which
sets flags, queues ASTs, and reports an event to the scheduler; the
scheduler makes the process computable, and the engine's hook chooses it.
Every choice first polls timers, due deadlock searches and waiters. Any
instruction, and any service's access to memory, may fault a page, and the
routines that faults ask for (trimming, reclaiming, opening the page file) run
at the next instruction boundary, before the hook.

## The modules

| module | models | from |
|---|---|---|
| `LockModes` | the six modes, the compatibility table | `lck/mode.go` |
| `LockManager` | the lock database and every operation on it | `lck/manager.go`, `deadlock.go`, `info.go` |
| `DeadlockSearch` | `findDeadlock` as the code runs it, recursive, against what it should compute | `lck/deadlock.go` |
| `LockClients` | LockManager composed with processes that wait in `$ENQW` | `corevms/enq.go`, `locks.go` |
| `RecordLocks` | LockManager composed with RMS's streams on a relative file | `rms/recordlock.go`, `stream.go`, `relative.go`, `corevms/lockquota.go` |
| `Scheduler` | the scheduler | `sched/scheduler.go`, `boost.go` |
| `ProcessEvents` | what happens to processes, as operators on their state: waits, timers, flags, mailbox, suspension, deletion | `corevms/waits.go`, `timers.go`, `eventflags.go`, `mbxdriver.go`, `suspend.go`, `delete.go` |
| `Subsequences` | filtering a sequence, without recursion | |
| `Processes` | the services that cause it, and the scheduling hook and idle loop | `corevms/schedule.go`, `idle.go`, `hibernate.go`, `ast.go`, `qio.go` |
| `PageFrames` | the page frame database | `paging/database.go`, `list.go`, `frame.go`, `check.go` |
| `PageFileMap` | the page file's allocation map | `paging/pagefile.go` |
| `WorkingSetList` | a working set list | `paging/workingset.go` |
| `Pager` | those three composed with page tables, the modified page writer, the reclaimer and the services | `corevms/filesec.go`, `workingset.go`, `mpw.go`, `reclaim.go`, `cluster.go`, `pagefile.go`, `vm/frames.go` |
| `VirtualMemory` | what paging promises, which `Pager` is shown to implement | the same |
| `QueueLemmas` | lemmas on queues without repetition | |
| `LockManagerProofs` | proofs about `LockManager`: its types, queues and held modes; the counts, sublocks and parents of its trees; its steps: no grant or notice lost, nobody overtaken, completions, value blocks; and that no wakeup of `LockClients` is lost | |
| `RecordLockProofs` | proofs about `RecordLocks`: streams and locks agree, no update is lost, the quota is kept | |
| `SchedulerProofs` | proofs about `Scheduler` | |
| `ProcessProofs` | proofs about `Processes`: states and waits, clusters, ASTs, deletion, timers | |
| `ProcessEventProofs` | proofs about the events of `Processes`: messages and requests, waits that are over | |
| `PagingDataProofs` | proofs about `PageFrames`, and lemmas on `WorkingSetList` and `PageFileMap` | |
| `PagerProofs` | proofs about `Pager`: its invariants, and that it implements `VirtualMemory` | |
| `MC*` | values of the constants for TLC | |

### Lock manager

`locks` and `resources` are the two maps of `lck.Manager`, with a record for
each `Lock` and `Resource`. A lock's key for its resource is the path of
names from the root, so the parent pointer is `Front`. A resource's granted
queue is not kept, since the code makes nothing of its order: a lock is on it
when its state says so. `events` is what the last call returned. An
operation is one action that ends in `Finish` (blocking notices) or `Settle`
(regrant, then blocking notices), in the code's order; `regrant`'s loop over
the two queues is the longest grantable prefix of their concatenation,
`GrantCount`, each request compared with holders as the earlier grants of the
same loop leave them. `EnqueueAs` is Enqueue but for the choice of an ID, for
clients that hold pointers to their locks and never see one.

`removeWhere` ($DEQ with LCK$M_DEQALL, and rundown) is the one operation that
is a sequence of actions: it sorts its locks and then removes each, with a
regrant after each. `doomed` is what is left of the sorted list, and nothing
else may happen until it is empty, so this is not an interleaving the code
does not have: it makes each pass visible to the properties.

Calls that fail change nothing and are stuttering steps: they are the guards.
Due times are left out: a request may be found due at any moment, which is
every schedule of `DEADLOCK_WAIT`. A blocking AST's and completion's effects in
the owner are `corevms`'s, and only their delivery is modelled (`LockClients`).

### RMS record locks

A stream's record in `stream` is its `streamLocks` (`file`, `held`, `waiting`
and whether that has a deadline) with its current record. RMS never uses a
lock's ID but through its own pointer, so a lock is named by what it is for:
the stream and the cell. Each service decides in one action what it does,
as no other process runs in it, and leaves its calls of the lock manager in
`calls`, which `RunCall` makes one by one before anything else happens: each is
`LockManager`'s own operator. A call has a turn: calls of one turn are those the code
makes while it ranges over a map, and come in any order.

A `$GET` that waits is the same `$GET` called again: `Locate` finds the record
anew, and by then it may be another one, or gone. `waits` is the request the
process is in. A retry that finds the lock still queued is one after an AST or
another wake-up. A sequential request names the cell it starts from, which
stands for the stream's place; `$FIND` locks as `$GET` does and is not told
apart. The query of RAB$V_NLK, a CR lock taken and dropped at once, is only
asked whether it would be granted. All streams are of one job, with its ENQLM.

`copy`, a history, says what another stream did to a record since this one read and
locked it. A `$PUT` with RAB$V_UIF is told apart, because it writes over a locked
record by design or otherwise (see *Noticed* below).

### Scheduler

`processes` is the map of `process` records and `queues` the 32 queues;
`current` with `hasCurrent` is one variable that may be `None`. Only whether a
process waits is kept, not in which of the wait states. `Tick` is `Charge` of one instruction.

### Processes

`os` is everything processes have and share: for each process its
scheduler state, wait, suspension, mark, pending wake, timers, flags, ASTs and
the stack of routines it is in; the clusters, the I/O requests, the mailbox and
its attention ASTs. An event leads to others (a timer sets a flag, which ends
waits of other processes), so `ProcessEvents` has operators from a state to a
state, and `Processes` makes a service one step, `Step(s, asks)`, where `asks` is
whether it requests a reschedule. `cpu` is the engine: whom it runs, whether a choice is
being made, and the budget until the hook is called again (`System.budget`: the quantum's
rest, or the next timer). Any computable process may be chosen, so nothing here
depends on priorities, which are `Scheduler`'s.

A wait is `waitOn`: the service is called again each time its process is
chosen, so a process in a wait that is computable retries (`Retries`). The AST
queue is a count per mode, of two modes, kernel and user. The console's STOP takes one
process without subprocesses a step: to delete a tree, as the code does, is to stop its
processes from the leaves up, with the CPU back at the console after each.

### Paging

`db` is `paging.Database`: a record per frame, two lists (free and modified) as
sequences where the code links frames, and the counts of active frames by
type. `ws` has each process's `WorkingSet`, an array with its locked part and the
scan's pointer; `map` is the page file's bitmap with its allocation size; `pte`
the page table entries, with the modify bit. `ram`, `disk` and `file` are contents.
One call of the code runs through many others (a fault evicts a page, whose
release may wake the modified page writer, before a frame is taken whose last page must be told), so
`Pager`'s routines are operators on a record of the whole state and an action is
one whole call. `touched` is the set of frames the instruction has translated, which
the code's generation marks (`TranslatedThisInstruction`) keep from being taken.

`asked` (what each page's program last put in it) is a history that no action
reads; the refinement needs it. `Memory == INSTANCE VirtualMemory WITH ...` maps a page to the contents
of its frame, its section's file or its page file block, whichever its PTE names.
`VirtualMemory!Spec` is the property `PagingIsInvisible`: a page changes only when its program
writes or creates it, and a file whose section is written back will hold what its
pages hold.

## The runs

| run | asks | instance | distinct states |
|---|---|---|---|
| LockModesInOneQueue | does one resource grant what it may, in order, telling each request once? | 2 processes, 3 lock IDs, NL CW PR EX | 110 000 |
| LockQuestions | trees: are the counts exact, sublocks under their parents, no notice lost? values: who changes a value block? circles, rings: is the code's search reachability, does it find every deadlock of exclusive locks? | trees: 2 processes, 3 IDs, 2 levels, 2 access modes, PR EX; values: 2 processes, 2 IDs, CR PW EX, 2 values; circles: 3 processes, 2 resources, 4 IDs; rings: 3 processes, 3 resources, 6 IDs, requests only | 195 000 |
| ConversionCircleIsMissed | does it find every deadlock of conversions? **No.** | 2 processes, NL CW PR | |
| EnqwWaitsEnd | does each `$ENQW` come back? | 2 processes, 2 resources, 3 IDs, PR EX | 39 000 |
| RecordLocks | do the streams' maps and the lock database agree, is no update lost, ENQLM kept, and does every wait for a record end? | 3 streams of 2 processes, one of them reading only, 2 records, ENQLM 6 | 166 000 |
| FreeLeavesALock | does `$FREE` unlock every record the stream has locked? **No.** | the same | |
| SchedulerRules | do queues, states, CPU and priorities agree? | 3 processes, priorities 0..4 (normal to 3) | 97 000 |
| EqualsTakeTurns | does round robin starve nobody? | 3 processes, one priority | 682 |
| BoostMayLower | does a boost never lower a priority? **No.** | 1 process, the code's 31 and 15 | |
| Processes | do waits, suspension, ASTs, timers, flags, requests and deletion agree, do timers do what they were set for, and does a wait that is over end? | nine small machines, below | 170 000 |
| SuspendedDeletion | is a marked process deleted in the end? **No.** | 2 processes | |
| Paging | do page tables, working sets, frames, lists and page file agree, and does a program see none of it? | 3 frames (one the system's), 2 page file blocks, 4 mappings | 167 000 |

Why the bounds are enough for the questions asked. Three locks on one resource give every shape
of queue the rules distinguish: a holder, one queued, one queued behind it, on either queue; the
four modes have compatibility rows that are pairwise different in the ways that matter (shares
with all, with its like only, with its like only but not the other, with nothing); with `MaxId =
3`, IDs wrap and are used again constantly. Two levels of resources are the first at which a
deletion walks up. A circle of two needs two resources and four locks; one of three, which a
search that looks no further than its neighbours misses, three resources and six locks, three
held and three queued (rings). Priorities 0 to 4 with the real-time boundary at 3 put every
boost, decay and `$SETPRI` across it.

*LockQuestions* is four instances of the lock manager in one state space,
told apart by `question`, which never changes. The manager's own properties are checked of
all four; what is asked of the search is asked of circles and rings only.

*RecordLocks.* Two records and two processes are the first at which two streams
wait for each other's records. A second process with two streams makes a stream
keep a record of the file another of its own streams asks for. `MCGets` gives each stream the
requests that meet: unlocking by hand (ULK) with waits, a write lock with RRL, a
read-only stream's query and a read lock with a time limit. With ENQLM 6 the job runs out of
locks between a stream's file lock and its record's.

*Processes* is checked for nine machines (`MCSystems`), each with the services that meet in it,
as all services of all processes together would be far too many states for the same questions: a
tree of four processes deleted while some of it is suspended or stopped from the console; two
that hibernate, wake, suspend and delete each other; timers of one's own and wakeups from the
other; wakeups that come up to three ticks late, as the other process's quantum is four; a
cluster's flag waited for and set by a service or a timer; two clusters shared, made permanent
and deleted; ASTs in two modes with `$SETAST` and `$CMKRNL`; a mailbox read and written with
`$QIOW`, `$CANCEL` and attention ASTs; and a smaller one with a deletion. `MaxTimers`, `MaxASTs`
and `BufQuo` are 1 and a message has size 1 (an end of file 0): with one timer, one AST of a
mode and one message the limits are met at once. Timers are set for one tick, and wakeups may
repeat every two, so that one missed by an odd number of ticks falls between two of its
repetitions; the quantum is one instruction, two where a timer must come due within it, and four
where a wakeup must come late. `CHECK_DEADLOCK FALSE`, as a machine whose processes all wait for
nobody's event does stop.

*Paging.* One frame is the system's, and a system page may come to take a second; the others are
for the pages of one or two processes, so most faults take a frame from somebody. Two blocks let
the page file fill and its allocation size fall and climb. The four mappings are two pages of a
section written back; one copy-on-reference page, which its process may lock in its working set
or in memory; and a read-only page in one process beside a page of zeros in another, which may
or may not write into the same frames. Only one page of each mapping has two values to write,
since only contents tell one write or block from another. `TBSkip` 1 lets an entry still in the
translation buffer be passed over once, so that the first pass and the second choose different
pages; the code's default is 8, more than a list here has, and the proofs are of any. Frames
that processes share are only in `PageFrames` and its theorem, as global sections are not in
`Pager`.

As `events` is a set, a completion told twice within one call would not be seen. `VIEW Database`
leaves `events` out of the fingerprint (in RecordLocks `lastID` and `doomed` too, which do not
change there): no action or guard reads it, and action properties are checked on every
transition. Type correctness is proved, of any instance (`LockManagerTypeCorrect`,
`SchedulerTypeCorrect` and the invariants of the other developments), so no run spends a check
on it. The symmetry sets permute processes (and names), which the specifications use only
through equality; liveness runs use none.

### Fairness

`ClientSpec` assumes three things, each a strong fairness because a call is
disabled while a rundown is under way. A rundown finishes: it is a loop in one call. A request that would
be found deadlocked is searched from in time: `pollEvents` calls
`checkDeadlocks` before every choice of a process, and each search sets a new due time. A process that is
free again and again gives up its locks in time: this is what the programs
owe, not the system, and without it nobody could promise a grant. That $ENQW
returns also rests on the modes used, PR and EX: with conversions in modes such
as CW and PR the missed circle below would hang it.

`RmsSpec` assumes the same of RMS: a service ends; a wait that is over is looked at
again, by `awaitLock`'s condition or the waker; a lock in a deadlock that stays is
searched from; and each program that runs again and again has all its files closed
now and then. `WaitsEnd` is stated of requests by record number only. A
sequential `$GET` that waits finds its record anew at each retry, and a program that
deletes the record it waits for and puts another in a different cell, again and
again, can keep it waiting for ever without breaking any promise: TLC shows
this when `rac` is left out of the property.

`TurnsSpec` assumes that the engine goes on charging the current process and
that a requested choice is made: `System.Schedule` runs before the next
instruction whenever a reschedule was requested and the current process is preemptible.

`Processes!Spec` assumes only that the hook and the idle loop go on (`WF(Hook)`): the engine
calls the hook when the budget has run out. `FairSpec`, used for
SuspendedDeletion alone, adds that a quantum's end makes a choice and
that every process computable again and again is chosen, which the scheduler gives processes of equal
priority (EqualsTakeTurns). `Pager` states no fairness: paging promises safety only, and its
retries end within the call.

## What is proved

`SchedulerProofs`, from `ConstantsOK` alone (any set of processes, any
priorities, increments and quanta):

- `SchedulerTypeCorrect`, `Spec => []TypeOK`;
- `NoProcessLost`, `Spec => []QueuesHoldComputable`;
- `NeverIdleBesideWork`, `Spec => []NoIdleBesideWork`;
- `PrioritiesAlwaysInRange`, `Spec => PrioritiesStayInRange`;
- `NobodyOutranksSilently`, `Spec => NoSilentOutranking`.

TypeOK is not inductive: `leaveState` removes a process from the queue its
priority names, and what it leaves is a queue only if the process was in it.
The invariant `IInv` is TypeOK with QueuesHoldComputable, written as `Inv(P,
Q, c, qm)` of any values so that half-steps can be reasoned about:
`LeaveQueueHolds` and `AppendHolds` say what leaving and joining a queue do,
`PreemptKeeps` is the first half of Reschedule, Yield and Choose,
`MakeComputableKeeps` the common end of Add, Ready and $SETPRI. There is one lemma
per action, and `NextKeeps` collects them. NeverIdleBesideWork uses `IInv`:
when Reschedule finds all queues empty, no process is computable because the queues
hold all that are. The last two are about steps, each from `IInv` by one lemma per action.

`LockManagerProofs`, from `ConstantsOK` alone (any set of processes, names,
access modes, values, any number of lock IDs, any depth of trees):

- `LockManagerTypeCorrect`, `Spec => []TypeOK`;
- `QueuesAlwaysMatch`, `Spec => []QueuesMatchStates`;
- `HeldLocksCompatible`, `Spec => []GrantedCompatible`.

None of the three is inductive. Taking a lock off its queue gives a queue only if
the lock is on it, so the types need the queues; regrant grants what it finds
queued, so the held modes need them too; every call reads the resource a lock
names, so that must exist (`Located`). `DB(L, R)` puts these together for any
values of the two maps, since a call's steps pass such values on, and `IInv`
adds that no lock is doomed twice. The heart is `RegrantKeeps`:
`GrantCountIs` says that regrant's loop stops somewhere and what it
granted, and that each grant was compatible with every holder and
every earlier grant; with the table's symmetry (`CompatibleSymmetric`), all
that are held then are pairwise compatible. A conversion down is safe because a mode no
more restrictive conflicts with nothing the old one did not
(`ConvertedKeeps`). There is one lemma per call, each about the whole call.

It also proves `NoGrantLost`, `Spec => []NoLostGrant`, from the same
assumptions and on top of `IInv`. A queue is *stuck* if its head cannot be
granted. Regrant leaves its own queue stuck because the head of what it leaves is the request
it stopped at, compared with holders as its grants left them
(`RegrantStuck`). A call that does not regrant only adds holders, notices
and values, which keeps every queue stuck (`StaysStuck`), and puts a request at the
head of an empty queue only when it looked and could not grant it
(`ConversionQueuedStuck`, `NewRequestStuck`). A lock removed with its resource leaves no
queue behind (`RemoveLockStuck`).

The action properties of the lock manager follow in the same module, each `Spec => P`:
`NobodyOvertakes` (NoOvertaking), `EveryRequestCompletesOnce` (CompletionMatches),
`DoomedAreNotGranted` (NoGrantOfDoomed), `NoNoticeMissed` (NoMissedNotice) and
`OnlyWritersStoreValues` (OnlyWritersStore). They share one account of a step, `Step`: what
the call itself did, before any regrant, is one of five things (`Changes`: a new lock, a
conversion queued, granted or called off, a lock removed); regrant then granted the longest prefix of the
resource's queue it could (`Ends`), everything it did not grant is untouched and
keeps its place (`KeepsOrder`), and the events are the call's own and the grants'.
`NextSteps` shows it for every action; each property then follows from
`Step` alone. Two definitions had to be put right on the way: `Outcome` and `DeadlockSearch`'s `Search` were a
CASE with guards that overlap, which TLC reads in order and TLA+ does not.

`LockManagerProofs` also proves, from the same assumptions and on top of `IInv`:

- `CountsAreExact`, `Spec => []CountsExact`;
- `NoSublockLeftBehind`, `Spec => []SublocksUnderParents`.

Neither is inductive without the other: a lock's count is right after its ID is used again only
because no sublock outlives its parent, and `$DEQ` takes no parent from under its
sublocks only because the count is right. `Tree(L, R, G)` is both, with `G` the locks removeWhere
is still to remove. Granting, queueing and telling leave it alone (`SameTree`); `AddLockTree`
and `DropLockTree` count a lock in and out; `BelowCloses` shows that what `DEQALL` takes has everything below it
(and not the lock itself: paths only get longer). The heart is `deleteIfUnused`, which walks up the
path: `DeletedIs` shows that it takes nothing that is named and no parent of anything it
leaves, and stops at the first resource that somebody needs.

The module ends with `NoWakeUpLost`, `ClientSpec => []WaitsAreQueued`, from the assumptions of
`LockManager` and `LockClients`. That the processes' steps are the manager's needs no theorem,
as each is one of its operations with what the client does about it, by construction. A waiter
sleeps just while its request is queued. What could leave one asleep is a step that takes its
request off the queue, whoever's step that is: `NextCompletes` (the account of a step that
proves EveryRequestCompletesOnce) says that such a request's completion is among the step's
events, and the events are what the client's step wakes.

`RecordLockProofs`, from the assumptions of `LockManager` and `RequestsOK` (any streams of any processes,
any records, any requests and any quota; enough lock IDs to name the locks by):

- `RecordLocksSound`, `RmsSpec => []RmsInv`;
- `LocksAreAlwaysStreams`, `RmsSpec => []LocksAreStreams`;
- `NoUpdateLost`, `RmsSpec => []NoLostUpdate`;
- `QuotaKept`, `RmsSpec => []WithinQuota`.

The three properties are about the time between services, or about one variable; the invariant
must say what holds at every call within one. `RmsInv` adds to the manager's own (`DB`, `Tree`)
that the database's locks are the streams' but for those about to be dropped and those about to
be taken (`Theirs`, `Drops`, `Takes`); that the calls stand in such an order that a lock is
dropped after its sublocks and taken after its parent (`CallsOK`); that a record counted as
locked is granted, or will be when its call comes, as nothing opposes it then (`HeldOK`); what a
copy may be (`CopyOK`); and that what is to be taken fits the quota with what will have been
dropped by then (`QuotaOK`). A service for one stream needs only be `Prepared`, and `OneStream`
shows that this is enough; `FilesClosed` is `$CLOSE` and rundown; `CallMade` is a call of the
manager, of whose effect on other locks `Kept` says that they may be granted and are otherwise
left alone. No update is lost because two streams' locks on one record are held together only in
modes that may be (`HeldTogether`, from GrantedCompatible), and a changing stream holds one.

`ProcessProofs`, from `ProcessEventsAssumption` and `ProcessesAssumption` (any finite sets of processes,
clusters, names and requests, any owner tree, any sizes and quota, any systems whose console is there from the
start and whose processes have their owners there):

- `StatesAgreeAlways`, `Spec => []StatesAgree`;
- `ClustersCountedAlways`, `Spec => []ClustersCounted`;
- `ASTLevelsAlways`, `Spec => []ASTLevels`;
- `DeletionGoesOnAlways`, `Spec => []DeletionGoesOn`;
- `DeletedLeavesNothingAlways`, `Spec => []DeletedLeavesNothing`;
- `TimersOnTimeAlways`, `Spec => []TimersOnTime`;
- `WakeupsKeepTheirBeatAlways`, `Spec => WakeupsKeepTheirBeat`.

All come from one invariant, `IInv` (`ProcessesSoundAlways`), because none is inductive: a
request may complete only because the mailbox names requests that were made (`MailMade`), the
process told of it is there only because the deleted leave no request (`NothingLeft`), a
deletion goes on only because a marked process never enters another wait (`DeletionFits`), and
who executes is unmarked only because the hook deletes the marked ones first (`CpuFits`). The
events are nested deeply (a timer sets a flag, which ends a wait; a deletion cancels requests,
which makes room, which ends another's wait), so each is shown to be one of two kinds of step,
and kinds compose. A *quiet* step (`Quiet`: posting a flag, ending waits, completing and
cancelling requests, `pollEvents`) changes no marks, associations, memory or who is there, and
`QuietKeeps` shows once what it cannot break; a *steady* one (`Steadily`: entering a wait,
suspending, marking, giving up clusters) is sound for reasons of its own, and keeps who is
there, the memory and the timers. Only a rundown, and forgetting a request (`Collected`), are
neither. `CancelIO` folds a completion over a set of requests in an order nobody chose, and
filters recurse on sequences: the provers have no induction to offer, so what holds throughout
is shown of the first place where it could fail (`LeastOf`). One lemma per service then shows
that it leaves a state fit for the CPU to go on with (`Leaves`), and one per step of the hook
and the idle loop that the next process does. Three definitions changed for the proof: a wait
for a list of processes to be told became one step for all (`ReportTo`, `QueueAST`, `Expired`),
filters became `Those`, and a console's STOP of a tree became one of each of its processes.
`$QIO` with a flag in a cluster that is out of reach had been modelled as if it went on; it
fails (`qio.go:292`).

*WakeupsKeepTheirBeat* is about the three places in which a process's timers expire: before its
own next instruction, in the hook, and in the idle loop. Two facts carry it. One is arithmetic
(`NextTimeIs`): the first repetition still to come is between 1 and `repeat` ticks away and a
whole number of repeats from where the wakeup was due. The other is `Polled`: once the hook has
polled, nobody has a timer due until it has chosen, so the choice that follows cannot pass over
one. `RemainingBeats` says of one expiry that each due wakeup is put back once, at that time,
and `StepBeats` goes through the steps.

`ProcessEventProofs`, from the same assumptions (which say, too, that `None` is none of the other values):

- `EventsFitAlways`, `Spec => [](IInv /\ EventsFit)`;
- `MailboxKeepsMessagesAlways`, `Spec => []MailboxKeepsMessages`;
- `NoWaiterOverlookedAlways`, `Spec => []NoWaiterOverlooked`.

`EventsFit` adds to `IInv` what events leave as it was, in three parts. `MailFits`: the live
messages are those owed, readers and messages are never there at once, and a pending request is
among the readers or writes one of the messages, once. It has a parameter, the requests just
made that are in neither yet, so that it holds in the middle of `readMailbox` and `writeMailbox`
too. `AwaitFits`: who waits for a request is in a `$QIOW` of it, and the request is its own, so
nobody else's completion is one it should have been told of. `Overlooked`: the processes whose
wait is over and that still wait. There are none while the hook chooses or instructions execute,
but a service may leave some until it ends: its own process, which reports its events to itself
as it returns, or any process at all if the service has the hook called. So each lemma says of a
step which processes it may add (`Minds(s, t, ps)`: nobody but those of `ps`), and the events
that tell whoever they concern add nobody (`Gently`). `NotOver` is the reason: a wait that is
not over is ended only by what it is for, and each of the steps leaves that alone or reports it.
`Fit(s, ps)` is all three in one, with a lemma for each service and step. `NoneOverlooked` says
of `wakeWaiters` and the idle loop's retry that they leave nobody, which makes the hook's steps
easy. `$CANCEL` takes messages out of the queue in any order, so what it leaves is proved by
`CancelIOReaches`, the same argument as before, of any property that one completion keeps.

`PagingDataProofs`, from `FramesAssumption` (any number of frames, any pages and stores):

- `DatabaseTypeCorrect`, `DbSpec => [](db \in DatabaseRecord)`;
- `DatabaseIsSound`, `DbSpec => []Check`.

`DbSpec` is the database with any caller: every operation, in any order, whenever its own
refusals let it. The one thing assumed of the caller is what the pager's page tables see to,
that it ties a page to one frame at a time; it is a guard of `DbSpec`'s actions, and
`PagingOwnsFrames`, below, proves that the pager keeps it. Check is not inductive: it lets an
active frame be tied to no page, and if that were not one of the system's, sharing it would make
it a global page that cannot be released to a list. An operation takes a frame out of its list
or count and puts it back elsewhere, so the invariant is stated of the frames `R` that are in
their places (`InPlace(d, R)`): all of them between operations, all but one in the middle.
`UnlinkTakesOut` and `UncountTakesOut` take a frame out, `PutActive` and `PutOnList` put it
back, and there is one lemma per operation.

`PagerProofs`, from the assumptions of `Pager` and of the three modules it is made of (any processes, pages,
frames and mappings, any page file, quotas and limits, any number of writers' and reclaimers' turns):

- `PagingInvHolds`, `PagerSpec => []PagingInv`;
- `PagingKeepsTheDatabase`, `PagerSpec => []Check`;
- `PagingOwnsFrames`, `PagerSpec => []PagesOwnTheirFrames`;
- `PagingListsPages`, `PagerSpec => []WorkingSetsAreValidPages`;
- `PagingKeepsBlocks`, `PagerSpec => []BlocksHaveOneHolder`;
- `TranslatedPagesStay`, `PagerSpec => TouchedPagesStay`;
- `PagingImplementsMemory`, `PagerSpec => PagingIsInvisible`.

`PagingInv` is `Fair` (the page tables, the frames and the blocks of the page file agree, so
that no frame or block has two pages), `Listed` (the working set lists are the valid pages), and
that what a page holds, wherever it is kept (`Seen`), is what its program last put there. None
of these is inductive without a clause no property states: a frame that is not modified holds
what its store does (`FrameOK`), or the frame's next use would lose a change. A step is a whole
call and runs through many routines, so the invariant is stated of any state record: between two
routines of a fault there are blocks taken and given to no page yet (the *spare* ones of `Fair`)
and pages on a list and not valid yet (the *entered* ones of `Listed`). The routines are sorted
by what they leave alone, and the kinds compose: *Still*, what a program sees; *Settled*, also
the page tables and lists (the modified page writer's); *Quiet*, also the place of every page
translated in this instruction (evictions, faults); *Calm*, what may note another one
translated; *Kept*, what the boundary's calls keep of the processes still to be trimmed. The
three lists of Check are used through the lemmas that prove `DatabaseIsSound`, one per
operation. The refinement is then short: a step either leaves what is seen alone, or is one
page's `Write` or `Create`.

`QueueLemmas` has what the proofs need of sequences without repetition, and of folds over them, which two of
the developments share.

Only model-checked: liveness (`EveryRequestCompletes`, `WaitsEnd`, `EqualsTakeTurns`,
`OverWaitsEnd`) and everything about the recursive search (`SearchIsReachability`,
`CirclesAreFound`), which are out of the prover's reach; and `TimersDeliver`.

## What the checks found

1. *A conversion deadlock the search misses* (ConversionCircleIsMissed).
   Process 1 holds NL and converts to PR; process 2's CW is in the way, so 1
   queues. Process 2 converts CW to PR and queues behind 1. Process 2 waits for
   its turn after 1, and 1 for 2's CW to go. `Blocks` (`info.go:62`) counts a request
   queued ahead only if its mode conflicts with the waiter's, and PR does not
   conflict with PR, while `regrant` passes over nobody; so the search finds no circle from
   either request and both wait for ever. `deadlock.go:22` says
   that the same search finds conversion deadlocks.
2. *A boost can lower a priority* (BoostMayLower). `sched/doc.go:23` says never
   below what it already was; `boosted` (`boost.go:128`) falls
   back to the base when the sum passes 15, whatever the current priority was.
3. *A process marked for deletion may be suspended again* (SuspendedDeletion).
   `markForDeletion` resumes a suspended process, so that its deletion can run;
   but `suspend` (`suspend.go:28`) does not look at the mark, and a second `$DELPRC`
   returns early for a marked process. It then stays until somebody resumes it. With a test of
   the mark in `suspend`, `DeletionEnds` holds. (TLC's counterexample also suspends the
   console's process; that is not needed.)
4. *`$FREE` leaves a record locked* (FreeLeavesALock). A `$GET` with RAB$V_WAT
   whose record is deleted while it waits fails with RMS$_RNF (`relative.go:639`)
   before `lockFound` is reached, so `waiting` stays, queued and later granted. `$FREE` goes
   through the held records only; the cell stays locked until the stream gets another
   record or closes. The request left queued may also be found in a deadlock nobody waits in.

Noticed, and not runs:

- `lck/doc.go:64` says that the Manager leaves out deadlock detection and the
  ENQLM quota, and both are there (`deadlock.go`, `corevms/lockquota.go`).
- `SetCurrentPriority` of the current process, unlike `SetBasePriority`, asks for no choice
  when it lowers it below a computable one (`NoSilentOutranking` excepts it by name).
- A relative `$PUT` with RAB$V_UIF neither tests nor takes locks, and so writes over a
  record another stream has locked exclusively (`recordlock.go:12`: "so another
  stream can't take it from under it"; `docs/PHASE-88` has RMS$_RLK for indexed files).
  `NoLostUpdate` excepts it. A stream holding only PR (RAB$V_REA) may update.
- A relative `$GET` in sequence at the end of the file keeps its record locks, although
  `indexedrecords.go:373` gives them up "as on the other organizations".
- `$SCHDWK` for another process does not shorten the engine's budget, so that timer
  may be late by the quantum's rest (`schedule.go:148`); `TimersOnTime` excepts timers queued by others.
- `$CANCEL` of a message that waits in the mailbox makes room and tells no writer in RWMBX:
  it finds out at its next look (`NoWaiterOverlooked` excepts it, `OverWaitsEnd` covers it).
- `pageFileWanted` (`mpw.go:143`) asks for a configured name, so with `defer` and the
  default page file (`pageFileName`) the writer never has the file opened, although
  `pagefile.go:39` says that it is opened the first time the pager needs it.
- A list left over its limit is not always brought down at the next boundary
  (`workingset.go:190`): a page locked in memory is in the way, or the trim leaves it over and nobody asks again.

## What is not modelled, and the plan

Parts of what is modelled that are left out:

- *Locks*: `$ENQ`'s own flag and AST, the lock status block and its value block, and
  `$ENQW` conversions (`LockClients`).
- *RMS*: sequential and indexed files, `$FIND`'s context, services with
  ASTs, and file sharing (`sharing.go`), which is settled once at `$OPEN`.
- *Scheduler*: CPU counters and the names of wait states.
- *Processes*: `$SYNCH`, limits on waits (`waitDeadline`), image exit and
  `$FORCEX`, process creation, pooled quotas, creation and deletion of mailboxes,
  protection, terminals, priorities and boosts (Scheduler's), yields and lent processes, what an AST
  routine is passed, and errors that change nothing.
- *Paging*: global sections (their share counts are in `PageFrames`, and proved of), PGFLQUOTA,
  reads and writes that fail, deletion of a process, image activation, warnings to the console.

Whole parts not modelled: `vmheap`, `lnm` and `isam` are sequential
data structures with their own `Check` and tests. The CPU, address translation,
file formats, assembler, linker, compilers, run-time libraries, debugger, command parsing and the generated
tables make up nearly all of the repository's lines, and their
difficulty is data, not order: a model would say again what the code
says. That is why the modules cover a small share of the lines, and most of
those that keep state for several processes. Host I/O and `hostlock` are one call of the
host's each.

What would come next:

1. A client that keeps a lock status block with a value block across conversions, to settle whether a
   conversion down writes the old value over the caller's (`enq.go:129`).
2. An abstract lock service (holders only, granted when compatible) that `LockManager` implements.
3. Global sections in `Pager`, and sequential files in `RecordLocks`.
4. A proof of `TimersDeliver`, from the lemmas on expiry in `ProcessProofs`.
