--------------------------- MODULE WorkingSetList ---------------------------
(***************************************************************************)
(* A process's working set list: the pages it can touch without a fault,   *)
(* in an array of entries, the locked pages first and then the dynamic     *)
(* part, a circular buffer in which the pager picks the page to replace.   *)
(*                                                                         *)
(* A list is a record: slots, counted here from 1; dyn, how many of them   *)
(* are locked (entries 1 to dyn); next, the entry filled last, or dyn for  *)
(* "before the dynamic part"; and size, the limit.  The map by address and *)
(* the counts of pages are what the entries say, and the peak is only read *)
(* back, so neither is kept.  The conditions a choice depends on are a     *)
(* record c: free, the free list's length; protected, the pages translated *)
(* in this instruction; inTB, those still valid in the translation buffer. *)
(***************************************************************************)
EXTENDS Integers, Sequences, FiniteSets, SequencesExt, Subsequences

CONSTANTS
  LastPage,    \* a process's pages are of 1 .. LastPage
  NoPage,      \* what an available entry holds
  Quota,       \* WSQUOTA
  Extent,      \* WSEXTENT
  Minimum,     \* MINWSCNT
  GrowLimit,   \* GROWLIM: past the quota the list grows only above this
  TBSkip       \* TBSKIPWSL

Pages == 1 .. LastPage

ASSUME WorkingSetAssumption ==
  {Quota, Extent, Minimum, GrowLimit, TBSkip, LastPage} \subseteq Nat /\ NoPage \notin Pages

LockKinds == {"workingSet", "memory"}   \* $LKWSET's and $LCKPAG's

Available == [page |-> NoPage, locks |-> {}]

IsUsed(w, i) == w.slots[i].page # NoPage
UsedSlots(w) == {i \in DOMAIN w.slots : IsUsed(w, i)}
InUse(w) == Cardinality(UsedSlots(w))
PagesIn(w) == {w.slots[i].page : i \in UsedSlots(w)}
SlotOf(w, page) == CHOOSE i \in DOMAIN w.slots : w.slots[i].page = page
Over(w) == Len(w.slots) > w.size

Clamp(n, dyn) == LET capped == IF n < Extent THEN n ELSE Extent
                 IN IF capped > dyn + Minimum THEN capped ELSE dyn + Minimum

NewWorkingSet(n) ==
  LET size == Clamp(n, 0)
  IN [slots |-> [i \in 1 .. size |-> Available], dyn |-> 0, next |-> 0, size |-> size]

-----------------------------------------------------------------------------
(* Choosing an entry. *)

\* The dynamic part's entries in the order a scan visits them, after next.
Scan(w) ==
  LET n == Len(w.slots) - w.dyn
  IN [k \in 1 .. n |-> w.dyn + 1 + ((w.next - w.dyn + k - 1) % n)]

\* The first entry of the scan for which a set of its places holds, or 0.
FirstOfScan(w, places) ==
  IF places = {} THEN 0 ELSE Scan(w)[CHOOSE k \in places : \A j \in places : k <= j]

AvailableAfterNext(w) ==
  FirstOfScan(w, {k \in DOMAIN Scan(w) : ~IsUsed(w, Scan(w)[k])})

MayGrow(w, c) == InUse(w) < w.size /\ (InUse(w) < Quota \/ c.free > GrowLimit)

\* choose: an available entry if the list may grow, or the page to replace.  A
\* first pass skips protected pages and up to TBSkip of those still in the TB, a
\* second only the protected ones; 0 if every entry is passed over.
ChooseIn(w, grow, open, skipped) ==
  LET unused == {k \in DOMAIN Scan(w) : grow /\ ~IsUsed(w, Scan(w)[k])}
  IN IF grow /\ w.next > w.dyn /\ ~IsUsed(w, w.next) THEN w.next
     ELSE IF unused \cup (open \ skipped) # {} THEN FirstOfScan(w, unused \cup (open \ skipped))
     ELSE FirstOfScan(w, open)

\* The first TBSkip places of a set of them.
Skipped(places) == {k \in places : Cardinality({j \in places : j < k}) < TBSkip}

ChooseOpen(w, c, grow, open) ==
  ChooseIn(w, grow, open, Skipped({k \in open : w.slots[Scan(w)[k]].page \in c.inTB}))

Choose(w, c, growing) ==
  ChooseOpen(w, c, growing /\ MayGrow(w, c),
             {k \in DOMAIN Scan(w) : IsUsed(w, Scan(w)[k]) /\ w.slots[Scan(w)[k]].page \notin c.protected})

-----------------------------------------------------------------------------
(* Changing the list. *)

Fill(w, i, page) == [w EXCEPT !.slots[i] = [page |-> page, locks |-> {}], !.next = i]

Empty(w, i) == [w EXCEPT !.slots[i] = Available]

\* drop: the list loses an available entry, and next stays with its page.
DropSlot(w, i) ==
  LET next == IF w.next >= i THEN w.next - 1 ELSE w.next
  IN [w EXCEPT !.slots = RemoveAt(@, i), !.next = IF next < w.dyn THEN w.dyn ELSE next]

InsertAfterNext(w) == [w EXCEPT !.slots = InsertAt(@, w.next + 1, Available)]

TakeOut(r, i, list) == [list |-> list, out |-> Append(r.out, r.list.slots[i].page)]

TrimAt(r, i) == IF i = 0 THEN r ELSE TakeOut(r, i, DropSlot(Empty(r.list, i), i))

\* One turn of trim's loop, of a list r.list from which r.out has been taken:
\* the last available entry goes, or the page the rules choose.
TrimStep(r, c) ==
  LET spare == {i \in r.list.dyn + 1 .. Len(r.list.slots) : ~IsUsed(r.list, i)}
  IN IF spare # {} THEN [r EXCEPT !.list = DropSlot(@, Max(spare))]
     ELSE TrimAt(r, Choose(r.list, c, FALSE))

Repeat(n, Step(_), r) == FoldLeft(LAMBDA s, k : Step(s), r, [k \in 1 .. n |-> k])

\* Trim: a list that grew past its limit comes back down, the oldest pages
\* going first, until every page left is passed over.
Trim(w, c) == Repeat(Len(w.slots) - w.size, LAMBDA r : TrimStep(r, c), [list |-> w, out |-> <<>>])

ShrinkAt(r, i) == IF i = 0 THEN r ELSE TakeOut(r, i, Empty(r.list, i))

ShrinkStep(r, c) == ShrinkAt(r, Choose(r.list, c, FALSE))

\* Shrink, the reclaimer's: the oldest pages go until n are left; the limit
\* stays, and a removal is no choice, so the TB is not asked.
Shrink(w, n, c) ==
  Repeat(InUse(w) - n, LAMBDA r : ShrinkStep(r, [c EXCEPT !.inTB = {}]), [list |-> w, out |-> <<>>])

\* Add: the page takes the entry the rules choose, replacing its page; with
\* every entry passed over, an available one, or a new one past the limit.
AddAt(t, page, i) ==
  IF i # 0 /\ IsUsed(t.list, i) THEN TakeOut(t, i, Fill(t.list, i, page))
  ELSE IF i # 0 THEN [t EXCEPT !.list = Fill(@, i, page)]
  ELSE IF AvailableAfterNext(t.list) # 0 THEN [t EXCEPT !.list = Fill(@, AvailableAfterNext(@), page)]
  ELSE [t EXCEPT !.list = Fill(InsertAfterNext(@), @.next + 1, page)]

AddTo(t, page, c) == AddAt(t, page, Choose(t.list, c, TRUE))

Add(w, page, c) == AddTo(Trim(w, c), page, c)

\* AddAvailable, read clustering's: only into an available entry.
CanAddAvailable(w, c) == ~Over(w) /\ MayGrow(w, c) /\ AvailableAfterNext(w) # 0
AddAvailable(w, page) == Fill(w, AvailableAfterNext(w), page)

Swap(w, i, j) == [w EXCEPT !.slots[i] = w.slots[j], !.slots[j] = w.slots[i]]

\* pin and unpin: an entry changes places with the first dynamic, or the last
\* locked one, and the boundary moves past it.
Pin(w, i) ==
  [Swap(w, i, w.dyn + 1) EXCEPT !.dyn = @ + 1, !.next = IF @ <= w.dyn THEN w.dyn + 1 ELSE @]
Unpin(w, i) == [Swap(w, i, w.dyn) EXCEPT !.dyn = @ - 1]

\* Remove: the page is deleted or purged, locked or not; in a list over its
\* limit the entry goes with it.
RemovePage(w, page) ==
  LET at == SlotOf(w, page)
      loose == IF at <= w.dyn THEN Unpin(w, at) ELSE w
      i == IF at <= w.dyn THEN w.dyn ELSE at
  IN IF Over(w) THEN DropSlot(Empty(loose, i), i) ELSE Empty(loose, i)

\* Pages: the locked ones, then the dynamic part, oldest first.
PageOrder(w) ==
  Those([i \in 1 .. w.dyn |-> w.slots[i].page] \o [k \in DOMAIN Scan(w) |-> w.slots[Scan(w)[k]].page],
        PagesIn(w))

\* RemoveRange over the whole space, as $PURGWS calls it: locked and protected
\* pages stay.
Purge(w, c) ==
  LET locked == {w.slots[i].page : i \in 1 .. w.dyn}
      out == Those(PageOrder(w), PagesIn(w) \ (locked \cup c.protected))
  IN [list |-> FoldLeft(RemovePage, w, out), out |-> out]

CanLock(w, page, kind) ==
  \/ w.slots[SlotOf(w, page)].locks # {}
  \/ kind = "memory"
  \/ w.size - (w.dyn + 1) >= Minimum

LockPage(w, page, kind) ==
  LET i == SlotOf(w, page) IN
  IF w.slots[i].locks # {} THEN [w EXCEPT !.slots[i].locks = @ \cup {kind}]
  ELSE [Pin(w, i) EXCEPT !.slots[w.dyn + 1].locks = {kind}]

UnlockPage(w, page, kind) ==
  LET i == SlotOf(w, page)
      unlocked == [w EXCEPT !.slots[i].locks = @ \ {kind}]
  IN IF w.slots[i].locks = {kind} THEN Unpin(unlocked, i) ELSE unlocked

\* compact: the dynamic pages oldest to newest, then the available entries.
Compact(w) ==
  LET dynamic == Those([k \in DOMAIN Scan(w) |-> w.slots[Scan(w)[k]]], {w.slots[i] : i \in UsedSlots(w)})
      pages == w.dyn + Len(dynamic)
  IN [w EXCEPT !.slots = SubSeq(w.slots, 1, w.dyn) \o dynamic
                           \o [i \in 1 .. Max({w.size - pages, 0}) |-> Available],
               !.next = pages]

\* Resize, $ADJWSL's: a smaller limit takes the oldest pages out.
Resize(w, n, c) ==
  LET size == Clamp(n, w.dyn)
      s == Shrink([w EXCEPT !.size = size], size, c)
  IN [list |-> Compact(s.list), out |-> s.out]

-----------------------------------------------------------------------------
(* WorkingSet.Check: the list's own rules. *)

\* The locked part is the locked pages; no page is listed twice; the list is as
\* long as its limit, and longer only with every entry in use.
ListOK(w) ==
  /\ w.dyn \in 0 .. Len(w.slots) /\ w.next \in w.dyn .. Len(w.slots)
  /\ Len(w.slots) >= w.size
  /\ Over(w) => UsedSlots(w) = DOMAIN w.slots
  /\ \A i \in DOMAIN w.slots : w.slots[i].locks # {} <=> i <= w.dyn
  /\ \A i \in DOMAIN w.slots : ~IsUsed(w, i) => w.slots[i] = Available
  /\ \A i, j \in UsedSlots(w) : w.slots[i].page = w.slots[j].page => i = j

=============================================================================
