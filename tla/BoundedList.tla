----------------------------- MODULE BoundedList -----------------------------
(***************************************************************************)
(* The bounded list of list.c as threads use it: pushers (ruListAppend,    *)
(* ruListInsertIdx, ruListInsertBefore, ruListInsertAfter), poppers        *)
(* (ruListPop, ruListTryPop, ruListRemove, ruListRemoveIdx, ruListClear)   *)
(* and the owner (ruListBind, ruListFree).                                 *)
(*                                                                         *)
(* A step is what one thread does between two points where another thread  *)
(* can see the difference: the unlocked test of doQuit, taking list->mux,  *)
(* the start of waitfor, a return from a condition wait, the release of    *)
(* the mutex.  Every condition wait of list.c is timed, so a waiting       *)
(* thread may look at the list again at any time; ruCondSignal only makes  *)
(* it look sooner and is not modelled.                                     *)
(***************************************************************************)
EXTENDS Naturals, Sequences, FiniteSets, SequencesExt

CONSTANTS Pushers, Poppers, \* the threads
          MaxSize,          \* list->maxSize, not 0: the list is bounded
          Ordered,          \* list->threads exists
          MaxItems,         \* calls per pusher (a bound of the runs)
          PushOps, PopOps,  \* the calls the threads make
          SettledFree,      \* the owner frees only when no call is in
                            \* progress other than those blocked in waitfor
          None              \* no thread; no element, which means the root node

PushOp == {"append", "first", "last", "before", "after"}
PopOp == {"pop", "tryPop", "remove", "clear"}
Positional == {"before", "after"}

ASSUME ThreadsAssumption ==
    /\ Pushers \cap Poppers = {}
    /\ None \notin Pushers \cup Poppers
    /\ IsFiniteSet(Pushers)
ASSUME BoundsAssumption ==
    /\ MaxSize \in Nat \ {0}
    /\ MaxItems \in Nat \ {0}
    /\ Ordered \in BOOLEAN
    /\ SettledFree \in BOOLEAN
ASSUME OpsAssumption == PushOps \subseteq PushOp /\ PopOps \subseteq PopOp

(* A datum is the k-th one its pusher adds; ListElmt and datum are one.    *)
Item == Pushers \X (1..MaxItems)
ASSUME NoneAssumption == None \notin Item

VARIABLES
    entries,   \* the elements after the root node, first to last
    mux,       \* the thread that keeps list->mux between two steps
    doQuit, unBound,
    waiters,   \* calls inside waitfor
    threads,   \* tids queued up by waitfor when ordered
    currents,  \* cells of the blocked positional inserts
    pc,        \* where each pusher and popper is
    owner,     \* where the owner is
    sent,      \* calls each pusher has made
    req        \* the arguments of a pusher's blocked call

VARIABLES      \* histories, which no action reads
    outcome,   \* what the call that adds an item has returned
    removed,   \* the items taken out of the list, or destroyed with it
    queued,    \* the pushers blocked in waitfor, longest blocked first
    loosened   \* whether the limit was ever lifted

vars == <<entries, mux, doQuit, unBound, waiters, threads, currents, pc, owner,
          sent, req, outcome, removed, queued, loosened>>
waitVars == <<waiters, threads, currents, req, queued>>
listVars == <<entries, outcome, removed>>
ownVars == <<doQuit, unBound, owner, loosened>>

Threads == Pushers \cup Poppers
Request == [op : PushOp, rle : Item \cup {None}]
Cell == [elmt : Item \cup {None}, before : BOOLEAN, by : Pushers, freed : BOOLEAN]
Labels == {"idle", "lock", "admitted", "waiting", "polling", "clearing", "undefined"}

TypeOK ==
    /\ entries \in Seq(Item)
    /\ mux \in Threads \cup {None}
    /\ doQuit \in BOOLEAN /\ unBound \in BOOLEAN /\ loosened \in BOOLEAN
    /\ waiters \in Nat
    /\ threads \in Seq(Pushers)
    /\ queued \in Seq(Pushers)
    /\ currents \in Seq(Cell)
    /\ pc \in [Threads -> Labels]
    /\ owner \in {"idle", "drain", "lock", "freed", "undefined"}
    /\ sent \in [Pushers -> 0..MaxItems]
    /\ req \in [Pushers -> Request]
    /\ outcome \in [Item -> {"none", "ok", "abort", "invalid"}]
    /\ removed \subseteq Item

Init ==
    /\ entries = <<>> /\ threads = <<>> /\ currents = <<>> /\ queued = <<>>
    /\ mux = None
    /\ doQuit = FALSE /\ unBound = FALSE /\ loosened = FALSE
    /\ waiters = 0
    /\ pc = [t \in Threads |-> "idle"]
    /\ owner = "idle"
    /\ sent = [p \in Pushers |-> 0]
    /\ req = [p \in Pushers |-> [op |-> "append", rle |-> None]]
    /\ outcome = [i \in Item |-> "none"]
    /\ removed = {}

Live == owner \notin {"freed", "undefined"}
Goto(t, label) == pc' = [pc EXCEPT ![t] = label]
Current(p) == <<p, sent[p]>>
Return(p, code) == outcome' = [outcome EXCEPT ![Current(p)] = code]

Full == Len(entries) >= MaxSize
-----------------------------------------------------------------------------
(* The list itself: ListInsertAfter, ListRemoveTo, ListIndex.              *)

Index(e) == CHOOSE i \in DOMAIN entries : entries[i] = e

(* The number of elements in front of the new one.  An index of 0 or -1 on
   an empty list finds nothing and appends. *)
Place(r) ==
    CASE r.op = "append" -> Len(entries)
      [] r.op = "first" -> 0
      [] r.op = "last" -> IF entries = <<>> THEN 0 ELSE Len(entries) - 1
      [] r.op = "before" -> IF r.rle = None THEN 0 ELSE Index(r.rle) - 1
      [] r.op = "after" -> IF r.rle = None THEN 0 ELSE Index(r.rle)

ListInsertAfter(p, r) == entries' = InsertAt(entries, Place(r) + 1, Current(p))

Node(i) == IF i \in DOMAIN entries THEN entries[i] ELSE None

(* Where a cell moves whose element, the i-th, is removed: a "before" goes
   to the next element, or behind the last one left; an "after" goes back. *)
Reposition(cell, i) ==
    IF cell.before /\ i < Len(entries)
    THEN [cell EXCEPT !.elmt = Node(i + 1)]
    ELSE [cell EXCEPT !.elmt = Node(i - 1), !.before = FALSE]

(* The cells that are at the i-th element.  A freed one holds no element:  *)
(* it was zeroed, or belongs to the allocator.                             *)
At(i) == {k \in DOMAIN currents : ~currents[k].freed /\ currents[k].elmt = entries[i]}

(* Mutant: haveCurrent is never set, no cell is moved. *)
RepositionFirst_None(i) == UNCHANGED currents

(* Only the first cell found at the removed element is moved.              *)
RepositionFirst(i) ==
    IF At(i) = {} THEN UNCHANGED currents
    ELSE \E k \in At(i) :
            /\ \A j \in At(i) : k <= j
            /\ currents' = [currents EXCEPT ![k] = Reposition(@, i)]

(* Mutant: the predecessor is linked to the element after the next. *)
ListRemoveTo_SkipsOne(i) ==
    /\ entries' = RemoveAt(RemoveAt(entries, i), i)
    /\ removed' = removed \cup {entries[i]}
    /\ RepositionFirst(i)

ListRemoveTo(i) ==
    /\ entries' = RemoveAt(entries, i)
    /\ removed' = removed \cup {entries[i]}
    /\ RepositionFirst(i)
-----------------------------------------------------------------------------
(* The calls that add.  A pusher's unlocked look at doQuit.                *)
PushStart(p) ==
    /\ Live
    /\ pc[p] = "idle" /\ sent[p] < MaxItems
    /\ sent' = [sent EXCEPT ![p] = @ + 1]
    /\ IF doQuit
       THEN outcome' = [outcome EXCEPT ![<<p, sent[p] + 1>>] = "abort"] /\ UNCHANGED pc
       ELSE Goto(p, "lock") /\ UNCHANGED outcome
    /\ UNCHANGED <<entries, removed, mux, waitVars, ownVars>>

(* It gets the mutex and looks at doQuit again.                            *)
PushLock(p) ==
    /\ Live
    /\ pc[p] = "lock" /\ mux = None
    /\ IF doQuit
       THEN Return(p, "abort") /\ Goto(p, "idle") /\ UNCHANGED mux
       ELSE mux' = p /\ Goto(p, "admitted") /\ UNCHANGED outcome
    /\ UNCHANGED <<entries, removed, waitVars, ownVars, sent>>

(* waitfor with a full list: the call takes a cell if it is positional,    *)
(* queues up its tid if ordered, and waits on hasRoom, giving up the mutex. *)
WaitBegin(p, r) ==
    /\ Full
    /\ waiters' = waiters + 1
    /\ currents' = IF r.op \in Positional /\ r.rle # None
                   THEN Append(currents, [elmt |-> r.rle, before |-> r.op = "before",
                                          by |-> p, freed |-> FALSE])
                   ELSE currents
    /\ threads' = IF Ordered THEN Append(threads, p) ELSE threads
    /\ queued' = Append(queued, p)
    /\ req' = [req EXCEPT ![p] = r]
    /\ Goto(p, "waiting")
    /\ UNCHANGED listVars

(* The element argument is one that is in the list, or NULL.               *)
PushEnter(p) ==
    /\ Live
    /\ pc[p] = "admitted"
    /\ mux' = None
    /\ \E r \in [op : PushOps, rle : ToSet(entries) \cup {None}] :
          /\ r.op \notin Positional => r.rle = None
          /\ \/ WaitBegin(p, r)
             \/ /\ ~Full
                /\ ListInsertAfter(p, r)
                /\ Return(p, "ok")
                /\ Goto(p, "idle")
                /\ UNCHANGED <<waitVars, removed>>
    /\ UNCHANGED <<ownVars, sent>>

(* Mutant: a return from waitfor that skips the decrement. *)
Leave_NotCounted(p) ==
    /\ \E k \in DOMAIN queued : queued[k] = p /\ queued' = RemoveAt(queued, k)
    /\ Goto(p, "idle")
    /\ UNCHANGED <<waiters, req>>

Leave(p) ==
    /\ waiters' = waiters - 1
    /\ \E k \in DOMAIN queued : queued[k] = p /\ queued' = RemoveAt(queued, k)
    /\ Goto(p, "idle")
    /\ UNCHANGED req

(* The call's cell is freed.  waitfor passes the iterator itself to
   ruListRemove where its address is wanted, so the cell stays in currents. *)
Cells(p) == {k \in DOMAIN currents : currents[k].by = p /\ ~currents[k].freed}
FreeCell(p) ==
    currents' = [k \in DOMAIN currents |->
                    IF k \in Cells(p) THEN [currents[k] EXCEPT !.freed = TRUE]
                                      ELSE currents[k]]

(* Back from hasRoom with the mutex, and the list is quitting.             *)
PushAbort(p) ==
    /\ Live
    /\ pc[p] = "waiting" /\ mux = None
    /\ doQuit
    /\ Leave(p)
    /\ FreeCell(p)
    /\ Return(p, "abort")
    /\ UNCHANGED <<entries, removed, mux, threads, ownVars, sent>>

(* Mutant: whoever wakes goes on, and takes the first tid off the queue. *)
Turn_Anyone(p) == TRUE

Turn(p) == Ordered => threads # <<>> /\ Head(threads) = p

(* Mutant: woken once, it does not look at the size again. *)
PushResume_NoRecheck(p) ==
    /\ Live
    /\ pc[p] = "waiting" /\ mux = None
    /\ ~doQuit
    /\ Turn(p)
    /\ threads' = IF Ordered THEN Tail(threads) ELSE threads
    /\ Leave(p)
    /\ Return(p, "ok") /\ ListInsertAfter(p, req[p])
    /\ UNCHANGED <<removed, mux, currents, ownVars, sent>>

(* Mutant: it leaves its tid at the head of the queue. *)
PushResume_KeepsTid(p) ==
    /\ Live
    /\ pc[p] = "waiting" /\ mux = None
    /\ ~doQuit
    /\ ~Full \/ unBound
    /\ Turn(p)
    /\ Leave(p)
    /\ Return(p, "ok") /\ ListInsertAfter(p, req[p])
    /\ UNCHANGED <<removed, mux, threads, currents, ownVars, sent>>

(* Back from hasRoom with the mutex, and it may go on: there is room or the
   limit is lifted, and its tid is the first if ordered.  A call with a cell
   fails, with the code of the removal of its cell. *)
PushResume(p) ==
    /\ Live
    /\ pc[p] = "waiting" /\ mux = None
    /\ ~doQuit
    /\ ~Full \/ unBound
    /\ Turn(p)
    /\ threads' = IF Ordered THEN Tail(threads) ELSE threads
    /\ Leave(p)
    /\ FreeCell(p)
    /\ IF Cells(p) # {}
       THEN Return(p, "invalid") /\ UNCHANGED entries
       ELSE Return(p, "ok") /\ ListInsertAfter(p, req[p])
    /\ UNCHANGED <<removed, mux, ownVars, sent>>
-----------------------------------------------------------------------------
(* The calls that remove.                                                  *)
PopStart(c) ==
    /\ Live
    /\ pc[c] = "idle" /\ ~doQuit
    /\ Goto(c, "lock")
    /\ UNCHANGED <<listVars, mux, waitVars, ownVars, sent>>

(* Mutant: the last entry is taken for the tail of the list. *)
PopFirst_NotLast(c) ==
    /\ Len(entries) > 1
    /\ ListRemoveTo(1)
    /\ Goto(c, "idle") /\ UNCHANGED mux

(* ruListPopDataTo, and ruListTryPopDataTo when there is an entry.         *)
PopFirst(c) ==
    /\ PopOps \cap {"pop", "tryPop"} # {} /\ entries # <<>>
    /\ ListRemoveTo(1)
    /\ Goto(c, "idle") /\ UNCHANGED mux

(* Nothing there: RUE_FILE_NOT_FOUND at once, or wait on hasEntries.       *)
PopNothing(c) ==
    /\ entries = <<>>
    /\ \/ "tryPop" \in PopOps /\ Goto(c, "polling")
       \/ Goto(c, "idle")
    /\ UNCHANGED <<entries, removed, mux, currents>>

(* ruListRemoveDataTo, ruListRemoveIdxDataTo: any element.                 *)
RemoveAny(c) ==
    /\ "remove" \in PopOps
    /\ \E i \in DOMAIN entries : ListRemoveTo(i)
    /\ Goto(c, "idle") /\ UNCHANGED mux

ClearStart(c) ==
    /\ "clear" \in PopOps
    /\ mux' = c /\ Goto(c, "clearing")
    /\ UNCHANGED <<entries, removed, currents>>

PopLock(c) ==
    /\ Live
    /\ pc[c] = "lock" /\ mux = None
    /\ IF doQuit
       THEN Goto(c, "idle") /\ UNCHANGED <<entries, removed, mux, currents>>
       ELSE PopFirst(c) \/ PopNothing(c) \/ RemoveAny(c) \/ ClearStart(c)
    /\ UNCHANGED <<outcome, waiters, threads, req, queued, ownVars, sent>>

(* Back from hasEntries.  This wait does not look at doQuit.               *)
PopResume(c) ==
    /\ Live
    /\ pc[c] = "polling" /\ mux = None
    /\ IF entries # <<>> THEN ListRemoveTo(1)
                         ELSE UNCHANGED <<entries, removed, currents>>
    /\ Goto(c, "idle")
    /\ UNCHANGED <<outcome, mux, waiters, threads, req, queued, ownVars, sent>>

(* One turn of ListClear's loop; the mutex is kept until the list is empty. *)
Clear(c) ==
    /\ Live
    /\ pc[c] = "clearing"
    /\ IF entries # <<>>
       THEN ListRemoveTo(1) /\ UNCHANGED <<mux, pc>>
       ELSE mux' = None /\ Goto(c, "idle") /\ UNCHANGED <<entries, removed, currents>>
    /\ UNCHANGED <<outcome, waiters, threads, req, queued, ownVars, sent>>
-----------------------------------------------------------------------------
(* The owner.  ruListBind and the start of ruListFree take no mutex.       *)
Bind(limit) ==
    /\ owner = "idle"
    /\ unBound' = ~limit
    /\ loosened' = (loosened \/ ~limit)
    /\ UNCHANGED <<listVars, mux, doQuit, waitVars, pc, owner, sent>>

Settled == /\ \A p \in Pushers : pc[p] \in {"idle", "waiting"}
           /\ \A c \in Poppers : pc[c] = "idle"

FreeStart ==
    /\ owner = "idle"
    /\ SettledFree => Settled
    /\ doQuit' = TRUE
    /\ owner' = "drain"
    /\ UNCHANGED <<listVars, mux, unBound, loosened, waitVars, pc, sent>>

(* Mutant: ruListFree does not wait for the waiters. *)
FreeDrained_NoWait ==
    /\ owner = "drain"
    /\ owner' = "lock"
    /\ UNCHANGED <<listVars, mux, doQuit, unBound, loosened, waitVars, pc, sent>>

FreeDrained ==
    /\ owner = "drain"
    /\ waiters = 0
    /\ owner' = "lock"
    /\ UNCHANGED <<listVars, mux, doQuit, unBound, loosened, waitVars, pc, sent>>

(* The mutex is taken and released once, then ListFree destroys the entries
   and the cells: one that waitfor has freed before is freed twice. *)
FreeDestroy ==
    /\ owner = "lock" /\ mux = None
    /\ owner' = IF \E k \in DOMAIN currents : currents[k].freed
                THEN "undefined" ELSE "freed"
    /\ removed' = removed \cup ToSet(entries)
    /\ entries' = <<>> /\ currents' = <<>> /\ threads' = <<>>
    /\ UNCHANGED <<outcome, mux, doQuit, unBound, loosened, waiters, req, queued, pc, sent>>

(* A call that was in progress goes on with freed memory: anything may
   happen from here, and the model says no more about it. *)
UseAfterFree(t) ==
    /\ owner = "freed"
    /\ pc[t] \notin {"idle", "undefined"}
    /\ Goto(t, "undefined")
    /\ UNCHANGED <<listVars, mux, waitVars, ownVars, sent>>

Finished == ~Live /\ UNCHANGED vars

Push(p) == PushStart(p) \/ PushLock(p) \/ PushEnter(p) \/ PushAbort(p) \/ PushResume(p)
Pop(c) == PopStart(c) \/ PopLock(c) \/ PopResume(c) \/ Clear(c)
Owner == Bind(TRUE) \/ Bind(FALSE) \/ FreeStart \/ FreeDrained \/ FreeDestroy

Next ==
    \/ \E p \in Pushers : Push(p)
    \/ \E c \in Poppers : Pop(c)
    \/ Owner
    \/ \E t \in Threads : UseAfterFree(t)
    \/ Finished

Spec == Init /\ [][Next]_vars

(* A call in progress goes on when it can: the mutex is free for all but the
   critical sections of a bounded number of additions, and a timed wait ends. *)
CallsFair ==
    /\ \A p \in Pushers : /\ WF_vars(PushLock(p))
                          /\ WF_vars(PushEnter(p))
                          /\ WF_vars(PushAbort(p) \/ PushResume(p))
    /\ \A c \in Poppers : WF_vars(PopLock(c)) /\ WF_vars(PopResume(c)) /\ WF_vars(Clear(c))
    /\ WF_vars(FreeDrained) /\ WF_vars(FreeDestroy)

FairSpec == Spec /\ CallsFair
-----------------------------------------------------------------------------
(* Safety.                                                                 *)

Waiting == {p \in Pushers : pc[p] = "waiting"}

(* list.h, ruListNewBound: the list never holds more than maxSize entries,
   however adders, waiters and removers interleave, as long as the limit was
   never lifted by ruListBind. *)
Capacity == ~loosened => Len(entries) <= MaxSize

(* Every item whose call returned RUE_OK is in the list once or was taken
   out once, and an item whose call failed is nowhere: no addition is lost
   or doubled by an abort, a wait or a removal in between. *)
ExactlyOnce ==
    /\ IsInjective(entries)
    /\ ToSet(entries) \cap removed = {}
    /\ {i \in Item : outcome[i] = "ok"} = ToSet(entries) \cup removed

(* ruListFree leaves its first loop when waiters is 0: until the list is
   gone that counter is the number of calls blocked in waitfor. *)
WaitersExact == Live => waiters = Cardinality(Waiting)

(* The queue of tids of an ordered list holds the blocked threads, in the
   order they blocked: a tid left at its head would block all others. *)
Turnstile == Ordered /\ ~doQuit => threads = queued

(* What the calls rely on between two of their steps: a blocked positional
   insert owns a cell, the threads that queue up are the blocked ones, each
   once, and a call that has not returned has not added its item. *)
CallInv ==
    \A p \in Pushers :
        /\ pc[p] # "idle" => sent[p] # 0
        /\ Live /\ pc[p] = "waiting" /\ req[p].op \in Positional /\ req[p].rle # None
              => Cells(p) # {}
OwnerInv == (doQuit <=> owner # "idle") /\ (unBound => loosened)
QueueInv == Live => IsInjective(queued) /\ ToSet(queued) = Waiting
Unreturned(p, k) == k > sent[p] \/ (k = sent[p] /\ pc[p] \notin {"idle", "undefined"})
OutcomeInv == \A p \in Pushers, k \in 1..MaxItems : Unreturned(p, k) => outcome[<<p, k>>] = "none"
Bookkeeping == CallInv /\ OwnerInv /\ QueueInv /\ OutcomeInv

(* ruListFree with calls blocked in waitfor, and no other call in progress,
   touches no freed memory: they have all left before the list is freed. *)
NoUseAfterFree == owner # "undefined" /\ \A t \in Threads : pc[t] # "undefined"

(* waitfor and ListRemoveTo: the cell of a blocked positional insert is at
   an element of the list, or at its root, whatever is removed meanwhile. *)
CellsTrack ==
    \A k \in DOMAIN currents :
        currents[k].freed \/ currents[k].elmt \in ToSet(entries) \cup {None}

-----------------------------------------------------------------------------
(* Liveness.                                                               *)

(* ruListFree returns: the calls that are blocked leave, each counted.     *)
FreeReturns == owner = "drain" ~> owner \in {"freed", "undefined"}

(* A consumer keeps polling, as the log thread does: no fairness of the
   list, so what needs it says so. *)
Polled == \A c \in Poppers : WF_vars(PopStart(c))

(* While a consumer keeps polling, no adding call stays blocked.           *)
PushReturns == Polled => \A p \in Pushers : pc[p] # "idle" ~> pc[p] = "idle"

(* ... and every item added is taken out.                                  *)
ItemsDelivered == Polled => \A i \in Item : outcome[i] = "ok" ~> i \in removed
-----------------------------------------------------------------------------
(* The list implements the buffer of BoundedBuffer.                        *)
Buffer == INSTANCE BoundedBuffer
          WITH Clients <- Pushers,
               Fifo <- PushOps = {"append"} /\ PopOps \subseteq {"pop", "tryPop"},
               buf <- entries, blocked <- queued, open <- ~doQuit,
               bounded <- ~unBound, verdict <- outcome

(* Each step of the calls is a step of the buffer, or none: what callers see
   of a list that is freed when settled is what list.h promises. *)
RefinesBuffer == Buffer!BufferSpec
=============================================================================
