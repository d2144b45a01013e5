------------------------- MODULE BoundedListProofs -------------------------
(***************************************************************************)
(* Theorems about BoundedList, for any threads, limit and calls.           *)
(*                                                                         *)
(* The inductive invariant is the type invariant, the bookkeeping of the   *)
(* calls, and the safety properties themselves; each part is preserved by  *)
(* a lemma of its own, and the parts of the list that several actions use  *)
(* (insert, remove, leave) have a lemma each on what they do.              *)
(***************************************************************************)
EXTENDS BoundedList, SequenceLemmas, FiniteSetTheorems, TLAPS

IndInv ==
    /\ TypeOK
    /\ Bookkeeping
    /\ WaitersExact
    /\ Turnstile
    /\ Capacity
    /\ ExactlyOnce
-----------------------------------------------------------------------------
(* What an insertion does to the list.                                     *)
LEMMA PlaceInList ==
    ASSUME TypeOK, NEW r \in Request,
           r.op \in Positional => r.rle \in ToSet(entries) \cup {None}
    PROVE  Place(r) \in 0..Len(entries)
<1>1. Len(entries) \in Nat /\ DOMAIN entries = 1..Len(entries)
  BY LenProperties DEF TypeOK
<1>2. r.op \in PushOp
  BY DEF Request
<1>3. CASE r.op = "append"
  BY <1>1, <1>3 DEF Place
<1>4. CASE r.op = "first"
  BY <1>1, <1>4 DEF Place
<1>5. CASE r.op = "last"
  <2>1. entries # <<>> => Len(entries) # 0
    BY EmptySeq DEF TypeOK
  <2> QED
    BY <1>1, <1>5, <2>1 DEF Place
<1>6. CASE r.op \in Positional
  <2>1. CASE r.rle = None
    BY <1>1, <1>6, <2>1 DEF Place, Positional
  <2>2. CASE r.rle # None
    <3>1. \E i \in DOMAIN entries : entries[i] = r.rle
      BY <1>6, <2>2 DEF ToSet
    <3>2. Index(r.rle) \in 1..Len(entries)
      BY <1>1, <3>1 DEF Index
    <3>3. Place(r) = Index(r.rle) - 1 \/ Place(r) = Index(r.rle)
      BY <1>6, <2>2 DEF Place, Positional
    <3> HIDE DEF Index
    <3> QED
      BY <1>1, <3>2, <3>3
  <2> QED
    BY <2>1, <2>2
<1> QED
  BY <1>2, <1>3, <1>4, <1>5, <1>6 DEF PushOp, Positional

(* The item of a call in progress. *)
LEMMA CurrentType ==
    ASSUME TypeOK, NEW p \in Pushers, sent[p] # 0
    PROVE  Current(p) \in Item
<1>1. sent[p] \in 1..MaxItems
  BY BoundsAssumption DEF TypeOK
<1> QED
  BY <1>1 DEF Current, Item

(* An insertion adds the item once and removes none. *)
LEMMA InsertEffect ==
    ASSUME TypeOK, NEW p \in Pushers, sent[p] # 0, NEW r \in Request,
           r.op \in Positional => r.rle \in ToSet(entries) \cup {None},
           ListInsertAfter(p, r)
    PROVE  /\ entries' \in Seq(Item)
           /\ Len(entries') = Len(entries) + 1
           /\ ToSet(entries') = ToSet(entries) \cup {Current(p)}
           /\ IsInjective(entries) /\ Current(p) \notin ToSet(entries) => IsInjective(entries')
<1> DEFINE n == Place(r)
           e == Current(p)
<1>1. n \in 0..Len(entries)
  BY PlaceInList
<1>2. e \in Item
  BY CurrentType
<1>3. entries \in Seq(Item)
  BY DEF TypeOK
<1>4. entries' = InsertAt(entries, n + 1, e)
  BY DEF ListInsertAfter
<1> HIDE DEF n, e
<1>5. /\ entries' \in Seq(Item)
      /\ Len(entries') = Len(entries) + 1
  BY <1>1, <1>2, <1>3, <1>4, InsertAtProperties
<1>6. /\ ToSet(entries') = ToSet(entries) \cup {e}
      /\ IsInjective(entries) /\ e \notin ToSet(entries) => IsInjective(entries')
  BY <1>1, <1>2, <1>3, <1>4, InsertAtSet
<1> QED
  BY <1>5, <1>6 DEF e

(* What a removal does to the list and to the cells.                       *)
LEMMA RemoveEffect ==
    ASSUME TypeOK, NEW i \in DOMAIN entries, ListRemoveTo(i)
    PROVE  /\ entries' \in Seq(Item)
           /\ Len(entries') = Len(entries) - 1
           /\ entries[i] \in ToSet(entries)
           /\ entries[i] \in Item
           /\ removed' = removed \cup {entries[i]}
           /\ IsInjective(entries) => /\ ToSet(entries') = ToSet(entries) \ {entries[i]}
                                     /\ IsInjective(entries')
<1>1. entries \in Seq(Item) /\ i \in 1..Len(entries)
  BY LenProperties DEF TypeOK
<1>2. entries' = RemoveAt(entries, i) /\ removed' = removed \cup {entries[i]}
  BY DEF ListRemoveTo
<1>3. /\ entries' \in Seq(Item)
      /\ Len(entries') = Len(entries) - 1
  BY <1>1, <1>2, RemoveAtProperties
<1>4. IsInjective(entries) => /\ ToSet(entries') = ToSet(entries) \ {entries[i]}
                              /\ IsInjective(entries')
  BY <1>1, <1>2, RemoveAtSet
<1>5. entries[i] \in Item /\ entries[i] \in ToSet(entries)
  BY <1>1, ElementOfSeq DEF ToSet
<1> QED
  BY <1>2, <1>3, <1>4, <1>5

(* A cell may move, but stays the cell of its call.                        *)
SameCells ==
    /\ currents' \in Seq(Cell)
    /\ DOMAIN currents' = DOMAIN currents
    /\ \A k \in DOMAIN currents : /\ currents'[k].by = currents[k].by
                                  /\ currents'[k].freed = currents[k].freed

(* A cell points at an element or at the root. *)
LEMMA NodeType ==
    ASSUME TypeOK, NEW i
    PROVE  Node(i) \in Item \cup {None}
<1>1. \A j \in DOMAIN entries : entries[j] \in Item
  BY ElementOfSeq, LenProperties DEF TypeOK
<1> QED
  BY <1>1 DEF Node

(* A removal frees no cell and takes none from its call. *)
LEMMA RemoveKeepsCells ==
    ASSUME TypeOK, NEW i \in DOMAIN entries, ListRemoveTo(i)
    PROVE  SameCells
<1>1. /\ currents \in Seq(Cell)
      /\ DOMAIN currents = 1..Len(currents)
      /\ \A k \in DOMAIN currents : currents[k] \in Cell
  BY ElementOfSeq, LenProperties DEF TypeOK
<1>2. CASE UNCHANGED currents
  BY <1>1, <1>2 DEF SameCells
<1>3. CASE \E k \in DOMAIN currents : currents' = [currents EXCEPT ![k] = Reposition(@, i)]
  <2>1. PICK k \in DOMAIN currents : currents' = [currents EXCEPT ![k] = Reposition(currents[k], i)]
    BY <1>3
  <2>2. /\ Reposition(currents[k], i) \in Cell
        /\ Reposition(currents[k], i).by = currents[k].by
        /\ Reposition(currents[k], i).freed = currents[k].freed
    <3>1. Node(i + 1) \in Item \cup {None} /\ Node(i - 1) \in Item \cup {None}
      BY NodeType
    <3>2. currents[k] \in Cell
      BY <1>1
    <3> QED
      BY <3>1, <3>2 DEF Reposition, Cell
  <2> DEFINE c == Reposition(currents[k], i)
  <2>3. currents' = [currents EXCEPT ![k] = c] /\ c \in Cell /\ c.by = currents[k].by
            /\ c.freed = currents[k].freed
    BY <2>1, <2>2
  <2> HIDE DEF c
  <2>4. currents' \in Seq(Cell) /\ DOMAIN currents' = DOMAIN currents
    BY <1>1, <2>3, ExceptSeq
  <2> QED
    BY <1>1, <2>3, <2>4 DEF SameCells
<1>4. RepositionFirst(i)
  BY DEF ListRemoveTo
<1>5. At(i) \subseteq DOMAIN currents
  BY DEF At
<1> QED
  BY <1>2, <1>3, <1>4, <1>5 DEF RepositionFirst

(* A call that leaves waitfor touches no other call's cell. *)
LEMMA FreeCellKeepsCells ==
    ASSUME TypeOK, NEW p \in Pushers, FreeCell(p)
    PROVE  /\ currents' \in Seq(Cell)
           /\ DOMAIN currents' = DOMAIN currents
           /\ \A k \in DOMAIN currents :
                /\ currents'[k].by = currents[k].by
                /\ currents[k].by # p => currents'[k].freed = currents[k].freed
<1>1. /\ currents \in Seq(Cell)
      /\ Len(currents) \in Nat
      /\ DOMAIN currents = 1..Len(currents)
      /\ \A k \in DOMAIN currents : currents[k] \in Cell
  BY ElementOfSeq, LenProperties DEF TypeOK
<1> DEFINE f(k) == IF k \in Cells(p) THEN [currents[k] EXCEPT !.freed = TRUE] ELSE currents[k]
<1>2. currents' = [k \in 1..Len(currents) |-> f(k)]
  BY <1>1 DEF FreeCell
<1>3. ASSUME NEW k \in DOMAIN currents
      PROVE  /\ f(k) \in Cell /\ f(k).by = currents[k].by
             /\ currents[k].by # p => f(k).freed = currents[k].freed
  <2>1. currents[k] \in Cell
    BY <1>1
  <2>2. CASE k \in Cells(p)
    <3>1. f(k) = [currents[k] EXCEPT !.freed = TRUE]
      BY <2>2
    <3>2. currents[k].by = p
      BY <2>2 DEF Cells
    <3> HIDE DEF f
    <3> QED
      BY <2>1, <3>1, <3>2 DEF Cell
  <2>3. CASE k \notin Cells(p)
    BY <2>1, <2>3
  <2> QED
    BY <2>2, <2>3
<1> HIDE DEF f
<1>4. currents' \in [1..Len(currents) -> Cell]
  BY <1>1, <1>2, <1>3
<1>5. currents' \in Seq(Cell)
  BY <1>1, <1>4, SeqDef
<1> QED
  BY <1>1, <1>2, <1>3, <1>5

(* What the return of a blocked call does.                                 *)
LEMMA WaitingFinite == IsFiniteSet(Waiting) /\ Cardinality(Waiting) \in Nat
  BY ThreadsAssumption, FS_Subset, FS_CardinalityType DEF Waiting

(* One call fewer is counted, and it is gone from the queue of tids. *)
LEMMA LeaveEffect ==
    ASSUME TypeOK, WaitersExact, QueueInv, Live, NEW p \in Pushers,
           pc[p] = "waiting", Leave(p)
    PROVE  /\ waiters' \in Nat
           /\ Waiting' = Waiting \ {p}
           /\ waiters' = Cardinality(Waiting')
           /\ pc' \in [Threads -> Labels]
           /\ pc' = [pc EXCEPT ![p] = "idle"]
           /\ queued' \in Seq(Pushers)
           /\ IsInjective(queued')
           /\ ToSet(queued') = Waiting'
<1>1. pc' = [pc EXCEPT ![p] = "idle"] /\ p \in Threads
  BY DEF Leave, Goto, Threads
<1>2. pc' \in [Threads -> Labels]
  BY <1>1 DEF TypeOK, Labels
<1>3. Waiting' = Waiting \ {p}
  BY <1>1 DEF Waiting, TypeOK, Threads
<1>4. p \in Waiting
  BY DEF Waiting
<1>5. Cardinality(Waiting \ {p}) = Cardinality(Waiting) - 1
  BY <1>4, WaitingFinite, FS_RemoveElement
<1>6. Cardinality(Waiting \ {p}) \in Nat
  BY WaitingFinite, FS_Subset, FS_CardinalityType, FS_RemoveElement
<1>7. waiters' = waiters - 1 /\ waiters = Cardinality(Waiting)
  BY DEF Leave, WaitersExact
<1>8. queued \in Seq(Pushers) /\ IsInjective(queued) /\ ToSet(queued) = Waiting
  BY DEF TypeOK, QueueInv
<1>9. PICK k \in DOMAIN queued : queued[k] = p /\ queued' = RemoveAt(queued, k)
  BY DEF Leave
<1>10. k \in 1..Len(queued)
  BY <1>8, LenProperties
<1>11. queued' \in Seq(Pushers)
  BY <1>8, <1>9, <1>10, RemoveAtProperties
<1>12. ToSet(queued') = ToSet(queued) \ {p} /\ IsInjective(queued')
  BY <1>8, <1>9, <1>10, RemoveAtSet
<1> QED
  BY <1>1, <1>2, <1>3, <1>5, <1>6, <1>7, <1>8, <1>11, <1>12

(* What a popper's step may do.  It disturbs none of the blocked calls.    *)
PopEffect(c) ==
    /\ Live
    /\ UNCHANGED <<outcome, waiters, threads, req, queued, ownVars, sent>>
    /\ mux' \in Threads \cup {None}
    /\ pc' \in [Threads -> Labels]
    /\ \A p \in Pushers : pc'[p] = pc[p]
    /\ \/ UNCHANGED <<entries, removed, currents>>
       \/ \E i \in DOMAIN entries : ListRemoveTo(i)

(* Every step of a popper is of that kind. *)
LEMMA PopShape ==
    ASSUME TypeOK, NEW c \in Poppers, Pop(c)
    PROVE  PopEffect(c)
<1>1. c \in Threads /\ c \notin Pushers
  BY ThreadsAssumption DEF Threads
<1>2. \A l \in Labels : Goto(c, l) => /\ pc' \in [Threads -> Labels]
                                    /\ \A p \in Pushers : pc'[p] = pc[p]
  BY <1>1 DEF Goto, TypeOK, Threads
<1>3. UNCHANGED pc => /\ pc' \in [Threads -> Labels]
                      /\ \A p \in Pushers : pc'[p] = pc[p]
  BY DEF TypeOK
<1>4. entries # <<>> => 1 \in DOMAIN entries
  BY EmptySeq, LenProperties DEF TypeOK
<1>5. mux \in Threads \cup {None}
  BY DEF TypeOK
<1>6. {"idle", "lock", "polling", "clearing"} \subseteq Labels
  BY DEF Labels
<1>7. CASE PopStart(c)
  BY <1>2, <1>5, <1>6, <1>7 DEF PopStart, PopEffect, listVars, waitVars, ownVars
<1>8. CASE PopLock(c)
  <2> USE DEF PopLock, PopEffect, ownVars
  <2>1. CASE doQuit
    BY <1>2, <1>5, <1>6, <1>8, <2>1
  <2>2. CASE ~doQuit /\ PopFirst(c)
    BY <1>2, <1>4, <1>5, <1>6, <1>8, <2>2 DEF PopFirst
  <2>3. CASE ~doQuit /\ PopNothing(c)
    BY <1>2, <1>5, <1>6, <1>8, <2>3 DEF PopNothing
  <2>4. CASE ~doQuit /\ RemoveAny(c)
    BY <1>2, <1>5, <1>6, <1>8, <2>4 DEF RemoveAny
  <2>5. CASE ~doQuit /\ ClearStart(c)
    BY <1>1, <1>2, <1>6, <1>8, <2>5 DEF ClearStart
  <2> QED
    BY <1>8, <2>1, <2>2, <2>3, <2>4, <2>5
<1>9. CASE PopResume(c)
  BY <1>2, <1>4, <1>5, <1>6, <1>9 DEF PopResume, PopEffect
<1>10. CASE Clear(c)
  BY <1>2, <1>3, <1>4, <1>5, <1>6, <1>10 DEF Clear, PopEffect
<1> QED
  BY <1>7, <1>8, <1>9, <1>10 DEF Pop
-----------------------------------------------------------------------------
(* The type invariant.                                                     *)
LEMMA GotoType ==
    ASSUME TypeOK, NEW t \in Threads, NEW l \in Labels, Goto(t, l)
    PROVE  pc' \in [Threads -> Labels]
BY DEF TypeOK, Goto

(* An outcome keeps its type. *)
LEMMA OutcomeType ==
    ASSUME TypeOK, NEW i, NEW code \in {"none", "ok", "abort", "invalid"},
           outcome' = [outcome EXCEPT ![i] = code]
    PROVE  outcome' \in [Item -> {"none", "ok", "abort", "invalid"}]
BY DEF TypeOK

(* The arguments a blocked call keeps name an element or the root, unless
   the call has a cell for them: no Place is asked of a stale element. *)
LEMMA WaitBeginEffect ==
    ASSUME TypeOK, NEW p \in Pushers, NEW r \in Request,
           r.rle \in ToSet(entries) \cup {None}, WaitBegin(p, r)
    PROVE  /\ waiters' = waiters + 1
           /\ currents' \in Seq(Cell)
           /\ threads' \in Seq(Pushers)
           /\ queued' \in Seq(Pushers)
           /\ req' \in [Pushers -> Request]
           /\ pc' \in [Threads -> Labels]
<1>1. pc' \in [Threads -> Labels]
  BY GotoType DEF WaitBegin, Threads, Labels
<1>2. req' \in [Pushers -> Request]
  BY DEF WaitBegin, TypeOK
<1>3. threads' \in Seq(Pushers) /\ queued' \in Seq(Pushers)
  BY AppendProperties DEF WaitBegin, TypeOK
<1>4. currents' \in Seq(Cell)
  <2> DEFINE cell == [elmt |-> r.rle, before |-> r.op = "before", by |-> p, freed |-> FALSE]
  <2>1. cell \in Cell
    BY DEF Cell, Request
  <2>2. currents \in Seq(Cell) /\ (currents' = Append(currents, cell) \/ currents' = currents)
    BY DEF WaitBegin, TypeOK
  <2> HIDE DEF cell
  <2> QED
    BY <2>1, <2>2, AppendProperties
<1> QED
  BY <1>1, <1>2, <1>3, <1>4 DEF WaitBegin

(* Every step keeps the types. *)
LEMMA TypeStep ==
    ASSUME IndInv, Next
    PROVE  TypeOK'
<1> TypeOK /\ WaitersExact /\ QueueInv /\ CallInv
  BY DEF IndInv, Bookkeeping
<1> USE DEF listVars, waitVars, ownVars
<1>1. ASSUME NEW p \in Pushers, PushStart(p) PROVE TypeOK'
  <2>1. sent' \in [Pushers -> 0..MaxItems]
    BY <1>1, BoundsAssumption DEF PushStart, TypeOK
  <2>2. pc' \in [Threads -> Labels]
    BY <1>1, GotoType DEF PushStart, Threads, Labels, TypeOK
  <2>3. outcome' \in [Item -> {"none", "ok", "abort", "invalid"}]
    BY <1>1, OutcomeType DEF PushStart, TypeOK
  <2> QED
    BY <1>1, <2>1, <2>2, <2>3 DEF PushStart, TypeOK
<1>2. ASSUME NEW p \in Pushers, PushLock(p) PROVE TypeOK'
  <2>1. pc' \in [Threads -> Labels]
    BY <1>2, GotoType DEF PushLock, Threads, Labels
  <2>2. outcome' \in [Item -> {"none", "ok", "abort", "invalid"}]
    BY <1>2, OutcomeType DEF PushLock, Return, TypeOK
  <2> QED
    BY <1>2, <2>1, <2>2 DEF PushLock, TypeOK, Threads
<1>3. ASSUME NEW p \in Pushers, PushEnter(p) PROVE TypeOK'
  <2>1. sent[p] # 0 /\ p \in Threads
    BY <1>3 DEF PushEnter, CallInv, Threads
  <2>2. PICK r \in [op : PushOps, rle : ToSet(entries) \cup {None}] :
            /\ r.op \notin Positional => r.rle = None
            /\ \/ WaitBegin(p, r)
               \/ /\ ListInsertAfter(p, r) /\ Return(p, "ok") /\ Goto(p, "idle")
                  /\ UNCHANGED <<waitVars, removed>>
    BY <1>3 DEF PushEnter
  <2>3. r \in Request /\ r.rle \in ToSet(entries) \cup {None}
    <3>1. ToSet(entries) \subseteq Item
      BY ElementOfSeq, LenProperties DEF ToSet, TypeOK
    <3> QED
      BY <2>2, <3>1, OpsAssumption DEF Request
  <2>4. CASE WaitBegin(p, r)
    <3>1. /\ waiters' = waiters + 1 /\ currents' \in Seq(Cell)
          /\ threads' \in Seq(Pushers) /\ queued' \in Seq(Pushers)
          /\ req' \in [Pushers -> Request] /\ pc' \in [Threads -> Labels]
      BY <2>3, <2>4, WaitBeginEffect
    <3> QED
      BY <1>3, <2>4, <3>1 DEF PushEnter, WaitBegin, TypeOK
  <2>5. CASE /\ ListInsertAfter(p, r) /\ Return(p, "ok") /\ Goto(p, "idle")
             /\ UNCHANGED <<waitVars, removed>>
    <3>1. entries' \in Seq(Item)
      BY <2>1, <2>3, <2>5, InsertEffect
    <3>2. pc' \in [Threads -> Labels]
      BY <2>1, <2>5, GotoType DEF Labels
    <3>3. outcome' \in [Item -> {"none", "ok", "abort", "invalid"}]
      BY <2>5, OutcomeType DEF Return
    <3> QED
      BY <1>3, <2>5, <3>1, <3>2, <3>3 DEF PushEnter, TypeOK
  <2> QED
    BY <2>2, <2>4, <2>5
<1>4. ASSUME NEW p \in Pushers, PushAbort(p) PROVE TypeOK'
  <2>1. waiters' \in Nat /\ pc' \in [Threads -> Labels] /\ queued' \in Seq(Pushers)
    BY <1>4, LeaveEffect DEF PushAbort
  <2>2. currents' \in Seq(Cell)
    BY <1>4, FreeCellKeepsCells DEF PushAbort
  <2>3. outcome' \in [Item -> {"none", "ok", "abort", "invalid"}]
    BY <1>4, OutcomeType DEF PushAbort, Return
  <2> QED
    BY <1>4, <2>1, <2>2, <2>3 DEF PushAbort, Leave, TypeOK
<1>5. ASSUME NEW p \in Pushers, PushResume(p) PROVE TypeOK'
  <2>1. waiters' \in Nat /\ pc' \in [Threads -> Labels] /\ queued' \in Seq(Pushers)
    BY <1>5, LeaveEffect DEF PushResume
  <2>2. currents' \in Seq(Cell)
    BY <1>5, FreeCellKeepsCells DEF PushResume
  <2>3. outcome' \in [Item -> {"none", "ok", "abort", "invalid"}]
    BY <1>5, OutcomeType DEF PushResume, Return
  <2>4. threads' \in Seq(Pushers)
    BY <1>5, HeadTailProperties DEF PushResume, Turn, TypeOK
  <2>5. entries' \in Seq(Item)
    <3>1. CASE Cells(p) # {}
      BY <1>5, <3>1 DEF PushResume, TypeOK
    <3>2. CASE Cells(p) = {}
      <4>1. ListInsertAfter(p, req[p]) /\ req[p] \in Request /\ sent[p] # 0
        BY <1>5, <3>2 DEF PushResume, TypeOK, CallInv
      <4>2. req[p].op \in Positional => req[p].rle = None
        BY <1>5, <3>2 DEF PushResume, CallInv
      <4> QED
        BY <4>1, <4>2, InsertEffect
    <3> QED
      BY <3>1, <3>2
  <2> QED
    BY <1>5, <2>1, <2>2, <2>3, <2>4, <2>5 DEF PushResume, Leave, TypeOK
<1>6. ASSUME NEW c \in Poppers, Pop(c) PROVE TypeOK'
  <2>1. PopEffect(c)
    BY <1>6, PopShape
  <2>2. CASE UNCHANGED <<entries, removed, currents>>
    BY <2>1, <2>2 DEF PopEffect, TypeOK
  <2>3. ASSUME NEW i \in DOMAIN entries, ListRemoveTo(i) PROVE TypeOK'
    <3>1. entries' \in Seq(Item) /\ removed' = removed \cup {entries[i]} /\ entries[i] \in Item
      BY <2>3, RemoveEffect
    <3>2. currents' \in Seq(Cell)
      BY <2>3, RemoveKeepsCells DEF SameCells
    <3> QED
      BY <2>1, <3>1, <3>2 DEF PopEffect, TypeOK
  <2> QED
    BY <2>1, <2>2, <2>3 DEF PopEffect
<1>7. CASE Owner
  <2>1. ASSUME NEW limit \in BOOLEAN, Bind(limit) PROVE TypeOK'
    BY <2>1 DEF Bind, TypeOK
  <2>2. CASE FreeStart
    BY <2>2 DEF FreeStart, TypeOK
  <2>3. CASE FreeDrained
    BY <2>3 DEF FreeDrained, TypeOK
  <2>4. CASE FreeDestroy
    <3>1. ToSet(entries) \subseteq Item
      BY ElementOfSeq, LenProperties DEF ToSet, TypeOK
    <3>2. <<>> \in Seq(Item) /\ <<>> \in Seq(Cell) /\ <<>> \in Seq(Pushers)
      OBVIOUS
    <3> QED
      BY <2>4, <3>1, <3>2 DEF FreeDestroy, TypeOK
  <2> QED
    BY <1>7, <2>1, <2>2, <2>3, <2>4 DEF Owner
<1>8. ASSUME NEW t \in Threads, UseAfterFree(t) PROVE TypeOK'
  BY <1>8, GotoType DEF UseAfterFree, Labels, TypeOK
<1>9. CASE Finished
  BY <1>9 DEF Finished, vars, TypeOK
<1> QED
  BY <1>1, <1>2, <1>3, <1>4, <1>5, <1>6, <1>7, <1>8, <1>9 DEF Next, Push
-----------------------------------------------------------------------------
(* The bookkeeping of the calls.                                           *)
LEMMA CellsKept ==
    ASSUME NEW q \in Pushers, DOMAIN currents' = DOMAIN currents,
           \A k \in DOMAIN currents :
                /\ currents'[k].by = currents[k].by
                /\ currents[k].by = q => currents'[k].freed = currents[k].freed
    PROVE  Cells(q)' = Cells(q)
BY DEF Cells

(* A positional insert that blocks gets a cell, and the others keep theirs. *)
LEMMA WaitBeginCells ==
    ASSUME TypeOK, NEW p \in Pushers, NEW r \in Request, WaitBegin(p, r)
    PROVE  /\ r.op \in Positional /\ r.rle # None => Cells(p)' # {}
           /\ \A q \in Pushers : Cells(q) # {} => Cells(q)' # {}
<1> DEFINE cell == [elmt |-> r.rle, before |-> r.op = "before", by |-> p, freed |-> FALSE]
<1>1. /\ currents \in Seq(Cell) /\ Len(currents) \in Nat
      /\ DOMAIN currents = 1..Len(currents)
  BY LenProperties DEF TypeOK
<1>2. cell \in Cell /\ cell.by = p /\ ~cell.freed
  BY DEF Cell, Request
<1>3. CASE ~(r.op \in Positional /\ r.rle # None)
  BY <1>3 DEF WaitBegin, Cells
<1>4. CASE r.op \in Positional /\ r.rle # None
  <2>1. currents' = Append(currents, cell)
    BY <1>4 DEF WaitBegin
  <2> HIDE DEF cell
  <2>2. /\ DOMAIN currents' = 1..(Len(currents) + 1)
        /\ \A k \in 1..Len(currents) : currents'[k] = currents[k]
        /\ currents'[Len(currents) + 1] = cell
    BY <1>1, <1>2, <2>1, AppendProperties, LenProperties
  <2>3. Len(currents) + 1 \in Cells(p)'
    BY <1>1, <1>2, <2>2 DEF Cells
  <2>4. \A q \in Pushers : Cells(q) \subseteq Cells(q)'
    BY <1>1, <2>2 DEF Cells
  <2> QED
    BY <2>3, <2>4
<1> QED
  BY <1>3, <1>4

(* Every step keeps what calls rely on. *)
LEMMA CallStep ==
    ASSUME IndInv, Next
    PROVE  CallInv'
<1> TypeOK /\ CallInv /\ WaitersExact /\ QueueInv
  BY DEF IndInv, Bookkeeping
<1> USE DEF listVars, waitVars, ownVars
<1> SUFFICES ASSUME NEW q \in Pushers
             PROVE  /\ pc'[q] # "idle" => sent'[q] # 0
                    /\ (Live /\ pc[q] = "waiting" /\ req[q].op \in Positional /\ req[q].rle # None)'
                          => Cells(q)' # {}
  BY DEF CallInv
<1>0. /\ q \in Threads /\ Pushers \subseteq Threads
      /\ pc[q] # "idle" => sent[q] # 0
      /\ Live /\ pc[q] = "waiting" /\ req[q].op \in Positional /\ req[q].rle # None => Cells(q) # {}
  BY DEF CallInv, Threads
<1> DEFINE Goal == /\ pc'[q] # "idle" => sent'[q] # 0
                   /\ (Live /\ pc[q] = "waiting" /\ req[q].op \in Positional /\ req[q].rle # None)'
                         => Cells(q)' # {}
<1>1. ASSUME NEW p \in Pushers, PushStart(p) PROVE Goal
  <2>1. Cells(q)' = Cells(q) /\ (Live' <=> Live) /\ req' = req
    BY <1>1 DEF PushStart, Cells, Live
  <2>2. CASE q = p
    <3>1. sent'[q] = sent[q] + 1 /\ sent[q] \in Nat
      BY <1>1, <2>2, BoundsAssumption DEF PushStart, TypeOK
    <3>2. pc'[q] \in {"idle", "lock"}
      BY <1>1, <1>0, <2>2 DEF PushStart, Goto, TypeOK
    <3> QED
      BY <3>1, <3>2
  <2>3. CASE q # p
    BY <1>0, <1>1, <2>1, <2>3 DEF PushStart, Goto, TypeOK
  <2> QED
    BY <2>2, <2>3
<1>2. ASSUME NEW p \in Pushers, PushLock(p) PROVE Goal
  <2>1. Cells(q)' = Cells(q) /\ (Live' <=> Live) /\ req' = req /\ sent' = sent
    BY <1>2 DEF PushLock, Cells, Live
  <2>2. CASE q = p
    BY <1>0, <1>2, <2>1, <2>2 DEF PushLock, Goto, TypeOK
  <2>3. CASE q # p
    BY <1>0, <1>2, <2>1, <2>3 DEF PushLock, Goto, TypeOK
  <2> QED
    BY <2>2, <2>3
<1>3. ASSUME NEW p \in Pushers, PushEnter(p) PROVE Goal
  <2>1. /\ (Live' <=> Live) /\ sent' = sent /\ sent[p] # 0
    BY <1>3 DEF PushEnter, Live, CallInv
  <2>2. PICK r \in [op : PushOps, rle : ToSet(entries) \cup {None}] :
            \/ WaitBegin(p, r)
            \/ Goto(p, "idle") /\ UNCHANGED waitVars
    BY <1>3 DEF PushEnter
  <2>3. CASE WaitBegin(p, r)
    <3>1. r \in Request
      <4>1. ToSet(entries) \subseteq Item
        BY ElementOfSeq, LenProperties DEF ToSet, TypeOK
      <4> QED
        BY <2>2, <4>1, OpsAssumption DEF Request
    <3>2. /\ r.op \in Positional /\ r.rle # None => Cells(p)' # {}
          /\ \A x \in Pushers : Cells(x) # {} => Cells(x)' # {}
      BY <2>3, <3>1, WaitBeginCells
    <3>3. req' = [req EXCEPT ![p] = r] /\ pc' = [pc EXCEPT ![p] = "waiting"]
      BY <2>3 DEF WaitBegin, Goto
    <3>4. CASE q = p
      <4>1. req'[q] = r
        BY <3>3, <3>4 DEF TypeOK
      <4> QED
        BY <2>1, <3>2, <3>4, <4>1
    <3>5. CASE q # p
      <4>1. req'[q] = req[q] /\ pc'[q] = pc[q]
        BY <3>3, <3>5 DEF TypeOK
      <4> QED
        BY <1>0, <2>1, <3>2, <4>1
    <3> QED
      BY <3>4, <3>5
  <2>4. CASE Goto(p, "idle") /\ UNCHANGED waitVars
    <3>1. Cells(q)' = Cells(q)
      BY <2>4 DEF Cells
    <3>2. pc'[q] = "idle" \/ pc'[q] = pc[q]
      BY <1>0, <2>4 DEF Goto, TypeOK
    <3> QED
      BY <1>0, <2>1, <2>4, <3>1, <3>2
  <2> QED
    BY <2>2, <2>3, <2>4
<1>4. ASSUME NEW p \in Pushers, PushAbort(p) \/ PushResume(p) PROVE Goal
  <2>1. (Live' <=> Live) /\ sent' = sent /\ req' = req /\ pc' = [pc EXCEPT ![p] = "idle"]
    BY <1>4 DEF PushAbort, PushResume, Live, Leave, Goto
  <2>2. CASE q = p
    BY <1>0, <2>1, <2>2 DEF TypeOK
  <2>3. CASE q # p
    <3>1. Cells(q)' = Cells(q)
      BY <1>4, <2>3, FreeCellKeepsCells, CellsKept DEF PushAbort, PushResume
    <3>2. pc'[q] = pc[q]
      BY <1>0, <2>1, <2>3 DEF TypeOK
    <3> QED
      BY <1>0, <2>1, <3>1, <3>2
  <2> QED
    BY <2>2, <2>3
<1>5. ASSUME NEW c \in Poppers, Pop(c) PROVE Goal
  <2>1. PopEffect(c)
    BY <1>5, PopShape
  <2>2. Cells(q)' = Cells(q)
    <3>1. CASE UNCHANGED currents
      BY <3>1 DEF Cells
    <3>2. ASSUME NEW i \in DOMAIN entries, ListRemoveTo(i) PROVE Cells(q)' = Cells(q)
      BY <3>2, RemoveKeepsCells, CellsKept DEF SameCells
    <3> QED
      BY <2>1, <3>1, <3>2 DEF PopEffect
  <2> QED
    BY <1>0, <2>1, <2>2 DEF PopEffect, Live
<1>6. CASE Owner
  <2>1. UNCHANGED <<pc, sent, req>>
    BY <1>6 DEF Owner, Bind, FreeStart, FreeDrained, FreeDestroy
  <2>2. CASE FreeDestroy
    BY <1>0, <2>1, <2>2 DEF FreeDestroy, Live
  <2>3. CASE ~FreeDestroy
    <3>1. UNCHANGED currents /\ Live
      BY <1>6, <2>3 DEF Owner, Bind, FreeStart, FreeDrained, Live
    <3> QED
      BY <1>0, <2>1, <3>1 DEF Cells
  <2> QED
    BY <2>2, <2>3
<1>7. ASSUME NEW t \in Threads, UseAfterFree(t) PROVE Goal
  <2>1. ~Live' /\ sent' = sent
    BY <1>7 DEF UseAfterFree, Live
  <2>2. pc'[q] # "idle" => pc[q] # "idle"
    BY <1>0, <1>7 DEF UseAfterFree, Goto, TypeOK
  <2> QED
    BY <1>0, <2>1, <2>2
<1>8. CASE Finished
  BY <1>0, <1>8 DEF Finished, vars, Live, Cells
<1> QED
  BY <1>1, <1>2, <1>3, <1>4, <1>5, <1>6, <1>7, <1>8 DEF Next, Push

(* doQuit is raised by ruListFree alone, and unBound only by lifting the limit. *)
LEMMA OwnerStep ==
    ASSUME IndInv, Next
    PROVE  OwnerInv'
<1> TypeOK /\ OwnerInv
  BY DEF IndInv, Bookkeeping
<1> USE DEF OwnerInv, ownVars
<1>1. ASSUME NEW p \in Pushers, Push(p) PROVE OwnerInv'
  BY <1>1 DEF Push, PushStart, PushLock, PushEnter, PushAbort, PushResume
<1>2. ASSUME NEW c \in Poppers, Pop(c) PROVE OwnerInv'
  BY <1>2, PopShape DEF PopEffect
<1>3. CASE Owner
  <2>0. doQuit \in BOOLEAN /\ unBound \in BOOLEAN /\ loosened \in BOOLEAN
    BY DEF TypeOK
  <2>1. ASSUME NEW limit \in BOOLEAN, Bind(limit) PROVE OwnerInv'
    BY <2>0, <2>1 DEF Bind
  <2>2. CASE FreeStart
    BY <2>0, <2>2 DEF FreeStart
  <2>3. CASE FreeDrained
    BY <2>0, <2>3 DEF FreeDrained
  <2>4. CASE FreeDestroy
    BY <2>0, <2>4 DEF FreeDestroy
  <2> QED
    BY <1>3, <2>1, <2>2, <2>3, <2>4 DEF Owner
<1>4. CASE Finished \/ \E t \in Threads : UseAfterFree(t)
  BY <1>4 DEF Finished, UseAfterFree, vars
<1> QED
  BY <1>1, <1>2, <1>3, <1>4 DEF Next

(* waitfor's counter and its queue follow the blocked calls.               *)
Blocked == WaitersExact /\ QueueInv

(* A step that moves no call into or out of waitfor.                       *)
LEMMA BlockedKept ==
    ASSUME Blocked, Live' => Live, UNCHANGED <<waiters, queued>>,
           Live' => Waiting' = Waiting
    PROVE  Blocked'
BY DEF Blocked, WaitersExact, QueueInv

(* A move from and to other places than waitfor blocks and unblocks no call. *)
LEMMA GotoKeepsWaiting ==
    ASSUME TypeOK, NEW t \in Threads, NEW l \in Labels \ {"waiting"},
           Goto(t, l), pc[t] # "waiting"
    PROVE  Waiting' = Waiting
BY DEF Goto, Waiting, TypeOK, Threads

(* Every step keeps counter, queue and blocked calls together. *)
LEMMA BlockedStep ==
    ASSUME IndInv, Next
    PROVE  WaitersExact' /\ QueueInv'
<1> TypeOK /\ Blocked
  BY DEF IndInv, Bookkeeping, Blocked
<1> USE DEF waitVars, ownVars
<1> SUFFICES Blocked'
  BY DEF Blocked
<1>0. Pushers \subseteq Threads /\ Poppers \subseteq Threads
  BY DEF Threads
<1>1. ASSUME NEW p \in Pushers, PushStart(p) \/ PushLock(p) PROVE Blocked'
  <2>1. UNCHANGED <<waiters, queued, owner>>
    BY <1>1 DEF PushStart, PushLock
  <2>2. Waiting' = Waiting
    <3>1. CASE UNCHANGED pc
      BY <3>1 DEF Waiting
    <3>2. CASE ~UNCHANGED pc
      <4>1. pc[p] # "waiting" /\ \E l \in Labels \ {"waiting"} : Goto(p, l)
        BY <1>1, <3>2 DEF PushStart, PushLock, Labels
      <4> QED
        BY <1>0, <4>1, GotoKeepsWaiting
    <3> QED
      BY <3>1, <3>2
  <2> QED
    BY <2>1, <2>2, BlockedKept DEF Live
<1>2. ASSUME NEW p \in Pushers, PushEnter(p) PROVE Blocked'
  <2>1. pc[p] = "admitted" /\ Live /\ owner' = owner
    BY <1>2 DEF PushEnter
  <2>2. ASSUME NEW r, WaitBegin(p, r) PROVE Blocked'
    <3>1. /\ waiters' = waiters + 1
          /\ queued' = Append(queued, p)
          /\ pc' = [pc EXCEPT ![p] = "waiting"]
      BY <2>2 DEF WaitBegin, Goto
    <3>2. p \notin Waiting /\ Waiting' = Waiting \cup {p}
      BY <1>0, <2>1, <3>1 DEF Waiting, TypeOK
    <3>3. Cardinality(Waiting') = Cardinality(Waiting) + 1
      BY <3>2, WaitingFinite, FS_AddElement
    <3>4. ToSet(queued') = ToSet(queued) \cup {p} /\ IsInjective(queued')
      BY <2>1, <3>1, <3>2, AppendSet DEF TypeOK, Blocked, QueueInv
    <3> QED
      BY <2>1, <3>1, <3>2, <3>3, <3>4 DEF Blocked, WaitersExact, QueueInv
  <2>3. CASE Goto(p, "idle") /\ UNCHANGED waitVars
    <3>1. Waiting' = Waiting
      BY <1>0, <2>1, <2>3, GotoKeepsWaiting DEF Labels
    <3> QED
      BY <2>1, <2>3, <3>1, BlockedKept DEF Live
  <2> QED
    BY <1>2, <2>2, <2>3 DEF PushEnter
<1>3. ASSUME NEW p \in Pushers, PushAbort(p) \/ PushResume(p) PROVE Blocked'
  <2>1. pc[p] = "waiting" /\ Live /\ Leave(p)
    BY <1>3 DEF PushAbort, PushResume
  <2>2. /\ waiters' = Cardinality(Waiting')
        /\ IsInjective(queued') /\ ToSet(queued') = Waiting'
    BY <2>1, LeaveEffect DEF Blocked
  <2> QED
    BY <2>2 DEF Blocked, WaitersExact, QueueInv
<1>4. ASSUME NEW c \in Poppers, Pop(c) PROVE Blocked'
  <2>1. PopEffect(c)
    BY <1>4, PopShape
  <2> QED
    BY <2>1, BlockedKept DEF PopEffect, Waiting, Live
<1>5. CASE Owner
  BY <1>5, BlockedKept DEF Owner, Bind, FreeStart, FreeDrained, FreeDestroy, Waiting, Live
<1>6. ASSUME NEW t \in Threads, UseAfterFree(t) PROVE Blocked'
  BY <1>6 DEF UseAfterFree, Live, Blocked, WaitersExact, QueueInv
<1>7. CASE Finished
  BY <1>7 DEF Finished, vars, Live, Blocked, WaitersExact, QueueInv
<1> QED
  BY <1>1, <1>2, <1>3, <1>4, <1>5, <1>6, <1>7 DEF Next, Push

(* A call's item has no outcome before the call returns.                   *)
LEMMA OutcomeKept ==
    ASSUME OutcomeInv, UNCHANGED <<outcome, sent>>,
           \A q \in Pushers : pc[q] \in {"idle", "undefined"} => pc'[q] \in {"idle", "undefined"}
    PROVE  OutcomeInv'
BY DEF OutcomeInv, Unreturned

(* A returning call decides only its own item. *)
LEMMA OutcomeReturned ==
    ASSUME TypeOK, OutcomeInv, NEW p \in Pushers, NEW code,
           Return(p, code), Goto(p, "idle"), sent' = sent
    PROVE  OutcomeInv'
<1> SUFFICES ASSUME NEW q \in Pushers, NEW k \in 1..MaxItems, Unreturned(q, k)'
             PROVE  outcome'[<<q, k>>] = "none"
  BY DEF OutcomeInv
<1>1. p \in Threads /\ q \in Threads /\ pc' = [pc EXCEPT ![p] = "idle"]
  BY DEF Goto, Threads
<1>2. Unreturned(q, k)
  BY <1>1 DEF Unreturned, TypeOK
<1>3. <<q, k>> # Current(p)
  BY <1>1, BoundsAssumption DEF Unreturned, TypeOK, Current
<1>4. outcome'[<<q, k>>] = outcome[<<q, k>>]
  BY <1>3 DEF Return, TypeOK, Item
<1> QED
  BY <1>2, <1>4 DEF OutcomeInv

(* Every step leaves open calls undecided. *)
LEMMA OutcomeStep ==
    ASSUME IndInv, Next
    PROVE  OutcomeInv'
<1> TypeOK /\ OutcomeInv
  BY DEF IndInv, Bookkeeping
<1> USE DEF listVars, waitVars, ownVars
<1>0. Pushers \subseteq Threads
  BY DEF Threads
<1>1. ASSUME NEW p \in Pushers, PushStart(p) PROVE OutcomeInv'
  <2>1. sent' = [sent EXCEPT ![p] = sent[p] + 1] /\ pc[p] = "idle"
    BY <1>1 DEF PushStart
  <2>2. sent[p] \in Nat
    BY BoundsAssumption DEF TypeOK
  <2> SUFFICES ASSUME NEW q \in Pushers, NEW k \in 1..MaxItems, Unreturned(q, k)'
               PROVE  outcome'[<<q, k>>] = "none"
    BY DEF OutcomeInv
  <2>3. Unreturned(q, k)
    <3>1. CASE q = p
      <4>1. sent'[q] = sent[q] + 1
        BY <2>1, <3>1 DEF TypeOK
      <4> QED
        BY <2>2, <3>1, <4>1 DEF Unreturned
    <3>2. CASE q # p
      <4>1. sent'[q] = sent[q] /\ pc'[q] = pc[q]
        BY <1>0, <1>1, <2>1, <3>2 DEF TypeOK, PushStart, Goto
      <4> QED
        BY <4>1 DEF Unreturned
    <3> QED
      BY <3>1, <3>2
  <2>4. outcome[<<q, k>>] = "none"
    BY <2>3 DEF OutcomeInv
  <2>5. CASE outcome' = outcome
    BY <2>4, <2>5
  <2>6. CASE doQuit
    <3>1. outcome' = [outcome EXCEPT ![<<p, sent[p] + 1>>] = "abort"] /\ pc' = pc
      BY <1>1, <2>6 DEF PushStart
    <3>2. ~(q = p /\ k = sent[p] + 1)
      <4>1. q = p => sent'[q] = sent[p] + 1 /\ pc'[q] = "idle"
        BY <2>1, <3>1 DEF TypeOK
      <4> QED
        BY <2>2, <4>1 DEF Unreturned
    <3> QED
      BY <2>4, <3>1, <3>2 DEF TypeOK, Item
  <2> QED
    BY <1>1, <2>5, <2>6 DEF PushStart
<1>2. ASSUME NEW p \in Pushers, PushLock(p) PROVE OutcomeInv'
  <2>1. CASE doQuit
    BY <1>2, <2>1, OutcomeReturned DEF PushLock
  <2>2. CASE ~doQuit
    BY <1>0, <1>2, <2>2, OutcomeKept DEF PushLock, Goto, TypeOK
  <2> QED
    BY <2>1, <2>2
<1>3. ASSUME NEW p \in Pushers, PushEnter(p) PROVE OutcomeInv'
  <2>1. CASE \E r : WaitBegin(p, r)
    <3>1. UNCHANGED <<outcome, sent>> /\ pc[p] = "admitted" /\ Goto(p, "waiting")
      BY <1>3, <2>1 DEF PushEnter, WaitBegin
    <3> QED
      BY <1>0, <3>1, OutcomeKept DEF Goto, TypeOK
  <2>2. CASE Return(p, "ok") /\ Goto(p, "idle")
    BY <1>3, <2>2, OutcomeReturned DEF PushEnter
  <2> QED
    BY <1>3, <2>1, <2>2 DEF PushEnter
<1>4. ASSUME NEW p \in Pushers, PushAbort(p) \/ PushResume(p) PROVE OutcomeInv'
  <2>1. Goto(p, "idle") /\ sent' = sent /\ \E code \in {"abort", "invalid", "ok"} : Return(p, code)
    BY <1>4 DEF PushAbort, PushResume, Leave
  <2> QED
    BY <2>1, OutcomeReturned
<1>5. ASSUME NEW c \in Poppers, Pop(c) PROVE OutcomeInv'
  BY <1>5, PopShape, OutcomeKept DEF PopEffect
<1>6. CASE Owner
  BY <1>6, OutcomeKept DEF Owner, Bind, FreeStart, FreeDrained, FreeDestroy
<1>7. ASSUME NEW t \in Threads, UseAfterFree(t) PROVE OutcomeInv'
  BY <1>0, <1>7, OutcomeKept DEF UseAfterFree, Goto, TypeOK
<1>8. CASE Finished
  BY <1>8, OutcomeKept DEF Finished, vars
<1> QED
  BY <1>1, <1>2, <1>3, <1>4, <1>5, <1>6, <1>7, <1>8 DEF Next, Push
-----------------------------------------------------------------------------
(* The queue of tids.                                                      *)
LEMMA TurnstileStep ==
    ASSUME IndInv, Next
    PROVE  Turnstile'
<1> TypeOK /\ Turnstile /\ OwnerInv /\ QueueInv
  BY DEF IndInv, Bookkeeping
<1> USE DEF listVars, waitVars, ownVars
<1> SUFFICES ASSUME Ordered, ~doQuit' PROVE threads' = queued'
  BY DEF Turnstile
<1>0. ~doQuit => threads = queued
  BY DEF Turnstile
<1>1. ASSUME NEW p \in Pushers, Push(p) PROVE threads' = queued'
  <2>1. doQuit' = doQuit
    BY <1>1 DEF Push, PushStart, PushLock, PushEnter, PushAbort, PushResume
  <2>2. threads = queued
    BY <1>0, <2>1
  <2>3. CASE PushStart(p) \/ PushLock(p)
    BY <2>2, <2>3 DEF PushStart, PushLock
  <2>4. CASE PushEnter(p)
    <3>1. ASSUME NEW r, WaitBegin(p, r) PROVE threads' = queued'
      BY <2>2, <3>1 DEF WaitBegin
    <3>2. CASE UNCHANGED waitVars
      BY <2>2, <3>2
    <3> QED
      BY <2>4, <3>1, <3>2 DEF PushEnter
  <2>5. CASE PushAbort(p)
    BY <2>1, <2>5 DEF PushAbort
  <2>6. CASE PushResume(p)
    <3>1. threads # <<>> /\ Head(threads) = p /\ threads' = Tail(threads)
      BY <2>6 DEF PushResume, Turn
    <3>2. PICK k \in DOMAIN queued : queued[k] = p /\ queued' = RemoveAt(queued, k)
      BY <2>6 DEF PushResume, Leave
    <3>3. queued \in Seq(Pushers) /\ IsInjective(queued) /\ queued # <<>>
      BY <2>2, <2>6, <3>1 DEF PushResume, QueueInv, TypeOK
    <3>4. Len(queued) # 0 /\ 1 \in DOMAIN queued /\ Head(queued) = queued[1]
      BY <3>3, EmptySeq, LenProperties
    <3>5. k = 1
      BY <2>2, <3>1, <3>2, <3>3, <3>4 DEF IsInjective
    <3>6. RemoveAt(queued, 1) = Tail(queued)
      BY <3>3, <3>4, RemoveAtOne
    <3> QED
      BY <2>2, <3>1, <3>2, <3>5, <3>6
  <2> QED
    BY <1>1, <2>3, <2>4, <2>5, <2>6 DEF Push
<1>2. ASSUME NEW c \in Poppers, Pop(c) PROVE threads' = queued'
  BY <1>0, <1>2, PopShape DEF PopEffect
<1>3. CASE Owner
  <2>1. CASE Bind(TRUE) \/ Bind(FALSE)
    BY <1>0, <2>1 DEF Bind
  <2>2. CASE FreeStart \/ FreeDrained \/ FreeDestroy
    BY <2>2 DEF FreeStart, FreeDrained, FreeDestroy, OwnerInv
  <2> QED
    BY <1>3, <2>1, <2>2 DEF Owner
<1>4. CASE Finished \/ \E t \in Threads : UseAfterFree(t)
  BY <1>0, <1>4 DEF Finished, UseAfterFree, vars
<1> QED
  BY <1>1, <1>2, <1>3, <1>4 DEF Next
-----------------------------------------------------------------------------
(* The limit.                                                              *)
LEMMA CapacityStep ==
    ASSUME IndInv, Next
    PROVE  Capacity'
<1> TypeOK /\ Capacity /\ OwnerInv /\ CallInv
  BY DEF IndInv, Bookkeeping
<1> USE DEF listVars, waitVars, ownVars
<1>0. Len(entries) \in Nat /\ MaxSize \in Nat
  BY LenProperties, BoundsAssumption DEF TypeOK
<1>1. ASSUME UNCHANGED entries, loosened => loosened' PROVE Capacity'
  BY <1>1 DEF Capacity
<1>2. ASSUME NEW p \in Pushers, PushEnter(p) PROVE Capacity'
  <2>1. PICK r \in [op : PushOps, rle : ToSet(entries) \cup {None}] :
            \/ UNCHANGED entries
            \/ ~Full /\ ListInsertAfter(p, r)
    BY <1>2 DEF PushEnter, WaitBegin
  <2>2. loosened' = loosened /\ sent[p] # 0
    BY <1>2 DEF PushEnter, CallInv
  <2>3. CASE ~Full /\ ListInsertAfter(p, r)
    <3>1. r \in Request /\ r.rle \in ToSet(entries) \cup {None}
      <4>1. ToSet(entries) \subseteq Item
        BY ElementOfSeq, LenProperties DEF ToSet, TypeOK
      <4> QED
        BY <2>1, <4>1, OpsAssumption DEF Request
    <3>2. Len(entries') = Len(entries) + 1
      BY <2>2, <2>3, <3>1, InsertEffect
    <3> QED
      BY <1>0, <2>3, <3>2 DEF Full, Capacity
  <2> QED
    BY <1>1, <2>1, <2>2, <2>3
<1>3. ASSUME NEW p \in Pushers, PushResume(p) PROVE Capacity'
  <2>1. loosened' = loosened /\ (~Full \/ loosened)
    BY <1>3 DEF PushResume, OwnerInv
  <2>2. CASE UNCHANGED entries
    BY <1>1, <2>1, <2>2
  <2>3. CASE ~UNCHANGED entries
    <3>1. Cells(p) = {} /\ ListInsertAfter(p, req[p])
      BY <1>3, <2>3 DEF PushResume
    <3>2. req[p] \in Request /\ sent[p] # 0
      BY <1>3 DEF PushResume, TypeOK, CallInv
    <3>3. req[p].op \in Positional => req[p].rle = None
      BY <1>3, <3>1 DEF PushResume, CallInv
    <3>4. Len(entries') = Len(entries) + 1
      BY <3>1, <3>2, <3>3, InsertEffect
    <3> QED
      BY <1>0, <2>1, <3>4 DEF Full, Capacity
  <2> QED
    BY <2>2, <2>3
<1>4. ASSUME NEW p \in Pushers, PushStart(p) \/ PushLock(p) \/ PushAbort(p) PROVE Capacity'
  BY <1>1, <1>4 DEF PushStart, PushLock, PushAbort
<1>5. ASSUME NEW c \in Poppers, Pop(c) PROVE Capacity'
  <2>1. PopEffect(c)
    BY <1>5, PopShape
  <2>2. ASSUME NEW i \in DOMAIN entries, ListRemoveTo(i) PROVE Capacity'
    <3>1. Len(entries') = Len(entries) - 1 /\ loosened' = loosened
      BY <2>1, <2>2, RemoveEffect DEF PopEffect
    <3> QED
      BY <1>0, <3>1 DEF Capacity
  <2> QED
    BY <1>1, <2>1, <2>2 DEF PopEffect
<1>6. CASE Owner
  <2>1. CASE FreeDestroy
    <3>1. entries' = <<>> /\ Len(<<>>) = 0
      BY <2>1 DEF FreeDestroy
    <3> QED
      BY <1>0, <3>1 DEF Capacity
  <2>2. CASE ~FreeDestroy
    <3>1. UNCHANGED entries /\ (loosened => loosened')
      <4>1. ASSUME NEW limit \in BOOLEAN, Bind(limit)
            PROVE  UNCHANGED entries /\ (loosened => loosened')
        BY <4>1 DEF Bind, TypeOK
      <4>2. CASE FreeStart \/ FreeDrained
        BY <4>2 DEF FreeStart, FreeDrained
      <4> QED
        BY <1>6, <2>2, <4>1, <4>2 DEF Owner
    <3> QED
      BY <1>1, <3>1
  <2> QED
    BY <2>1, <2>2
<1>7. CASE Finished \/ \E t \in Threads : UseAfterFree(t)
  BY <1>1, <1>7 DEF Finished, UseAfterFree, vars
<1> QED
  BY <1>2, <1>3, <1>4, <1>5, <1>6, <1>7 DEF Next, Push
-----------------------------------------------------------------------------
(* No item is lost or doubled.                                             *)
Delivered == {i \in Item : outcome[i] = "ok"}

(* A call that fails, or does not return yet, delivers nothing.            *)
LEMMA OnceKept ==
    ASSUME ExactlyOnce, UNCHANGED <<entries, removed>>, Delivered' = Delivered
    PROVE  ExactlyOnce'
BY DEF ExactlyOnce, Delivered

(* A call that fails adds nothing. *)
LEMMA OnceFailed ==
    ASSUME TypeOK, ExactlyOnce, UNCHANGED <<entries, removed>>,
           NEW i \in Item, NEW code \in {"abort", "invalid"},
           outcome[i] = "none", outcome' = [outcome EXCEPT ![i] = code]
    PROVE  ExactlyOnce'
<1>1. Delivered' = Delivered
  BY DEF Delivered, TypeOK
<1> QED
  BY <1>1, OnceKept

(* A call that succeeds adds its item, once. *)
LEMMA OnceInserted ==
    ASSUME TypeOK, ExactlyOnce, NEW p \in Pushers, sent[p] # 0,
           outcome[Current(p)] = "none", NEW r \in Request,
           r.op \in Positional => r.rle \in ToSet(entries) \cup {None},
           ListInsertAfter(p, r), Return(p, "ok"), removed' = removed
    PROVE  ExactlyOnce'
<1> DEFINE e == Current(p)
<1>1. e \in Item
  BY CurrentType
<1>2. e \notin ToSet(entries) /\ e \notin removed
  BY <1>1 DEF ExactlyOnce
<1>3. ToSet(entries') = ToSet(entries) \cup {e} /\ IsInjective(entries')
  BY <1>2, InsertEffect DEF ExactlyOnce
<1>4. outcome' = [outcome EXCEPT ![e] = "ok"]
  BY DEF Return
<1> HIDE DEF e
<1>5. Delivered' = Delivered \cup {e}
  BY <1>1, <1>4 DEF Delivered, TypeOK
<1> QED
  BY <1>2, <1>3, <1>5 DEF ExactlyOnce, Delivered

(* No step loses or doubles an item. *)
LEMMA OnceStep ==
    ASSUME IndInv, Next
    PROVE  ExactlyOnce'
<1> TypeOK /\ ExactlyOnce /\ CallInv /\ OutcomeInv
  BY DEF IndInv, Bookkeeping
<1> USE DEF listVars, waitVars, ownVars
<1>0. UNCHANGED outcome => Delivered' = Delivered
  BY DEF Delivered
<1>1. \A p \in Pushers : pc[p] \notin {"idle", "undefined"} =>
            sent[p] # 0 /\ Current(p) \in Item /\ outcome[Current(p)] = "none"
  <2> SUFFICES ASSUME NEW p \in Pushers, pc[p] \notin {"idle", "undefined"}
               PROVE  sent[p] # 0 /\ Current(p) \in Item /\ outcome[Current(p)] = "none"
    OBVIOUS
  <2>1. sent[p] # 0 /\ Current(p) \in Item
    BY CurrentType DEF CallInv
  <2>2. sent[p] \in 1..MaxItems
    BY <2>1, BoundsAssumption DEF TypeOK
  <2> QED
    BY <2>1, <2>2 DEF OutcomeInv, Unreturned, Current
<1>2. ASSUME NEW p \in Pushers, PushStart(p) PROVE ExactlyOnce'
  <2>1. CASE UNCHANGED outcome
    BY <1>0, <1>2, <2>1, OnceKept DEF PushStart
  <2>2. CASE ~UNCHANGED outcome
    <3>1. sent[p] + 1 \in 1..MaxItems /\ sent[p] + 1 > sent[p]
      BY <1>2, BoundsAssumption DEF PushStart, TypeOK
    <3>2. <<p, sent[p] + 1>> \in Item /\ outcome[<<p, sent[p] + 1>>] = "none"
      BY <3>1 DEF Item, OutcomeInv, Unreturned
    <3>3. outcome' = [outcome EXCEPT ![<<p, sent[p] + 1>>] = "abort"]
      BY <1>2, <2>2 DEF PushStart
    <3> QED
      BY <1>2, <3>2, <3>3, OnceFailed DEF PushStart
  <2> QED
    BY <2>1, <2>2
<1>3. ASSUME NEW p \in Pushers, PushLock(p) PROVE ExactlyOnce'
  <2>1. Current(p) \in Item /\ outcome[Current(p)] = "none"
    BY <1>1, <1>3 DEF PushLock
  <2>2. UNCHANGED <<entries, removed>> /\ (UNCHANGED outcome \/ Return(p, "abort"))
    BY <1>3 DEF PushLock
  <2> QED
    BY <1>0, <2>1, <2>2, OnceKept, OnceFailed DEF Return
<1>4. ASSUME NEW p \in Pushers, PushEnter(p) PROVE ExactlyOnce'
  <2>1. PICK r \in [op : PushOps, rle : ToSet(entries) \cup {None}] :
            \/ UNCHANGED <<entries, removed, outcome>>
            \/ ListInsertAfter(p, r) /\ Return(p, "ok") /\ removed' = removed
    BY <1>4 DEF PushEnter, WaitBegin
  <2>2. r \in Request /\ r.rle \in ToSet(entries) \cup {None}
    <3>1. ToSet(entries) \subseteq Item
      BY ElementOfSeq, LenProperties DEF ToSet, TypeOK
    <3> QED
      BY <2>1, <3>1, OpsAssumption DEF Request
  <2>3. sent[p] # 0 /\ outcome[Current(p)] = "none"
    BY <1>1, <1>4 DEF PushEnter
  <2> QED
    BY <1>0, <2>1, <2>2, <2>3, OnceKept, OnceInserted
<1>5. ASSUME NEW p \in Pushers, PushAbort(p) PROVE ExactlyOnce'
  <2>1. Current(p) \in Item /\ outcome[Current(p)] = "none"
    BY <1>1, <1>5 DEF PushAbort
  <2> QED
    BY <1>5, <2>1, OnceFailed DEF PushAbort, Return
<1>6. ASSUME NEW p \in Pushers, PushResume(p) PROVE ExactlyOnce'
  <2>1. sent[p] # 0 /\ Current(p) \in Item /\ outcome[Current(p)] = "none"
    BY <1>1, <1>6 DEF PushResume
  <2>2. CASE Cells(p) # {}
    BY <1>6, <2>1, <2>2, OnceFailed DEF PushResume, Return
  <2>3. CASE Cells(p) = {}
    <3>1. req[p] \in Request /\ (req[p].op \in Positional => req[p].rle = None)
      BY <1>6, <2>3 DEF PushResume, TypeOK, CallInv
    <3> QED
      BY <1>6, <2>1, <2>3, <3>1, OnceInserted DEF PushResume
  <2> QED
    BY <2>2, <2>3
<1>7. ASSUME NEW c \in Poppers, Pop(c) PROVE ExactlyOnce'
  <2>1. PopEffect(c)
    BY <1>7, PopShape
  <2>2. CASE UNCHANGED <<entries, removed, currents>>
    BY <1>0, <2>1, <2>2, OnceKept DEF PopEffect
  <2>3. ASSUME NEW i \in DOMAIN entries, ListRemoveTo(i) PROVE ExactlyOnce'
    <3>1. /\ entries[i] \in ToSet(entries)
          /\ removed' = removed \cup {entries[i]}
          /\ ToSet(entries') = ToSet(entries) \ {entries[i]} /\ IsInjective(entries')
      BY <2>3, RemoveEffect DEF ExactlyOnce
    <3> QED
      BY <1>0, <2>1, <3>1 DEF PopEffect, ExactlyOnce, Delivered
  <2> QED
    BY <2>1, <2>2, <2>3 DEF PopEffect
<1>8. CASE Owner
  <2>1. UNCHANGED outcome
    BY <1>8 DEF Owner, Bind, FreeStart, FreeDrained, FreeDestroy
  <2>2. CASE FreeDestroy
    <3>1. entries' = <<>> /\ removed' = removed \cup ToSet(entries)
      BY <2>2 DEF FreeDestroy
    <3>2. ToSet(entries') = {} /\ IsInjective(entries')
      BY <3>1 DEF ToSet, IsInjective
    <3> QED
      BY <1>0, <2>1, <3>1, <3>2 DEF ExactlyOnce, Delivered
  <2>3. CASE ~FreeDestroy
    BY <1>0, <1>8, <2>1, <2>3, OnceKept DEF Owner, Bind, FreeStart, FreeDrained
  <2> QED
    BY <2>2, <2>3
<1>9. CASE Finished \/ \E t \in Threads : UseAfterFree(t)
  BY <1>0, <1>9, OnceKept DEF Finished, UseAfterFree, vars
<1> QED
  BY <1>2, <1>3, <1>4, <1>5, <1>6, <1>7, <1>8, <1>9 DEF Next, Push
-----------------------------------------------------------------------------
(* The inductive invariant.                                                *)
LEMMA InitInductive == Init => IndInv
<1> SUFFICES ASSUME Init PROVE IndInv
  OBVIOUS
<1> USE DEF Init
<1>1. TypeOK
  <2>1. <<>> \in Seq(Item) /\ <<>> \in Seq(Cell) /\ <<>> \in Seq(Pushers)
    OBVIOUS
  <2>2. req \in [Pushers -> Request]
    BY DEF Request, PushOp
  <2>3. sent \in [Pushers -> 0..MaxItems]
    <3>1. 0 \in 0..MaxItems
      BY BoundsAssumption
    <3> QED
      BY <3>1
  <2>4. pc \in [Threads -> Labels] /\ outcome \in [Item -> {"none", "ok", "abort", "invalid"}]
    BY DEF Labels
  <2> QED
    BY <2>1, <2>2, <2>3, <2>4 DEF TypeOK
<1>2. Waiting = {}
  BY DEF Waiting, Threads
<1>3. ToSet(<<>>) = {} /\ IsInjective(<<>>)
  BY DEF ToSet, IsInjective
<1>4. CallInv /\ OwnerInv /\ QueueInv
  BY <1>2, <1>3 DEF CallInv, OwnerInv, QueueInv, Live, Threads
<1>5. OutcomeInv
  BY DEF OutcomeInv, Item
<1>6. WaitersExact /\ Turnstile
  BY <1>2, FS_EmptySet DEF WaitersExact, Turnstile
<1>7. Capacity
  <2>1. Len(<<>>) = 0
    OBVIOUS
  <2> QED
    BY <2>1, BoundsAssumption DEF Capacity
<1>8. ExactlyOnce
  BY <1>3 DEF ExactlyOnce
<1> QED
  BY <1>1, <1>4, <1>5, <1>6, <1>7, <1>8 DEF IndInv, Bookkeeping

(* Every step keeps the inductive invariant. *)
LEMMA NextInductive == IndInv /\ [Next]_vars => IndInv'
<1>1. ASSUME IndInv, Next PROVE IndInv'
  BY <1>1, TypeStep, CallStep, OwnerStep, BlockedStep, OutcomeStep, TurnstileStep,
     CapacityStep, OnceStep DEF IndInv, Bookkeeping
<1>2. ASSUME IndInv, UNCHANGED vars PROVE IndInv'
  <2> USE <1>2 DEF vars
  <2>1. TypeOK'
    BY DEF IndInv, TypeOK
  <2>2. Bookkeeping'
    BY DEF IndInv, Bookkeeping, CallInv, OwnerInv, QueueInv, OutcomeInv, Unreturned, Live,
           Cells, Waiting
  <2>3. WaitersExact' /\ Turnstile' /\ Capacity' /\ ExactlyOnce'
    BY DEF IndInv, WaitersExact, Turnstile, Capacity, ExactlyOnce, Live, Waiting
  <2> QED
    BY <2>1, <2>2, <2>3 DEF IndInv
<1> QED
  BY <1>1, <1>2

(* The inductive invariant holds in every state of every execution: list.c's counter,
   queue of tids and entries stay consistent with the calls in progress. *)
THEOREM Inductive == Spec => []IndInv
BY InitInductive, NextInductive, PTL DEF Spec

(* Every variable keeps its type: no thread takes the counter of waiters below
   0, and no element outside the list is ever asked for its place. *)
THEOREM TypeCorrect == Spec => []TypeOK
<1>1. IndInv => TypeOK
  BY DEF IndInv
<1> QED
  BY <1>1, Inductive, PTL

(* The bookkeeping of the calls holds, whatever the calls are. *)
THEOREM BookkeepingHolds == Spec => []Bookkeeping
<1>1. IndInv => Bookkeeping
  BY DEF IndInv
<1> QED
  BY <1>1, Inductive, PTL

(* The list holds at most maxSize entries unless the limit was lifted. *)
THEOREM CapacityHolds == Spec => []Capacity
<1>1. IndInv => Capacity
  BY DEF IndInv
<1> QED
  BY <1>1, Inductive, PTL

(* What was added is in the list once, or was taken out once. *)
THEOREM ExactlyOnceHolds == Spec => []ExactlyOnce
<1>1. IndInv => ExactlyOnce
  BY DEF IndInv
<1> QED
  BY <1>1, Inductive, PTL

(* list->waiters counts the calls blocked in waitfor. *)
THEOREM WaitersExactHolds == Spec => []WaitersExact
<1>1. IndInv => WaitersExact
  BY DEF IndInv
<1> QED
  BY <1>1, Inductive, PTL

(* An ordered list's queue of tids is the queue of blocked threads. *)
THEOREM TurnstileHolds == Spec => []Turnstile
<1>1. IndInv => Turnstile
  BY DEF IndInv
<1> QED
  BY <1>1, Inductive, PTL
-----------------------------------------------------------------------------
(* ruListFree of a list that only has calls blocked in waitfor.  Once doQuit
   is set nobody gets any further than waitfor, where everybody leaves; what
   IndInv adds is that waiters is 0 only when all have left.  A positional
   insert would leave a freed cell behind: they are excluded.              *)
SettledInv ==
    /\ currents = <<>>
    /\ owner # "undefined"
    /\ owner # "idle" => Settled
    /\ owner \in {"lock", "freed"} => Waiting = {}
    /\ \A t \in Threads : pc[t] # "undefined"

Settling == SettledFree /\ PushOps \cap Positional = {}

(* If ruListFree is called when no popper is in a call, a popper only moves before. *)
LEMMA PopBeforeQuit ==
    ASSUME TypeOK, OwnerInv, SettledInv, NEW c \in Poppers, Pop(c)
    PROVE  owner = "idle" /\ \A t \in Threads : pc'[t] # "undefined"
<1>1. c \in Threads
  BY DEF Threads
<1>2. owner = "idle"
  BY DEF Pop, PopStart, PopLock, PopResume, Clear, SettledInv, Settled, OwnerInv
<1>3. UNCHANGED pc \/ \E l \in {"idle", "lock", "polling", "clearing"} : Goto(c, l)
  BY DEF Pop, PopStart, PopLock, PopFirst, PopNothing, RemoveAny, ClearStart, PopResume, Clear
<1>4. \A t \in Threads : pc'[t] # "undefined"
  BY <1>1, <1>3 DEF Goto, SettledInv, TypeOK
<1> QED
  BY <1>2, <1>4

(* Without positional inserts there are no cells. *)
LEMMA NoCells ==
    ASSUME currents = <<>>, currents' \in Seq(Cell), DOMAIN currents' = DOMAIN currents
    PROVE  currents' = <<>>
<1>1. DOMAIN currents' = {}
  OBVIOUS
<1>2. Len(currents') = 0
  BY <1>1, LenProperties
<1> QED
  BY <1>2, EmptySeq

(* Every step after a settled ruListFree keeps clear of the freed list. *)
LEMMA SettledStep ==
    ASSUME Settling, IndInv, SettledInv, Next
    PROVE  SettledInv'
<1> TypeOK /\ OwnerInv /\ WaitersExact /\ QueueInv
  BY DEF IndInv, Bookkeeping
<1> USE DEF listVars, waitVars, ownVars
<1>0. Pushers \subseteq Threads /\ Poppers \subseteq Threads /\ Pushers \cap Poppers = {}
  BY ThreadsAssumption DEF Threads
<1>1. ASSUME NEW p \in Pushers, PushStart(p) PROVE SettledInv'
  <2>1. UNCHANGED <<currents, owner>> /\ pc[p] = "idle" /\ (owner # "idle" => UNCHANGED pc)
    BY <1>1 DEF PushStart, OwnerInv
  <2>2. UNCHANGED pc \/ Goto(p, "lock")
    BY <1>1 DEF PushStart
  <2> QED
    BY <1>0, <2>1, <2>2 DEF SettledInv, Settled, Waiting, Goto, TypeOK
<1>2. ASSUME NEW p \in Pushers, PushLock(p) \/ PushEnter(p) \/ PushResume(p) PROVE SettledInv'
  <2>1. owner = "idle" /\ owner' = "idle"
    BY <1>2 DEF PushLock, PushEnter, PushResume, SettledInv, Settled, OwnerInv
  <2>2. \E l \in {"idle", "admitted", "waiting"} : Goto(p, l)
    BY <1>2 DEF PushLock, PushEnter, PushResume, WaitBegin, Leave
  <2>3. currents' = <<>>
    <3>1. CASE PushLock(p)
      BY <3>1 DEF PushLock, SettledInv
    <3>2. CASE PushEnter(p)
      BY <3>2 DEF PushEnter, WaitBegin, Settling, SettledInv
    <3>3. CASE PushResume(p)
      BY <3>3, FreeCellKeepsCells, NoCells DEF PushResume, SettledInv
    <3> QED
      BY <1>2, <3>1, <3>2, <3>3
  <2> QED
    BY <1>0, <2>1, <2>2, <2>3 DEF SettledInv, Goto, TypeOK
<1>3. ASSUME NEW p \in Pushers, PushAbort(p) PROVE SettledInv'
  <2>1. owner' = owner /\ Goto(p, "idle") /\ pc[p] = "waiting"
    BY <1>3 DEF PushAbort, Leave
  <2>2. currents' = <<>>
    BY <1>3, FreeCellKeepsCells, NoCells DEF PushAbort, SettledInv
  <2> QED
    BY <1>0, <2>1, <2>2 DEF SettledInv, Settled, Waiting, Goto, TypeOK
<1>4. ASSUME NEW c \in Poppers, Pop(c) PROVE SettledInv'
  <2>1. PopEffect(c) /\ owner = "idle" /\ \A t \in Threads : pc'[t] # "undefined"
    BY <1>4, PopShape, PopBeforeQuit
  <2>2. currents' = <<>>
    BY <2>1, RemoveKeepsCells, NoCells DEF PopEffect, SameCells, SettledInv
  <2> QED
    BY <2>1, <2>2 DEF SettledInv, PopEffect
<1>5. CASE Bind(TRUE) \/ Bind(FALSE)
  BY <1>5 DEF Bind, SettledInv, Settled, Waiting
<1>6. CASE FreeStart
  BY <1>6 DEF FreeStart, Settling, SettledInv, Settled, Waiting
<1>7. CASE FreeDrained
  <2>1. Cardinality(Waiting) = 0
    BY <1>7 DEF FreeDrained, WaitersExact, Live
  <2>2. Waiting = {}
    BY <2>1, WaitingFinite, FS_EmptySet
  <2> QED
    BY <1>7, <2>2 DEF FreeDrained, SettledInv, Settled, Waiting
<1>8. CASE FreeDestroy
  BY <1>8 DEF FreeDestroy, SettledInv, Settled, Waiting
<1>9. ASSUME NEW t \in Threads, UseAfterFree(t) PROVE SettledInv'
  BY <1>9 DEF UseAfterFree, SettledInv, Settled, Waiting, Threads
<1>10. CASE Finished
  BY <1>10 DEF Finished, vars, SettledInv, Settled, Waiting
<1> QED
  BY <1>1, <1>2, <1>3, <1>4, <1>5, <1>6, <1>7, <1>8, <1>9, <1>10 DEF Next, Push, Owner

(* ruListFree called when the only calls in progress are blocked in waitfor
   touches no freed memory, and neither do they. *)
THEOREM SettledFreeIsSafe == ASSUME Settling PROVE Spec => []NoUseAfterFree
<1>1. Init => SettledInv
  BY DEF Init, SettledInv, Waiting
<1>2. IndInv /\ SettledInv /\ [Next]_vars => SettledInv'
  <2>1. ASSUME SettledInv, UNCHANGED vars PROVE SettledInv'
    BY <2>1 DEF vars, SettledInv, Settled, Waiting
  <2> QED
    BY <2>1, SettledStep
<1>3. SettledInv => NoUseAfterFree
  BY DEF SettledInv, NoUseAfterFree
<1> QED
  BY <1>1, <1>2, <1>3, Inductive, PTL DEF Spec
-----------------------------------------------------------------------------
(* The list is a buffer.  Each step of a list without positional inserts    *)
(* that is freed when settled is a step of BoundedBuffer or changes nothing *)
(* a caller sees.                                                           *)

(* Where the buffer is what it is when entries are only appended and taken first. *)
First == PushOps = {"append"} /\ PopOps \subseteq {"pop", "tryPop"}

(* What a blocked call wants is what its thread may ask for. *)
ReqInv == \A p \in Pushers : pc[p] = "waiting" => req[p].op \in PushOps

(* What every step of a list relies on that its clients know nothing of. *)
Hidden == IndInv /\ SettledInv /\ ReqInv

(* Every step keeps what the blocked calls want. *)
LEMMA ReqStep ==
    ASSUME IndInv, ReqInv, Next
    PROVE  ReqInv'
<1> TypeOK
  BY DEF IndInv
<1> USE DEF waitVars
<1> SUFFICES ASSUME NEW q \in Pushers, pc'[q] = "waiting"
             PROVE  req'[q].op \in PushOps
  BY DEF ReqInv
<1>0. q \in Threads /\ (pc[q] = "waiting" => req[q].op \in PushOps)
  BY DEF ReqInv, Threads
<1>1. ASSUME NEW p \in Pushers, PushStart(p) \/ PushLock(p) PROVE req'[q].op \in PushOps
  <2>1. req' = req /\ (UNCHANGED pc \/ \E l \in {"lock", "idle", "admitted"} : Goto(p, l))
    BY <1>1 DEF PushStart, PushLock
  <2>2. pc[q] = "waiting"
    BY <1>0, <2>1 DEF Goto, TypeOK
  <2> QED
    BY <1>0, <2>1, <2>2
<1>2. ASSUME NEW p \in Pushers, PushEnter(p) PROVE req'[q].op \in PushOps
  <2>1. PICK r \in [op : PushOps, rle : ToSet(entries) \cup {None}] :
            \/ req' = [req EXCEPT ![p] = r] /\ Goto(p, "waiting")
            \/ req' = req /\ Goto(p, "idle")
    BY <1>2 DEF PushEnter, WaitBegin
  <2>2. r.op \in PushOps
    OBVIOUS
  <2>3. CASE req' = [req EXCEPT ![p] = r] /\ Goto(p, "waiting")
    <3>1. CASE q = p
      BY <2>2, <2>3, <3>1 DEF TypeOK
    <3>2. CASE q # p
      BY <1>0, <2>3, <3>2 DEF TypeOK, Goto
    <3> QED
      BY <3>1, <3>2
  <2>4. CASE req' = req /\ Goto(p, "idle")
    BY <1>0, <2>4 DEF TypeOK, Goto
  <2> QED
    BY <2>1, <2>3, <2>4
<1>3. ASSUME NEW p \in Pushers, PushAbort(p) \/ PushResume(p) PROVE req'[q].op \in PushOps
  BY <1>0, <1>3 DEF PushAbort, PushResume, Leave, Goto, TypeOK
<1>4. ASSUME NEW c \in Poppers, Pop(c) PROVE req'[q].op \in PushOps
  BY <1>0, <1>4, PopShape DEF PopEffect
<1>5. CASE Owner
  BY <1>0, <1>5 DEF Owner, Bind, FreeStart, FreeDrained, FreeDestroy
<1>6. ASSUME NEW t \in Threads, UseAfterFree(t) PROVE req'[q].op \in PushOps
  BY <1>0, <1>6 DEF UseAfterFree, Goto, TypeOK
<1>7. CASE Finished
  BY <1>0, <1>7 DEF Finished, vars
<1> QED
  BY <1>1, <1>2, <1>3, <1>4, <1>5, <1>6, <1>7 DEF Next, Push

(* A client is blocked exactly when its call is. *)
LEMMA BlockedClient ==
    ASSUME Hidden, Live, NEW p \in Pushers
    PROVE  Buffer!Contains(queued, p) <=> pc[p] = "waiting"
<1>1. ToSet(queued) = Waiting /\ DOMAIN queued = 1..Len(queued)
  BY LenProperties DEF Hidden, IndInv, TypeOK, Bookkeeping, QueueInv
<1> QED
  BY <1>1 DEF Buffer!Contains, ToSet, Waiting

(* Inserting puts the item where the buffer allows. *)
LEMMA InsertPuts ==
    ASSUME Hidden, NEW p \in Pushers, pc[p] \notin {"idle", "undefined"},
           NEW r \in Request, r.op \in PushOps,
           r.op \in Positional => r.rle \in ToSet(entries) \cup {None},
           ListInsertAfter(p, r), Return(p, "ok")
    PROVE  /\ Current(p) \in Buffer!Items
           /\ Current(p)[1] = p
           /\ Buffer!Put(Current(p))
<1> TypeOK /\ CallInv /\ OutcomeInv
  BY DEF Hidden, IndInv, Bookkeeping
<1>1. sent[p] \in 1..MaxItems
  BY BoundsAssumption DEF CallInv, TypeOK
<1>2. outcome[Current(p)] = "none"
  BY <1>1 DEF OutcomeInv, Unreturned, Current
<1>3. Place(r) \in 0..Len(entries)
  BY PlaceInList
<1>4. First => Place(r) = Len(entries)
  BY DEF First, Place
<1>5. entries' = Buffer!InsertAt(entries, Place(r) + 1, Current(p))
  BY DEF ListInsertAfter, InsertAt, Buffer!InsertAt
<1>6. Current(p) \in Buffer!Items /\ Current(p)[1] = p
  BY <1>1 DEF Current, Buffer!Items
<1> HIDE DEF Place
<1> QED
  BY <1>2, <1>3, <1>4, <1>5, <1>6 DEF Buffer!Put, Return, First

(* A call that is refused gives the verdict the buffer may give. *)
LEMMA RefusedStep ==
    ASSUME Hidden, NEW p \in Pushers, NEW k \in 1..MaxItems, Unreturned(p, k),
           Live, doQuit,
           outcome' = [outcome EXCEPT ![<<p, k>>] = "abort"],
           \/ pc[p] # "waiting" /\ UNCHANGED queued
           \/ pc[p] = "waiting" /\ Leave(p),
           UNCHANGED <<entries, doQuit, unBound>>
    PROVE  Buffer!BufferNext
<1> OutcomeInv
  BY DEF Hidden, IndInv, Bookkeeping
<1>1. <<p, k>> \in Buffer!Items /\ <<p, k>>[1] = p
  BY DEF Buffer!Items
<1>2. outcome[<<p, k>>] = "none"
  BY DEF OutcomeInv
<1>3. IF Buffer!Contains(queued, p) THEN Buffer!Leave(p) ELSE UNCHANGED queued
  BY BlockedClient DEF Leave, Buffer!Leave, RemoveAt, Buffer!RemoveAt
<1>4. Buffer!Refuse(p, <<p, k>>)
  BY <1>1, <1>2, <1>3 DEF Buffer!Refuse
<1> QED
  BY <1>1, <1>4 DEF Buffer!BufferNext

(* What an adder does is a step of its client, or is not seen. *)
LEMMA PushRefines ==
    ASSUME Hidden, NEW p \in Pushers, Push(p)
    PROVE  Buffer!BufferNext \/ UNCHANGED Buffer!absVars
<1> TypeOK /\ CallInv /\ OwnerInv /\ Turnstile
  BY DEF Hidden, IndInv, Bookkeeping
<1> USE DEF listVars, waitVars, ownVars
<1>0. sent[p] \in 0..MaxItems /\ sent[p] \in Nat /\ (pc[p] # "idle" => sent[p] \in 1..MaxItems)
  BY BoundsAssumption DEF CallInv, TypeOK
<1>1. CASE PushStart(p)
  <2>1. CASE doQuit
    <3>1. sent[p] + 1 \in 1..MaxItems /\ Unreturned(p, sent[p] + 1)
      BY <1>0, <1>1, BoundsAssumption DEF PushStart, Unreturned
    <3> QED
      BY <1>1, <2>1, <3>1, RefusedStep DEF PushStart
  <2>2. CASE ~doQuit
    BY <1>1, <2>2 DEF PushStart, Buffer!absVars
  <2> QED
    BY <2>1, <2>2
<1>2. CASE PushLock(p)
  <2>1. CASE doQuit
    <3>1. Unreturned(p, sent[p]) /\ sent[p] \in 1..MaxItems
      BY <1>0, <1>2 DEF PushLock, Unreturned
    <3> QED
      BY <1>2, <2>1, <3>1, RefusedStep DEF PushLock, Return, Current
  <2>2. CASE ~doQuit
    BY <1>2, <2>2 DEF PushLock, Buffer!absVars
  <2> QED
    BY <2>1, <2>2
<1>3. CASE PushEnter(p)
  <2>1. PICK r \in [op : PushOps, rle : ToSet(entries) \cup {None}] :
            /\ r.op \notin Positional => r.rle = None
            /\ \/ WaitBegin(p, r)
               \/ /\ ~Full /\ ListInsertAfter(p, r) /\ Return(p, "ok")
                  /\ UNCHANGED <<waitVars, removed>>
    BY <1>3 DEF PushEnter
  <2>2. ~Buffer!Contains(queued, p) /\ UNCHANGED <<doQuit, unBound>>
    BY <1>3, BlockedClient DEF PushEnter
  <2>3. CASE WaitBegin(p, r)
    <3>1. Buffer!Block(p)
      BY <2>2, <2>3 DEF Buffer!Block, WaitBegin, Full
    <3> QED
      BY <3>1 DEF Buffer!BufferNext
  <2>4. CASE /\ ~Full /\ ListInsertAfter(p, r) /\ Return(p, "ok")
             /\ UNCHANGED <<waitVars, removed>>
    <3>1. r \in Request /\ r.op \in PushOps /\ r.rle \in ToSet(entries) \cup {None}
      <4>1. ToSet(entries) \subseteq Item
        BY ElementOfSeq, LenProperties DEF ToSet, TypeOK
      <4> QED
        BY <2>1, <4>1, OpsAssumption DEF Request
    <3>2. pc[p] \notin {"idle", "undefined"}
      BY <1>3 DEF PushEnter
    <3>3. /\ Current(p) \in Buffer!Items /\ Current(p)[1] = p
          /\ Buffer!Put(Current(p))
      BY <2>4, <3>1, <3>2, InsertPuts
    <3>4. Len(entries) < MaxSize
      BY <2>4, LenProperties, BoundsAssumption DEF Full, TypeOK
    <3>5. Buffer!Accept(p, Current(p))
      BY <2>2, <2>4, <3>3, <3>4 DEF Buffer!Accept
    <3> QED
      BY <3>3, <3>5 DEF Buffer!BufferNext
  <2> QED
    BY <2>1, <2>3, <2>4
<1>4. CASE PushAbort(p)
  <2>1. Unreturned(p, sent[p]) /\ sent[p] \in 1..MaxItems
    BY <1>0, <1>4 DEF PushAbort, Unreturned
  <2> QED
    BY <1>4, <2>1, RefusedStep DEF PushAbort, Return, Current
<1>5. CASE PushResume(p)
  <2>1. Cells(p) = {}
    BY DEF Cells, Hidden, SettledInv
  <2>2. req[p] \in Request /\ req[p].op \in PushOps
    BY <1>5 DEF PushResume, Hidden, ReqInv, TypeOK
  <2>3. req[p].op \in Positional => req[p].rle = None
    BY <1>5, <2>1 DEF PushResume, CallInv
  <2>4. ListInsertAfter(p, req[p]) /\ Return(p, "ok") /\ pc[p] = "waiting"
    BY <1>5, <2>1 DEF PushResume
  <2>5. /\ Current(p) \in Buffer!Items /\ Current(p)[1] = p
        /\ Buffer!Put(Current(p))
    BY <2>2, <2>3, <2>4, InsertPuts
  <2>6. Buffer!Leave(p)
    BY <1>5 DEF PushResume, Leave, Buffer!Leave, RemoveAt, Buffer!RemoveAt
  <2>7. Ordered => p = Head(queued)
    BY <1>5 DEF PushResume, Turn, Turnstile
  <2>8. Len(entries) < MaxSize \/ ~(~unBound)
    BY <1>5, LenProperties, BoundsAssumption DEF PushResume, Full, TypeOK
  <2>9. Buffer!Unblock(p, Current(p))
    BY <1>5, <2>5, <2>6, <2>7, <2>8 DEF Buffer!Unblock, PushResume
  <2> QED
    BY <2>5, <2>9 DEF Buffer!BufferNext
<1> QED
  BY <1>1, <1>2, <1>3, <1>4, <1>5 DEF Push

(* What a popper does takes an entry, the first when all do, or is not seen. *)
LEMMA PopRefines ==
    ASSUME Hidden, NEW c \in Poppers, Pop(c)
    PROVE  Buffer!BufferNext \/ UNCHANGED Buffer!absVars
<1> TypeOK
  BY DEF Hidden, IndInv
<1>1. UNCHANGED <<queued, doQuit, unBound, outcome>>
  BY PopShape DEF PopEffect, ownVars
<1>2. entries # <<>> => 1 \in DOMAIN entries
  BY EmptySeq, LenProperties DEF TypeOK
<1>3. \/ UNCHANGED entries
      \/ \E i \in DOMAIN entries : ListRemoveTo(i) /\ (First => i = 1)
  <2>1. CASE PopStart(c)
    BY <2>1 DEF PopStart, listVars
  <2>2. CASE PopLock(c)
    BY <1>2, <2>2 DEF PopLock, PopFirst, PopNothing, RemoveAny, ClearStart, First
  <2>3. CASE PopResume(c)
    BY <1>2, <2>3 DEF PopResume
  <2>4. CASE Clear(c)
    BY <1>2, <2>4 DEF Clear
  <2> QED
    BY <2>1, <2>2, <2>3, <2>4 DEF Pop
<1>4. CASE UNCHANGED entries
  BY <1>1, <1>4 DEF Buffer!absVars
<1>5. ASSUME NEW i \in DOMAIN entries, ListRemoveTo(i), First => i = 1
      PROVE  Buffer!BufferNext
  <2>1. entries' = Buffer!RemoveAt(entries, i)
    BY <1>5 DEF ListRemoveTo, RemoveAt, Buffer!RemoveAt
  <2>2. Buffer!Take(i)
    BY <1>1, <1>5, <2>1 DEF Buffer!Take, First
  <2> QED
    BY <2>2 DEF Buffer!BufferNext
<1> QED
  BY <1>3, <1>4, <1>5

(* What the owner does rebinds, closes or disposes of the buffer. *)
LEMMA OwnerRefines ==
    ASSUME Hidden, Owner
    PROVE  Buffer!BufferNext \/ UNCHANGED Buffer!absVars
<1> TypeOK /\ OwnerInv /\ QueueInv /\ SettledInv
  BY DEF Hidden, IndInv, Bookkeeping
<1> USE DEF listVars, waitVars
<1>1. ASSUME NEW limit \in BOOLEAN, Bind(limit) PROVE Buffer!BufferNext
  <2>1. Buffer!Rebind
    BY <1>1 DEF Bind, OwnerInv, Buffer!Rebind
  <2> QED
    BY <2>1 DEF Buffer!BufferNext
<1>2. CASE FreeStart
  <2>1. Buffer!Close
    BY <1>2 DEF FreeStart, Buffer!Close
  <2> QED
    BY <2>1 DEF Buffer!BufferNext
<1>3. CASE FreeDrained
  BY <1>3 DEF FreeDrained, Buffer!absVars
<1>4. CASE FreeDestroy
  <2>1. ToSet(queued) = {}
    BY <1>4 DEF FreeDestroy, SettledInv, QueueInv, Live
  <2>2. queued = <<>>
    <3>1. DOMAIN queued = {}
      BY <2>1 DEF ToSet
    <3>2. DOMAIN queued = 1..Len(queued) /\ Len(queued) \in Nat /\ queued \in Seq(Pushers)
      BY LenProperties DEF TypeOK
    <3>3. Len(queued) = 0
      BY <3>1, <3>2
    <3> QED
      BY <3>2, <3>3, EmptySeq
  <2>3. doQuit
    BY <1>4 DEF FreeDestroy, OwnerInv
  <2>4. Buffer!Dispose
    BY <1>4, <2>2, <2>3 DEF FreeDestroy, Buffer!Dispose
  <2> QED
    BY <2>4 DEF Buffer!BufferNext
<1> QED
  BY <1>1, <1>2, <1>3, <1>4 DEF Owner

(* Every step of the list is a step of the buffer, or is not seen. *)
LEMMA StepRefines ==
    ASSUME Hidden, [Next]_vars
    PROVE  [Buffer!BufferNext]_(Buffer!absVars)
<1>1. ASSUME NEW t \in Threads, UseAfterFree(t) PROVE UNCHANGED Buffer!absVars
  BY <1>1 DEF UseAfterFree, Buffer!absVars, listVars, waitVars, ownVars
<1>2. CASE Finished \/ UNCHANGED vars
  BY <1>2 DEF Finished, vars, Buffer!absVars
<1> QED
  BY <1>1, <1>2, PushRefines, PopRefines, OwnerRefines DEF Next

(* list.h's promise, for any threads and limit: to its callers a list that is freed
   when settled is the buffer of BoundedBuffer, and the mutex, the counter of waiters,
   the queue of tids and the two looks at doQuit cannot be told from it. *)
THEOREM RefinesBufferHolds == ASSUME Settling PROVE Spec => RefinesBuffer
<1>1. Init => Buffer!BufferInit
  BY DEF Init, Buffer!BufferInit, Item, Buffer!Items
<1>2. Init => Hidden
  BY InitInductive DEF Init, Hidden, SettledInv, ReqInv, Waiting, Threads
<1>3. Hidden /\ [Next]_vars => Hidden'
  <2>1. ASSUME Hidden, Next PROVE Hidden'
    BY <2>1, NextInductive, SettledStep, ReqStep DEF Hidden
  <2>2. ASSUME Hidden, UNCHANGED vars PROVE Hidden'
    <3>1. IndInv'
      BY <2>2, NextInductive DEF Hidden
    <3>2. SettledInv' /\ ReqInv'
      BY <2>2 DEF Hidden, vars, SettledInv, Settled, Waiting, ReqInv
    <3> QED
      BY <3>1, <3>2 DEF Hidden
  <2> QED
    BY <2>1, <2>2
<1>4. Hidden /\ [Next]_vars => [Buffer!BufferNext]_(Buffer!absVars)
  BY StepRefines
<1> QED
  BY <1>1, <1>2, <1>3, <1>4, PTL DEF Spec, RefinesBuffer, Buffer!BufferSpec
-----------------------------------------------------------------------------
(* The cells of blocked positional inserts.  ListRemoveTo moves the first    *)
(* cell it finds at the element it removes; that is enough while no two     *)
(* calls are blocked at once, which one adder guarantees.                   *)
OneAdder == \A p, q \in Pushers : p = q

(* A cell that is not freed is that of a call blocked in waitfor, its only one;
   ListFree leaves none. *)
CellOwner ==
    /\ ~Live => currents = <<>>
    /\ \A k \in DOMAIN currents : ~currents[k].freed => pc[currents[k].by] = "waiting"
    /\ \A j, k \in DOMAIN currents :
          ~currents[j].freed /\ ~currents[k].freed /\ currents[j].by = currents[k].by => j = k

(* The cells keep to their calls when these stay where they are. *)
LEMMA OwnersKept ==
    ASSUME CellOwner, Live' <=> Live, DOMAIN currents' = DOMAIN currents,
           UNCHANGED currents \/ (Live /\ SameCells),
           \A k \in DOMAIN currents :
               pc[currents[k].by] = "waiting" => pc'[currents[k].by] = "waiting"
    PROVE  CellOwner'
<1>1. \A k \in DOMAIN currents : /\ currents'[k].by = currents[k].by
                                 /\ currents'[k].freed = currents[k].freed
  BY DEF SameCells
<1> QED
  BY <1>1 DEF CellOwner

(* Every step keeps the cells to their calls. *)
LEMMA OwnersStep ==
    ASSUME IndInv, CellOwner, Next
    PROVE  CellOwner'
<1> TypeOK
  BY DEF IndInv
<1> USE DEF listVars, waitVars, ownVars
<1>0. /\ \A k \in DOMAIN currents : currents[k].by \in Pushers
      /\ currents \in Seq(Cell) /\ Pushers \subseteq Threads
  <2>1. \A k \in DOMAIN currents : currents[k] \in Cell
    BY ElementOfSeq, LenProperties DEF TypeOK
  <2> QED
    BY <2>1 DEF Cell, TypeOK, Threads
<1>1. ASSUME NEW p \in Pushers, PushStart(p) \/ PushLock(p) PROVE CellOwner'
  <2>1. UNCHANGED <<currents, owner>> /\ pc[p] # "waiting"
    BY <1>1 DEF PushStart, PushLock
  <2>2. UNCHANGED pc \/ \E l \in Labels : Goto(p, l)
    BY <1>1 DEF PushStart, PushLock, Labels
  <2>3. \A t \in Threads : pc[t] = "waiting" => pc'[t] = "waiting"
    BY <2>1, <2>2 DEF Goto, TypeOK
  <2> QED
    BY <1>0, <2>1, <2>3, OwnersKept DEF Live
<1>2. ASSUME NEW p \in Pushers, PushEnter(p) PROVE CellOwner'
  <2>1. pc[p] = "admitted" /\ Live /\ Live'
    BY <1>2 DEF PushEnter, Live
  <2>2. PICK r \in [op : PushOps, rle : ToSet(entries) \cup {None}] :
            \/ WaitBegin(p, r)
            \/ Goto(p, "idle") /\ UNCHANGED currents
    BY <1>2 DEF PushEnter
  <2>3. CASE Goto(p, "idle") /\ UNCHANGED currents
    <3>1. \A t \in Threads : pc[t] = "waiting" => pc'[t] = "waiting"
      BY <2>1, <2>3 DEF Goto, TypeOK
    <3> QED
      BY <1>0, <2>1, <2>3, <3>1, OwnersKept
  <2>4. CASE WaitBegin(p, r)
    <3> DEFINE cell == [elmt |-> r.rle, before |-> r.op = "before", by |-> p, freed |-> FALSE]
    <3>1. \A t \in Threads : pc[t] = "waiting" => pc'[t] = "waiting"
      BY <2>4 DEF WaitBegin, Goto, TypeOK
    <3>2. pc'[p] = "waiting"
      BY <1>0, <2>4 DEF WaitBegin, Goto, TypeOK
    <3>3. CASE UNCHANGED currents
      BY <1>0, <2>1, <3>1, <3>3, OwnersKept
    <3>4. CASE currents' = Append(currents, cell)
      <4>1. cell \in Cell
        <5>1. ToSet(entries) \subseteq Item
          BY ElementOfSeq, LenProperties DEF ToSet, TypeOK
        <5> QED
          BY <5>1 DEF Cell
      <4>2. cell.by = p /\ ~cell.freed
        OBVIOUS
      <4> HIDE DEF cell
      <4>3. /\ DOMAIN currents' = DOMAIN currents \cup {Len(currents) + 1}
            /\ \A k \in DOMAIN currents : currents'[k] = currents[k]
            /\ currents'[Len(currents) + 1] = cell
        BY <1>0, <3>4, <4>1, AppendElements
      <4>4. \A k \in DOMAIN currents : ~currents[k].freed => currents[k].by # p
        BY <2>1 DEF CellOwner
      <4>5. \A k \in DOMAIN currents' : ~currents'[k].freed => pc'[currents'[k].by] = "waiting"
        BY <1>0, <3>1, <3>2, <4>2, <4>3 DEF CellOwner
      <4>6. \A j, k \in DOMAIN currents' :
                ~currents'[j].freed /\ ~currents'[k].freed /\ currents'[j].by = currents'[k].by
                    => j = k
        BY <4>2, <4>3, <4>4 DEF CellOwner
      <4> QED
        BY <2>1, <4>5, <4>6 DEF CellOwner
    <3> QED
      BY <2>4, <3>3, <3>4 DEF WaitBegin
  <2> QED
    BY <2>2, <2>3, <2>4
<1>3. ASSUME NEW p \in Pushers, PushAbort(p) \/ PushResume(p) PROVE CellOwner'
  <2>1. FreeCell(p) /\ Live /\ Live' /\ pc' = [pc EXCEPT ![p] = "idle"]
    BY <1>3 DEF PushAbort, PushResume, Live, Leave, Goto
  <2>2. \A t \in Threads : t # p => pc'[t] = pc[t]
    BY <2>1 DEF TypeOK
  <2>3. /\ DOMAIN currents' = DOMAIN currents
        /\ \A k \in DOMAIN currents : currents'[k].by = currents[k].by
    BY <2>1, FreeCellKeepsCells
  <2>4. ASSUME NEW k \in DOMAIN currents, ~currents'[k].freed
        PROVE  ~currents[k].freed /\ currents[k].by # p
    <3>1. currents[k] \in Cell
      BY ElementOfSeq, LenProperties DEF TypeOK
    <3>2. k \notin Cells(p)
      <4>1. SUFFICES ASSUME k \in Cells(p) PROVE currents'[k].freed
        BY <2>4
      <4>2. currents'[k] = [currents[k] EXCEPT !.freed = TRUE]
        BY <2>1, <4>1 DEF FreeCell
      <4> QED
        BY <3>1, <4>2 DEF Cell
    <3>3. currents'[k] = currents[k]
      BY <2>1, <3>2 DEF FreeCell
    <3> QED
      BY <2>4, <3>2, <3>3 DEF Cells
  <2> QED
    BY <1>0, <2>1, <2>2, <2>3, <2>4 DEF CellOwner
<1>4. ASSUME NEW c \in Poppers, Pop(c) PROVE CellOwner'
  <2>1. PopEffect(c)
    BY <1>4, PopShape
  <2>2. UNCHANGED currents \/ SameCells
    BY <2>1, RemoveKeepsCells DEF PopEffect
  <2> QED
    BY <1>0, <2>1, <2>2, OwnersKept DEF PopEffect, SameCells, Live
<1>5. CASE Owner
  <2>1. CASE FreeDestroy
    BY <2>1 DEF FreeDestroy, CellOwner
  <2>2. CASE ~FreeDestroy
    <3>1. UNCHANGED <<currents, pc>> /\ (Live' <=> Live)
      BY <1>5, <2>2 DEF Owner, Bind, FreeStart, FreeDrained, Live
    <3> QED
      BY <3>1, OwnersKept
  <2> QED
    BY <2>1, <2>2
<1>6. ASSUME NEW t \in Threads, UseAfterFree(t) PROVE CellOwner'
  BY <1>6 DEF UseAfterFree, CellOwner, Live
<1>7. CASE Finished
  BY <1>7, OwnersKept DEF Finished, vars, Live
<1> QED
  BY <1>1, <1>2, <1>3, <1>4, <1>5, <1>6, <1>7 DEF Next, Push

(* The list may lose an element only if no cell is at it. *)
LEMMA TrackKept ==
    ASSUME CellsTrack, UNCHANGED currents, ToSet(entries) \subseteq ToSet(entries')
    PROVE  CellsTrack'
BY DEF CellsTrack

(* A removal takes the only cell at the element on to a neighbour, or to the root. *)
LEMMA TrackRemoved ==
    ASSUME OneAdder, TypeOK, ExactlyOnce, CellOwner, CellsTrack,
           NEW i \in DOMAIN entries, ListRemoveTo(i)
    PROVE  CellsTrack'
<1>1. /\ entries \in Seq(Item) /\ DOMAIN entries = 1..Len(entries) /\ Len(entries) \in Nat
      /\ currents \in Seq(Cell)
      /\ \A k \in DOMAIN currents : currents[k] \in Cell
  BY ElementOfSeq, LenProperties DEF TypeOK
<1>2. \A j, k \in DOMAIN entries : entries[j] = entries[k] => j = k
  BY DEF ExactlyOnce, IsInjective
<1>3. ToSet(entries') = ToSet(entries) \ {entries[i]}
  BY RemoveEffect DEF ExactlyOnce
<1>4. \A n \in {i - 1, i + 1} : Node(n) \in ToSet(entries') \cup {None}
  <2> SUFFICES ASSUME NEW n \in {i - 1, i + 1}, n \in DOMAIN entries
               PROVE  entries[n] \in ToSet(entries')
    BY DEF Node
  <2>1. n # i
    BY <1>1
  <2>2. entries[n] # entries[i] /\ entries[n] \in ToSet(entries)
    BY <1>2, <2>1 DEF ToSet
  <2> QED
    BY <1>3, <2>2
<1>5. RepositionFirst(i)
  BY DEF ListRemoveTo
<1>6. CASE At(i) = {}
  <2>1. currents' = currents
    BY <1>5, <1>6 DEF RepositionFirst
  <2>2. \A k \in DOMAIN currents : ~currents[k].freed => currents[k].elmt # entries[i]
    BY <1>6 DEF At
  <2> QED
    BY <1>3, <2>1, <2>2 DEF CellsTrack
<1>7. CASE At(i) # {}
  <2>1. PICK k \in At(i) : currents' = [currents EXCEPT ![k] = Reposition(currents[k], i)]
    BY <1>5, <1>7 DEF RepositionFirst
  <2>2. k \in DOMAIN currents /\ ~currents[k].freed
    BY DEF At
  <2>3. ASSUME NEW j \in DOMAIN currents, ~currents[j].freed PROVE j = k
    <3>1. currents[j].by \in Pushers /\ currents[k].by \in Pushers
      BY <1>1, <2>2 DEF Cell
    <3> QED
      BY <2>2, <2>3, <3>1 DEF OneAdder, CellOwner
  <2> DEFINE cell == Reposition(currents[k], i)
  <2>4. cell.elmt \in ToSet(entries') \cup {None}
    <3>1. cell.elmt = Node(i + 1) \/ cell.elmt = Node(i - 1)
      BY <1>1, <2>2 DEF Reposition, Cell
    <3> QED
      BY <1>4, <3>1
  <2>5. currents' = [currents EXCEPT ![k] = cell]
    BY <2>1
  <2> HIDE DEF cell
  <2>6. DOMAIN currents' = DOMAIN currents
    BY <2>5
  <2>7. ASSUME NEW j \in DOMAIN currents
        PROVE  currents'[j].freed \/ currents'[j].elmt \in ToSet(entries') \cup {None}
    <3>1. CASE j = k
      BY <2>2, <2>4, <2>5, <3>1
    <3>2. CASE j # k
      <4>1. currents'[j] = currents[j]
        BY <2>5, <3>2
      <4> QED
        BY <2>3, <3>2, <4>1
    <3> QED
      BY <3>1, <3>2
  <2> QED
    BY <2>6, <2>7 DEF CellsTrack
<1> QED
  BY <1>6, <1>7

(* Every step keeps the cells at elements of the list. *)
LEMMA TrackStep ==
    ASSUME OneAdder, IndInv, CellOwner, CellsTrack, Next
    PROVE  CellsTrack'
<1> TypeOK /\ CallInv /\ ExactlyOnce
  BY DEF IndInv, Bookkeeping
<1> USE DEF listVars, waitVars, ownVars
<1>1. ASSUME NEW p \in Pushers, PushStart(p) \/ PushLock(p) PROVE CellsTrack'
  BY <1>1, TrackKept DEF PushStart, PushLock
<1>2. ASSUME NEW p \in Pushers, PushEnter(p) PROVE CellsTrack'
  <2>1. PICK r \in [op : PushOps, rle : ToSet(entries) \cup {None}] :
            /\ r.op \notin Positional => r.rle = None
            /\ \/ WaitBegin(p, r)
               \/ ListInsertAfter(p, r) /\ UNCHANGED currents
    BY <1>2 DEF PushEnter
  <2>2. r \in Request /\ r.rle \in ToSet(entries) \cup {None}
    <3>1. ToSet(entries) \subseteq Item
      BY ElementOfSeq, LenProperties DEF ToSet, TypeOK
    <3> QED
      BY <2>1, <3>1, OpsAssumption DEF Request
  <2>3. CASE ListInsertAfter(p, r) /\ UNCHANGED currents
    <3>1. ToSet(entries) \subseteq ToSet(entries')
      BY <1>2, <2>2, <2>3, InsertEffect DEF PushEnter, CallInv
    <3> QED
      BY <2>3, <3>1, TrackKept
  <2>4. CASE WaitBegin(p, r)
    <3> DEFINE cell == [elmt |-> r.rle, before |-> r.op = "before", by |-> p, freed |-> FALSE]
    <3>1. entries' = entries
      BY <2>4 DEF WaitBegin
    <3>2. CASE UNCHANGED currents
      BY <3>1, <3>2, TrackKept
    <3>3. CASE currents' = Append(currents, cell)
      <4>1. cell \in Cell /\ cell.elmt \in ToSet(entries) \cup {None}
        BY <2>2 DEF Cell, Request
      <4> HIDE DEF cell
      <4>2. currents \in Seq(Cell)
        BY DEF TypeOK
      <4>3. /\ DOMAIN currents' = DOMAIN currents \cup {Len(currents) + 1}
            /\ \A k \in DOMAIN currents : currents'[k] = currents[k]
            /\ currents'[Len(currents) + 1] = cell
        BY <3>3, <4>1, <4>2, AppendElements
      <4> QED
        BY <3>1, <4>1, <4>3 DEF CellsTrack
    <3> QED
      BY <2>4, <3>2, <3>3 DEF WaitBegin
  <2> QED
    BY <2>1, <2>3, <2>4
<1>3. ASSUME NEW p \in Pushers, PushAbort(p) \/ PushResume(p) PROVE CellsTrack'
  <2>1. FreeCell(p)
    BY <1>3 DEF PushAbort, PushResume
  <2>2. ToSet(entries) \subseteq ToSet(entries')
    <3>1. CASE UNCHANGED entries
      BY <3>1
    <3>2. CASE ~UNCHANGED entries
      <4>1. PushResume(p) /\ Cells(p) = {} /\ ListInsertAfter(p, req[p])
        BY <1>3, <3>2 DEF PushAbort, PushResume
      <4>2. req[p] \in Request /\ sent[p] # 0 /\ (req[p].op \in Positional => req[p].rle = None)
        BY <4>1 DEF PushResume, TypeOK, CallInv
      <4> QED
        BY <4>1, <4>2, InsertEffect
    <3> QED
      BY <3>1, <3>2
  <2>3. DOMAIN currents' = DOMAIN currents
    BY <2>1, FreeCellKeepsCells
  <2>4. ASSUME NEW k \in DOMAIN currents
        PROVE  currents'[k].freed \/ currents'[k] = currents[k]
    <3>1. currents[k] \in Cell
      BY ElementOfSeq, LenProperties DEF TypeOK
    <3>2. \/ currents'[k] = [currents[k] EXCEPT !.freed = TRUE]
          \/ currents'[k] = currents[k]
      BY <2>1 DEF FreeCell
    <3> QED
      BY <3>1, <3>2 DEF Cell
  <2> QED
    BY <2>2, <2>3, <2>4 DEF CellsTrack
<1>4. ASSUME NEW c \in Poppers, Pop(c) PROVE CellsTrack'
  <2>1. UNCHANGED <<entries, removed, currents>> \/ \E i \in DOMAIN entries : ListRemoveTo(i)
    BY <1>4, PopShape DEF PopEffect
  <2> QED
    BY <2>1, TrackKept, TrackRemoved
<1>5. CASE Owner
  <2>1. CASE FreeDestroy
    BY <2>1 DEF FreeDestroy, CellsTrack
  <2>2. CASE ~FreeDestroy
    BY <1>5, <2>2, TrackKept DEF Owner, Bind, FreeStart, FreeDrained
  <2> QED
    BY <2>1, <2>2
<1>6. CASE Finished \/ \E t \in Threads : UseAfterFree(t)
  BY <1>6, TrackKept DEF Finished, UseAfterFree, vars
<1> QED
  BY <1>1, <1>2, <1>3, <1>4, <1>5, <1>6 DEF Next, Push

(* While one thread adds, the element a blocked positional insert remembers is never
   one that was removed: ListRemoveTo moves its cell on in time. *)
THEOREM CellsTrackHolds == ASSUME OneAdder PROVE Spec => []CellsTrack
<1>1. Init => CellOwner /\ CellsTrack
  BY DEF Init, CellOwner, CellsTrack
<1>2. IndInv /\ CellOwner /\ CellsTrack /\ [Next]_vars => CellOwner' /\ CellsTrack'
  <2>1. ASSUME CellOwner, CellsTrack, UNCHANGED vars PROVE CellOwner' /\ CellsTrack'
    BY <2>1 DEF vars, CellOwner, CellsTrack, Live
  <2> QED
    BY <2>1, OwnersStep, TrackStep
<1> QED
  BY <1>1, <1>2, Inductive, PTL DEF Spec
=============================================================================
