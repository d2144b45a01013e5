---------------------------- MODULE LoggerProofs ----------------------------
(***************************************************************************)
(* Proofs about Logger, for any callers and setters, any number of calls   *)
(* and replacements, any size of the queue, and callers however late.      *)
(***************************************************************************)
EXTENDS Logger, SequenceLemmas, FiniteSetTheorems

HistoryType ==
    /\ accepted \in [Logger -> SUBSET Item]
    /\ got \in [Logger -> Seq(Item)]
    /\ wrote \in [Item -> Paths \cup {None}]
    /\ closes \in [Logger -> Nat]
    /\ due \in [Logger -> SUBSET Item]
    /\ gen \in [Threads -> 0..MaxLoggers]
    /\ leaving \in [Threads -> Paths \cup {None}]

(* A logger is made by one of the calls of a setter. *)
Settings == {p \in Setters \X (1..MaxSets) : p[2] <= made[p[1]]}
CountInv == /\ \A t \in Setters : made[t] <= MaxSets
            /\ loggers <= Cardinality(Settings)

Unsubmitted == {"last", "flag", "set", "dispatch", "write", "push", "blocked"}

(* Where a caller can be, and what it submits there. *)
CallerOK(c) ==
    /\ pc[c] \in {"idle", "info", "await", "undefined"} \cup Unsubmitted
    /\ made[c] <= MaxCalls
    /\ pc[c] \in Unsubmitted \cup {"await"} =>
          call[c] \in Entry /\ call[c].item = <<c, made[c]>>
CallerInv == \A c \in Callers : CallerOK(c)

(* A blocked caller is in the queue of those that wait for the logger of its
   slot, which is not freed. *)
BlockedOK(c) ==
    pc[c] = "blocked" => /\ slot[at[c]].logger # 0
                         /\ c \in ToSet(queue[slot[at[c]].logger].waiting)
BlockedInv == \A c \in Callers : BlockedOK(c)

(* A caller that is late enough to run the sink of a logger that replaced the
   one it was dispatched to has nothing in that logger's queue. *)
WriteOK(c) ==
    LET g == slot[at[c]].logger
    IN  pc[c] = "write" /\ g # 0 =>
            \A j \in DOMAIN queue[g].list : queue[g].list[j].item[1] # c
WriteInv == \A c \in Callers : WriteOK(c)

(* One setter at a time, at the slot that is not current. *)
SetterInv ==
    /\ \A t \in Setters : pc[t] # "idle" => lmux = t
    /\ lmux # None => /\ at[lmux] = 3 - cur
                      /\ pc[lmux] \in {"quit", "wait", "free", "reset"}

(* A logger is in one slot at most; what its queuer is says whether it has a
   thread. *)
SlotOK(s) ==
    LET g == slot[s].logger
    IN  /\ g <= loggers
        /\ g = 0 => slot[s].queuer = "noQ" /\ ~slot[s].logThread /\ ~slot[s].quitting
        /\ g # 0 => IF slot[s].logThread THEN slot[s].queuer = "asyncQ" /\ thread[g] # "none"
                                         ELSE slot[s].queuer = "syncQ" /\ thread[g] = "none"
SlotInv ==
    /\ slot[1].logger = slot[2].logger => slot[1].logger = 0
    /\ \A s \in Slot : SlotOK(s)

(* How far the shutdown of the old logger is; no other is shut down. *)
ShutInv ==
    LET old == slot[3 - cur]  g == old.logger
    IN  /\ ~slot[cur].quitting
        /\ slot[cur].logger # 0 => thread[slot[cur].logger] \notin {"closing", "done"}
        /\ lmux = None => g = 0
        /\ lmux # None =>
            /\ pc[lmux] = "quit" => g # 0 /\ ~old.quitting /\ thread[g] \notin {"closing", "done"}
            /\ pc[lmux] \in {"wait", "free"} => old.logThread
            /\ pc[lmux] = "wait" => old.quitting \/ thread[g] = "done"
            /\ pc[lmux] = "reset" /\ g # 0 => thread[g] \in {"none", "done"}

(* Nothing has happened to a logger not made yet, and only a log thread's
   queue is used. *)
FreshOK(g) ==
    /\ thread[g] = "none" => queue[g].list = <<>> /\ ~queue[g].open
    /\ g > loggers => /\ thread[g] = "none"
                      /\ got[g] = <<>> /\ accepted[g] = {} /\ due[g] = {}
                      /\ closes[g] = 0 /\ file[g].wh = None
FreshInv == \A g \in Logger : FreshOK(g)

(* How many calls each caller has submitted. *)
Sent == [c \in Callers |-> IF pc[c] \in Unsubmitted THEN made[c] - 1 ELSE made[c]]

Before(i, j) == i[1] = j[1] => i[2] < j[2]

(* What a sink got, what is queued for it and what its callers have yet to
   submit are in this order. *)
OrderOK(g) ==
    LET s == got[g]  q == queue[g].list
    IN  /\ \A i, j \in DOMAIN s : i < j => Before(s[i], s[j])
        /\ \A i, j \in DOMAIN q : i < j => Before(q[i].item, q[j].item)
        /\ \A i \in DOMAIN s, j \in DOMAIN q : Before(s[i], q[j].item)
        /\ \A i \in DOMAIN s : s[i][2] <= Sent[s[i][1]]
        /\ \A j \in DOMAIN q : q[j].item[2] <= Sent[q[j].item[1]]
OrderInv == \A g \in Logger : OrderOK(g)

Queued(g) == {e.item : e \in {x \in ToSet(queue[g].list) : x.what = "msg"}}

(* What a logger has accepted is at its sink or in its queue until the slot is
   cleared, and what was due when it was replaced is at the sink by the end of
   its thread, and by the time its slot is cleared. *)
DeliverOK(g) ==
    /\ (\E s \in Slot : slot[s].logger = g) => accepted[g] \subseteq Messages(g) \cup Queued(g)
    /\ due[g] \subseteq accepted[g]
    /\ thread[g] \in {"closing", "done"} => due[g] \subseteq Messages(g)
    /\ Freed(g) => due[g] \subseteq Messages(g)
DeliverInv == \A g \in Logger : DeliverOK(g)

Inductive ==
    /\ TypeOK /\ HistoryType /\ CountInv
    /\ CallerInv /\ BlockedInv /\ WriteInv /\ SetterInv /\ SlotInv /\ ShutInv /\ FreshInv
    /\ OrderInv /\ DeliverInv
-----------------------------------------------------------------------------
(* How many loggers there can be. *)
LEMMA Bounds ==
    /\ MaxLoggers \in Nat
    /\ IsFiniteSet(Setters \X (1..MaxSets))
    /\ Cardinality(Setters \X (1..MaxSets)) = MaxLoggers
<1> DEFINE n == Cardinality(Setters)
<1>1. n \in Nat /\ MaxSets \in Nat
  BY LoggerAssumption, FS_CardinalityType
<1>2. IsFiniteSet(1..MaxSets) /\ Cardinality(1..MaxSets) = MaxSets
  BY <1>1, LoggerAssumption, FS_Interval
<1>3. Cardinality(Setters \X (1..MaxSets)) = n * MaxSets
      /\ IsFiniteSet(Setters \X (1..MaxSets))
  BY <1>2, LoggerAssumption, FS_Product
<1> HIDE DEF n
<1>4. n * MaxSets = MaxSets * n /\ MaxSets * n \in Nat
  BY <1>1
<1> QED
  BY <1>3, <1>4 DEF MaxLoggers, n

(* A setter that has a call left finds a number for its logger. *)
LEMMA RoomForLogger ==
    ASSUME CountInv, loggers \in Nat, NEW t \in Setters, made[t] \in Nat, made[t] < MaxSets
    PROVE  loggers + 1 \in 1..MaxLoggers
<1> DEFINE all == Setters \X (1..MaxSets)
           last == <<t, MaxSets>>
<1>1. MaxSets \in 1..MaxSets /\ ~(MaxSets <= made[t])
  BY LoggerAssumption
<1>2. last \in all /\ last \notin Settings
  BY <1>1 DEF Settings
<1>3. Settings \in SUBSET (all \ {last})
  BY <1>2 DEF Settings
<1>4. IsFiniteSet(all \ {last}) /\ Cardinality(all \ {last}) = MaxLoggers - 1
  BY <1>2, Bounds, FS_RemoveElement
<1>5. Cardinality(Settings) <= MaxLoggers - 1 /\ Cardinality(Settings) \in Nat
  BY <1>3, <1>4, FS_Subset, FS_CardinalityType
<1> QED
  BY <1>5, Bounds DEF CountInv

(* The types of the variables, by who changes them. *)
PlaceTypes ==
    /\ pc \in [Threads -> Label]
    /\ at \in [Threads -> Slot]
    /\ call \in [Threads -> Entry \cup {None}]
    /\ made \in [Threads -> Nat]
    /\ gen \in [Threads -> 0..MaxLoggers]
    /\ leaving \in [Threads -> Paths \cup {None}]
SlotTypes ==
    /\ cur \in Slot /\ slot \in [Slot -> SlotType]
    /\ lmux \in Setters \cup {None} /\ loggers \in 0..MaxLoggers
QueueTypes == queue \in [Logger -> QueueType]
ThreadTypes ==
    /\ thread \in [Logger -> {"none", "loop", "ack", "tick", "closing", "done"}]
    /\ flushed \in [Logger -> BOOLEAN]
SinkTypes ==
    /\ file \in [Logger -> FileType]
    /\ got \in [Logger -> Seq(Item)]
    /\ wrote \in [Item -> Paths \cup {None}]
    /\ closes \in [Logger -> Nat]
AcceptTypes ==
    /\ accepted \in [Logger -> SUBSET Item]
    /\ due \in [Logger -> SUBSET Item]

Types == PlaceTypes /\ SlotTypes /\ QueueTypes /\ ThreadTypes /\ SinkTypes /\ AcceptTypes

(* The types, in parts. *)
LEMMA TypeParts ==
    /\ TypeOK /\ HistoryType <=> Types
    /\ TypeOK' /\ HistoryType' <=> Types'
BY DEF TypeOK, HistoryType, Types, PlaceTypes, SlotTypes, QueueTypes, ThreadTypes, SinkTypes,
       AcceptTypes

(* A move to another place keeps the types. *)
LEMMA GotoType ==
    ASSUME PlaceTypes, NEW t \in Threads, NEW l \in Label, Goto(t, l)
    PROVE  PlaceTypes'
BY DEF PlaceTypes, Goto, callVars

(* A call that returns keeps the types. *)
LEMMA ReturnType ==
    ASSUME PlaceTypes, NEW t \in Threads, Return(t)
    PROVE  PlaceTypes'
<1> "idle" \in Label /\ 1 \in Slot /\ 0 \in 0..MaxLoggers
  BY Bounds DEF Label, Slot
<1> QED
  BY DEF PlaceTypes, Return

(* A submitted call has returned, or waits for its flush. *)
LEMMA SubmittedType ==
    ASSUME PlaceTypes, NEW c \in Callers, Submitted(c)
    PROVE  PlaceTypes'
BY GotoType, ReturnType DEF Submitted, Label, Threads

(* A call that begins keeps the types. *)
LEMMA BeginType ==
    ASSUME PlaceTypes, SlotTypes, NEW c \in Callers, NEW what \in {"msg", "FLUSH", "CLOSE"},
           Begin(c, what), NEW l \in Label, pc' = [pc EXCEPT ![c] = l],
           at' \in [Threads -> Slot], leaving' \in [Threads -> Paths \cup {None}]
    PROVE  PlaceTypes'
<1> c \in Threads
  BY DEF Threads
<1>1. slot[cur].logger \in 0..MaxLoggers
  BY DEF SlotTypes, SlotType
<1>2. [what |-> what, item |-> <<c, made[c] + 1>>] \in Entry
  BY LoggerAssumption DEF PlaceTypes, Begin, Entry, Item
<1>3. gen' \in [Threads -> 0..MaxLoggers]
  BY <1>1 DEF PlaceTypes, Begin
<1>4. call' \in [Threads -> Entry \cup {None}] /\ made' \in [Threads -> Nat]
  BY <1>2 DEF PlaceTypes, Begin
<1> QED
  BY <1>3, <1>4 DEF PlaceTypes

(* The sink keeps the types of what it changes. *)
LEMMA SinkNullType ==
    ASSUME SinkTypes, NEW g \in Logger, NEW what, SinkNull(g, what)
    PROVE  /\ file' \in [Logger -> FileType]
           /\ UNCHANGED <<got, wrote>>
<1>1. file[g] \in FileType
  BY DEF SinkTypes
<1> DEFINE f == IF what = "CLOSE" /\ file[g].newPath # None
                THEN [wh |-> None, path |-> file[g].newPath, newPath |-> None]
                ELSE [file[g] EXCEPT !.wh = None]
<1>2. f \in FileType
  BY <1>1 DEF FileType
<1>3. file' = [file EXCEPT ![g] = f]
  BY DEF SinkNull
<1> HIDE DEF f
<1> QED
  BY <1>2, <1>3 DEF SinkTypes, SinkNull

(* What a sink does keeps the types. *)
LEMMA SinkType ==
    ASSUME SinkTypes, NEW g \in Logger, NEW e \in Entry, Sink(g, e)
    PROVE  SinkTypes'
<1>1. e.item \in Item
  BY DEF Entry
<1>2. CASE e.what = "msg"
  <2>1. PICK opened \in Opens :
            file' = [file EXCEPT ![g].wh = IF opened THEN file[g].path ELSE None]
    BY <1>2 DEF Sink, SinkMessage
  <2>2. file[g] \in FileType
    BY DEF SinkTypes
  <2>3. PICK p \in Paths \cup {None} : file' = [file EXCEPT ![g].wh = p] /\ file'[g].wh = p
    BY <2>1, <2>2 DEF SinkTypes, FileType
  <2>4. file' \in [Logger -> FileType]
    <3> DEFINE f == [file[g] EXCEPT !.wh = p]
    <3>1. f \in FileType
      BY <2>2 DEF FileType
    <3>2. file' = [file EXCEPT ![g] = f]
      BY <2>3
    <3> HIDE DEF f
    <3> QED
      BY <3>1, <3>2 DEF SinkTypes
  <2>5. wrote' \in [Item -> Paths \cup {None}]
    <3>1. wrote' = [wrote EXCEPT ![e.item] = file'[g].wh]
      BY <1>2 DEF Sink, SinkMessage
    <3> QED
      BY <1>1, <2>3, <3>1 DEF SinkTypes
  <2>6. got' \in [Logger -> Seq(Item)]
    <3> DEFINE q == Append(got[g], e.item)
    <3>1. q \in Seq(Item)
      BY <1>1, AppendProperties DEF SinkTypes
    <3>2. got' = [got EXCEPT ![g] = q]
      BY <1>2 DEF Sink, SinkMessage
    <3> HIDE DEF q
    <3> QED
      BY <3>1, <3>2 DEF SinkTypes
  <2> QED
    BY <2>4, <2>5, <2>6 DEF Sink, SinkTypes
<1>3. CASE e.what # "msg"
  BY <1>3, SinkNullType DEF Sink, SinkTypes
<1> QED
  BY <1>2, <1>3

(* So does the queue that takes an entry. *)
LEMMA EnqueueType ==
    ASSUME QueueTypes, NEW g \in Logger, NEW c \in Callers, call[c] \in Entry,
           NEW w \in Seq(Callers), Enqueue(g, c, w)
    PROVE  QueueTypes'
<1> DEFINE q == Append(queue[g].list, call[c])
           r == [queue[g] EXCEPT !.list = q, !.waiting = w]
<1>1. q \in Seq(Entry)
  BY AppendProperties DEF QueueTypes, QueueType
<1>2. queue' = [queue EXCEPT ![g] = r]
  BY DEF Enqueue
<1> HIDE DEF q
<1>3. r \in QueueType
  BY <1>1 DEF QueueTypes, QueueType
<1> HIDE DEF r
<1> QED
  BY <1>2, <1>3 DEF QueueTypes

(* A setter in its call has the mutex and the slot that is not current. *)
LEMMA SetterAt ==
    ASSUME Types, SetterInv, NEW t \in Setters, pc[t] # "idle"
    PROVE  lmux = t /\ lmux # None /\ at[t] = 3 - cur /\ at[t] \in Slot /\ cur \in Slot
BY LoggerAssumption DEF SetterInv, Types, PlaceTypes, SlotTypes, Threads

(* Every step keeps the types. *)
LEMMA TypeStep ==
    ASSUME Inductive, [Next]_vars
    PROVE  TypeOK' /\ HistoryType'
<1> Types /\ CallerInv /\ BlockedInv /\ SetterInv /\ SlotInv /\ ShutInv /\ CountInv
  BY TypeParts DEF Inductive
<1> PlaceTypes /\ SlotTypes /\ QueueTypes /\ ThreadTypes /\ SinkTypes /\ AcceptTypes
  BY DEF Types
<1> SUFFICES Types'
  BY TypeParts
<1> USE DEF Threads, slotVars, sinkVars, callVars, threadVars, vars, My
<1>1. ASSUME NEW c \in Callers, pc[c] \in {"idle", "info"}, RawLog(c)
      PROVE  Types'
  <2>1. PlaceTypes'
    BY <1>1, BeginType DEF RawLog, PlaceTypes, SlotTypes, Label
  <2>2. SlotTypes'
    BY <1>1 DEF RawLog, Begin, SlotTypes
  <2>3. QueueTypes'
    BY <1>1 DEF RawLog, Begin, QueueTypes
  <2>4. ThreadTypes'
    BY <1>1 DEF RawLog, Begin, ThreadTypes
  <2>5. SinkTypes'
    BY <1>1 DEF RawLog, Begin, SinkTypes
  <2>6. AcceptTypes'
    BY <1>1 DEF RawLog, Begin, AcceptTypes
  <2> QED
    BY <2>1, <2>2, <2>3, <2>4, <2>5, <2>6 DEF Types
<1>2. ASSUME NEW c \in Callers, Flush(c)
      PROVE  Types'
  <2>1. PlaceTypes'
    <3>1. PICK what \in {"msg", "FLUSH", "CLOSE"} : Begin(c, what)
      BY <1>2, LoggerAssumption DEF Flush
    <3> QED
      BY <1>2, <3>1, BeginType DEF Flush, PlaceTypes, SlotTypes, Label
  <2>2. SlotTypes'
    BY <1>2 DEF Flush, Begin, SlotTypes
  <2>3. QueueTypes'
    BY <1>2 DEF Flush, Begin, QueueTypes
  <2>4. ThreadTypes'
    BY <1>2 DEF Flush, Begin, ThreadTypes
  <2>5. SinkTypes'
    BY <1>2 DEF Flush, Begin, SinkTypes
  <2>6. AcceptTypes'
    BY <1>2 DEF Flush, Begin, AcceptTypes
  <2> QED
    BY <2>1, <2>2, <2>3, <2>4, <2>5, <2>6 DEF Types
<1>3. ASSUME NEW c \in Callers, SinkCtxPath(c)
      PROVE  Types'
  <2>1. PlaceTypes'
    <3>1. slot[cur].logger \in Logger
      BY <1>3 DEF SinkCtxPath, ChangePath, SlotTypes, SlotType, Logger
    <3>2. file[slot[cur].logger].path \in Paths
      BY <3>1 DEF SinkTypes, FileType
    <3>3. leaving' \in [Threads -> Paths \cup {None}]
      BY <1>3, <3>2 DEF SinkCtxPath, ChangePath, PlaceTypes
    <3> QED
      BY <1>3, <3>3, BeginType DEF SinkCtxPath, ChangePath, PlaceTypes, Label
  <2>2. SinkTypes'
    <3>1. slot[cur].logger \in Logger
      BY <1>3 DEF SinkCtxPath, ChangePath, SlotTypes, SlotType, Logger
    <3>2. PICK p \in Paths : file' = [file EXCEPT ![slot[cur].logger].newPath = p]
      BY <1>3 DEF SinkCtxPath
    <3> DEFINE f == [file[slot[cur].logger] EXCEPT !.newPath = p]
    <3>3. f \in FileType
      BY <3>1 DEF SinkTypes, FileType
    <3>4. file' = [file EXCEPT ![slot[cur].logger] = f]
      BY <3>2
    <3>5. UNCHANGED <<got, wrote, closes>>
      BY <1>3 DEF SinkCtxPath, ChangePath, Begin
    <3> HIDE DEF f
    <3> QED
      BY <3>1, <3>3, <3>4, <3>5 DEF SinkTypes
  <2>3. SlotTypes'
    BY <1>3 DEF SinkCtxPath, ChangePath, Begin, SlotTypes
  <2>4. QueueTypes'
    BY <1>3 DEF SinkCtxPath, ChangePath, Begin, QueueTypes
  <2>5. ThreadTypes'
    BY <1>3 DEF SinkCtxPath, ChangePath, Begin, ThreadTypes
  <2>6. AcceptTypes'
    BY <1>3 DEF SinkCtxPath, ChangePath, Begin, AcceptTypes
  <2> QED
    BY <2>1, <2>2, <2>3, <2>4, <2>5, <2>6 DEF Types
<1>4. ASSUME NEW c \in Callers, Unblock(c)
      PROVE  Types'
  <2>1. PlaceTypes'
    BY <1>4, GotoType DEF Unblock, Label
  <2>2. QueueTypes'
    <3> DEFINE g == slot[cur].logger
           r == [queue[g] EXCEPT !.bound = FALSE]
    <3>1. CASE slot[cur].logThread /\ queue[g].open
      <4>1. g \in Logger
        BY <3>1 DEF SlotInv, SlotOK, Slot, SlotTypes, SlotType, Logger
      <4>2. r \in QueueType /\ queue' = [queue EXCEPT ![g] = r]
        BY <1>4, <3>1, <4>1 DEF Unblock, QueueTypes, QueueType
      <4> HIDE DEF r
      <4> QED
        BY <4>1, <4>2 DEF QueueTypes
    <3>2. CASE ~(slot[cur].logThread /\ queue[g].open)
      BY <1>4, <3>2 DEF Unblock, QueueTypes
    <3> QED
      BY <3>1, <3>2
  <2>3. SlotTypes'
    BY <1>4 DEF Unblock, SlotTypes
  <2>4. ThreadTypes'
    BY <1>4 DEF Unblock, ThreadTypes
  <2>5. SinkTypes'
    BY <1>4 DEF Unblock, SinkTypes
  <2>6. AcceptTypes'
    BY <1>4 DEF Unblock, AcceptTypes
  <2> QED
    BY <2>1, <2>2, <2>3, <2>4, <2>5, <2>6 DEF Types
<1>5. ASSUME NEW c \in Callers, Return(c), pc[c] = "info",
             UNCHANGED <<slotVars, queue, threadVars, sinkVars, accepted, due>>
      PROVE  Types'
  <2>1. PlaceTypes'
    BY <1>5, ReturnType
  <2>2. SlotTypes'
    BY <1>5 DEF SlotTypes
  <2>3. QueueTypes'
    BY <1>5 DEF QueueTypes
  <2>4. ThreadTypes'
    BY <1>5 DEF ThreadTypes
  <2>5. SinkTypes'
    BY <1>5 DEF SinkTypes
  <2>6. AcceptTypes'
    BY <1>5 DEF AcceptTypes
  <2> QED
    BY <2>1, <2>2, <2>3, <2>4, <2>5, <2>6 DEF Types
<1>6. ASSUME NEW c \in Callers, LastLog(c)
      PROVE  Types'
  <2>1. PlaceTypes'
    BY <1>6 DEF LastLog, PlaceTypes, SlotTypes, Label
  <2>2. SlotTypes'
    BY <1>6 DEF LastLog, SlotTypes
  <2>3. QueueTypes'
    BY <1>6 DEF LastLog, QueueTypes
  <2>4. ThreadTypes'
    BY <1>6 DEF LastLog, ThreadTypes
  <2>5. SinkTypes'
    BY <1>6 DEF LastLog, SinkTypes
  <2>6. AcceptTypes'
    BY <1>6 DEF LastLog, AcceptTypes
  <2> QED
    BY <2>1, <2>2, <2>3, <2>4, <2>5, <2>6 DEF Types
<1>7. ASSUME NEW c \in Callers, FlagLook(c)
      PROVE  Types'
  <2>1. PlaceTypes'
    BY <1>7, GotoType DEF FlagLook, Label
  <2>2. SlotTypes'
    BY <1>7 DEF FlagLook, SlotTypes
  <2>3. QueueTypes'
    BY <1>7 DEF FlagLook, QueueTypes
  <2>4. ThreadTypes'
    BY <1>7 DEF FlagLook, ThreadTypes
  <2>5. SinkTypes'
    BY <1>7 DEF FlagLook, SinkTypes
  <2>6. AcceptTypes'
    BY <1>7 DEF FlagLook, AcceptTypes
  <2> QED
    BY <2>1, <2>2, <2>3, <2>4, <2>5, <2>6 DEF Types
<1>8. ASSUME NEW c \in Callers, FlagSet(c)
      PROVE  Types'
  <2>1. PlaceTypes'
    BY <1>8, GotoType DEF FlagSet, Label
  <2>2. SlotTypes'
    <3> DEFINE r == [slot[at[c]] EXCEPT !.flushReq = TRUE]
    <3>1. at[c] \in Slot
      BY DEF PlaceTypes
    <3>2. r \in SlotType
      <4>1. slot[at[c]] \in SlotType
        BY <3>1 DEF SlotTypes
      <4> QED
        BY <4>1 DEF SlotType
    <3>3. slot' = [slot EXCEPT ![at[c]] = r] /\ UNCHANGED <<cur, lmux, loggers>>
      BY <1>8 DEF FlagSet
    <3> HIDE DEF r
    <3> QED
      BY <3>1, <3>2, <3>3 DEF SlotTypes
  <2>3. QueueTypes'
    BY <1>8 DEF FlagSet, QueueTypes
  <2>4. ThreadTypes'
    BY <1>8 DEF FlagSet, ThreadTypes
  <2>5. SinkTypes'
    BY <1>8 DEF FlagSet, SinkTypes
  <2>6. AcceptTypes'
    BY <1>8 DEF FlagSet, AcceptTypes
  <2> QED
    BY <2>1, <2>2, <2>3, <2>4, <2>5, <2>6 DEF Types
<1>9. ASSUME NEW c \in Callers, Dispatch(c)
      PROVE  Types'
  <2>1. PlaceTypes'
    BY <1>9, GotoType, SubmittedType DEF Dispatch, Label
  <2>2. SlotTypes'
    BY <1>9 DEF Dispatch, SlotTypes
  <2>3. QueueTypes'
    BY <1>9 DEF Dispatch, QueueTypes
  <2>4. ThreadTypes'
    BY <1>9 DEF Dispatch, ThreadTypes
  <2>5. SinkTypes'
    BY <1>9 DEF Dispatch, SinkTypes
  <2>6. AcceptTypes'
    BY <1>9 DEF Dispatch, AcceptTypes
  <2> QED
    BY <2>1, <2>2, <2>3, <2>4, <2>5, <2>6 DEF Types
<1>10. ASSUME NEW c \in Callers, Write(c)
      PROVE  Types'
  <2>1. PlaceTypes'
    BY <1>10, GotoType, SubmittedType DEF Write, Label
  <2>2. SinkTypes'
    <3>1. CASE slot[at[c]].logger = 0
      BY <1>10, <3>1 DEF Write, SinkTypes
    <3>2. CASE slot[at[c]].logger # 0
      <4>1. slot[at[c]].logger \in Logger
        BY <3>2 DEF PlaceTypes, SlotTypes, SlotType, Logger
      <4>2. call[c] \in Entry
        BY <1>10 DEF Write, CallerInv, CallerOK, Unsubmitted
      <4>3. Sink(slot[at[c]].logger, call[c])
        BY <1>10, <3>2 DEF Write
      <4> QED
        BY <4>1, <4>2, <4>3, SinkType
    <3> QED
      BY <3>1, <3>2
  <2>3. AcceptTypes'
    <3>1. call[c].item \in Item
      BY <1>10 DEF CallerInv, CallerOK, Unsubmitted, Entry, Write
    <3> QED
      BY <1>10, <3>1 DEF Write, Accept, AcceptTypes
  <2>4. SlotTypes'
    BY <1>10 DEF Write, Accept, SlotTypes
  <2>5. QueueTypes'
    BY <1>10 DEF Write, Accept, QueueTypes
  <2>6. ThreadTypes'
    BY <1>10 DEF Write, Accept, ThreadTypes
  <2> QED
    BY <2>1, <2>2, <2>3, <2>4, <2>5, <2>6 DEF Types
<1>11. ASSUME NEW c \in Callers, Push(c)
      PROVE  Types'
  <2>1. PlaceTypes'
    BY <1>11, GotoType, SubmittedType DEF Push, Enqueue, Label
  <2>2. QueueTypes'
    <3> DEFINE g == slot[at[c]].logger
    <3>0. CASE UNCHANGED queue
      BY <3>0 DEF QueueTypes
    <3>1. ASSUME slot[at[c]].logThread PROVE g \in Logger
      BY <3>1 DEF PlaceTypes, SlotInv, SlotOK, SlotTypes, SlotType, Slot, Logger
    <3>2. CASE slot[at[c]].logThread /\ Enqueue(g, c, queue[g].waiting)
      <4>1. call[c] \in Entry
        BY <1>11 DEF Push, CallerInv, CallerOK, Unsubmitted
      <4>2. queue[g].waiting \in Seq(Callers)
        BY <3>1, <3>2 DEF QueueTypes, QueueType
      <4> QED
        BY <3>1, <3>2, <4>1, <4>2, EnqueueType
    <3>3. CASE slot[at[c]].logThread /\ queue' = [queue EXCEPT ![g].waiting = Append(@, c)]
      <4> DEFINE r == [queue[g] EXCEPT !.waiting = Append(@, c)]
      <4>1. Append(queue[g].waiting, c) \in Seq(Callers)
        BY <3>1, <3>3, AppendProperties DEF QueueTypes, QueueType
      <4>2. r \in QueueType
        BY <3>1, <3>3, <4>1 DEF QueueTypes, QueueType
      <4>3. queue' = [queue EXCEPT ![g] = r]
        BY <3>3
      <4> HIDE DEF r
      <4> QED
        BY <3>1, <3>3, <4>2, <4>3 DEF QueueTypes
    <3> QED
      BY <1>11, <3>0, <3>2, <3>3 DEF Push
  <2>3. AcceptTypes'
    <3>1. call[c].item \in Item
      BY <1>11 DEF CallerInv, CallerOK, Unsubmitted, Entry, Push
    <3> QED
      <4>1. CASE UNCHANGED accepted
        BY <1>11, <4>1 DEF Push, AcceptTypes
      <4>2. CASE Accept(slot[at[c]].logger, c)
        BY <1>11, <3>1, <4>2 DEF Push, Accept, AcceptTypes
      <4> QED
        BY <1>11, <4>1, <4>2 DEF Push, Enqueue
  <2>4. SlotTypes'
    BY <1>11 DEF Push, Enqueue, Accept, SlotTypes
  <2>5. ThreadTypes'
    BY <1>11 DEF Push, Enqueue, Accept, ThreadTypes
  <2>6. SinkTypes'
    BY <1>11 DEF Push, Enqueue, Accept, SinkTypes
  <2> QED
    BY <2>1, <2>2, <2>3, <2>4, <2>5, <2>6 DEF Types
<1>12. ASSUME NEW c \in Callers, PushResume(c)
      PROVE  Types'
  <2>1. PlaceTypes'
    BY <1>12, GotoType, SubmittedType DEF PushResume, Enqueue, Label
  <2>2. QueueTypes'
    <3> DEFINE g == slot[at[c]].logger
    <3>1. g \in Logger /\ c \in ToSet(queue[g].waiting)
      BY <1>12 DEF PushResume, BlockedInv, BlockedOK, PlaceTypes, SlotTypes, SlotType, Logger
    <3>2. call[c] \in Entry
      BY <1>12 DEF PushResume, CallerInv, CallerOK, Unsubmitted
    <3>3. queue[g].waiting \in Seq(Callers) /\ queue[g].waiting # <<>>
      BY <3>1 DEF QueueTypes, QueueType, ToSet
    <3>4. Tail(queue[g].waiting) \in Seq(Callers)
      BY <3>3
    <3>5. Enqueue(g, c, Tail(queue[g].waiting))
      BY <1>12 DEF PushResume
    <3> QED
      BY <3>1, <3>2, <3>4, <3>5, EnqueueType
  <2>3. AcceptTypes'
    <3>1. call[c].item \in Item
      BY <1>12 DEF CallerInv, CallerOK, Unsubmitted, Entry, PushResume
    <3> QED
      BY <1>12, <3>1 DEF PushResume, Enqueue, Accept, AcceptTypes
  <2>4. SlotTypes'
    BY <1>12 DEF PushResume, Enqueue, Accept, SlotTypes
  <2>5. ThreadTypes'
    BY <1>12 DEF PushResume, Enqueue, Accept, ThreadTypes
  <2>6. SinkTypes'
    BY <1>12 DEF PushResume, Enqueue, Accept, SinkTypes
  <2> QED
    BY <2>1, <2>2, <2>3, <2>4, <2>5, <2>6 DEF Types
<1>13. ASSUME NEW c \in Callers, PushAbort(c)
      PROVE  Types'
  <2>1. PlaceTypes'
    BY <1>13, GotoType, SubmittedType DEF PushAbort, Label
  <2>2. QueueTypes'
    <3> DEFINE g == slot[at[c]].logger
    <3>1. g \in Logger
      BY <1>13 DEF PushAbort, BlockedInv, BlockedOK, PlaceTypes, SlotTypes, SlotType, Logger
    <3>2. queue[g].waiting \in Seq(Callers)
      BY <3>1 DEF QueueTypes, QueueType
    <3>3. PICK k \in 1..Len(queue[g].waiting) :
              queue' = [queue EXCEPT ![g].waiting = RemoveAt(@, k)]
      <4>1. DOMAIN queue[g].waiting = 1..Len(queue[g].waiting)
        BY <3>2, LenProperties
      <4> QED
        BY <1>13, <4>1 DEF PushAbort
    <3> DEFINE w == RemoveAt(queue[g].waiting, k)
               r == [queue[g] EXCEPT !.waiting = w]
    <3>4. w \in Seq(Callers)
      BY <3>2, RemoveAtProperties
    <3> HIDE DEF w
    <3>5. r \in QueueType
      BY <3>1, <3>4 DEF QueueTypes, QueueType
    <3>6. queue' = [queue EXCEPT ![g] = r]
      BY <3>3 DEF w
    <3> HIDE DEF r
    <3> QED
      BY <3>1, <3>5, <3>6 DEF QueueTypes
  <2>3. SlotTypes'
    BY <1>13 DEF PushAbort, SlotTypes
  <2>4. ThreadTypes'
    BY <1>13 DEF PushAbort, ThreadTypes
  <2>5. SinkTypes'
    BY <1>13 DEF PushAbort, SinkTypes
  <2>6. AcceptTypes'
    BY <1>13 DEF PushAbort, AcceptTypes
  <2> QED
    BY <2>1, <2>2, <2>3, <2>4, <2>5, <2>6 DEF Types
<1>14. ASSUME NEW c \in Callers, Await(c)
      PROVE  Types'
  <2>1. PlaceTypes'
    BY <1>14, ReturnType DEF Await
  <2>2. SlotTypes'
    BY <1>14 DEF Await, SlotTypes
  <2>3. QueueTypes'
    BY <1>14 DEF Await, QueueTypes
  <2>4. ThreadTypes'
    BY <1>14 DEF Await, ThreadTypes
  <2>5. SinkTypes'
    BY <1>14 DEF Await, SinkTypes
  <2>6. AcceptTypes'
    BY <1>14 DEF Await, AcceptTypes
  <2> QED
    BY <2>1, <2>2, <2>3, <2>4, <2>5, <2>6 DEF Types
<1>15. ASSUME NEW s \in Slot, ThreadPop(s)
      PROVE  Types'
  <2>1. QueueTypes'
    <3>1. slot[s].logger \in Logger
      BY <1>15 DEF ThreadPop, ThreadAt, SlotTypes, SlotType, Logger
    <3> DEFINE g == slot[s].logger
               r == [queue[g] EXCEPT !.list = Tail(@)]
    <3>2. queue[g].list \in Seq(Entry) /\ queue[g].list # <<>>
      BY <1>15, <3>1 DEF ThreadPop, QueueTypes, QueueType
    <3>3. Tail(queue[g].list) \in Seq(Entry)
      BY <3>2
    <3>4. r \in QueueType
      BY <3>1, <3>3 DEF QueueTypes, QueueType
    <3>5. queue' = [queue EXCEPT ![g] = r]
      BY <1>15 DEF ThreadPop
    <3> HIDE DEF r
    <3> QED
      BY <3>1, <3>4, <3>5 DEF QueueTypes
  <2>2. ThreadTypes'
    <3>1. slot[s].logger \in Logger
      BY <1>15 DEF ThreadPop, ThreadAt, SlotTypes, SlotType, Logger
    <3> QED
      BY <1>15, <3>1 DEF ThreadPop, ThreadGoto, Flushed, ThreadTypes, SlotTypes, SlotType
  <2>3. SinkTypes'
    <3>1. slot[s].logger \in Logger
      BY <1>15 DEF ThreadPop, ThreadAt, SlotTypes, SlotType, Logger
    <3>2. queue[slot[s].logger].list \in Seq(Entry) /\ queue[slot[s].logger].list # <<>>
      BY <1>15, <3>1 DEF ThreadPop, QueueTypes, QueueType
    <3>3. Head(queue[slot[s].logger].list) \in Entry
      BY <3>2
    <3> QED
      BY <1>15, <3>1, <3>3, SinkType DEF ThreadPop
  <2>4. PlaceTypes'
    BY <1>15 DEF ThreadPop, PlaceTypes
  <2>5. SlotTypes'
    BY <1>15 DEF ThreadPop, SlotTypes
  <2>6. AcceptTypes'
    BY <1>15 DEF ThreadPop, AcceptTypes
  <2> QED
    BY <2>1, <2>2, <2>3, <2>4, <2>5, <2>6 DEF Types
<1>16. ASSUME NEW s \in Slot, ThreadTimeout(s)
      PROVE  Types'
  <2>1. ThreadTypes'
    <3>1. slot[s].logger \in Logger
      BY <1>16 DEF ThreadTimeout, ThreadAt, SlotTypes, SlotType, Logger
    <3> QED
      BY <1>16, <3>1 DEF ThreadTimeout, ThreadGoto, Flushed, ThreadTypes, SlotTypes, SlotType
  <2>2. SinkTypes'
    <3>1. slot[s].logger \in Logger
      BY <1>16 DEF ThreadTimeout, ThreadAt, SlotTypes, SlotType, Logger
    <3> QED
      BY <1>16, <3>1, SinkNullType DEF ThreadTimeout, SinkTypes
  <2>3. PlaceTypes'
    BY <1>16 DEF ThreadTimeout, PlaceTypes
  <2>4. SlotTypes'
    BY <1>16 DEF ThreadTimeout, SlotTypes
  <2>5. QueueTypes'
    BY <1>16 DEF ThreadTimeout, QueueTypes
  <2>6. AcceptTypes'
    BY <1>16 DEF ThreadTimeout, AcceptTypes
  <2> QED
    BY <2>1, <2>2, <2>3, <2>4, <2>5, <2>6 DEF Types
<1>17. ASSUME NEW s \in Slot, ThreadAck(s)
      PROVE  Types'
  <2>1. SlotTypes'
    <3> DEFINE r == [slot[s] EXCEPT !.flushReq = FALSE]
    <3>1. s \in Slot
      BY DEF PlaceTypes
    <3>2. r \in SlotType
      BY <3>1 DEF SlotTypes, SlotType
    <3>3. slot' = [slot EXCEPT ![s] = r] /\ UNCHANGED <<cur, lmux, loggers>>
      BY <1>17 DEF ThreadAck
    <3> HIDE DEF r
    <3> QED
      BY <3>1, <3>2, <3>3 DEF SlotTypes
  <2>2. ThreadTypes'
    <3>1. slot[s].logger \in Logger
      BY <1>17 DEF ThreadAck, ThreadAt, SlotTypes, SlotType, Logger
    <3> QED
      BY <1>17, <3>1 DEF ThreadAck, ThreadGoto, Flushed, ThreadTypes, SlotTypes, SlotType
  <2>3. PlaceTypes'
    BY <1>17 DEF ThreadAck, PlaceTypes
  <2>4. QueueTypes'
    BY <1>17 DEF ThreadAck, QueueTypes
  <2>5. SinkTypes'
    BY <1>17 DEF ThreadAck, SinkTypes
  <2>6. AcceptTypes'
    BY <1>17 DEF ThreadAck, AcceptTypes
  <2> QED
    BY <2>1, <2>2, <2>3, <2>4, <2>5, <2>6 DEF Types
<1>18. ASSUME NEW s \in Slot, ThreadFlush(s)
      PROVE  Types'
  <2>1. ThreadTypes'
    <3>1. slot[s].logger \in Logger
      BY <1>18 DEF ThreadFlush, ThreadAt, SlotTypes, SlotType, Logger
    <3> QED
      BY <1>18, <3>1 DEF ThreadFlush, ThreadGoto, Flushed, ThreadTypes, SlotTypes, SlotType
  <2>2. SinkTypes'
    <3>1. slot[s].logger \in Logger
      BY <1>18 DEF ThreadFlush, ThreadAt, SlotTypes, SlotType, Logger
    <3> QED
      BY <1>18, <3>1, SinkNullType DEF ThreadFlush, SinkTypes
  <2>3. PlaceTypes'
    BY <1>18 DEF ThreadFlush, PlaceTypes
  <2>4. SlotTypes'
    BY <1>18 DEF ThreadFlush, SlotTypes
  <2>5. QueueTypes'
    BY <1>18 DEF ThreadFlush, QueueTypes
  <2>6. AcceptTypes'
    BY <1>18 DEF ThreadFlush, AcceptTypes
  <2> QED
    BY <2>1, <2>2, <2>3, <2>4, <2>5, <2>6 DEF Types
<1>19. ASSUME NEW s \in Slot, ThreadNext(s)
      PROVE  Types'
  <2>1. ThreadTypes'
    <3>1. slot[s].logger \in Logger
      BY <1>19 DEF ThreadNext, ThreadAt, SlotTypes, SlotType, Logger
    <3> QED
      BY <1>19, <3>1 DEF ThreadNext, ThreadGoto, Flushed, ThreadTypes, SlotTypes, SlotType
  <2>2. PlaceTypes'
    BY <1>19 DEF ThreadNext, PlaceTypes
  <2>3. SlotTypes'
    BY <1>19 DEF ThreadNext, SlotTypes
  <2>4. QueueTypes'
    BY <1>19 DEF ThreadNext, QueueTypes
  <2>5. SinkTypes'
    BY <1>19 DEF ThreadNext, SinkTypes
  <2>6. AcceptTypes'
    BY <1>19 DEF ThreadNext, AcceptTypes
  <2> QED
    BY <2>1, <2>2, <2>3, <2>4, <2>5, <2>6 DEF Types
<1>20. ASSUME NEW s \in Slot, ThreadClose(s)
      PROVE  Types'
  <2>1. SlotTypes'
    <3> DEFINE r == [slot[s] EXCEPT !.quitting = FALSE, !.flushReq = FALSE]
    <3>1. s \in Slot
      BY DEF PlaceTypes
    <3>2. r \in SlotType
      BY <3>1 DEF SlotTypes, SlotType
    <3>3. slot' = [slot EXCEPT ![s] = r] /\ UNCHANGED <<cur, lmux, loggers>>
      BY <1>20 DEF ThreadClose
    <3> HIDE DEF r
    <3> QED
      BY <3>1, <3>2, <3>3 DEF SlotTypes
  <2>2. ThreadTypes'
    <3>1. slot[s].logger \in Logger
      BY <1>20 DEF ThreadClose, ThreadAt, SlotTypes, SlotType, Logger
    <3> QED
      BY <1>20, <3>1 DEF ThreadClose, ThreadGoto, Flushed, ThreadTypes, SlotTypes, SlotType
  <2>3. SinkTypes'
    <3>1. slot[s].logger \in Logger
      BY <1>20 DEF ThreadClose, ThreadAt, SlotTypes, SlotType, Logger
    <3> QED
      BY <1>20, <3>1, SinkNullType DEF ThreadClose, SinkFinal, SinkTypes
  <2>4. PlaceTypes'
    BY <1>20 DEF ThreadClose, SinkFinal, PlaceTypes
  <2>5. QueueTypes'
    BY <1>20 DEF ThreadClose, SinkFinal, QueueTypes
  <2>6. AcceptTypes'
    BY <1>20 DEF ThreadClose, SinkFinal, AcceptTypes
  <2> QED
    BY <2>1, <2>2, <2>3, <2>4, <2>5, <2>6 DEF Types
<1>21. ASSUME NEW t \in Setters, NEW kind \in Kinds, SetLogger(t, kind)
      PROVE  Types'
  <2>1. loggers + 1 \in 1..MaxLoggers
    BY <1>21, RoomForLogger DEF SetLogger, PlaceTypes, SlotTypes
  <2>2. PlaceTypes'
    BY <1>21 DEF SetLogger, PlaceTypes, SlotTypes, Label
  <2>3. SlotTypes'
    <3>1. NewSlot(kind) \in SlotType
      <4>1. 0 \in 0..MaxLoggers /\ loggers + 1 \in 0..MaxLoggers
        BY <2>1, Bounds DEF SlotTypes
      <4>2. CASE kind = "none"
        BY <4>1, <4>2 DEF NewSlot, Blank, SlotType
      <4>3. CASE kind = "sync"
        BY <4>1, <4>3 DEF NewSlot, Blank, SlotType
      <4>4. CASE kind = "async"
        BY <4>1, <4>4 DEF NewSlot, Blank, SlotType
      <4> QED
        BY <4>2, <4>3, <4>4, LoggerAssumption
    <3>2. 3 - cur \in Slot
      BY DEF SlotTypes, Slot
    <3> QED
      BY <1>21, <2>1, <3>1, <3>2 DEF SetLogger, Lock, SlotTypes
  <2>4. QueueTypes'
    <3>1. [NoQueue EXCEPT !.open = TRUE] \in QueueType
      <4>1. <<>> \in Seq(Entry) /\ <<>> \in Seq(Callers)
        OBVIOUS
      <4>2. NoQueue \in QueueType
        BY <4>1 DEF NoQueue, QueueType
      <4> QED
        BY <4>2 DEF QueueType
    <3> QED
      BY <1>21, <2>1, <3>1 DEF SetLogger, QueueTypes, Logger
  <2>5. ThreadTypes'
    BY <1>21, <2>1 DEF SetLogger, ThreadTypes, Logger
  <2>6. AcceptTypes'
    <3>1. slot[cur].logger # 0 => accepted[slot[cur].logger] \in SUBSET Item
      BY DEF SlotTypes, SlotType, AcceptTypes, Logger
    <3> QED
      BY <1>21, <3>1 DEF SetLogger, AcceptTypes
  <2>7. SinkTypes'
    BY <1>21 DEF SetLogger, Lock, SinkTypes
  <2> QED
    BY <2>2, <2>3, <2>4, <2>5, <2>6, <2>7 DEF Types
<1>22. ASSUME NEW t \in Setters, Quit(t)
      PROVE  Types'
  <2>1. PlaceTypes'
    BY <1>22, GotoType DEF Quit, Label
  <2>2. SlotTypes'
    <3>1. CASE slot' = [slot EXCEPT ![at[t]].quitting = TRUE]
      <4> DEFINE r == [slot[at[t]] EXCEPT !.quitting = TRUE]
      <4>1. at[t] \in Slot
        BY DEF PlaceTypes
      <4>2. r \in SlotType
        <5>1. slot[at[t]] \in SlotType
          BY <4>1 DEF SlotTypes
        <5> QED
          BY <5>1 DEF SlotType
      <4>3. slot' = [slot EXCEPT ![at[t]] = r] /\ UNCHANGED <<cur, lmux, loggers>>
        BY <1>22, <3>1 DEF Quit
      <4> HIDE DEF r
      <4> QED
        BY <4>1, <4>2, <4>3 DEF SlotTypes
    <3>2. CASE UNCHANGED slot
      BY <1>22, <3>2 DEF Quit, SlotTypes
    <3> QED
      BY <1>22, <3>1, <3>2 DEF Quit
  <2>3. QueueTypes'
    <3> DEFINE g == slot[at[t]].logger
               r == [queue[g] EXCEPT !.bound = FALSE]
    <3>1. CASE slot[at[t]].logThread
      <4>1. g \in Logger
        BY <3>1 DEF PlaceTypes, SlotInv, SlotOK, SlotTypes, SlotType, Slot, Logger
      <4>2. r \in QueueType
        BY <4>1 DEF QueueTypes, QueueType
      <4>3. queue' = [queue EXCEPT ![g] = r]
        BY <1>22, <3>1 DEF Quit
      <4> HIDE DEF r
      <4> QED
        BY <4>1, <4>2, <4>3 DEF QueueTypes
    <3>2. CASE ~slot[at[t]].logThread
      BY <1>22, <3>2 DEF Quit, QueueTypes
    <3> QED
      BY <3>1, <3>2
  <2>4. SinkTypes'
    <3>1. CASE slot[at[t]].logThread
      BY <1>22, <3>1 DEF Quit, SinkTypes
    <3>2. CASE ~slot[at[t]].logThread
      <4>1. slot[at[t]].logger \in Logger
        BY <1>22, SetterAt DEF Quit, ShutInv, SlotTypes, SlotType, Logger
      <4> QED
        <5>1. SinkNull(slot[at[t]].logger, "CLOSE")
              /\ closes' = [closes EXCEPT ![slot[at[t]].logger] = @ + 1]
          BY <1>22, <3>2 DEF Quit, SinkFinal
        <5> QED
          BY <4>1, <5>1, SinkNullType DEF SinkTypes
    <3> QED
      BY <3>1, <3>2
  <2>5. ThreadTypes'
    BY <1>22 DEF Quit, SinkFinal, ThreadTypes
  <2>6. AcceptTypes'
    BY <1>22 DEF Quit, SinkFinal, AcceptTypes
  <2> QED
    BY <2>1, <2>2, <2>3, <2>4, <2>5, <2>6 DEF Types
<1>23. ASSUME NEW t \in Setters, WaitQuit(t)
      PROVE  Types'
  <2>1. PlaceTypes'
    BY <1>23, GotoType DEF WaitQuit, Label
  <2>2. SlotTypes'
    BY <1>23 DEF WaitQuit, SlotTypes
  <2>3. QueueTypes'
    BY <1>23 DEF WaitQuit, QueueTypes
  <2>4. ThreadTypes'
    BY <1>23 DEF WaitQuit, ThreadTypes
  <2>5. SinkTypes'
    BY <1>23 DEF WaitQuit, SinkTypes
  <2>6. AcceptTypes'
    BY <1>23 DEF WaitQuit, AcceptTypes
  <2> QED
    BY <2>1, <2>2, <2>3, <2>4, <2>5, <2>6 DEF Types
<1>24. ASSUME NEW t \in Setters, FreeQueue(t)
      PROVE  Types'
  <2>1. PlaceTypes'
    BY <1>24, GotoType DEF FreeQueue, Label
  <2>2. QueueTypes'
    <3> DEFINE g == slot[at[t]].logger
               r == [queue[g] EXCEPT !.open = FALSE]
    <3>1. g \in Logger
      BY <1>24, SetterAt DEF FreeQueue, ShutInv, SlotInv, SlotOK, SlotTypes, SlotType, Slot, Logger
    <3>2. r \in QueueType
      BY <3>1 DEF QueueTypes, QueueType
    <3>3. queue' = [queue EXCEPT ![g] = r]
      BY <1>24 DEF FreeQueue
    <3> HIDE DEF r
    <3> QED
      BY <3>1, <3>2, <3>3 DEF QueueTypes
  <2>3. SlotTypes'
    BY <1>24 DEF FreeQueue, SlotTypes
  <2>4. ThreadTypes'
    BY <1>24 DEF FreeQueue, ThreadTypes
  <2>5. SinkTypes'
    BY <1>24 DEF FreeQueue, SinkTypes
  <2>6. AcceptTypes'
    BY <1>24 DEF FreeQueue, AcceptTypes
  <2> QED
    BY <2>1, <2>2, <2>3, <2>4, <2>5, <2>6 DEF Types
<1>25. ASSUME NEW t \in Setters, Reset(t)
      PROVE  Types'
  <2>1. PlaceTypes'
    BY <1>25, ReturnType DEF Reset
  <2>2. SlotTypes'
    <3>1. Blank \in SlotType
      BY Bounds DEF Blank, SlotType
    <3> QED
      BY <1>25, <3>1 DEF Reset, SlotTypes, PlaceTypes
  <2>3. QueueTypes'
    <3> DEFINE g == slot[at[t]].logger
               r == [queue[g] EXCEPT !.list = <<>>]
    <3>1. CASE g # 0
      <4>1. g \in Logger
        BY <3>1 DEF PlaceTypes, SlotTypes, SlotType, Slot, Logger
      <4>2. r \in QueueType
        <5>1. queue[g] \in QueueType /\ <<>> \in Seq(Entry)
          BY <4>1 DEF QueueTypes
        <5> QED
          BY <5>1 DEF QueueType
      <4>3. queue' = [queue EXCEPT ![g] = r]
        BY <1>25, <3>1 DEF Reset
      <4> HIDE DEF r
      <4> QED
        BY <4>1, <4>2, <4>3 DEF QueueTypes
    <3>2. CASE g = 0
      BY <1>25, <3>2 DEF Reset, QueueTypes
    <3> QED
      BY <3>1, <3>2
  <2>4. ThreadTypes'
    BY <1>25 DEF Reset, ThreadTypes
  <2>5. SinkTypes'
    BY <1>25 DEF Reset, SinkTypes
  <2>6. AcceptTypes'
    BY <1>25 DEF Reset, AcceptTypes
  <2> QED
    BY <2>1, <2>2, <2>3, <2>4, <2>5, <2>6 DEF Types
<1>26. ASSUME UNCHANGED vars
      PROVE  Types'
  <2>1. PlaceTypes'
    BY <1>26 DEF PlaceTypes
  <2>2. SlotTypes'
    BY <1>26 DEF SlotTypes
  <2>3. QueueTypes'
    BY <1>26 DEF QueueTypes
  <2>4. ThreadTypes'
    BY <1>26 DEF ThreadTypes
  <2>5. SinkTypes'
    BY <1>26 DEF SinkTypes
  <2>6. AcceptTypes'
    BY <1>26 DEF AcceptTypes
  <2> QED
    BY <2>1, <2>2, <2>3, <2>4, <2>5, <2>6 DEF Types
<1> QED
  BY <1>1, <1>2, <1>3, <1>4, <1>5, <1>6, <1>7, <1>8, <1>9, <1>10, <1>11, <1>12, <1>13, <1>14, <1>15, <1>16, <1>17, <1>18, <1>19, <1>20, <1>21, <1>22, <1>23, <1>24, <1>25, <1>26
     DEF Next, Caller, Going, LogThread, Setting, Log, Info, Crashed, Rest

(* A move that calls nothing new counts nothing new. *)
LEMMA SettingsKept ==
    ASSUME CountInv, \A t \in Setters : made'[t] = made[t], UNCHANGED loggers
    PROVE  CountInv'
<1> Settings' = Settings
  BY DEF Settings
<1> QED
  BY DEF CountInv

(* The loggers made are counted by the calls of the setters. *)
LEMMA CountStep ==
    ASSUME Inductive, [Next]_vars
    PROVE  CountInv'
<1> Types /\ CountInv /\ CallerInv /\ SetterInv
  BY TypeParts DEF Inductive
<1> USE LoggerAssumption
    DEF Types, PlaceTypes, slotVars, sinkVars, callVars, threadVars, vars, Goto, Return, Threads
<1>1. ASSUME NEW c \in Callers, pc[c] \in {"idle", "info"}, RawLog(c)
      PROVE  CountInv'
  BY <1>1, SettingsKept DEF RawLog, Begin
<1>2. ASSUME NEW c \in Callers, Flush(c)
      PROVE  CountInv'
  BY <1>2, SettingsKept DEF Flush, Begin
<1>3. ASSUME NEW c \in Callers, SinkCtxPath(c)
      PROVE  CountInv'
  BY <1>3, SettingsKept DEF SinkCtxPath, ChangePath, Begin
<1>4. ASSUME NEW c \in Callers, Unblock(c)
      PROVE  CountInv'
  BY <1>4, SettingsKept DEF Unblock
<1>5. ASSUME NEW c \in Callers, Return(c), pc[c] = "info",
             UNCHANGED <<slotVars, queue, threadVars, sinkVars, accepted, due>>
      PROVE  CountInv'
  BY <1>5, SettingsKept
<1>6. ASSUME NEW c \in Callers, LastLog(c)
      PROVE  CountInv'
  BY <1>6, SettingsKept DEF LastLog
<1>7. ASSUME NEW c \in Callers, FlagLook(c)
      PROVE  CountInv'
  BY <1>7, SettingsKept DEF FlagLook
<1>8. ASSUME NEW c \in Callers, FlagSet(c)
      PROVE  CountInv'
  BY <1>8, SettingsKept DEF FlagSet
<1>9. ASSUME NEW c \in Callers, Dispatch(c)
      PROVE  CountInv'
  BY <1>9, SettingsKept DEF Dispatch, Submitted
<1>10. ASSUME NEW c \in Callers, Write(c)
      PROVE  CountInv'
  BY <1>10, SettingsKept DEF Write, Accept, Submitted
<1>11. ASSUME NEW c \in Callers, Push(c)
      PROVE  CountInv'
  BY <1>11, SettingsKept DEF Push, Enqueue, Accept, Submitted
<1>12. ASSUME NEW c \in Callers, PushResume(c)
      PROVE  CountInv'
  BY <1>12, SettingsKept DEF PushResume, Enqueue, Accept, Submitted
<1>13. ASSUME NEW c \in Callers, PushAbort(c)
      PROVE  CountInv'
  BY <1>13, SettingsKept DEF PushAbort, Submitted
<1>14. ASSUME NEW c \in Callers, Await(c)
      PROVE  CountInv'
  BY <1>14, SettingsKept DEF Await
<1>15. ASSUME NEW s \in Slot, ThreadPop(s)
      PROVE  CountInv'
  BY <1>15, SettingsKept DEF ThreadPop
<1>16. ASSUME NEW s \in Slot, ThreadTimeout(s)
      PROVE  CountInv'
  BY <1>16, SettingsKept DEF ThreadTimeout
<1>17. ASSUME NEW s \in Slot, ThreadAck(s)
      PROVE  CountInv'
  BY <1>17, SettingsKept DEF ThreadAck
<1>18. ASSUME NEW s \in Slot, ThreadFlush(s)
      PROVE  CountInv'
  BY <1>18, SettingsKept DEF ThreadFlush
<1>19. ASSUME NEW s \in Slot, ThreadNext(s)
      PROVE  CountInv'
  BY <1>19, SettingsKept DEF ThreadNext
<1>20. ASSUME NEW s \in Slot, ThreadClose(s)
      PROVE  CountInv'
  BY <1>20, SettingsKept DEF ThreadClose, SinkFinal
<1>21. ASSUME NEW t \in Setters, NEW kind \in Kinds, SetLogger(t, kind)
      PROVE  CountInv'
  <2> DEFINE p == <<t, made[t] + 1>>
  <2>1. made[t] + 1 \in 1..MaxSets /\ p \in Setters \X (1..MaxSets)
    BY <1>21 DEF SetLogger
  <2>2. made' = [made EXCEPT ![t] = made[t] + 1] /\ made[t] \in Nat
    BY <1>21 DEF SetLogger
  <2>3. Settings' = Settings \cup {p} /\ p \notin Settings
    BY <2>1, <2>2 DEF Settings
  <2>4. IsFiniteSet(Settings)
    BY Bounds, FS_Subset DEF Settings
  <2>5. Cardinality(Settings') = Cardinality(Settings) + 1 /\ Cardinality(Settings) \in Nat
    BY <2>3, <2>4, FS_AddElement, FS_CardinalityType
  <2>6. loggers \in Nat /\ loggers' \in Nat /\ loggers' <= loggers + 1
    BY <1>21 DEF SetLogger, SlotTypes
  <2>7. \A u \in Setters : made'[u] <= MaxSets
    BY <2>1, <2>2 DEF CountInv
  <2>8. loggers <= Cardinality(Settings)
    BY DEF CountInv
  <2>9. loggers' <= Cardinality(Settings')
    BY <2>5, <2>6, <2>8
  <2> QED
    BY <2>7, <2>9 DEF CountInv
<1>22. ASSUME NEW t \in Setters, Quit(t)
      PROVE  CountInv'
  BY <1>22, SettingsKept DEF Quit, SinkFinal
<1>23. ASSUME NEW t \in Setters, WaitQuit(t)
      PROVE  CountInv'
  BY <1>23, SettingsKept DEF WaitQuit
<1>24. ASSUME NEW t \in Setters, FreeQueue(t)
      PROVE  CountInv'
  BY <1>24, SettingsKept DEF FreeQueue
<1>25. ASSUME NEW t \in Setters, Reset(t)
      PROVE  CountInv'
  BY <1>25, SettingsKept DEF Reset
<1>26. ASSUME UNCHANGED vars
      PROVE  CountInv'
  BY <1>26, SettingsKept
<1> QED
  BY <1>1, <1>2, <1>3, <1>4, <1>5, <1>6, <1>7, <1>8, <1>9, <1>10, <1>11, <1>12, <1>13, <1>14, <1>15, <1>16, <1>17, <1>18, <1>19, <1>20, <1>21, <1>22, <1>23, <1>24, <1>25, <1>26
     DEF Next, Caller, Going, LogThread, Setting, Log, Info, Crashed, Rest

(* A caller submits the call it made last. *)
LEMMA BeginCaller ==
    ASSUME PlaceTypes, CallerInv, NEW c \in Callers, NEW what \in {"msg", "FLUSH", "CLOSE"},
           Begin(c, what), NEW l \in Unsubmitted, pc' = [pc EXCEPT ![c] = l],
           NEW d \in Callers
    PROVE  CallerOK(d)'
<1> c \in Threads /\ d \in Threads
  BY DEF Threads
<1>1. CASE d # c
  BY <1>1 DEF Begin, PlaceTypes, CallerInv, CallerOK
<1>2. CASE d = c
  <2> DEFINE new == [what |-> what, item |-> <<c, made[c] + 1>>]
  <2>1. made[c] + 1 \in 1..MaxCalls
    BY LoggerAssumption DEF Begin, PlaceTypes
  <2>2. new \in Entry /\ new.item = <<c, made[c] + 1>>
    BY <2>1 DEF Entry, Item
  <2>3. call'[c] = new /\ made'[c] = made[c] + 1 /\ pc'[c] = l
    BY DEF Begin, PlaceTypes
  <2> HIDE DEF new
  <2> QED
    BY <1>2, <2>1, <2>2, <2>3 DEF CallerOK
<1> QED
  BY <1>1, <1>2

(* Nothing else changes the calls but where they are. *)
LEMMA CallerStep ==
    ASSUME Inductive, [Next]_vars
    PROVE  CallerInv'
<1> Types /\ CountInv /\ CallerInv /\ SetterInv
  BY TypeParts DEF Inductive
<1> USE LoggerAssumption
    DEF Types, PlaceTypes, slotVars, sinkVars, callVars, threadVars, vars, Goto, Return, Threads
<1> SUFFICES ASSUME NEW d \in Callers PROVE CallerOK(d)'
  BY DEF CallerInv
<1> CallerOK(d)
  BY DEF CallerInv
<1>1. ASSUME NEW c \in Callers, pc[c] \in {"idle", "info"}, RawLog(c)
      PROVE  CallerOK(d)'
  BY <1>1, BeginCaller DEF RawLog, Unsubmitted
<1>2. ASSUME NEW c \in Callers, Flush(c)
      PROVE  CallerOK(d)'
  <2>1. PICK what \in {"msg", "FLUSH", "CLOSE"} : Begin(c, what)
    BY <1>2 DEF Flush
  <2> QED
    BY <1>2, <2>1, BeginCaller DEF Flush, Unsubmitted
<1>3. ASSUME NEW c \in Callers, SinkCtxPath(c)
      PROVE  CallerOK(d)'
  BY <1>3, BeginCaller DEF SinkCtxPath, ChangePath, Unsubmitted
<1>4. ASSUME NEW c \in Callers, Unblock(c)
      PROVE  CallerOK(d)'
  BY <1>4 DEF Unblock, CallerOK, Unsubmitted, Entry
<1>5. ASSUME NEW c \in Callers, Return(c), pc[c] = "info",
             UNCHANGED <<slotVars, queue, threadVars, sinkVars, accepted, due>>
      PROVE  CallerOK(d)'
  BY <1>5 DEF CallerOK, Unsubmitted, Entry
<1>6. ASSUME NEW c \in Callers, LastLog(c)
      PROVE  CallerOK(d)'
  BY <1>6 DEF LastLog, CallerOK, Unsubmitted, Entry
<1>7. ASSUME NEW c \in Callers, FlagLook(c)
      PROVE  CallerOK(d)'
  BY <1>7 DEF FlagLook, CallerOK, Unsubmitted, Entry
<1>8. ASSUME NEW c \in Callers, FlagSet(c)
      PROVE  CallerOK(d)'
  BY <1>8 DEF FlagSet, CallerOK, Unsubmitted, Entry
<1>9. ASSUME NEW c \in Callers, Dispatch(c)
      PROVE  CallerOK(d)'
  BY <1>9 DEF Dispatch, Submitted, CallerOK, Unsubmitted, Entry
<1>10. ASSUME NEW c \in Callers, Write(c)
      PROVE  CallerOK(d)'
  BY <1>10 DEF Write, Accept, Submitted, CallerOK, Unsubmitted, Entry
<1>11. ASSUME NEW c \in Callers, Push(c)
      PROVE  CallerOK(d)'
  BY <1>11 DEF Push, Enqueue, Accept, Submitted, CallerOK, Unsubmitted, Entry
<1>12. ASSUME NEW c \in Callers, PushResume(c)
      PROVE  CallerOK(d)'
  BY <1>12 DEF PushResume, Enqueue, Accept, Submitted, CallerOK, Unsubmitted, Entry
<1>13. ASSUME NEW c \in Callers, PushAbort(c)
      PROVE  CallerOK(d)'
  BY <1>13 DEF PushAbort, Submitted, CallerOK, Unsubmitted, Entry
<1>14. ASSUME NEW c \in Callers, Await(c)
      PROVE  CallerOK(d)'
  BY <1>14 DEF Await, CallerOK, Unsubmitted, Entry
<1>15. ASSUME NEW s \in Slot, ThreadPop(s)
      PROVE  CallerOK(d)'
  BY <1>15 DEF ThreadPop, CallerOK, Unsubmitted, Entry
<1>16. ASSUME NEW s \in Slot, ThreadTimeout(s)
      PROVE  CallerOK(d)'
  BY <1>16 DEF ThreadTimeout, CallerOK, Unsubmitted, Entry
<1>17. ASSUME NEW s \in Slot, ThreadAck(s)
      PROVE  CallerOK(d)'
  BY <1>17 DEF ThreadAck, CallerOK, Unsubmitted, Entry
<1>18. ASSUME NEW s \in Slot, ThreadFlush(s)
      PROVE  CallerOK(d)'
  BY <1>18 DEF ThreadFlush, CallerOK, Unsubmitted, Entry
<1>19. ASSUME NEW s \in Slot, ThreadNext(s)
      PROVE  CallerOK(d)'
  BY <1>19 DEF ThreadNext, CallerOK, Unsubmitted, Entry
<1>20. ASSUME NEW s \in Slot, ThreadClose(s)
      PROVE  CallerOK(d)'
  BY <1>20 DEF ThreadClose, SinkFinal, CallerOK, Unsubmitted, Entry
<1>21. ASSUME NEW t \in Setters, NEW kind \in Kinds, SetLogger(t, kind)
      PROVE  CallerOK(d)'
  BY <1>21 DEF SetLogger, Lock, CallerOK, Unsubmitted, Entry
<1>22. ASSUME NEW t \in Setters, Quit(t)
      PROVE  CallerOK(d)'
  BY <1>22 DEF Quit, SinkFinal, CallerOK, Unsubmitted, Entry
<1>23. ASSUME NEW t \in Setters, WaitQuit(t)
      PROVE  CallerOK(d)'
  BY <1>23 DEF WaitQuit, CallerOK, Unsubmitted, Entry
<1>24. ASSUME NEW t \in Setters, FreeQueue(t)
      PROVE  CallerOK(d)'
  BY <1>24 DEF FreeQueue, CallerOK, Unsubmitted, Entry
<1>25. ASSUME NEW t \in Setters, Reset(t)
      PROVE  CallerOK(d)'
  BY <1>25 DEF Reset, CallerOK, Unsubmitted, Entry
<1>26. ASSUME UNCHANGED vars
      PROVE  CallerOK(d)'
  BY <1>26 DEF CallerOK, Unsubmitted, Entry
<1> QED
  BY <1>1, <1>2, <1>3, <1>4, <1>5, <1>6, <1>7, <1>8, <1>9, <1>10, <1>11, <1>12, <1>13, <1>14, <1>15, <1>16, <1>17, <1>18, <1>19, <1>20, <1>21, <1>22, <1>23, <1>24, <1>25, <1>26
     DEF Next, Caller, Going, LogThread, Setting, Log, Info, Crashed, Rest

(* The mutex keeps the setters apart. *)
LEMMA SetterStep ==
    ASSUME Inductive, [Next]_vars
    PROVE  SetterInv'
<1> Types /\ CountInv /\ CallerInv /\ SetterInv
  BY TypeParts DEF Inductive
<1> USE LoggerAssumption
    DEF Types, PlaceTypes, slotVars, sinkVars, callVars, threadVars, vars, Goto, Return, Threads
<1>1. ASSUME NEW c \in Callers, pc[c] \in {"idle", "info"}, RawLog(c)
      PROVE  SetterInv'
  BY <1>1, SetterAt DEF RawLog, Begin, SetterInv, SlotTypes, Slot
<1>2. ASSUME NEW c \in Callers, Flush(c)
      PROVE  SetterInv'
  BY <1>2, SetterAt DEF Flush, Begin, SetterInv, SlotTypes, Slot
<1>3. ASSUME NEW c \in Callers, SinkCtxPath(c)
      PROVE  SetterInv'
  BY <1>3, SetterAt DEF SinkCtxPath, ChangePath, Begin, SetterInv, SlotTypes, Slot
<1>4. ASSUME NEW c \in Callers, Unblock(c)
      PROVE  SetterInv'
  BY <1>4, SetterAt DEF Unblock, SetterInv, SlotTypes, Slot
<1>5. ASSUME NEW c \in Callers, Return(c), pc[c] = "info",
             UNCHANGED <<slotVars, queue, threadVars, sinkVars, accepted, due>>
      PROVE  SetterInv'
  BY <1>5, SetterAt DEF SetterInv, SlotTypes, Slot
<1>6. ASSUME NEW c \in Callers, LastLog(c)
      PROVE  SetterInv'
  BY <1>6, SetterAt DEF LastLog, SetterInv, SlotTypes, Slot
<1>7. ASSUME NEW c \in Callers, FlagLook(c)
      PROVE  SetterInv'
  BY <1>7, SetterAt DEF FlagLook, SetterInv, SlotTypes, Slot
<1>8. ASSUME NEW c \in Callers, FlagSet(c)
      PROVE  SetterInv'
  BY <1>8, SetterAt DEF FlagSet, SetterInv, SlotTypes, Slot
<1>9. ASSUME NEW c \in Callers, Dispatch(c)
      PROVE  SetterInv'
  BY <1>9, SetterAt DEF Dispatch, Submitted, SetterInv, SlotTypes, Slot
<1>10. ASSUME NEW c \in Callers, Write(c)
      PROVE  SetterInv'
  BY <1>10, SetterAt DEF Write, Accept, Submitted, SetterInv, SlotTypes, Slot
<1>11. ASSUME NEW c \in Callers, Push(c)
      PROVE  SetterInv'
  BY <1>11, SetterAt DEF Push, Enqueue, Accept, Submitted, SetterInv, SlotTypes, Slot
<1>12. ASSUME NEW c \in Callers, PushResume(c)
      PROVE  SetterInv'
  BY <1>12, SetterAt DEF PushResume, Enqueue, Accept, Submitted, SetterInv, SlotTypes, Slot
<1>13. ASSUME NEW c \in Callers, PushAbort(c)
      PROVE  SetterInv'
  BY <1>13, SetterAt DEF PushAbort, Submitted, SetterInv, SlotTypes, Slot
<1>14. ASSUME NEW c \in Callers, Await(c)
      PROVE  SetterInv'
  BY <1>14, SetterAt DEF Await, SetterInv, SlotTypes, Slot
<1>15. ASSUME NEW s \in Slot, ThreadPop(s)
      PROVE  SetterInv'
  BY <1>15, SetterAt DEF ThreadPop, SetterInv, SlotTypes, Slot
<1>16. ASSUME NEW s \in Slot, ThreadTimeout(s)
      PROVE  SetterInv'
  BY <1>16, SetterAt DEF ThreadTimeout, SetterInv, SlotTypes, Slot
<1>17. ASSUME NEW s \in Slot, ThreadAck(s)
      PROVE  SetterInv'
  BY <1>17, SetterAt DEF ThreadAck, SetterInv, SlotTypes, Slot
<1>18. ASSUME NEW s \in Slot, ThreadFlush(s)
      PROVE  SetterInv'
  BY <1>18, SetterAt DEF ThreadFlush, SetterInv, SlotTypes, Slot
<1>19. ASSUME NEW s \in Slot, ThreadNext(s)
      PROVE  SetterInv'
  BY <1>19, SetterAt DEF ThreadNext, SetterInv, SlotTypes, Slot
<1>20. ASSUME NEW s \in Slot, ThreadClose(s)
      PROVE  SetterInv'
  BY <1>20, SetterAt DEF ThreadClose, SinkFinal, SetterInv, SlotTypes, Slot
<1>21. ASSUME NEW t \in Setters, NEW kind \in Kinds, SetLogger(t, kind)
      PROVE  SetterInv'
  BY <1>21, SetterAt DEF SetLogger, Lock, SetterInv, SlotTypes, Slot
<1>22. ASSUME NEW t \in Setters, Quit(t)
      PROVE  SetterInv'
  BY <1>22, SetterAt DEF Quit, SinkFinal, SetterInv, SlotTypes, Slot
<1>23. ASSUME NEW t \in Setters, WaitQuit(t)
      PROVE  SetterInv'
  BY <1>23, SetterAt DEF WaitQuit, SetterInv, SlotTypes, Slot
<1>24. ASSUME NEW t \in Setters, FreeQueue(t)
      PROVE  SetterInv'
  BY <1>24, SetterAt DEF FreeQueue, SetterInv, SlotTypes, Slot
<1>25. ASSUME NEW t \in Setters, Reset(t)
      PROVE  SetterInv'
  BY <1>25, SetterAt DEF Reset, SetterInv, SlotTypes, Slot
<1>26. ASSUME UNCHANGED vars
      PROVE  SetterInv'
  BY <1>26, SetterAt DEF SetterInv, SlotTypes, Slot
<1> QED
  BY <1>1, <1>2, <1>3, <1>4, <1>5, <1>6, <1>7, <1>8, <1>9, <1>10, <1>11, <1>12, <1>13, <1>14, <1>15, <1>16, <1>17, <1>18, <1>19, <1>20, <1>21, <1>22, <1>23, <1>24, <1>25, <1>26
     DEF Next, Caller, Going, LogThread, Setting, Log, Info, Crashed, Rest

(* What a replacement does: the free slot is filled and becomes the current
   one. *)
LEMMA SetLoggerEffect ==
    ASSUME Types, CountInv, ShutInv, NEW t \in Setters, NEW kind \in Kinds, SetLogger(t, kind)
    PROVE  /\ lmux = None /\ slot[3 - cur].logger = 0
           /\ lmux' = t /\ cur' = 3 - cur /\ cur \in Slot /\ 3 - cur \in Slot
           /\ 3 - cur # cur /\ 3 - cur' = cur
           /\ at' = [at EXCEPT ![t] = cur]
           /\ pc' = [pc EXCEPT ![t] = IF slot[cur].logger = 0 THEN "reset" ELSE "quit"]
           /\ slot'[cur] = slot[cur] /\ loggers + 1 \in Logger /\ loggers \in Nat
           /\ \A s \in Slot : s = cur \/ s = 3 - cur
           /\ \A g \in Logger : g # loggers + 1 => thread'[g] = thread[g] /\ queue'[g] = queue[g]
           /\ ~slot'[3 - cur].quitting
           /\ \/ /\ kind = "none" /\ loggers' = loggers /\ UNCHANGED <<thread, queue>>
                 /\ slot'[3 - cur].logger = 0
                 /\ slot'[3 - cur].queuer = "noQ" /\ ~slot'[3 - cur].logThread
              \/ /\ kind = "sync" /\ loggers' = loggers + 1 /\ UNCHANGED <<thread, queue>>
                 /\ slot'[3 - cur].logger = loggers + 1
                 /\ slot'[3 - cur].queuer = "syncQ" /\ ~slot'[3 - cur].logThread
              \/ /\ kind = "async" /\ loggers' = loggers + 1
                 /\ slot'[3 - cur].logger = loggers + 1
                 /\ slot'[3 - cur].queuer = "asyncQ" /\ slot'[3 - cur].logThread
                 /\ thread'[loggers + 1] = "loop"
                 /\ queue'[loggers + 1].list = <<>>
<1>1. loggers + 1 \in Logger /\ loggers \in Nat
  BY RoomForLogger DEF SetLogger, Types, PlaceTypes, SlotTypes, Logger, Threads
<1>2. cur \in Slot /\ 3 - cur \in Slot /\ 3 - cur # cur /\ 3 - (3 - cur) = cur
      /\ \A s \in Slot : s = cur \/ s = 3 - cur
  BY DEF Types, SlotTypes, Slot
<1>3. slot'[cur] = slot[cur] /\ slot'[3 - cur] = NewSlot(kind)
  BY <1>2 DEF SetLogger, Types, SlotTypes
<1>4. /\ \A g \in Logger : g # loggers + 1 => thread'[g] = thread[g] /\ queue'[g] = queue[g]
      /\ kind # "async" => UNCHANGED <<thread, queue>>
      /\ kind = "async" => thread'[loggers + 1] = "loop" /\ queue'[loggers + 1].list = <<>>
  BY <1>1 DEF SetLogger, Types, ThreadTypes, QueueTypes, NoQueue
<1>5. kind \in {"async", "sync", "none"}
  BY LoggerAssumption
<1>6. lmux = None /\ slot[3 - cur].logger = 0
  BY DEF SetLogger, Lock, ShutInv
<1>7. /\ lmux' = t /\ cur' = 3 - cur
      /\ at' = [at EXCEPT ![t] = cur]
      /\ pc' = [pc EXCEPT ![t] = IF slot[cur].logger = 0 THEN "reset" ELSE "quit"]
      /\ loggers' = IF kind = "none" THEN loggers ELSE loggers + 1
  BY DEF SetLogger, Lock
<1>8. CASE kind = "none"
  BY <1>1, <1>2, <1>3, <1>4, <1>6, <1>7, <1>8 DEF NewSlot, Blank
<1>9. CASE kind = "sync"
  BY <1>1, <1>2, <1>3, <1>4, <1>6, <1>7, <1>9 DEF NewSlot, Blank
<1>10. CASE kind = "async"
  <2>1. /\ NewSlot(kind).logger = loggers + 1 /\ NewSlot(kind).queuer = "asyncQ"
        /\ NewSlot(kind).logThread /\ ~NewSlot(kind).quitting
    BY <1>10 DEF NewSlot, Blank
  <2>2. /\ thread'[loggers + 1] = "loop" /\ queue'[loggers + 1].list = <<>>
        /\ \A g \in Logger : g # loggers + 1 => thread'[g] = thread[g] /\ queue'[g] = queue[g]
        /\ loggers' = loggers + 1
    BY <1>4, <1>7, <1>10
  <2> HIDE DEF Logger, Slot
  <2> QED
    BY <1>1, <1>2, <1>3, <1>6, <1>7, <1>10, <2>1, <2>2
<1> QED
  BY <1>5, <1>8, <1>9, <1>10

(* The slot is cleared, and the setter done. *)
LEMMA ResetEffect ==
    ASSUME Types, SetterInv, NEW t \in Setters, Reset(t)
    PROVE  /\ lmux = t /\ at[t] = 3 - cur /\ lmux' = None /\ UNCHANGED <<cur, loggers>>
           /\ cur \in Slot /\ 3 - cur \in Slot /\ 3 - cur # cur
           /\ \A s \in Slot : s = cur \/ s = 3 - cur
           /\ slot'[cur] = slot[cur]
           /\ slot'[3 - cur].logger = 0 /\ slot'[3 - cur].queuer = "noQ"
           /\ ~slot'[3 - cur].logThread /\ ~slot'[3 - cur].quitting
<1>1. pc[t] # "idle"
  BY DEF Reset
<1>2. lmux = t /\ at[t] = 3 - cur /\ cur \in Slot
  BY <1>1, SetterAt
<1> QED
  BY <1>2 DEF Reset, Types, SlotTypes, Slot, Blank

(* A setter tells only a logger with a thread to quit. *)
LEMMA QuitKeepsSlots ==
    ASSUME Types, SlotInv, NEW t \in Setters, Quit(t)
    PROVE  SlotInv'
<1>1. UNCHANGED <<loggers, thread>>
  BY DEF Quit, threadVars
<1>2. \A u \in Slot :
          /\ slot'[u].logger = slot[u].logger
          /\ slot'[u].queuer = slot[u].queuer
          /\ slot'[u].logThread = slot[u].logThread
          /\ slot'[u].quitting => slot[u].quitting \/ slot[u].logThread
  BY DEF Quit, Types, SlotTypes, SlotType
<1>3. ASSUME NEW u \in Slot PROVE SlotOK(u)'
  <2> SlotOK(u)
    BY DEF SlotInv
  <2> QED
    BY <1>1, <1>2 DEF SlotOK
<1>4. slot'[1].logger = slot[1].logger /\ slot'[2].logger = slot[2].logger
  BY <1>2 DEF Slot
<1> QED
  BY <1>3, <1>4 DEF SlotInv

(* What is in a slot fits together. *)
LEMMA SlotStep ==
    ASSUME Inductive, [Next]_vars
    PROVE  SlotInv'
<1> Types /\ CountInv /\ CallerInv /\ SetterInv /\ SlotInv /\ ShutInv /\ FreshInv
  BY TypeParts DEF Inductive
<1> USE LoggerAssumption
    DEF Types, PlaceTypes, SlotTypes, ThreadTypes, SlotType, Slot, Logger,
        slotVars, sinkVars, callVars, threadVars, vars, Goto, Return, Threads, My,
        ThreadAt, ThreadGoto
<1>1. ASSUME NEW c \in Callers, pc[c] \in {"idle", "info"}, RawLog(c)
      PROVE  SlotInv'
  BY <1>1 DEF RawLog, Begin, SlotInv, SlotOK
<1>2. ASSUME NEW c \in Callers, Flush(c)
      PROVE  SlotInv'
  BY <1>2 DEF Flush, Begin, SlotInv, SlotOK
<1>3. ASSUME NEW c \in Callers, SinkCtxPath(c)
      PROVE  SlotInv'
  BY <1>3 DEF SinkCtxPath, ChangePath, Begin, SlotInv, SlotOK
<1>4. ASSUME NEW c \in Callers, Unblock(c)
      PROVE  SlotInv'
  BY <1>4 DEF Unblock, SlotInv, SlotOK
<1>5. ASSUME NEW c \in Callers, Return(c), pc[c] = "info",
             UNCHANGED <<slotVars, queue, threadVars, sinkVars, accepted, due>>
      PROVE  SlotInv'
  BY <1>5 DEF SlotInv, SlotOK
<1>6. ASSUME NEW c \in Callers, LastLog(c)
      PROVE  SlotInv'
  BY <1>6 DEF LastLog, SlotInv, SlotOK
<1>7. ASSUME NEW c \in Callers, FlagLook(c)
      PROVE  SlotInv'
  BY <1>7 DEF FlagLook, SlotInv, SlotOK
<1>8. ASSUME NEW c \in Callers, FlagSet(c)
      PROVE  SlotInv'
  BY <1>8 DEF FlagSet, SlotInv, SlotOK
<1>9. ASSUME NEW c \in Callers, Dispatch(c)
      PROVE  SlotInv'
  BY <1>9 DEF Dispatch, Submitted, SlotInv, SlotOK
<1>10. ASSUME NEW c \in Callers, Write(c)
      PROVE  SlotInv'
  BY <1>10 DEF Write, Accept, Submitted, SlotInv, SlotOK
<1>11. ASSUME NEW c \in Callers, Push(c)
      PROVE  SlotInv'
  BY <1>11 DEF Push, Enqueue, Accept, Submitted, SlotInv, SlotOK
<1>12. ASSUME NEW c \in Callers, PushResume(c)
      PROVE  SlotInv'
  BY <1>12 DEF PushResume, Enqueue, Accept, Submitted, SlotInv, SlotOK
<1>13. ASSUME NEW c \in Callers, PushAbort(c)
      PROVE  SlotInv'
  BY <1>13 DEF PushAbort, Submitted, SlotInv, SlotOK
<1>14. ASSUME NEW c \in Callers, Await(c)
      PROVE  SlotInv'
  BY <1>14 DEF Await, SlotInv, SlotOK
<1>15. ASSUME NEW s \in Slot, ThreadPop(s)
      PROVE  SlotInv'
  BY <1>15 DEF ThreadPop, SlotInv, SlotOK
<1>16. ASSUME NEW s \in Slot, ThreadTimeout(s)
      PROVE  SlotInv'
  BY <1>16 DEF ThreadTimeout, SlotInv, SlotOK
<1>17. ASSUME NEW s \in Slot, ThreadAck(s)
      PROVE  SlotInv'
  BY <1>17 DEF ThreadAck, SlotInv, SlotOK
<1>18. ASSUME NEW s \in Slot, ThreadFlush(s)
      PROVE  SlotInv'
  BY <1>18 DEF ThreadFlush, SlotInv, SlotOK
<1>19. ASSUME NEW s \in Slot, ThreadNext(s)
      PROVE  SlotInv'
  BY <1>19 DEF ThreadNext, SlotInv, SlotOK
<1>20. ASSUME NEW s \in Slot, ThreadClose(s)
      PROVE  SlotInv'
  BY <1>20 DEF ThreadClose, SinkFinal, SlotInv, SlotOK
<1>21. ASSUME NEW t \in Setters, NEW kind \in Kinds, SetLogger(t, kind)
      PROVE  SlotInv'
  <2>1. /\ cur \in Slot /\ \A u \in Slot : u = cur \/ u = 3 - cur
        /\ slot'[cur] = slot[cur] /\ 3 - cur # cur /\ loggers \in Nat
        /\ loggers' \in {loggers, loggers + 1}
        /\ slot'[3 - cur].logger \in {0, loggers + 1} /\ slot'[3 - cur].logger <= loggers'
    BY <1>21, SetLoggerEffect
  <2>2. slot[cur].logger <= loggers /\ slot[cur].logger \in 0..MaxLoggers
    BY <2>1 DEF SlotInv, SlotOK
  <2>3. ASSUME NEW u \in Slot, u = cur PROVE SlotOK(u)'
    <3>1. slot[u].logger # 0 => thread'[slot[u].logger] = thread[slot[u].logger]
      BY <1>21, <2>1, <2>2, <2>3, SetLoggerEffect
    <3>2. SlotOK(u) /\ slot'[u] = slot[u] /\ loggers <= loggers' /\ slot[u].logger \in Nat
          /\ loggers' \in Nat
      BY <2>1, <2>2, <2>3 DEF SlotInv
    <3> QED
      BY <2>1, <3>1, <3>2 DEF SlotOK
  <2>4. ASSUME NEW u \in Slot, u = 3 - cur PROVE SlotOK(u)'
    <3>1. thread[loggers + 1] = "none"
      BY <1>21, <2>1, SetLoggerEffect DEF FreshInv, FreshOK
    <3>2. CASE kind = "none"
      BY <1>21, <2>1, <2>4, <3>2, SetLoggerEffect DEF SlotOK
    <3>3. CASE kind = "sync"
      <4>1. /\ slot'[u].logger = loggers + 1 /\ slot'[u].queuer = "syncQ"
            /\ ~slot'[u].logThread /\ UNCHANGED thread
        BY <1>21, <2>4, <3>3, SetLoggerEffect
      <4>2. slot'[u].logger <= loggers' /\ slot'[u].logger # 0
        BY <2>1, <2>4, <4>1
      <4>3. thread'[slot'[u].logger] = "none"
        BY <3>1, <4>1
      <4> QED
        BY <4>1, <4>2, <4>3, Zenon DEF SlotOK
    <3>4. CASE kind = "async"
      BY <1>21, <2>1, <2>4, <3>4, SetLoggerEffect DEF SlotOK
    <3> QED
      BY <3>2, <3>3, <3>4
  <2>5. slot'[1].logger = slot'[2].logger => slot'[1].logger = 0
    BY <2>1, <2>2
  <2> QED
    BY <2>1, <2>3, <2>4, <2>5 DEF SlotInv
<1>22. ASSUME NEW t \in Setters, Quit(t)
      PROVE  SlotInv'
  BY <1>22, QuitKeepsSlots, Zenon
<1>23. ASSUME NEW t \in Setters, WaitQuit(t)
      PROVE  SlotInv'
  BY <1>23 DEF WaitQuit, SlotInv, SlotOK
<1>24. ASSUME NEW t \in Setters, FreeQueue(t)
      PROVE  SlotInv'
  BY <1>24 DEF FreeQueue, SlotInv, SlotOK
<1>25. ASSUME NEW t \in Setters, Reset(t)
      PROVE  SlotInv'
  <2>1. UNCHANGED thread
    BY <1>25 DEF Reset
  <2> QED
    BY <1>25, <2>1, ResetEffect DEF SlotInv, SlotOK
<1>26. ASSUME UNCHANGED vars
      PROVE  SlotInv'
  BY <1>26 DEF SlotInv, SlotOK
<1> QED
  BY <1>1, <1>2, <1>3, <1>4, <1>5, <1>6, <1>7, <1>8, <1>9, <1>10, <1>11, <1>12, <1>13, <1>14, <1>15, <1>16, <1>17, <1>18, <1>19, <1>20, <1>21, <1>22, <1>23, <1>24, <1>25, <1>26
     DEF Next, Caller, Going, LogThread, Setting, Log, Info, Crashed, Rest

(* Only the old logger is shut down, step by step. *)
LEMMA ShutStep ==
    ASSUME Inductive, [Next]_vars
    PROVE  ShutInv'
<1> Types /\ CountInv /\ CallerInv /\ SetterInv /\ SlotInv /\ ShutInv /\ FreshInv
  BY TypeParts DEF Inductive
<1> USE LoggerAssumption
    DEF Types, PlaceTypes, SlotTypes, ThreadTypes, SlotType, Slot, Logger,
        slotVars, sinkVars, callVars, threadVars, vars, Goto, Return, Threads, My,
        ThreadAt, ThreadGoto
<1>1. ASSUME NEW c \in Callers, pc[c] \in {"idle", "info"}, RawLog(c)
      PROVE  ShutInv'
  BY <1>1, SetterAt DEF RawLog, Begin, ShutInv, SetterInv, SlotInv, SlotOK
<1>2. ASSUME NEW c \in Callers, Flush(c)
      PROVE  ShutInv'
  BY <1>2, SetterAt DEF Flush, Begin, ShutInv, SetterInv, SlotInv, SlotOK
<1>3. ASSUME NEW c \in Callers, SinkCtxPath(c)
      PROVE  ShutInv'
  BY <1>3, SetterAt DEF SinkCtxPath, ChangePath, Begin, ShutInv, SetterInv, SlotInv, SlotOK
<1>4. ASSUME NEW c \in Callers, Unblock(c)
      PROVE  ShutInv'
  BY <1>4, SetterAt DEF Unblock, ShutInv, SetterInv, SlotInv, SlotOK
<1>5. ASSUME NEW c \in Callers, Return(c), pc[c] = "info",
             UNCHANGED <<slotVars, queue, threadVars, sinkVars, accepted, due>>
      PROVE  ShutInv'
  BY <1>5, SetterAt DEF ShutInv, SetterInv, SlotInv, SlotOK
<1>6. ASSUME NEW c \in Callers, LastLog(c)
      PROVE  ShutInv'
  BY <1>6, SetterAt DEF LastLog, ShutInv, SetterInv, SlotInv, SlotOK
<1>7. ASSUME NEW c \in Callers, FlagLook(c)
      PROVE  ShutInv'
  BY <1>7, SetterAt DEF FlagLook, ShutInv, SetterInv, SlotInv, SlotOK
<1>8. ASSUME NEW c \in Callers, FlagSet(c)
      PROVE  ShutInv'
  BY <1>8, SetterAt, SMTT(60) DEF FlagSet, ShutInv, SetterInv, SlotInv, SlotOK
<1>9. ASSUME NEW c \in Callers, Dispatch(c)
      PROVE  ShutInv'
  BY <1>9, SetterAt DEF Dispatch, Submitted, ShutInv, SetterInv, SlotInv, SlotOK
<1>10. ASSUME NEW c \in Callers, Write(c)
      PROVE  ShutInv'
  BY <1>10, SetterAt DEF Write, Accept, Submitted, ShutInv, SetterInv, SlotInv, SlotOK
<1>11. ASSUME NEW c \in Callers, Push(c)
      PROVE  ShutInv'
  BY <1>11, SetterAt DEF Push, Enqueue, Accept, Submitted, ShutInv, SetterInv, SlotInv, SlotOK
<1>12. ASSUME NEW c \in Callers, PushResume(c)
      PROVE  ShutInv'
  BY <1>12, SetterAt DEF PushResume, Enqueue, Accept, Submitted, ShutInv, SetterInv, SlotInv, SlotOK
<1>13. ASSUME NEW c \in Callers, PushAbort(c)
      PROVE  ShutInv'
  BY <1>13, SetterAt DEF PushAbort, Submitted, ShutInv, SetterInv, SlotInv, SlotOK
<1>14. ASSUME NEW c \in Callers, Await(c)
      PROVE  ShutInv'
  BY <1>14, SetterAt DEF Await, ShutInv, SetterInv, SlotInv, SlotOK
<1>15. ASSUME NEW s \in Slot, ThreadPop(s)
      PROVE  ShutInv'
  BY <1>15, SetterAt DEF ThreadPop, ShutInv, SetterInv, SlotInv, SlotOK
<1>16. ASSUME NEW s \in Slot, ThreadTimeout(s)
      PROVE  ShutInv'
  BY <1>16, SetterAt DEF ThreadTimeout, ShutInv, SetterInv, SlotInv, SlotOK
<1>17. ASSUME NEW s \in Slot, ThreadAck(s)
      PROVE  ShutInv'
  BY <1>17, SetterAt DEF ThreadAck, ShutInv, SetterInv, SlotInv, SlotOK
<1>18. ASSUME NEW s \in Slot, ThreadFlush(s)
      PROVE  ShutInv'
  BY <1>18, SetterAt DEF ThreadFlush, ShutInv, SetterInv, SlotInv, SlotOK
<1>19. ASSUME NEW s \in Slot, ThreadNext(s)
      PROVE  ShutInv'
  BY <1>19, SetterAt DEF ThreadNext, ShutInv, SetterInv, SlotInv, SlotOK
<1>20. ASSUME NEW s \in Slot, ThreadClose(s)
      PROVE  ShutInv'
  <2>1. slot[s].logger \in Logger /\ thread[slot[s].logger] = "closing"
    BY <1>20 DEF ThreadClose
  <2>2. s = 3 - cur /\ s # cur
    BY <2>1 DEF ShutInv
  <2>3. slot[cur].logger # 0 => slot[cur].logger # slot[s].logger
    BY <2>2 DEF SlotInv
  <2>4. UNCHANGED <<cur, lmux, loggers, pc, at>>
    BY <1>20 DEF ThreadClose
  <2>5. /\ thread'[slot[s].logger] = "done"
        /\ \A g \in Logger : g # slot[s].logger => thread'[g] = thread[g]
        /\ \A u \in Slot : /\ slot'[u].logger = slot[u].logger
                           /\ slot'[u].logThread = slot[u].logThread
                           /\ u # s => slot'[u] = slot[u]
    BY <1>20, <2>1 DEF ThreadClose
  <2> QED
    BY <2>1, <2>2, <2>3, <2>4, <2>5 DEF ShutInv
<1>21. ASSUME NEW t \in Setters, NEW kind \in Kinds, SetLogger(t, kind)
      PROVE  ShutInv'
  <2>1. /\ slot'[cur].logger = slot[cur].logger
        /\ slot'[cur].quitting = slot[cur].quitting
        /\ slot[cur].logger # loggers + 1 /\ (slot[cur].logger # 0 => slot[cur].logger \in Logger)
    BY <1>21, SetLoggerEffect DEF SlotInv, SlotOK
  <2>2. pc'[t] = IF slot[cur].logger = 0 THEN "reset" ELSE "quit"
    BY <1>21, SetLoggerEffect
  <2>3. slot'[3 - cur].logger # 0 =>
            thread'[slot'[3 - cur].logger] \notin {"closing", "done"}
    <3>1. CASE slot'[3 - cur].logger = loggers + 1 /\ kind = "sync"
      <4>1. loggers + 1 \in Logger /\ loggers \in Nat
        BY <1>21, SetLoggerEffect
      <4>2. thread[loggers + 1] = "none" /\ UNCHANGED thread
        BY <1>21, <3>1, <4>1, SetLoggerEffect DEF FreshInv, FreshOK
      <4> QED
        BY <3>1, <4>2
    <3>2. CASE slot'[3 - cur].logger = loggers + 1 /\ kind = "async"
      BY <1>21, <3>2, SetLoggerEffect
    <3> QED
      BY <1>21, <3>1, <3>2, SetLoggerEffect
  <2>4. slot[cur].logger # 0 => thread'[slot[cur].logger] = thread[slot[cur].logger]
    BY <1>21, <2>1, SetLoggerEffect
  <2>5. /\ cur' = 3 - cur /\ 3 - cur' = cur /\ lmux' = t /\ t # None
        /\ ~slot'[3 - cur].quitting
    BY <1>21, SetLoggerEffect
  <2> QED
    BY <2>1, <2>2, <2>3, <2>4, <2>5 DEF ShutInv
<1>22. ASSUME NEW t \in Setters, Quit(t)
      PROVE  ShutInv'
  <2>1. pc[t] = "quit" /\ lmux = t /\ lmux # None /\ at[t] = 3 - cur /\ 3 - cur # cur
    BY <1>22, SetterAt DEF Quit
  <2>2. UNCHANGED <<cur, lmux, thread>>
    BY <1>22 DEF Quit
  <2>3. CASE slot[3 - cur].logThread
    <3>1. pc'[t] = "wait" /\ slot' = [slot EXCEPT ![3 - cur].quitting = TRUE]
      BY <1>22, <2>1, <2>3 DEF Quit
    <3> QED
      BY <2>1, <2>2, <2>3, <3>1 DEF ShutInv
  <2>4. CASE ~slot[3 - cur].logThread
    <3>1. pc'[t] = "reset" /\ UNCHANGED slot
      BY <1>22, <2>1, <2>4 DEF Quit
    <3> QED
      BY <2>1, <2>2, <2>4, <3>1 DEF ShutInv, SlotInv, SlotOK
  <2> QED
    BY <2>3, <2>4
<1>23. ASSUME NEW t \in Setters, WaitQuit(t)
      PROVE  ShutInv'
  BY <1>23, SetterAt DEF WaitQuit, ShutInv, SetterInv, SlotInv, SlotOK
<1>24. ASSUME NEW t \in Setters, FreeQueue(t)
      PROVE  ShutInv'
  BY <1>24, SetterAt DEF FreeQueue, ShutInv, SetterInv, SlotInv, SlotOK
<1>25. ASSUME NEW t \in Setters, Reset(t)
      PROVE  ShutInv'
  <2>1. UNCHANGED thread
    BY <1>25 DEF Reset
  <2> QED
    BY <1>25, <2>1, ResetEffect DEF ShutInv
<1>26. ASSUME UNCHANGED vars
      PROVE  ShutInv'
  BY <1>26, SetterAt DEF ShutInv, SetterInv, SlotInv, SlotOK
<1> QED
  BY <1>1, <1>2, <1>3, <1>4, <1>5, <1>6, <1>7, <1>8, <1>9, <1>10, <1>11, <1>12, <1>13, <1>14, <1>15, <1>16, <1>17, <1>18, <1>19, <1>20, <1>21, <1>22, <1>23, <1>24, <1>25, <1>26
     DEF Next, Caller, Going, LogThread, Setting, Log, Info, Crashed, Rest

-----------------------------------------------------------------------------
(***************************************************************************)
(* What reaches the sinks, in which order, and that none of it is lost:    *)
(* the rest of the inductive invariant.                                    *)
(***************************************************************************)


(* Raising the limit of a queue leaves what is in it. *)
LEMMA UnboundEffect ==
    ASSUME QueueTypes, NEW g, queue' = [queue EXCEPT ![g].bound = FALSE], NEW k \in Logger
    PROVE  /\ queue'[k].list = queue[k].list /\ queue'[k].waiting = queue[k].waiting
           /\ queue'[k].open = queue[k].open
<1>1. queue[k] \in QueueType
  BY DEF QueueTypes
<1>2. CASE k # g
  BY <1>2 DEF QueueTypes
<1>3. CASE k = g
  <2>1. queue'[k] = [queue[k] EXCEPT !.bound = FALSE]
    BY <1>3 DEF QueueTypes
  <2> QED
    BY <1>1, <2>1 DEF QueueType
<1> QED
  BY <1>2, <1>3

(* An entry goes to the end of one queue. *)
LEMMA EnqueueEffect ==
    ASSUME QueueTypes, NEW g \in Logger, NEW c, NEW w, Enqueue(g, c, w)
    PROVE  /\ queue'[g].list = Append(queue[g].list, call[c])
           /\ queue'[g].waiting = w /\ queue'[g].open = queue[g].open
           /\ \A k \in Logger : k # g => queue'[k] = queue[k]
<1> DEFINE l == Append(queue[g].list, call[c])
<1>1. queue[g] \in QueueType
  BY DEF QueueTypes
<1>2. queue'[g] = [queue[g] EXCEPT !.list = l, !.waiting = w]
      /\ \A k \in Logger : k # g => queue'[k] = queue[k]
  BY DEF QueueTypes, Enqueue
<1> HIDE DEF l
<1>3. queue'[g].list = l /\ queue'[g].waiting = w /\ queue'[g].open = queue[g].open
  BY <1>1, <1>2 DEF QueueType
<1> QED
  BY <1>2, <1>3 DEF l

(* A list of those that wait takes the place of another. *)
LEMMA WaitingEffect ==
    ASSUME QueueTypes, NEW g \in Logger, NEW w, queue' = [queue EXCEPT ![g].waiting = w]
    PROVE  /\ queue'[g].list = queue[g].list
           /\ queue'[g].waiting = w /\ queue'[g].open = queue[g].open
           /\ \A k \in Logger : k # g => queue'[k] = queue[k]
<1>1. queue[g] \in QueueType
  BY DEF QueueTypes
<1>2. queue'[g] = [queue[g] EXCEPT !.waiting = w]
      /\ \A k \in Logger : k # g => queue'[k] = queue[k]
  BY DEF QueueTypes
<1>3. /\ queue'[g].list = queue[g].list /\ queue'[g].waiting = w
      /\ queue'[g].open = queue[g].open
  BY <1>1, <1>2 DEF QueueType
<1> QED
  BY <1>2, <1>3

(* A list of entries takes the place of another. *)
LEMMA ListEffect ==
    ASSUME QueueTypes, NEW g \in Logger, NEW l, queue' = [queue EXCEPT ![g].list = l]
    PROVE  /\ queue'[g].list = l
           /\ queue'[g].waiting = queue[g].waiting /\ queue'[g].open = queue[g].open
           /\ \A k \in Logger : k # g => queue'[k] = queue[k]
<1>1. queue[g] \in QueueType
  BY DEF QueueTypes
<1>2. queue'[g] = [queue[g] EXCEPT !.list = l]
      /\ \A k \in Logger : k # g => queue'[k] = queue[k]
  BY DEF QueueTypes
<1>3. /\ queue'[g].list = l /\ queue'[g].waiting = queue[g].waiting
      /\ queue'[g].open = queue[g].open
  BY <1>1, <1>2 DEF QueueType
<1> QED
  BY <1>2, <1>3

(* A queue that is closed keeps what is in it. *)
LEMMA CloseEffect ==
    ASSUME QueueTypes, NEW g \in Logger, queue' = [queue EXCEPT ![g].open = FALSE]
    PROVE  /\ queue'[g].list = queue[g].list /\ queue'[g].waiting = queue[g].waiting
           /\ ~queue'[g].open
           /\ \A k \in Logger : k # g => queue'[k] = queue[k]
<1>1. queue[g] \in QueueType
  BY DEF QueueTypes
<1>2. queue'[g] = [queue[g] EXCEPT !.open = FALSE]
      /\ \A k \in Logger : k # g => queue'[k] = queue[k]
  BY DEF QueueTypes
<1>3. /\ queue'[g].list = queue[g].list /\ queue'[g].waiting = queue[g].waiting
      /\ ~queue'[g].open
  BY <1>1, <1>2 DEF QueueType
<1> QED
  BY <1>2, <1>3

(* Where a caller goes when its entry is submitted. *)
LEMMA SubmittedEffect ==
    ASSUME PlaceTypes, NEW c \in Callers, Submitted(c)
    PROVE  /\ pc'[c] \in {"idle", "await"} /\ UNCHANGED made
           /\ \A d \in Callers : d # c => pc'[d] = pc[d] /\ at'[d] = at[d]
           /\ \A t \in Setters : pc'[t] = pc[t] /\ at'[t] = at[t]
BY LoggerAssumption DEF PlaceTypes, Submitted, Return, Goto, callVars, Threads

(* What a log thread changes of the slots. *)
LEMMA LowerEffect ==
    ASSUME SlotTypes, NEW s \in Slot,
           \/ slot' = [slot EXCEPT ![s].flushReq = FALSE]
           \/ slot' = [slot EXCEPT ![s].quitting = FALSE, ![s].flushReq = FALSE]
           \/ slot' = [slot EXCEPT ![s].flushReq = TRUE]
           \/ slot' = [slot EXCEPT ![s].quitting = TRUE]
    PROVE  \A u \in Slot : /\ slot'[u].logger = slot[u].logger
                           /\ slot'[u].queuer = slot[u].queuer
                           /\ slot'[u].logThread = slot[u].logThread
BY DEF SlotTypes, SlotType

(* The logger of a slot is one of those made. *)
LEMMA InLogger ==
    ASSUME Types, SlotInv, NEW s \in Slot, slot[s].logger # 0
    PROVE  slot[s].logger \in Logger /\ slot[s].logger <= loggers /\ loggers \in Nat
BY DEF Types, SlotTypes, SlotType, SlotInv, SlotOK, Logger

(* A push is dropped, goes into the queue of a log thread, or blocks. *)
LEMMA PushEffect ==
    ASSUME Types, SlotInv, FreshInv, NEW c \in Callers, Push(c), NEW g, g = slot[at[c]].logger
    PROVE  /\ pc[c] = "push" /\ UNCHANGED <<slot, loggers, thread, got, due>>
           /\ \/ Submitted(c) /\ UNCHANGED <<queue, accepted>>
              \/ /\ g \in Logger /\ g <= loggers /\ thread[g] # "none"
                 /\ Enqueue(g, c, queue[g].waiting)
              \/ /\ g \in Logger /\ g <= loggers
                 /\ queue' = [queue EXCEPT ![g].waiting = Append(queue[g].waiting, c)]
                 /\ Goto(c, "blocked") /\ UNCHANGED accepted
<1>1. pc[c] = "push" /\ UNCHANGED <<slot, loggers, thread, got, due>>
  BY DEF Push, slotVars, threadVars, sinkVars
<1>2. at[c] \in Slot
  BY DEF Types, PlaceTypes, Threads
<1>3. CASE ~My(c).logThread \/ ~queue[g].open
  BY <1>1, <1>3 DEF Push, My
<1>4. CASE My(c).logThread /\ queue[g].open
  <2>1. g # 0
    BY <1>2, <1>4 DEF SlotInv, SlotOK, My
  <2>2. g \in Logger /\ g <= loggers
    BY <1>2, <2>1, InLogger
  <2>3. thread[g] # "none"
    BY <1>4, <2>2 DEF FreshInv, FreshOK
  <2> QED
    BY <1>1, <1>4, <2>2, <2>3 DEF Push, My
<1> QED
  BY <1>3, <1>4

(* Who resumes was the first of those that wait. *)
LEMMA ResumeEffect ==
    ASSUME Types, SlotInv, FreshInv, BlockedInv, NEW c \in Callers, PushResume(c),
           NEW g, g = slot[at[c]].logger
    PROVE  /\ pc[c] = "blocked" /\ UNCHANGED <<slot, loggers, thread, got, due>>
           /\ g \in Logger /\ g <= loggers /\ thread[g] # "none"
           /\ queue[g].waiting \in Seq(Callers) /\ queue[g].waiting # <<>>
           /\ Head(queue[g].waiting) = c
           /\ Enqueue(g, c, Tail(queue[g].waiting))
<1>1. /\ pc[c] = "blocked" /\ UNCHANGED <<slot, loggers, thread, got, due>>
      /\ queue[g].open /\ Head(queue[g].waiting) = c
      /\ Enqueue(g, c, Tail(queue[g].waiting))
  BY DEF PushResume, My, slotVars, threadVars, sinkVars
<1>2. at[c] \in Slot
  BY DEF Types, PlaceTypes, Threads
<1>3. g # 0 /\ c \in ToSet(queue[g].waiting)
  BY <1>1 DEF BlockedInv, BlockedOK
<1>4. g \in Logger /\ g <= loggers
  BY <1>2, <1>3, InLogger
<1>5. thread[g] # "none" /\ queue[g].waiting \in Seq(Callers)
  BY <1>1, <1>4 DEF FreshInv, FreshOK, Types, QueueTypes, QueueType
<1>6. queue[g].waiting # <<>>
  BY <1>3 DEF ToSet
<1> QED
  BY <1>1, <1>4, <1>5, <1>6

(* Who gives up leaves those that wait. *)
LEMMA AbortEffect ==
    ASSUME Types, SlotInv, BlockedInv, NEW c \in Callers, PushAbort(c),
           NEW g, g = slot[at[c]].logger
    PROVE  /\ UNCHANGED <<slot, loggers, thread, got, due, accepted>> /\ Submitted(c)
           /\ g \in Logger /\ queue[g].waiting \in Seq(Callers)
           /\ \A k \in Logger : queue'[k].list = queue[k].list /\ queue'[k].open = queue[k].open
<1>1. /\ pc[c] = "blocked" /\ UNCHANGED <<slot, loggers, thread, got, due, accepted>>
      /\ \E k : queue' = [queue EXCEPT ![g].waiting = RemoveAt(queue[g].waiting, k)]
      /\ Submitted(c)
  BY DEF PushAbort, My, slotVars, threadVars, sinkVars
<1>2. at[c] \in Slot
  BY DEF Types, PlaceTypes, Threads
<1>3. g \in Logger
  BY <1>1, <1>2, InLogger DEF BlockedInv, BlockedOK
<1>4. queue[g].waiting \in Seq(Callers)
  BY <1>3 DEF Types, QueueTypes, QueueType
<1>5. \A k \in Logger : queue'[k].list = queue[k].list /\ queue'[k].open = queue[k].open
  <2>1. PICK k : queue' = [queue EXCEPT ![g].waiting = RemoveAt(queue[g].waiting, k)]
    BY <1>1
  <2> QED
    BY <1>3, <2>1, WaitingEffect DEF Types
<1> QED
  BY <1>1, <1>3, <1>4, <1>5

(* Who waits for room in a queue is not lost from it by the callers ... *)
LEMMA BlockedCalls ==
    ASSUME Types, SlotInv, FreshInv, BlockedInv, NEW d \in Callers, NEW c \in Callers,
           Unblock(c) \/ Push(c) \/ PushResume(c) \/ PushAbort(c)
    PROVE  BlockedOK(d)'
<1> DEFINE g == slot[at[c]].logger
           h == slot[at[d]].logger
           w == queue[g].waiting
<1> PlaceTypes /\ QueueTypes
  BY DEF Types
<1>1. /\ at[d] \in Slot /\ BlockedOK(d)
      /\ (pc[d] = "blocked" => h \in Logger /\ h # 0 /\ d \in ToSet(queue[h].waiting))
  BY InLogger DEF Types, PlaceTypes, Threads, BlockedInv, BlockedOK
<1>2. CASE Unblock(c)
  <2>1. UNCHANGED slot /\ (pc'[d] = "blocked" => pc[d] = "blocked") /\ UNCHANGED at
    BY <1>2 DEF Unblock, slotVars, Goto, callVars, PlaceTypes
  <2>2. h \in Logger => queue'[h].waiting = queue[h].waiting
    BY <1>2, UnboundEffect DEF Unblock
  <2> QED
    BY <1>1, <2>1, <2>2 DEF BlockedOK
<1>3. CASE Push(c)
  <2>0. UNCHANGED slot
    BY <1>3, PushEffect
  <2>1. CASE Submitted(c) /\ UNCHANGED queue
    <3>1. pc'[d] = "blocked" => pc[d] = "blocked" /\ at'[d] = at[d]
      BY <2>1, SubmittedEffect
    <3> QED
      BY <1>1, <2>0, <2>1, <3>1 DEF BlockedOK
  <2>2. CASE g \in Logger /\ Enqueue(g, c, w)
    <3>1. pc'[d] = "blocked" => pc[d] = "blocked" /\ at'[d] = at[d]
      BY <2>2, SubmittedEffect DEF Enqueue
    <3>2. \A k \in Logger : queue'[k].waiting = queue[k].waiting
      BY <2>2, EnqueueEffect
    <3> QED
      BY <1>1, <2>0, <3>1, <3>2 DEF BlockedOK
  <2>3. CASE /\ g \in Logger /\ g <= loggers
             /\ queue' = [queue EXCEPT ![g].waiting = Append(w, c)] /\ Goto(c, "blocked")
    <3>1. w \in Seq(Callers)
      BY <2>3 DEF QueueTypes, QueueType
    <3>2. /\ ToSet(queue'[g].waiting) = ToSet(w) \cup {c}
          /\ \A k \in Logger : k # g => queue'[k] = queue[k]
      <4>1. queue'[g].waiting = Append(w, c) /\ \A k \in Logger : k # g => queue'[k] = queue[k]
        BY <2>3, WaitingEffect
      <4>2. ToSet(Append(w, c)) = ToSet(w) \cup {c}
        BY <3>1, AppendSet
      <4> QED
        BY <4>1, <4>2
    <3>3. UNCHANGED at /\ (d # c => pc'[d] = pc[d]) /\ g # 0
      BY <2>3, Bounds DEF PlaceTypes, Goto, callVars, Logger
    <3> QED
      BY <1>1, <2>0, <3>2, <3>3 DEF BlockedOK
  <2> QED
    BY <1>3, <2>1, <2>2, <2>3, PushEffect
<1>4. CASE PushResume(c)
  <2>1. /\ UNCHANGED slot /\ g \in Logger /\ w \in Seq(Callers) /\ w # <<>> /\ Head(w) = c
        /\ Enqueue(g, c, Tail(w))
    BY <1>4, ResumeEffect
  <2>2. queue'[g].waiting = Tail(w) /\ \A k \in Logger : k # g => queue'[k] = queue[k]
    BY <2>1, EnqueueEffect
  <2>3. \A e \in ToSet(w) : e # c => e \in ToSet(Tail(w))
    BY <2>1, TailKeeps
  <2>4. pc'[d] = "blocked" => pc[d] = "blocked" /\ at'[d] = at[d] /\ d # c
    BY <2>1, SubmittedEffect DEF Enqueue
  <2> QED
    BY <1>1, <2>1, <2>2, <2>3, <2>4 DEF BlockedOK
<1>5. CASE PushAbort(c)
  <2>1. /\ UNCHANGED slot /\ g \in Logger /\ w \in Seq(Callers) /\ Submitted(c)
    BY <1>5, AbortEffect
  <2>2. PICK k \in DOMAIN w : w[k] = c /\ queue' = [queue EXCEPT ![g].waiting = RemoveAt(w, k)]
    BY <1>5 DEF PushAbort, My
  <2>3. queue'[g].waiting = RemoveAt(w, k) /\ \A l \in Logger : l # g => queue'[l] = queue[l]
    BY <2>1, <2>2, WaitingEffect
  <2>4. \A e \in ToSet(w) : e # c => e \in ToSet(RemoveAt(w, k))
    BY <2>1, <2>2, LenProperties, RemoveAtKeeps
  <2>5. pc'[d] = "blocked" => pc[d] = "blocked" /\ at'[d] = at[d] /\ d # c
    BY <2>1, SubmittedEffect
  <2> QED
    BY <1>1, <2>1, <2>3, <2>4, <2>5 DEF BlockedOK
<1> QED
  BY <1>2, <1>3, <1>4, <1>5

(* ... nor by a setter: a slot is not cleared before those that wait left. *)
LEMMA BlockedSetters ==
    ASSUME Types, CountInv, SetterInv, SlotInv, ShutInv, BlockedInv, NEW d \in Callers,
           NEW t \in Setters, (\E kind \in Kinds : SetLogger(t, kind)) \/ Quit(t) \/ Reset(t)
    PROVE  BlockedOK(d)'
<1> DEFINE h == slot[at[d]].logger
<1> PlaceTypes /\ QueueTypes
  BY DEF Types
<1>1. /\ at[d] \in Slot /\ BlockedOK(d)
      /\ pc[d] = "blocked" => h \in Logger /\ h # 0 /\ h <= loggers /\ loggers \in Nat
                              /\ d \in ToSet(queue[h].waiting)
  BY InLogger DEF Types, PlaceTypes, Threads, BlockedInv, BlockedOK
<1>2. d # t
  BY LoggerAssumption
<1>3. ASSUME NEW kind \in Kinds, SetLogger(t, kind)
      PROVE  BlockedOK(d)'
  <2>1. pc'[d] = pc[d] /\ at'[d] = at[d]
    BY <1>2, <1>3 DEF SetLogger, PlaceTypes
  <2>2. CASE pc[d] # "blocked"
    BY <2>1, <2>2 DEF BlockedOK
  <2>3. CASE pc[d] = "blocked"
    <3>1. at[d] = cur /\ slot'[cur] = slot[cur]
      BY <1>1, <1>3, <2>3, SetLoggerEffect
    <3>2. h # loggers + 1
      BY <1>1, <2>3
    <3>3. queue'[h] = queue[h]
      BY <1>1, <1>3, <2>3, <3>2, SetLoggerEffect
    <3> QED
      BY <1>1, <2>1, <3>1, <3>3 DEF BlockedOK
  <2> QED
    BY <2>2, <2>3
<1>4. CASE Quit(t)
  <2>1. pc'[d] = pc[d] /\ at'[d] = at[d]
    <3>1. UNCHANGED at /\ \E l : pc' = [pc EXCEPT ![t] = l]
      BY <1>4 DEF Quit, Goto, callVars
    <3> QED
      BY <1>2, <3>1 DEF PlaceTypes
  <2>2. slot'[at[d]].logger = h
    BY <1>1, <1>4 DEF Quit, Types, SlotTypes, SlotType
  <2>3. h \in Logger => queue'[h].waiting = queue[h].waiting
    BY <1>4, UnboundEffect DEF Quit
  <2> QED
    BY <1>1, <2>1, <2>2, <2>3 DEF BlockedOK
<1>5. CASE Reset(t)
  <2>1. pc'[d] = pc[d] /\ at'[d] = at[d]
    BY <1>2, <1>5 DEF Reset, Return, PlaceTypes
  <2>2. CASE pc[d] # "blocked"
    BY <2>1, <2>2 DEF BlockedOK
  <2>3. CASE pc[d] = "blocked"
    <3>1. at[d] # at[t]
      BY <1>1, <1>5, <2>3 DEF Reset, ToSet
    <3>2. slot'[at[d]] = slot[at[d]]
      BY <1>1, <1>5, <3>1 DEF Reset, Types, SlotTypes
    <3>3. queue'[h].waiting = queue[h].waiting
      <4>1. CASE slot[at[t]].logger = 0
        BY <1>5, <4>1 DEF Reset
      <4>2. CASE slot[at[t]].logger # 0
        <5>1. slot[at[t]].logger \in Logger
          BY <4>2, InLogger DEF PlaceTypes, Threads
        <5>2. queue' = [queue EXCEPT ![slot[at[t]].logger].list = <<>>]
          BY <1>5, <4>2 DEF Reset
        <5> QED
          BY <5>1, <5>2, ListEffect
      <4> QED
        BY <4>1, <4>2
    <3> QED
      BY <1>1, <2>1, <3>2, <3>3 DEF BlockedOK
  <2> QED
    BY <2>2, <2>3
<1> QED
  BY <1>3, <1>4, <1>5

(* ... nor by the end of a log thread. *)
LEMMA BlockedClose ==
    ASSUME Types, BlockedInv, NEW d \in Callers, NEW s \in Slot, ThreadClose(s)
    PROVE  BlockedOK(d)'
<1>1. \A u \in Slot : slot'[u].logger = slot[u].logger
  BY LowerEffect DEF ThreadClose, Types
<1>2. at[d] \in Slot /\ UNCHANGED <<pc, at, queue>>
  BY DEF ThreadClose, callVars, Types, PlaceTypes, Threads
<1> QED
  BY <1>1, <1>2 DEF BlockedInv, BlockedOK

(* Who is blocked stays in the queue of those that wait. *)
LEMMA BlockedStep ==
    ASSUME Inductive, [Next]_vars
    PROVE  BlockedInv'
<1> Types /\ CountInv /\ CallerInv /\ BlockedInv /\ SetterInv /\ SlotInv /\ ShutInv /\ FreshInv
  BY TypeParts DEF Inductive
<1> USE LoggerAssumption
    DEF Types, PlaceTypes, SlotTypes, QueueTypes, QueueType, SlotType, Slot, Logger,
        slotVars, sinkVars, callVars, threadVars, vars, Goto, Return, Threads, My
<1> SUFFICES ASSUME NEW d \in Callers PROVE BlockedOK(d)'
  BY DEF BlockedInv
<1> BlockedOK(d)
  BY DEF BlockedInv
<1>1. ASSUME NEW c \in Callers, pc[c] \in {"idle", "info"}, RawLog(c)
      PROVE  BlockedOK(d)'
  BY <1>1 DEF RawLog, Begin, BlockedOK
<1>2. ASSUME NEW c \in Callers, Flush(c)
      PROVE  BlockedOK(d)'
  BY <1>2 DEF Flush, Begin, BlockedOK
<1>3. ASSUME NEW c \in Callers, SinkCtxPath(c)
      PROVE  BlockedOK(d)'
  BY <1>3 DEF SinkCtxPath, ChangePath, Begin, BlockedOK
<1>4. ASSUME NEW c \in Callers, Unblock(c)
      PROVE  BlockedOK(d)'
  BY <1>4, BlockedCalls, Zenon
<1>5. ASSUME NEW c \in Callers, Return(c), pc[c] = "info",
             UNCHANGED <<slotVars, queue, threadVars, sinkVars, accepted, due>>
      PROVE  BlockedOK(d)'
  BY <1>5 DEF BlockedOK
<1>6. ASSUME NEW c \in Callers, LastLog(c)
      PROVE  BlockedOK(d)'
  BY <1>6 DEF LastLog, BlockedOK
<1>7. ASSUME NEW c \in Callers, FlagLook(c)
      PROVE  BlockedOK(d)'
  BY <1>7 DEF FlagLook, BlockedOK
<1>8. ASSUME NEW c \in Callers, FlagSet(c)
      PROVE  BlockedOK(d)'
  BY <1>8 DEF FlagSet, BlockedOK
<1>9. ASSUME NEW c \in Callers, Dispatch(c)
      PROVE  BlockedOK(d)'
  BY <1>9 DEF Dispatch, Submitted, BlockedOK
<1>10. ASSUME NEW c \in Callers, Write(c)
      PROVE  BlockedOK(d)'
  BY <1>10 DEF Write, Accept, Submitted, BlockedOK
<1>11. ASSUME NEW c \in Callers, Push(c)
      PROVE  BlockedOK(d)'
  BY <1>11, BlockedCalls, Zenon
<1>12. ASSUME NEW c \in Callers, PushResume(c)
      PROVE  BlockedOK(d)'
  BY <1>12, BlockedCalls, Zenon
<1>13. ASSUME NEW c \in Callers, PushAbort(c)
      PROVE  BlockedOK(d)'
  BY <1>13, BlockedCalls, Zenon
<1>14. ASSUME NEW c \in Callers, Await(c)
      PROVE  BlockedOK(d)'
  BY <1>14 DEF Await, BlockedOK
<1>15. ASSUME NEW s \in Slot, ThreadPop(s)
      PROVE  BlockedOK(d)'
  BY <1>15 DEF ThreadPop, BlockedOK
<1>16. ASSUME NEW s \in Slot, ThreadTimeout(s)
      PROVE  BlockedOK(d)'
  BY <1>16 DEF ThreadTimeout, BlockedOK
<1>17. ASSUME NEW s \in Slot, ThreadAck(s)
      PROVE  BlockedOK(d)'
  BY <1>17 DEF ThreadAck, BlockedOK
<1>18. ASSUME NEW s \in Slot, ThreadFlush(s)
      PROVE  BlockedOK(d)'
  BY <1>18 DEF ThreadFlush, BlockedOK
<1>19. ASSUME NEW s \in Slot, ThreadNext(s)
      PROVE  BlockedOK(d)'
  BY <1>19 DEF ThreadNext, BlockedOK
<1>20. ASSUME NEW s \in Slot, ThreadClose(s)
      PROVE  BlockedOK(d)'
  BY <1>20, BlockedClose, Zenon
<1>21. ASSUME NEW t \in Setters, NEW kind \in Kinds, SetLogger(t, kind)
      PROVE  BlockedOK(d)'
  BY <1>21, BlockedSetters, Zenon
<1>22. ASSUME NEW t \in Setters, Quit(t)
      PROVE  BlockedOK(d)'
  BY <1>22, BlockedSetters, Zenon
<1>23. ASSUME NEW t \in Setters, WaitQuit(t)
      PROVE  BlockedOK(d)'
  BY <1>23 DEF WaitQuit, BlockedOK
<1>24. ASSUME NEW t \in Setters, FreeQueue(t)
      PROVE  BlockedOK(d)'
  BY <1>24 DEF FreeQueue, BlockedOK
<1>25. ASSUME NEW t \in Setters, Reset(t)
      PROVE  BlockedOK(d)'
  BY <1>25, BlockedSetters, Zenon
<1>26. ASSUME UNCHANGED vars
      PROVE  BlockedOK(d)'
  BY <1>26 DEF BlockedOK
<1> QED
  BY <1>1, <1>2, <1>3, <1>4, <1>5, <1>6, <1>7, <1>8, <1>9, <1>10, <1>11, <1>12, <1>13, <1>14, <1>15, <1>16, <1>17, <1>18, <1>19, <1>20, <1>21, <1>22, <1>23, <1>24, <1>25, <1>26
     DEF Next, Caller, Going, LogThread, Setting, Log, Info, Crashed, Rest

(* What a caller has submitted is never taken back, and who runs a sink itself
   was sent to it by the slot of its call. *)
CallerMove(d) ==
    /\ Sent[d] <= Sent'[d]
    /\ pc'[d] = "write" => /\ at'[d] = at[d]
                           /\ pc[d] = "write" \/ slot[at[d]].queuer = "syncQ"

(* A caller only goes on. *)
LEMMA CallerMoves ==
    ASSUME Inductive, [Next]_vars
    PROVE  \A d \in Callers : CallerMove(d)
<1> Types /\ CallerInv
  BY TypeParts DEF Inductive
<1> USE LoggerAssumption
    DEF Types, PlaceTypes, slotVars, sinkVars, callVars, threadVars, vars, Goto, Return, Threads, My
<1> SUFFICES ASSUME NEW d \in Callers PROVE CallerMove(d)
  OBVIOUS
<1> CallerOK(d)
  BY DEF CallerInv
<1>1. ASSUME NEW c \in Callers, pc[c] \in {"idle", "info"}, RawLog(c)
      PROVE  CallerMove(d)
  BY <1>1 DEF RawLog, Begin, CallerMove, Sent, Unsubmitted
<1>2. ASSUME NEW c \in Callers, Flush(c)
      PROVE  CallerMove(d)
  BY <1>2 DEF Flush, Begin, CallerMove, Sent, Unsubmitted
<1>3. ASSUME NEW c \in Callers, SinkCtxPath(c)
      PROVE  CallerMove(d)
  BY <1>3 DEF SinkCtxPath, ChangePath, Begin, CallerMove, Sent, Unsubmitted
<1>4. ASSUME NEW c \in Callers, Unblock(c)
      PROVE  CallerMove(d)
  BY <1>4 DEF Unblock, CallerMove, Sent, Unsubmitted
<1>5. ASSUME NEW c \in Callers, Return(c), pc[c] = "info",
             UNCHANGED <<slotVars, queue, threadVars, sinkVars, accepted, due>>
      PROVE  CallerMove(d)
  BY <1>5 DEF CallerMove, Sent, Unsubmitted
<1>6. ASSUME NEW c \in Callers, LastLog(c)
      PROVE  CallerMove(d)
  BY <1>6 DEF LastLog, CallerMove, Sent, Unsubmitted
<1>7. ASSUME NEW c \in Callers, FlagLook(c)
      PROVE  CallerMove(d)
  BY <1>7 DEF FlagLook, CallerMove, Sent, Unsubmitted
<1>8. ASSUME NEW c \in Callers, FlagSet(c)
      PROVE  CallerMove(d)
  BY <1>8 DEF FlagSet, CallerMove, Sent, Unsubmitted
<1>9. ASSUME NEW c \in Callers, Dispatch(c)
      PROVE  CallerMove(d)
  BY <1>9 DEF Dispatch, Submitted, CallerMove, Sent, Unsubmitted
<1>10. ASSUME NEW c \in Callers, Write(c)
      PROVE  CallerMove(d)
  BY <1>10 DEF Write, Accept, Submitted, CallerMove, Sent, Unsubmitted
<1>11. ASSUME NEW c \in Callers, Push(c)
      PROVE  CallerMove(d)
  BY <1>11 DEF Push, Enqueue, Accept, Submitted, CallerMove, Sent, Unsubmitted
<1>12. ASSUME NEW c \in Callers, PushResume(c)
      PROVE  CallerMove(d)
  BY <1>12 DEF PushResume, Enqueue, Accept, Submitted, CallerMove, Sent, Unsubmitted
<1>13. ASSUME NEW c \in Callers, PushAbort(c)
      PROVE  CallerMove(d)
  BY <1>13 DEF PushAbort, Submitted, CallerMove, Sent, Unsubmitted
<1>14. ASSUME NEW c \in Callers, Await(c)
      PROVE  CallerMove(d)
  BY <1>14 DEF Await, CallerMove, Sent, Unsubmitted
<1>15. ASSUME NEW s \in Slot, ThreadPop(s)
      PROVE  CallerMove(d)
  BY <1>15 DEF ThreadPop, CallerMove, Sent, Unsubmitted
<1>16. ASSUME NEW s \in Slot, ThreadTimeout(s)
      PROVE  CallerMove(d)
  BY <1>16 DEF ThreadTimeout, CallerMove, Sent, Unsubmitted
<1>17. ASSUME NEW s \in Slot, ThreadAck(s)
      PROVE  CallerMove(d)
  BY <1>17 DEF ThreadAck, CallerMove, Sent, Unsubmitted
<1>18. ASSUME NEW s \in Slot, ThreadFlush(s)
      PROVE  CallerMove(d)
  BY <1>18 DEF ThreadFlush, CallerMove, Sent, Unsubmitted
<1>19. ASSUME NEW s \in Slot, ThreadNext(s)
      PROVE  CallerMove(d)
  BY <1>19 DEF ThreadNext, CallerMove, Sent, Unsubmitted
<1>20. ASSUME NEW s \in Slot, ThreadClose(s)
      PROVE  CallerMove(d)
  BY <1>20 DEF ThreadClose, SinkFinal, CallerMove, Sent, Unsubmitted
<1>21. ASSUME NEW t \in Setters, NEW kind \in Kinds, SetLogger(t, kind)
      PROVE  CallerMove(d)
  BY <1>21 DEF SetLogger, Lock, CallerMove, Sent, Unsubmitted
<1>22. ASSUME NEW t \in Setters, Quit(t)
      PROVE  CallerMove(d)
  BY <1>22 DEF Quit, SinkFinal, CallerMove, Sent, Unsubmitted
<1>23. ASSUME NEW t \in Setters, WaitQuit(t)
      PROVE  CallerMove(d)
  BY <1>23 DEF WaitQuit, CallerMove, Sent, Unsubmitted
<1>24. ASSUME NEW t \in Setters, FreeQueue(t)
      PROVE  CallerMove(d)
  BY <1>24 DEF FreeQueue, CallerMove, Sent, Unsubmitted
<1>25. ASSUME NEW t \in Setters, Reset(t)
      PROVE  CallerMove(d)
  BY <1>25 DEF Reset, CallerMove, Sent, Unsubmitted
<1>26. ASSUME UNCHANGED vars
      PROVE  CallerMove(d)
  BY <1>26 DEF CallerMove, Sent, Unsubmitted
<1> QED
  BY <1>1, <1>2, <1>3, <1>4, <1>5, <1>6, <1>7, <1>8, <1>9, <1>10, <1>11, <1>12, <1>13, <1>14, <1>15, <1>16, <1>17, <1>18, <1>19, <1>20, <1>21, <1>22, <1>23, <1>24, <1>25, <1>26
     DEF Next, Caller, Going, LogThread, Setting, Log, Info, Crashed, Rest

(* Most steps leave what the sinks got, what is queued for them and which
   loggers there are as it was ... *)
Quiet ==
    /\ UNCHANGED <<got, accepted, due, loggers>>
    /\ \A s \in Slot : slot'[s].logger = slot[s].logger
    /\ \A g \in Logger :
          /\ queue'[g].list = queue[g].list /\ (queue'[g].open => queue[g].open)
          /\ thread'[g] = "none" <=> thread[g] = "none"
          /\ thread'[g] \in {"closing", "done"} => thread[g] \in {"closing", "done"}

(* ... and a message is delivered by these: a caller writes it, or puts it into
   a queue, and a log thread takes it out. *)
Writes(c) == Write(c) /\ slot[at[c]].logger # 0 /\ call[c].what = "msg"
Enqueues(c) ==
    LET g == slot[at[c]].logger
    IN  /\ pc[c] \in {"push", "blocked"} /\ UNCHANGED <<slot, loggers, thread, got, due>>
        /\ g \in Logger /\ g <= loggers /\ thread[g] # "none"
        /\ \E w : Enqueue(g, c, w)

StepKind ==
    \/ Quiet
    \/ \E c \in Callers : Writes(c) \/ Enqueues(c)
    \/ \E s \in Slot : ThreadPop(s) \/ ThreadNext(s)
    \/ \E t \in Setters : Reset(t) \/ \E kind \in Kinds : SetLogger(t, kind)

(* A call that is over before it reaches a queue or a sink, or passes a NULL. *)
LEMMA QuietCalls ==
    ASSUME Types, SlotInv, FreshInv, BlockedInv, NEW c \in Callers,
           \/ Unblock(c) \/ FlagSet(c) \/ Write(c) \/ Push(c) \/ PushResume(c) \/ PushAbort(c)
    PROVE  Quiet \/ Writes(c) \/ Enqueues(c)
<1> DEFINE g == slot[at[c]].logger
<1> QueueTypes /\ SlotTypes /\ at[c] \in Slot
  BY DEF Types, PlaceTypes, Threads
<1>1. CASE Unblock(c)
  <2>1. UNCHANGED <<slot, got, accepted, due, loggers, thread>>
    BY <1>1 DEF Unblock, slotVars, sinkVars, threadVars
  <2>2. \A k \in Logger : queue'[k].list = queue[k].list /\ queue'[k].open = queue[k].open
    BY <1>1, UnboundEffect DEF Unblock
  <2> QED
    BY <2>1, <2>2 DEF Quiet
<1>2. CASE FlagSet(c)
  <2>1. UNCHANGED <<queue, got, accepted, due, loggers, thread>>
    BY <1>2 DEF FlagSet, sinkVars, threadVars
  <2>2. \A s \in Slot : slot'[s].logger = slot[s].logger
    BY <1>2, LowerEffect DEF FlagSet
  <2> QED
    BY <2>1, <2>2 DEF Quiet
<1>3. CASE Write(c)
  <2>1. UNCHANGED <<slot, queue, loggers, thread, due>>
    BY <1>3 DEF Write, slotVars, threadVars
  <2>2. CASE g = 0 \/ call[c].what # "msg"
    <3>1. UNCHANGED <<got, accepted>>
      BY <1>3, <2>2 DEF Write, My, Sink, SinkNull, Accept, sinkVars
    <3> QED
      BY <2>1, <3>1 DEF Quiet
  <2> QED
    BY <1>3, <2>2 DEF Writes
<1>4. CASE Push(c)
  <2>1. UNCHANGED <<slot, loggers, thread, got, due>> /\ pc[c] = "push"
    BY <1>4, PushEffect
  <2>2. CASE Submitted(c) /\ UNCHANGED <<queue, accepted>>
    BY <2>1, <2>2 DEF Quiet
  <2>3. CASE /\ g \in Logger /\ g <= loggers /\ thread[g] # "none"
             /\ Enqueue(g, c, queue[g].waiting)
    BY <2>1, <2>3 DEF Enqueues
  <2>4. CASE /\ g \in Logger /\ g <= loggers
             /\ queue' = [queue EXCEPT ![g].waiting = Append(queue[g].waiting, c)]
             /\ Goto(c, "blocked") /\ UNCHANGED accepted
    <3>1. \A k \in Logger : queue'[k].list = queue[k].list /\ queue'[k].open = queue[k].open
      BY <2>4, WaitingEffect
    <3> QED
      BY <2>1, <2>4, <3>1 DEF Quiet
  <2> QED
    BY <1>4, <2>2, <2>3, <2>4, PushEffect
<1>5. CASE PushResume(c)
  BY <1>5, ResumeEffect DEF Enqueues
<1>6. CASE PushAbort(c)
  BY <1>6, AbortEffect DEF Quiet
<1> QED
  BY <1>1, <1>2, <1>3, <1>4, <1>5, <1>6

(* A log thread that flushes or ends, and the shutdown of the old logger, but
   for the end of it. *)
LEMMA QuietOthers ==
    ASSUME Types, SetterInv, SlotInv, ShutInv,
           \/ \E s \in Slot : ThreadTimeout(s) \/ ThreadAck(s) \/ ThreadFlush(s) \/ ThreadClose(s)
           \/ \E t \in Setters : Quit(t) \/ FreeQueue(t)
    PROVE  Quiet
<1> QueueTypes /\ SlotTypes /\ ThreadTypes
  BY DEF Types
<1>1. ASSUME NEW s \in Slot, ThreadTimeout(s) \/ ThreadAck(s) \/ ThreadFlush(s) \/ ThreadClose(s)
      PROVE  Quiet
  <2>1. UNCHANGED <<queue, got, accepted, due, loggers>>
    BY <1>1 DEF ThreadTimeout, ThreadAck, ThreadFlush, ThreadClose, SinkFinal, SinkNull,
                slotVars, sinkVars
  <2>2. \A u \in Slot : slot'[u].logger = slot[u].logger
    BY <1>1, LowerEffect DEF ThreadTimeout, ThreadAck, ThreadFlush, ThreadClose, slotVars
  <2>3. \A g \in Logger :
          /\ thread'[g] = "none" <=> thread[g] = "none"
          /\ thread'[g] \in {"closing", "done"} => thread[g] \in {"closing", "done"}
    BY <1>1 DEF ThreadTimeout, ThreadAck, ThreadFlush, ThreadClose, ThreadAt, ThreadGoto, ThreadTypes
  <2> QED
    BY <2>1, <2>2, <2>3 DEF Quiet
<1>2. ASSUME NEW t \in Setters, Quit(t)
      PROVE  Quiet
  <2>1. UNCHANGED <<thread, got, accepted, due, loggers>>
    BY <1>2 DEF Quit, SinkFinal, SinkNull, threadVars, sinkVars
  <2>2. \A u \in Slot : slot'[u].logger = slot[u].logger
    BY <1>2 DEF Quit, SlotTypes, SlotType
  <2>3. \A k \in Logger : queue'[k].list = queue[k].list /\ queue'[k].open = queue[k].open
    BY <1>2, UnboundEffect DEF Quit
  <2> QED
    BY <2>1, <2>2, <2>3 DEF Quiet
<1>3. ASSUME NEW t \in Setters, FreeQueue(t)
      PROVE  Quiet
  <2>1. UNCHANGED <<slot, thread, got, accepted, due, loggers>>
    BY <1>3 DEF FreeQueue, slotVars, threadVars, sinkVars
  <2>2. slot[at[t]].logger \in Logger
    <3>1. lmux = t /\ at[t] = 3 - cur /\ at[t] \in Slot /\ lmux # None /\ pc[t] = "free"
      BY <1>3, SetterAt DEF FreeQueue
    <3>2. slot[at[t]].logThread
      BY <3>1 DEF ShutInv
    <3> QED
      BY <3>1, <3>2, InLogger DEF SlotInv, SlotOK
  <2>3. \A k \in Logger : queue'[k].list = queue[k].list /\ (queue'[k].open => queue[k].open)
    BY <1>3, <2>2, CloseEffect DEF FreeQueue
  <2> QED
    BY <2>1, <2>3 DEF Quiet
<1> QED
  BY <1>1, <1>2, <1>3

(* Every step is of one of these kinds. *)
LEMMA StepKinds ==
    ASSUME Inductive, [Next]_vars
    PROVE  StepKind
<1> Types /\ SetterInv /\ SlotInv /\ ShutInv /\ FreshInv /\ BlockedInv
  BY TypeParts DEF Inductive
<1> USE DEF slotVars, sinkVars, threadVars, vars
<1>1. ASSUME NEW c \in Callers, pc[c] \in {"idle", "info"}, RawLog(c)
      PROVE  StepKind
  BY <1>1 DEF RawLog, Begin, StepKind, Quiet
<1>2. ASSUME NEW c \in Callers, Flush(c)
      PROVE  StepKind
  BY <1>2 DEF Flush, Begin, StepKind, Quiet
<1>3. ASSUME NEW c \in Callers, SinkCtxPath(c)
      PROVE  StepKind
  BY <1>3 DEF SinkCtxPath, ChangePath, Begin, StepKind, Quiet
<1>4. ASSUME NEW c \in Callers, Unblock(c)
      PROVE  StepKind
  BY <1>4, QuietCalls, Zenon DEF StepKind
<1>5. ASSUME NEW c \in Callers, Return(c), pc[c] = "info",
             UNCHANGED <<slotVars, queue, threadVars, sinkVars, accepted, due>>
      PROVE  StepKind
  BY <1>5 DEF StepKind, Quiet
<1>6. ASSUME NEW c \in Callers, LastLog(c)
      PROVE  StepKind
  BY <1>6 DEF LastLog, StepKind, Quiet
<1>7. ASSUME NEW c \in Callers, FlagLook(c)
      PROVE  StepKind
  BY <1>7 DEF FlagLook, StepKind, Quiet
<1>8. ASSUME NEW c \in Callers, FlagSet(c)
      PROVE  StepKind
  BY <1>8, QuietCalls, Zenon DEF StepKind
<1>9. ASSUME NEW c \in Callers, Dispatch(c)
      PROVE  StepKind
  BY <1>9 DEF Dispatch, Submitted, StepKind, Quiet
<1>10. ASSUME NEW c \in Callers, Write(c)
      PROVE  StepKind
  BY <1>10, QuietCalls, Zenon DEF StepKind
<1>11. ASSUME NEW c \in Callers, Push(c)
      PROVE  StepKind
  BY <1>11, QuietCalls, Zenon DEF StepKind
<1>12. ASSUME NEW c \in Callers, PushResume(c)
      PROVE  StepKind
  BY <1>12, QuietCalls, Zenon DEF StepKind
<1>13. ASSUME NEW c \in Callers, PushAbort(c)
      PROVE  StepKind
  BY <1>13, QuietCalls, Zenon DEF StepKind
<1>14. ASSUME NEW c \in Callers, Await(c)
      PROVE  StepKind
  BY <1>14 DEF Await, StepKind, Quiet
<1>15. ASSUME NEW s \in Slot, ThreadPop(s)
      PROVE  StepKind
  BY <1>15, Zenon DEF StepKind
<1>16. ASSUME NEW s \in Slot, ThreadTimeout(s)
      PROVE  StepKind
  BY <1>16, QuietOthers, Zenon DEF StepKind
<1>17. ASSUME NEW s \in Slot, ThreadAck(s)
      PROVE  StepKind
  BY <1>17, QuietOthers, Zenon DEF StepKind
<1>18. ASSUME NEW s \in Slot, ThreadFlush(s)
      PROVE  StepKind
  BY <1>18, QuietOthers, Zenon DEF StepKind
<1>19. ASSUME NEW s \in Slot, ThreadNext(s)
      PROVE  StepKind
  BY <1>19, Zenon DEF StepKind
<1>20. ASSUME NEW s \in Slot, ThreadClose(s)
      PROVE  StepKind
  BY <1>20, QuietOthers, Zenon DEF StepKind
<1>21. ASSUME NEW t \in Setters, NEW kind \in Kinds, SetLogger(t, kind)
      PROVE  StepKind
  BY <1>21, Zenon DEF StepKind
<1>22. ASSUME NEW t \in Setters, Quit(t)
      PROVE  StepKind
  BY <1>22, QuietOthers, Zenon DEF StepKind
<1>23. ASSUME NEW t \in Setters, WaitQuit(t)
      PROVE  StepKind
  BY <1>23 DEF WaitQuit, StepKind, Quiet
<1>24. ASSUME NEW t \in Setters, FreeQueue(t)
      PROVE  StepKind
  BY <1>24, QuietOthers, Zenon DEF StepKind
<1>25. ASSUME NEW t \in Setters, Reset(t)
      PROVE  StepKind
  BY <1>25, Zenon DEF StepKind
<1>26. ASSUME UNCHANGED vars
      PROVE  StepKind
  BY <1>26 DEF StepKind, Quiet
<1> QED
  BY <1>1, <1>2, <1>3, <1>4, <1>5, <1>6, <1>7, <1>8, <1>9, <1>10, <1>11, <1>12, <1>13, <1>14, <1>15, <1>16, <1>17, <1>18, <1>19, <1>20, <1>21, <1>22, <1>23, <1>24, <1>25, <1>26
     DEF Next, Caller, Going, LogThread, Setting, Log, Info, Crashed, Rest

(* The sink of one logger leaves the files of the others alone. *)
LEMMA SinkElsewhere ==
    ASSUME SinkTypes, NEW h, NEW g \in Logger, g # h,
           \/ \E e : Sink(h, e)
           \/ \E what : SinkNull(h, what)
           \/ \E p : file' = [file EXCEPT ![h].newPath = p]
    PROVE  file'[g] = file[g]
<1>1. CASE \E e : Sink(h, e)
  BY <1>1 DEF Sink, SinkMessage, SinkNull, SinkTypes
<1>2. CASE \E what : SinkNull(h, what)
  BY <1>2 DEF SinkNull, SinkTypes
<1>3. CASE \E p : file' = [file EXCEPT ![h].newPath = p]
  BY <1>3 DEF SinkTypes
<1> QED
  BY <1>1, <1>2, <1>3

(* A sink is used by the callers and the thread of its logger, which is made ... *)
LEMMA FreshCalls ==
    ASSUME Types, SlotInv, NEW c \in Callers, SinkCtxPath(c) \/ Write(c),
           NEW g \in Logger, g > loggers
    PROVE  file'[g] = file[g] /\ UNCHANGED closes
<1> SinkTypes /\ at[c] \in Slot /\ cur \in Slot
  BY DEF Types, PlaceTypes, SlotTypes, Threads
<1>1. CASE SinkCtxPath(c)
  <2>1. slot[cur].logger # 0 /\ UNCHANGED closes
        /\ \E p : file' = [file EXCEPT ![slot[cur].logger].newPath = p]
    BY <1>1 DEF SinkCtxPath, ChangePath, Begin
  <2>2. slot[cur].logger # g
    BY <2>1, InLogger DEF Logger
  <2> QED
    BY <2>1, <2>2, SinkElsewhere, Zenon
<1>2. CASE Write(c)
  <2>1. CASE slot[at[c]].logger = 0
    BY <1>2, <2>1 DEF Write, My, sinkVars
  <2>2. CASE slot[at[c]].logger # 0
    <3>1. Sink(slot[at[c]].logger, call[c])
      BY <1>2, <2>2 DEF Write, My
    <3>2. UNCHANGED closes
      BY <3>1 DEF Sink
    <3>3. slot[at[c]].logger # g
      BY <2>2, InLogger DEF Logger
    <3> QED
      BY <3>1, <3>2, <3>3, SinkElsewhere, Zenon
  <2> QED
    BY <2>1, <2>2
<1> QED
  BY <1>1, <1>2

(* ... and so for the threads and the setters. *)
LEMMA FreshThreads ==
    ASSUME Types, SetterInv, SlotInv, ShutInv, NEW g \in Logger, g > loggers,
           \/ \E s \in Slot : ThreadPop(s) \/ ThreadTimeout(s) \/ ThreadFlush(s) \/ ThreadClose(s)
           \/ \E t \in Setters : Quit(t)
    PROVE  file'[g] = file[g] /\ closes'[g] = closes[g]
<1> SinkTypes
  BY DEF Types
<1>1. ASSUME NEW s \in Slot,
             ThreadPop(s) \/ ThreadTimeout(s) \/ ThreadFlush(s) \/ ThreadClose(s)
      PROVE  file'[g] = file[g] /\ closes'[g] = closes[g]
  <2>1. slot[s].logger # 0
    BY <1>1 DEF ThreadPop, ThreadTimeout, ThreadFlush, ThreadClose, ThreadAt
  <2>2. slot[s].logger # g
    BY <2>1, InLogger DEF Logger
  <2>3. closes'[g] = closes[g]
    BY <1>1, <2>2 DEF ThreadPop, ThreadTimeout, ThreadFlush, ThreadClose, Sink, SinkFinal,
                      SinkTypes, sinkVars
  <2>4. \/ \E e : Sink(slot[s].logger, e)
        \/ \E what : SinkNull(slot[s].logger, what)
        \/ UNCHANGED file
    BY <1>1 DEF ThreadPop, ThreadTimeout, ThreadFlush, ThreadClose, SinkFinal, sinkVars
  <2> QED
    BY <2>2, <2>3, <2>4, SinkElsewhere, Zenon
<1>2. ASSUME NEW t \in Setters, Quit(t)
      PROVE  file'[g] = file[g] /\ closes'[g] = closes[g]
  <2>1. slot[at[t]].logger # 0 /\ at[t] \in Slot
    BY <1>2, SetterAt DEF Quit, ShutInv
  <2>2. slot[at[t]].logger # g
    BY <2>1, InLogger DEF Logger
  <2>3. \/ UNCHANGED <<file, closes>>
        \/ SinkFinal(slot[at[t]].logger)
    BY <1>2 DEF Quit, sinkVars
  <2>4. closes'[g] = closes[g]
    BY <2>2, <2>3 DEF SinkFinal, SinkTypes
  <2>5. UNCHANGED file \/ \E what : SinkNull(slot[at[t]].logger, what)
    BY <2>3 DEF SinkFinal
  <2> QED
    BY <2>2, <2>4, <2>5, SinkElsewhere, Zenon
<1> QED
  BY <1>1, <1>2

(* The sink of a logger that is yet to be made is not used. *)
LEMMA FreshSinks ==
    ASSUME Inductive, [Next]_vars, NEW g \in Logger, g > loggers
    PROVE  file'[g] = file[g] /\ closes'[g] = closes[g]
<1> Types /\ SetterInv /\ SlotInv /\ ShutInv
  BY TypeParts DEF Inductive
<1> USE DEF slotVars, sinkVars, threadVars, vars
<1>1. ASSUME NEW c \in Callers, pc[c] \in {"idle", "info"}, RawLog(c)
      PROVE  file'[g] = file[g] /\ closes'[g] = closes[g]
  BY <1>1 DEF RawLog, Begin
<1>2. ASSUME NEW c \in Callers, Flush(c)
      PROVE  file'[g] = file[g] /\ closes'[g] = closes[g]
  BY <1>2 DEF Flush, Begin
<1>3. ASSUME NEW c \in Callers, SinkCtxPath(c)
      PROVE  file'[g] = file[g] /\ closes'[g] = closes[g]
  BY <1>3, FreshCalls, Zenon
<1>4. ASSUME NEW c \in Callers, Unblock(c)
      PROVE  file'[g] = file[g] /\ closes'[g] = closes[g]
  BY <1>4 DEF Unblock
<1>5. ASSUME NEW c \in Callers, Return(c), pc[c] = "info",
             UNCHANGED <<slotVars, queue, threadVars, sinkVars, accepted, due>>
      PROVE  file'[g] = file[g] /\ closes'[g] = closes[g]
  BY <1>5
<1>6. ASSUME NEW c \in Callers, LastLog(c)
      PROVE  file'[g] = file[g] /\ closes'[g] = closes[g]
  BY <1>6 DEF LastLog
<1>7. ASSUME NEW c \in Callers, FlagLook(c)
      PROVE  file'[g] = file[g] /\ closes'[g] = closes[g]
  BY <1>7 DEF FlagLook
<1>8. ASSUME NEW c \in Callers, FlagSet(c)
      PROVE  file'[g] = file[g] /\ closes'[g] = closes[g]
  BY <1>8 DEF FlagSet
<1>9. ASSUME NEW c \in Callers, Dispatch(c)
      PROVE  file'[g] = file[g] /\ closes'[g] = closes[g]
  BY <1>9 DEF Dispatch, Submitted
<1>10. ASSUME NEW c \in Callers, Write(c)
      PROVE  file'[g] = file[g] /\ closes'[g] = closes[g]
  BY <1>10, FreshCalls, Zenon
<1>11. ASSUME NEW c \in Callers, Push(c)
      PROVE  file'[g] = file[g] /\ closes'[g] = closes[g]
  BY <1>11 DEF Push, Enqueue, Accept, Submitted
<1>12. ASSUME NEW c \in Callers, PushResume(c)
      PROVE  file'[g] = file[g] /\ closes'[g] = closes[g]
  BY <1>12 DEF PushResume, Enqueue, Accept, Submitted
<1>13. ASSUME NEW c \in Callers, PushAbort(c)
      PROVE  file'[g] = file[g] /\ closes'[g] = closes[g]
  BY <1>13 DEF PushAbort, Submitted
<1>14. ASSUME NEW c \in Callers, Await(c)
      PROVE  file'[g] = file[g] /\ closes'[g] = closes[g]
  BY <1>14 DEF Await
<1>15. ASSUME NEW s \in Slot, ThreadPop(s)
      PROVE  file'[g] = file[g] /\ closes'[g] = closes[g]
  BY <1>15, FreshThreads, Zenon
<1>16. ASSUME NEW s \in Slot, ThreadTimeout(s)
      PROVE  file'[g] = file[g] /\ closes'[g] = closes[g]
  BY <1>16, FreshThreads, Zenon
<1>17. ASSUME NEW s \in Slot, ThreadAck(s)
      PROVE  file'[g] = file[g] /\ closes'[g] = closes[g]
  BY <1>17 DEF ThreadAck
<1>18. ASSUME NEW s \in Slot, ThreadFlush(s)
      PROVE  file'[g] = file[g] /\ closes'[g] = closes[g]
  BY <1>18, FreshThreads, Zenon
<1>19. ASSUME NEW s \in Slot, ThreadNext(s)
      PROVE  file'[g] = file[g] /\ closes'[g] = closes[g]
  BY <1>19 DEF ThreadNext
<1>20. ASSUME NEW s \in Slot, ThreadClose(s)
      PROVE  file'[g] = file[g] /\ closes'[g] = closes[g]
  BY <1>20, FreshThreads, Zenon
<1>21. ASSUME NEW t \in Setters, NEW kind \in Kinds, SetLogger(t, kind)
      PROVE  file'[g] = file[g] /\ closes'[g] = closes[g]
  BY <1>21 DEF SetLogger, Lock
<1>22. ASSUME NEW t \in Setters, Quit(t)
      PROVE  file'[g] = file[g] /\ closes'[g] = closes[g]
  BY <1>22, FreshThreads, Zenon
<1>23. ASSUME NEW t \in Setters, WaitQuit(t)
      PROVE  file'[g] = file[g] /\ closes'[g] = closes[g]
  BY <1>23 DEF WaitQuit
<1>24. ASSUME NEW t \in Setters, FreeQueue(t)
      PROVE  file'[g] = file[g] /\ closes'[g] = closes[g]
  BY <1>24 DEF FreeQueue
<1>25. ASSUME NEW t \in Setters, Reset(t)
      PROVE  file'[g] = file[g] /\ closes'[g] = closes[g]
  BY <1>25 DEF Reset
<1>26. ASSUME UNCHANGED vars
      PROVE  file'[g] = file[g] /\ closes'[g] = closes[g]
  BY <1>26
<1> QED
  BY <1>1, <1>2, <1>3, <1>4, <1>5, <1>6, <1>7, <1>8, <1>9, <1>10, <1>11, <1>12, <1>13, <1>14, <1>15, <1>16, <1>17, <1>18, <1>19, <1>20, <1>21, <1>22, <1>23, <1>24, <1>25, <1>26
     DEF Next, Caller, Going, LogThread, Setting, Log, Info, Crashed, Rest

(* What is queued for the logger of a slot that is cleared is destroyed. *)
LEMMA ResetQueue ==
    ASSUME Types, SlotInv, NEW t \in Setters, Reset(t), NEW k \in Logger
    PROVE  /\ queue'[k].list = <<>> \/ queue'[k].list = queue[k].list
           /\ queue'[k].open = queue[k].open
           /\ k # slot[at[t]].logger => queue'[k] = queue[k]
<1> DEFINE g == slot[at[t]].logger
<1>1. CASE g = 0
  BY <1>1 DEF Reset
<1>2. CASE g # 0
  <2>1. g \in Logger
    BY <1>2, InLogger DEF Types, PlaceTypes, Threads
  <2>2. queue' = [queue EXCEPT ![g].list = <<>>]
    BY <1>2 DEF Reset
  <2> QED
    BY <2>1, <2>2, ListEffect DEF Types
<1> QED
  BY <1>1, <1>2

(* A logger that is not made has no past, and a queue that has no thread is
   empty. *)
LEMMA FreshStep ==
    ASSUME Inductive, [Next]_vars
    PROVE  FreshInv'
<1> Types /\ CountInv /\ SetterInv /\ SlotInv /\ ShutInv /\ FreshInv /\ BlockedInv
  BY TypeParts DEF Inductive
<1> QueueTypes /\ SlotTypes /\ ThreadTypes /\ SinkTypes /\ AcceptTypes /\ loggers \in Nat
  BY Bounds DEF Types, SlotTypes
<1> SUFFICES ASSUME NEW g \in Logger PROVE FreshOK(g)'
  BY DEF FreshInv, FreshOK
<1>1. FreshOK(g)
  BY DEF FreshInv, FreshOK
<1>2. g > loggers => file'[g] = file[g] /\ closes'[g] = closes[g]
  BY FreshSinks
<1>3. CASE Quiet
  BY <1>1, <1>2, <1>3 DEF Quiet, FreshOK
<1>4. ASSUME NEW c \in Callers, Writes(c)
      PROVE  FreshOK(g)'
  <2>1. UNCHANGED <<thread, queue, loggers, due>>
    BY <1>4 DEF Writes, Write, slotVars, threadVars
  <2>2. g > loggers => g # slot[at[c]].logger
    BY <1>4, InLogger DEF Writes, Types, PlaceTypes, Threads, Logger
  <2>3. g # slot[at[c]].logger => got'[g] = got[g] /\ accepted'[g] = accepted[g]
    BY <1>4 DEF Writes, Write, My, Sink, SinkMessage, Accept, SinkTypes, AcceptTypes
  <2> QED
    BY <1>1, <1>2, <2>1, <2>2, <2>3 DEF FreshOK
<1>5. ASSUME NEW c \in Callers, Enqueues(c)
      PROVE  FreshOK(g)'
  <2>1. UNCHANGED <<loggers, thread, got, due>>
    BY <1>5 DEF Enqueues
  <2>2. slot[at[c]].logger \in Logger /\ slot[at[c]].logger <= loggers
        /\ thread[slot[at[c]].logger] # "none"
    BY <1>5 DEF Enqueues
  <2>3. PICK w : Enqueue(slot[at[c]].logger, c, w)
    BY <1>5 DEF Enqueues
  <2>4. g # slot[at[c]].logger => queue'[g] = queue[g]
    BY <2>2, <2>3, EnqueueEffect
  <2>5. g # slot[at[c]].logger => accepted'[g] = accepted[g]
    BY <2>3 DEF Enqueue, Accept, AcceptTypes
  <2>6. g > loggers => g # slot[at[c]].logger
    BY <2>2 DEF Logger
  <2> QED
    BY <1>1, <1>2, <2>1, <2>2, <2>4, <2>5, <2>6 DEF FreshOK
<1>6. ASSUME NEW s \in Slot, ThreadPop(s) \/ ThreadNext(s)
      PROVE  FreshOK(g)'
  <2>1. UNCHANGED <<loggers, due, accepted>> /\ slot[s].logger # 0
    BY <1>6 DEF ThreadPop, ThreadNext, ThreadAt, slotVars
  <2>2. slot[s].logger \in Logger /\ slot[s].logger <= loggers
    BY <2>1, InLogger
  <2>3. thread'[slot[s].logger] # "none"
    BY <1>6, <2>2 DEF ThreadPop, ThreadNext, ThreadGoto, ThreadTypes
  <2>4. g # slot[s].logger =>
            thread'[g] = thread[g] /\ queue'[g] = queue[g] /\ got'[g] = got[g]
    BY <1>6 DEF ThreadPop, ThreadNext, ThreadGoto, Sink, SinkMessage, SinkNull, sinkVars,
                ThreadTypes, QueueTypes, SinkTypes
  <2>5. g > loggers => g # slot[s].logger
    BY <2>2 DEF Logger
  <2> QED
    BY <1>1, <1>2, <2>1, <2>3, <2>4, <2>5 DEF FreshOK
<1>7. ASSUME NEW t \in Setters, Reset(t)
      PROVE  FreshOK(g)'
  <2>1. UNCHANGED <<thread, got, accepted, due, loggers>>
    BY <1>7 DEF Reset, threadVars, sinkVars
  <2>2. (queue'[g].list = queue[g].list \/ queue'[g].list = <<>>) /\ queue'[g].open = queue[g].open
    BY <1>7, ResetQueue
  <2> QED
    BY <1>1, <1>2, <2>1, <2>2 DEF FreshOK
<1>8. ASSUME NEW t \in Setters, NEW kind \in Kinds, SetLogger(t, kind)
      PROVE  FreshOK(g)'
  <2>1. UNCHANGED <<got, accepted>> /\ loggers' \in {loggers, loggers + 1}
    BY <1>8 DEF SetLogger, sinkVars
  <2>2. g = loggers + 1 \/ (thread'[g] = thread[g] /\ queue'[g] = queue[g])
    BY <1>8, SetLoggerEffect
  <2>3. thread'[loggers + 1] = "loop" \/ UNCHANGED <<thread, queue>>
    BY <1>8, SetLoggerEffect
  <2>4. g > loggers' => g > loggers /\ thread'[g] = thread[g]
    BY <1>8, <2>1, <2>2, SetLoggerEffect DEF Logger
  <2>5. g > loggers => due'[g] = due[g]
    <3>1. slot[cur].logger # 0 => ~(slot[cur].logger > loggers)
      BY InLogger, Bounds DEF SlotTypes, Logger
    <3>2. \/ UNCHANGED due
          \/ /\ slot[cur].logger # 0
             /\ due' = [due EXCEPT ![slot[cur].logger] = accepted[slot[cur].logger]]
      BY <1>8 DEF SetLogger
    <3> QED
      BY <3>1, <3>2 DEF AcceptTypes, Logger
  <2> QED
    BY <1>1, <1>2, <2>1, <2>2, <2>3, <2>4, <2>5 DEF FreshOK
<1> QED
  BY <1>3, <1>4, <1>5, <1>6, <1>7, <1>8, StepKinds DEF StepKind

(* A caller about to submit its call has submitted all those before. *)
LEMMA SubmitFacts ==
    ASSUME Types, CallerInv, NEW c \in Callers, pc[c] \in Unsubmitted
    PROVE  /\ call[c] \in Entry /\ call[c].item = <<c, made[c]>> /\ made[c] \in Nat
           /\ call[c].item \in Item /\ call[c].item[1] = c /\ call[c].item[2] = made[c]
           /\ Sent[c] = made[c] - 1
<1>1. call[c] \in Entry /\ call[c].item = <<c, made[c]>> /\ made[c] \in Nat
  BY DEF Types, PlaceTypes, CallerInv, CallerOK, Threads
<1> QED
  BY <1>1 DEF Sent, Entry

(* Who is dispatched to a sink that it runs itself has nothing in a queue. *)
LEMMA WriteStep ==
    ASSUME Inductive, [Next]_vars
    PROVE  WriteInv'
<1> /\ Types /\ CountInv /\ CallerInv /\ SetterInv /\ SlotInv /\ ShutInv /\ FreshInv
    /\ BlockedInv /\ WriteInv
  BY TypeParts DEF Inductive
<1> QueueTypes /\ SlotTypes /\ PlaceTypes
  BY DEF Types
<1> SUFFICES ASSUME NEW d \in Callers, pc'[d] = "write" PROVE WriteOK(d)'
  BY DEF WriteInv, WriteOK
<1> DEFINE h == slot[at[d]].logger
<1>1. at'[d] = at[d] /\ at[d] \in Slot
  BY CallerMoves DEF CallerMove, PlaceTypes, Threads
<1>2. h # 0 => h \in Logger /\ h <= loggers /\ loggers \in Nat
  BY <1>1, InLogger
<1>3. ASSUME h # 0, NEW j \in DOMAIN queue[h].list PROVE queue[h].list[j].item[1] # d
  <2>1. CASE pc[d] = "write"
    BY <1>3, <2>1 DEF WriteInv, WriteOK
  <2>2. CASE slot[at[d]].queuer = "syncQ"
    <3>1. thread[h] = "none"
      BY <1>1, <1>3, <2>2 DEF SlotInv, SlotOK
    <3>2. queue[h].list = <<>>
      BY <1>2, <1>3, <3>1 DEF FreshInv, FreshOK
    <3> QED
      BY <1>3, <3>2
  <2> QED
    BY <2>1, <2>2, CallerMoves DEF CallerMove
<1>4. ASSUME slot'[at[d]].logger = h, h # 0 => queue'[h].list \in {<<>>, queue[h].list}
      PROVE  WriteOK(d)'
  BY <1>1, <1>3, <1>4 DEF WriteOK
<1>5. CASE Quiet
  BY <1>1, <1>2, <1>4, <1>5 DEF Quiet
<1>6. ASSUME NEW c \in Callers, Writes(c)
      PROVE  WriteOK(d)'
  BY <1>4, <1>6 DEF Writes, Write, slotVars
<1>7. ASSUME NEW c \in Callers, Enqueues(c)
      PROVE  WriteOK(d)'
  <2> DEFINE g == slot[at[c]].logger
  <2>1. g \in Logger /\ UNCHANGED slot /\ pc[c] \in Unsubmitted
    BY <1>7 DEF Enqueues, Unsubmitted
  <2>2. PICK w : Enqueue(g, c, w)
    BY <1>7 DEF Enqueues
  <2>3. call[c].item[1] # d
    BY <2>1, <2>2, SubmitFacts, SubmittedEffect DEF Enqueue
  <2>4. queue'[g].list = Append(queue[g].list, call[c])
        /\ \A k \in Logger : k # g => queue'[k] = queue[k]
    BY <2>1, <2>2, EnqueueEffect
  <2>5. CASE h # g \/ h = 0
    BY <1>2, <1>4, <2>1, <2>4, <2>5
  <2>6. CASE h = g /\ h # 0
    <3>1. queue[g].list \in Seq(Entry) /\ call[c] \in Entry
      BY <2>1, SubmitFacts DEF QueueTypes, QueueType
    <3>2. ASSUME NEW j \in DOMAIN Append(queue[g].list, call[c])
          PROVE  Append(queue[g].list, call[c])[j].item[1] # d
      BY <1>3, <2>3, <2>6, <3>1, AppendElements
    <3>3. \A j \in DOMAIN queue'[g].list : queue'[g].list[j].item[1] # d
      BY <2>4, <3>2
    <3> QED
      BY <1>1, <2>1, <2>6, <3>3 DEF WriteOK
  <2> QED
    BY <2>5, <2>6
<1>8. ASSUME NEW s \in Slot, ThreadPop(s)
      PROVE  WriteOK(d)'
  <2> DEFINE g == slot[s].logger
  <2>1. /\ g \in Logger /\ UNCHANGED slot /\ queue[g].list # <<>>
        /\ queue' = [queue EXCEPT ![g].list = Tail(queue[g].list)]
    BY <1>8, InLogger DEF ThreadPop, ThreadAt, slotVars
  <2>2. queue'[g].list = Tail(queue[g].list) /\ \A k \in Logger : k # g => queue'[k] = queue[k]
    BY <2>1, ListEffect
  <2>3. CASE h # g \/ h = 0
    BY <1>2, <1>4, <2>1, <2>2, <2>3
  <2>4. CASE h = g /\ h # 0
    <3>1. queue[g].list \in Seq(Entry)
      BY <2>1 DEF QueueTypes, QueueType
    <3>2. ASSUME NEW j \in DOMAIN Tail(queue[g].list)
          PROVE  Tail(queue[g].list)[j].item[1] # d
      BY <1>3, <2>1, <2>4, <3>1, TailElements
    <3>3. \A j \in DOMAIN queue'[g].list : queue'[g].list[j].item[1] # d
      BY <2>2, <3>2
    <3> QED
      BY <1>1, <2>1, <2>4, <3>3 DEF WriteOK
  <2> QED
    BY <2>3, <2>4
<1>9. ASSUME NEW s \in Slot, ThreadNext(s)
      PROVE  WriteOK(d)'
  BY <1>4, <1>9 DEF ThreadNext, slotVars
<1>10. ASSUME NEW t \in Setters, Reset(t)
      PROVE  WriteOK(d)'
  <2>1. h # 0 => queue'[h].list \in {<<>>, queue[h].list}
    BY <1>2, <1>10, ResetQueue
  <2>2. slot'[at[d]].logger \in {0, h}
    BY <1>1, <1>10, ResetEffect
  <2> QED
    BY <1>1, <1>4, <2>1, <2>2 DEF WriteOK
<1>11. ASSUME NEW t \in Setters, NEW kind \in Kinds, SetLogger(t, kind)
      PROVE  WriteOK(d)'
  <2>1. CASE at[d] = cur
    <3>1. slot'[at[d]] = slot[at[d]]
      BY <1>11, <2>1, SetLoggerEffect
    <3>2. h # 0 => h # loggers + 1
      BY <1>2
    <3>3. h # 0 => queue'[h] = queue[h]
      BY <1>2, <1>11, <3>2, SetLoggerEffect
    <3> QED
      BY <1>4, <3>1, <3>3
  <2>2. CASE at[d] = 3 - cur
    <3>1. CASE slot'[at[d]].logger = 0
      BY <1>1, <3>1 DEF WriteOK
    <3>2. CASE slot'[at[d]].logger = loggers + 1
      <4>1. queue'[loggers + 1].list = <<>>
        <5>1. thread[loggers + 1] = "none"
          BY <1>11, SetLoggerEffect DEF FreshInv, FreshOK
        <5>2. queue[loggers + 1].list = <<>>
          BY <1>11, <5>1, SetLoggerEffect DEF FreshInv, FreshOK
        <5> QED
          BY <1>11, <5>2, SetLoggerEffect
      <4> QED
        BY <1>1, <3>2, <4>1 DEF WriteOK
    <3> QED
      BY <1>11, <2>2, <3>1, <3>2, SetLoggerEffect
  <2> QED
    BY <1>1, <1>11, <2>1, <2>2, SetLoggerEffect
<1> QED
  BY <1>5, <1>6, <1>7, <1>8, <1>9, <1>10, <1>11, StepKinds DEF StepKind

(* Every entry is about an item. *)
LEMMA EntryItem ==
    \A e \in Entry : e.item \in Item
BY DEF Entry

(* How many calls a caller has submitted only grows. *)
LEMMA SentGrows ==
    ASSUME Inductive, [Next]_vars, NEW i \in Item, i[2] <= Sent[i[1]]
    PROVE  i[2] <= Sent'[i[1]]
<1>1. PlaceTypes /\ PlaceTypes'
  BY TypeStep, TypeParts DEF Inductive, Types
<1>2. i[1] \in Callers /\ i[2] \in Nat
  BY DEF Item
<1>3. Sent[i[1]] \in Int /\ Sent'[i[1]] \in Int
  BY <1>1, <1>2 DEF PlaceTypes, Sent, Threads
<1>4. Sent[i[1]] <= Sent'[i[1]]
  BY <1>2, CallerMoves DEF CallerMove
<1> QED
  BY <1>2, <1>3, <1>4

(* What is in order stays so when nothing comes to it. *)
LEMMA OrderKept ==
    ASSUME Inductive, [Next]_vars, NEW g \in Logger, got'[g] = got[g],
           queue'[g].list \in {<<>>, queue[g].list}
    PROVE  OrderOK(g)'
<1>1. OrderOK(g) /\ got[g] \in Seq(Item) /\ queue[g].list \in Seq(Entry)
  BY TypeParts DEF Inductive, OrderInv, Types, SinkTypes, QueueTypes, QueueType
<1>2. \A i \in DOMAIN got[g] : got[g][i] \in Item
  BY <1>1, ElementIn
<1>3. \A j \in DOMAIN queue[g].list : queue[g].list[j].item \in Item
  BY <1>1, ElementIn, EntryItem
<1>4. \A i \in DOMAIN got[g] : got[g][i][2] <= Sent'[got[g][i][1]]
  BY <1>1, <1>2, SentGrows DEF OrderOK
<1>5. \A j \in DOMAIN queue[g].list :
          queue[g].list[j].item[2] <= Sent'[queue[g].list[j].item[1]]
  BY <1>1, <1>3, SentGrows DEF OrderOK
<1> QED
  BY <1>1, <1>4, <1>5 DEF OrderOK

(* What goes into a queue comes after all that its caller submitted before. *)
LEMMA OrderEnqueued ==
    ASSUME Inductive, [Next]_vars, NEW c \in Callers, Enqueues(c), NEW g, g = slot[at[c]].logger
    PROVE  OrderOK(g)'
<1> DEFINE s == got[g]  q == queue[g].list  e == call[c]
<1>1. Types /\ CallerInv /\ Types'
  BY TypeStep, TypeParts DEF Inductive
<1>2. g \in Logger /\ UNCHANGED got /\ pc[c] \in Unsubmitted
  BY DEF Enqueues, Unsubmitted
<1>3. e \in Entry /\ e.item[1] = c /\ e.item[2] = made[c] /\ made[c] \in Nat
      /\ Sent[c] = made[c] - 1 /\ e.item \in Item
  BY <1>1, <1>2, SubmitFacts
<1>4. queue'[g].list = Append(q, e) /\ Sent'[c] = made[c]
  <2>1. PICK w : Enqueue(g, c, w)
    BY DEF Enqueues
  <2>2. pc'[c] \in {"idle", "await"} /\ made' = made
    BY <1>1, <2>1, SubmittedEffect DEF Enqueue, Types
  <2>3. queue'[g].list = Append(q, e)
    BY <1>1, <1>2, <2>1, EnqueueEffect DEF Types
  <2> QED
    BY <2>2, <2>3 DEF Sent, Unsubmitted
<1>5. s \in Seq(Item) /\ q \in Seq(Entry) /\ OrderOK(g)
  BY <1>1, <1>2 DEF Inductive, OrderInv, Types, SinkTypes, QueueTypes, QueueType
<1>6. /\ \A i \in DOMAIN s : s[i] \in Item
      /\ \A j \in DOMAIN q : q[j].item \in Item
  BY <1>5, ElementIn, EntryItem
<1> DEFINE r == Append(q, e)  n == Len(q) + 1
<1>7. /\ DOMAIN r = DOMAIN q \cup {n} /\ n \in Nat
      /\ \A j \in DOMAIN q : r[j] = q[j] /\ j \in Nat /\ j < n
      /\ r[n] = e
  <2>1. e \in Entry /\ q \in Seq(Entry)
    BY <1>3, <1>5
  <2> HIDE DEF e, q
  <2> QED
    BY <2>1, AppendElements
<1>8. \A i \in Item : i[2] <= Sent[i[1]] => Before(i, e.item)
  BY <1>3 DEF Before, Item
<1> HIDE DEF s, q, r, n, e
<1>9. \A i, j \in DOMAIN r : i < j => Before(r[i].item, r[j].item)
  <2> SUFFICES ASSUME NEW i \in DOMAIN r, NEW j \in DOMAIN r, i < j
               PROVE  Before(r[i].item, r[j].item)
    OBVIOUS
  <2>1. i \in DOMAIN q
    BY <1>7 DEF r, n
  <2>2. r[i] = q[i] /\ q[i].item \in Item /\ q[i].item[2] <= Sent[q[i].item[1]]
    BY <1>5, <1>6, <1>7, <2>1 DEF r, n, q, OrderOK
  <2>3. CASE j \in DOMAIN q
    BY <1>5, <1>7, <2>1, <2>2, <2>3 DEF r, n, q, OrderOK
  <2>4. CASE j = n
    BY <1>7, <1>8, <2>2, <2>4 DEF r, n
  <2> QED
    BY <1>7, <2>3, <2>4 DEF r, n
<1>10. \A i \in DOMAIN s, j \in DOMAIN r : Before(s[i], r[j].item)
  <2> SUFFICES ASSUME NEW i \in DOMAIN s, NEW j \in DOMAIN r PROVE Before(s[i], r[j].item)
    OBVIOUS
  <2>1. CASE j \in DOMAIN q
    BY <1>5, <1>7, <2>1 DEF r, n, q, s, OrderOK
  <2>2. CASE j = n
    BY <1>5, <1>6, <1>7, <1>8, <2>2 DEF r, n, s, OrderOK
  <2> QED
    BY <1>7, <2>1, <2>2 DEF r, n
<1>11. \A i \in DOMAIN s : s[i][2] <= Sent'[s[i][1]]
  BY <1>5, <1>6, SentGrows DEF OrderOK, s
<1>12. \A j \in DOMAIN r : r[j].item[2] <= Sent'[r[j].item[1]]
  <2> SUFFICES ASSUME NEW j \in DOMAIN r PROVE r[j].item[2] <= Sent'[r[j].item[1]]
    OBVIOUS
  <2>1. CASE j \in DOMAIN q
    <3>1. q[j].item \in Item /\ q[j].item[2] <= Sent[q[j].item[1]]
      BY <1>5, <1>6, <2>1 DEF q, OrderOK
    <3> QED
      BY <1>7, <2>1, <3>1, SentGrows DEF r, n
  <2>2. CASE j = n
    BY <1>3, <1>4, <1>7, <2>2 DEF r, n
  <2> QED
    BY <1>7, <2>1, <2>2 DEF r, n
<1>13. got'[g] = s /\ queue'[g].list = r
  BY <1>2, <1>4 DEF s, r, q, e
<1> QED
  BY <1>5, <1>9, <1>10, <1>11, <1>12, <1>13 DEF OrderOK, s

(* So does what a caller writes itself: it has nothing in the queue. *)
LEMMA OrderWritten ==
    ASSUME Inductive, [Next]_vars, NEW c \in Callers, Writes(c), NEW g, g = slot[at[c]].logger
    PROVE  OrderOK(g)'
<1> DEFINE s == got[g]  q == queue[g].list  e == call[c].item
<1>1. Types /\ CallerInv /\ Types' /\ SlotInv
  BY TypeStep, TypeParts DEF Inductive
<1>2. pc[c] = "write" /\ pc[c] \in Unsubmitted /\ g # 0 /\ call[c].what = "msg"
  BY DEF Writes, Write, Unsubmitted
<1>3. g \in Logger
  BY <1>1, <1>2, InLogger DEF Types, PlaceTypes, Threads
<1>4. e \in Item /\ e[1] = c /\ e[2] = made[c] /\ made[c] \in Nat
      /\ Sent[c] = made[c] - 1
  BY <1>1, <1>2, SubmitFacts
<1>5. got'[g] = Append(s, e) /\ queue'[g].list = q
  BY <1>1, <1>2, <1>3 DEF Writes, Write, My, Sink, SinkMessage, Types, SinkTypes
<1>6. Sent'[c] = made[c]
  <2>1. pc'[c] \in {"idle", "await"} /\ made' = made
    BY <1>1, <1>2, SubmittedEffect DEF Writes, Write, My, Types
  <2> QED
    BY <2>1 DEF Sent, Unsubmitted
<1>7. s \in Seq(Item) /\ q \in Seq(Entry) /\ OrderOK(g)
  BY <1>1, <1>3 DEF Inductive, OrderInv, Types, SinkTypes, QueueTypes, QueueType
<1>8. /\ \A i \in DOMAIN s : s[i] \in Item
      /\ \A j \in DOMAIN q : q[j].item \in Item
  BY <1>7, ElementIn, EntryItem
<1>9. \A j \in DOMAIN q : q[j].item[1] # c
  BY <1>2 DEF Inductive, WriteInv, WriteOK
<1> DEFINE r == Append(s, e)  n == Len(s) + 1
<1>10. /\ DOMAIN r = DOMAIN s \cup {n} /\ n \in Nat
       /\ \A i \in DOMAIN s : r[i] = s[i] /\ i \in Nat /\ i < n
       /\ r[n] = e
  <2>1. e \in Item /\ s \in Seq(Item)
    BY <1>4, <1>7
  <2> HIDE DEF e, s
  <2> QED
    BY <2>1, AppendElements
<1>11. \A i \in Item : i[2] <= Sent[i[1]] => Before(i, e)
  BY <1>4 DEF Before, Item
<1> HIDE DEF s, q, r, n, e
<1>12. \A i, j \in DOMAIN r : i < j => Before(r[i], r[j])
  <2> SUFFICES ASSUME NEW i \in DOMAIN r, NEW j \in DOMAIN r, i < j PROVE Before(r[i], r[j])
    OBVIOUS
  <2>1. i \in DOMAIN s
    BY <1>10 DEF r, n
  <2>2. r[i] = s[i] /\ s[i] \in Item /\ s[i][2] <= Sent[s[i][1]]
    BY <1>7, <1>8, <1>10, <2>1 DEF r, n, s, OrderOK
  <2>3. CASE j \in DOMAIN s
    BY <1>7, <1>10, <2>1, <2>2, <2>3 DEF r, n, s, OrderOK
  <2>4. CASE j = n
    BY <1>10, <1>11, <2>2, <2>4 DEF r, n
  <2> QED
    BY <1>10, <2>3, <2>4 DEF r, n
<1>13. \A i \in DOMAIN r, j \in DOMAIN q : Before(r[i], q[j].item)
  <2> SUFFICES ASSUME NEW i \in DOMAIN r, NEW j \in DOMAIN q PROVE Before(r[i], q[j].item)
    OBVIOUS
  <2>1. CASE i \in DOMAIN s
    BY <1>7, <1>10, <2>1 DEF r, n, q, s, OrderOK
  <2>2. CASE i = n
    BY <1>4, <1>9, <1>10, <2>2 DEF r, n, Before
  <2> QED
    BY <1>10, <2>1, <2>2 DEF r, n
<1>14. \A i \in DOMAIN r : r[i][2] <= Sent'[r[i][1]]
  <2> SUFFICES ASSUME NEW i \in DOMAIN r PROVE r[i][2] <= Sent'[r[i][1]]
    OBVIOUS
  <2>1. CASE i \in DOMAIN s
    <3>1. s[i] \in Item /\ s[i][2] <= Sent[s[i][1]]
      BY <1>7, <1>8, <2>1 DEF s, OrderOK
    <3> QED
      BY <1>10, <2>1, <3>1, SentGrows DEF r, n
  <2>2. CASE i = n
    BY <1>4, <1>6, <1>10, <2>2 DEF r, n
  <2> QED
    BY <1>10, <2>1, <2>2 DEF r, n
<1>15. \A j \in DOMAIN q : q[j].item[2] <= Sent'[q[j].item[1]]
  BY <1>7, <1>8, SentGrows DEF OrderOK, q
<1>16. got'[g] = r /\ queue'[g].list = q
  BY <1>5 DEF s, r, q, e
<1> QED
  BY <1>7, <1>12, <1>13, <1>14, <1>15, <1>16 DEF OrderOK, q

(* What a log thread takes out of its queue goes to the end of what its sink
   got. *)
LEMMA OrderPopped ==
    ASSUME Inductive, [Next]_vars, NEW t \in Slot, ThreadPop(t), NEW g, g = slot[t].logger
    PROVE  OrderOK(g)'
<1> DEFINE s == got[g]  q == queue[g].list  e == Head(q).item
<1>1. Types /\ Types' /\ SlotInv
  BY TypeStep, TypeParts DEF Inductive
<1>2. g \in Logger /\ q # <<>>
  BY <1>1, InLogger DEF ThreadPop, ThreadAt
<1>3. s \in Seq(Item) /\ q \in Seq(Entry) /\ OrderOK(g)
  BY <1>1, <1>2 DEF Inductive, OrderInv, Types, SinkTypes, QueueTypes, QueueType
<1>4. queue'[g].list = Tail(q)
  BY <1>1, <1>2, ListEffect DEF ThreadPop, Types
<1>5. CASE Head(q).what # "msg"
  <2>1. got' = got
    BY <1>5 DEF ThreadPop, Sink, SinkNull
  <2> DEFINE u == Tail(q)
  <2>2. \A j \in DOMAIN u : j \in Nat /\ j + 1 \in DOMAIN q /\ u[j] = q[j + 1]
    BY <1>2, <1>3, TailElements
  <2>3. /\ \A i \in DOMAIN s : s[i] \in Item
        /\ \A j \in DOMAIN q : q[j].item \in Item
    BY <1>3, ElementIn, EntryItem
  <2> HIDE DEF s, q, u
  <2>4. \A i, j \in DOMAIN u : i < j => Before(u[i].item, u[j].item)
    <3> SUFFICES ASSUME NEW i \in DOMAIN u, NEW j \in DOMAIN u, i < j
                 PROVE  Before(u[i].item, u[j].item)
      OBVIOUS
    <3>1. i + 1 \in DOMAIN q /\ j + 1 \in DOMAIN q /\ i + 1 < j + 1
      BY <2>2
    <3>2. Before(q[i + 1].item, q[j + 1].item)
      BY <1>3, <3>1 DEF OrderOK, q
    <3> QED
      BY <2>2, <3>2
  <2>5. \A i \in DOMAIN s, j \in DOMAIN u : Before(s[i], u[j].item)
    BY <1>3, <2>2 DEF OrderOK, q, s
  <2>6. \A i \in DOMAIN s : s[i][2] <= Sent'[s[i][1]]
    BY <1>3, <2>3, SentGrows DEF OrderOK, s
  <2>7. \A j \in DOMAIN u : u[j].item[2] <= Sent'[u[j].item[1]]
    BY <1>3, <2>2, <2>3, SentGrows DEF OrderOK, q
  <2>8. got'[g] = s /\ queue'[g].list = u
    BY <1>4, <2>1 DEF s, u, q
  <2> QED
    BY <1>3, <2>4, <2>5, <2>6, <2>7, <2>8 DEF OrderOK, s
<1>6. CASE Head(q).what = "msg"
  <2>1. got'[g] = Append(s, e)
    BY <1>1, <1>2, <1>6 DEF ThreadPop, Sink, SinkMessage, Types, SinkTypes
  <2> DEFINE u == Tail(q)  r == Append(s, e)  n == Len(s) + 1
  <2>2. /\ \A j \in DOMAIN u : j \in Nat /\ j + 1 \in DOMAIN q /\ u[j] = q[j + 1] /\ 1 < j + 1
        /\ 1 \in DOMAIN q /\ e = q[1].item /\ Head(q) \in Entry
    BY <1>2, <1>3, TailElements
  <2>3. /\ \A i \in DOMAIN s : s[i] \in Item
        /\ \A j \in DOMAIN q : q[j].item \in Item
    BY <1>3, ElementIn, EntryItem
  <2>4. e \in Item
    BY <2>2 DEF Entry
  <2>5. /\ DOMAIN r = DOMAIN s \cup {n} /\ n \in Nat
        /\ \A i \in DOMAIN s : r[i] = s[i] /\ i \in Nat /\ i < n
        /\ r[n] = e
    <3>1. s \in Seq(Item)
      BY <1>3
    <3> HIDE DEF s, e
    <3> QED
      BY <3>1, <2>4, AppendElements
  <2>6. got'[g] = r /\ queue'[g].list = u
    BY <1>4, <2>1
  <2> HIDE DEF s, q, u, r, e, n
  <2>7. \A i, j \in DOMAIN r : i < j => Before(r[i], r[j])
    <3> SUFFICES ASSUME NEW i \in DOMAIN r, NEW j \in DOMAIN r, i < j PROVE Before(r[i], r[j])
      OBVIOUS
    <3>1. i \in DOMAIN s /\ r[i] = s[i]
      BY <2>5
    <3>2. CASE j \in DOMAIN s
      BY <1>3, <2>5, <3>1, <3>2 DEF OrderOK, s
    <3>3. CASE j = n
      BY <1>3, <2>2, <2>5, <3>1, <3>3 DEF OrderOK, s, q
    <3> QED
      BY <2>5, <3>2, <3>3
  <2>8. \A i, j \in DOMAIN u : i < j => Before(u[i].item, u[j].item)
    BY <1>3, <2>2 DEF OrderOK, q
  <2>9. \A i \in DOMAIN r, j \in DOMAIN u : Before(r[i], u[j].item)
    <3> SUFFICES ASSUME NEW i \in DOMAIN r, NEW j \in DOMAIN u PROVE Before(r[i], u[j].item)
      OBVIOUS
    <3>1. CASE i \in DOMAIN s
      BY <1>3, <2>2, <2>5, <3>1 DEF OrderOK, s, q
    <3>2. CASE i = n
      BY <1>3, <2>2, <2>5, <3>2 DEF OrderOK, q
    <3> QED
      BY <2>5, <3>1, <3>2
  <2>10. \A i \in DOMAIN r : r[i][2] <= Sent'[r[i][1]]
    <3> SUFFICES ASSUME NEW i \in DOMAIN r PROVE r[i][2] <= Sent'[r[i][1]]
      OBVIOUS
    <3>1. CASE i \in DOMAIN s
      BY <1>3, <2>3, <2>5, <3>1, SentGrows DEF OrderOK, s
    <3>2. CASE i = n
      <4>1. e[2] <= Sent[e[1]]
        BY <1>3, <2>2 DEF OrderOK, q
      <4> QED
        BY <2>4, <2>5, <3>2, <4>1, SentGrows
    <3> QED
      BY <2>5, <3>1, <3>2
  <2>11. \A j \in DOMAIN u : u[j].item[2] <= Sent'[u[j].item[1]]
    BY <1>3, <2>2, <2>3, SentGrows DEF OrderOK, q
  <2> QED
    BY <2>6, <2>7, <2>8, <2>9, <2>10, <2>11 DEF OrderOK
<1> QED
  BY <1>5, <1>6

(* Every step keeps the order. *)
LEMMA OrderStep ==
    ASSUME Inductive, [Next]_vars
    PROVE  OrderInv'
<1> Types /\ CountInv /\ SetterInv /\ SlotInv /\ ShutInv /\ FreshInv /\ OrderInv
  BY TypeParts DEF Inductive
<1> QueueTypes /\ SinkTypes /\ SlotTypes
  BY DEF Types
<1> SUFFICES ASSUME NEW g \in Logger PROVE OrderOK(g)'
  BY DEF OrderInv
<1>1. CASE Quiet
  BY <1>1, OrderKept DEF Quiet
<1>2. ASSUME NEW c \in Callers, Writes(c)
      PROVE  OrderOK(g)'
  <2>1. CASE g = slot[at[c]].logger
    BY <1>2, <2>1, OrderWritten
  <2>2. CASE g # slot[at[c]].logger
    <3>1. got'[g] = got[g] /\ UNCHANGED queue
      BY <1>2, <2>2 DEF Writes, Write, My, Sink, SinkMessage, SinkTypes
    <3> QED
      BY <3>1, OrderKept
  <2> QED
    BY <2>1, <2>2
<1>3. ASSUME NEW c \in Callers, Enqueues(c)
      PROVE  OrderOK(g)'
  <2>1. CASE g = slot[at[c]].logger
    BY <1>3, <2>1, OrderEnqueued
  <2>2. CASE g # slot[at[c]].logger
    <3>1. UNCHANGED got /\ queue'[g] = queue[g]
      BY <1>3, <2>2, EnqueueEffect DEF Enqueues
    <3> QED
      BY <3>1, OrderKept
  <2> QED
    BY <2>1, <2>2
<1>4. ASSUME NEW s \in Slot, ThreadPop(s)
      PROVE  OrderOK(g)'
  <2>1. CASE g = slot[s].logger
    BY <1>4, <2>1, OrderPopped
  <2>2. CASE g # slot[s].logger
    <3>1. got'[g] = got[g] /\ queue'[g] = queue[g]
      BY <1>4, <2>2 DEF ThreadPop, Sink, SinkMessage, SinkNull, SinkTypes, QueueTypes
    <3> QED
      BY <3>1, OrderKept
  <2> QED
    BY <2>1, <2>2
<1>5. ASSUME NEW s \in Slot, ThreadNext(s)
      PROVE  OrderOK(g)'
  BY <1>5, OrderKept DEF ThreadNext, sinkVars
<1>6. ASSUME NEW t \in Setters, Reset(t)
      PROVE  OrderOK(g)'
  BY <1>6, ResetQueue, OrderKept DEF Reset, sinkVars
<1>7. ASSUME NEW t \in Setters, NEW kind \in Kinds, SetLogger(t, kind)
      PROVE  OrderOK(g)'
  <2>1. UNCHANGED got
    BY <1>7 DEF SetLogger, sinkVars
  <2>2. CASE g # loggers + 1
    BY <1>7, <2>1, <2>2, SetLoggerEffect, OrderKept
  <2>3. CASE g = loggers + 1
    BY <1>7, <2>1, <2>3, SetLoggerEffect, OrderKept
  <2> QED
    BY <2>2, <2>3
<1> QED
  BY <1>1, <1>2, <1>3, <1>4, <1>5, <1>6, <1>7, StepKinds DEF StepKind

(* What was due stays delivered as long as nothing is taken back. *)
LEMMA DeliverKept ==
    ASSUME Inductive, NEW g \in Logger, due'[g] = due[g], accepted[g] \subseteq accepted'[g],
           Messages(g) \subseteq Messages(g)',
           (\E s \in Slot : slot'[s].logger = g) =>
               accepted'[g] \subseteq Messages(g)' \cup Queued(g)',
           thread'[g] \in {"closing", "done"} =>
               thread[g] \in {"closing", "done"} \/ due[g] \subseteq Messages(g),
           Freed(g)' => Freed(g) \/ due[g] \subseteq Messages(g)
    PROVE  DeliverOK(g)'
BY DEF Inductive, DeliverInv, DeliverOK

(* Nothing comes to a logger, and nothing is taken from it. *)
LEMMA DeliverSame ==
    ASSUME Inductive, NEW g \in Logger, due'[g] = due[g], accepted'[g] = accepted[g],
           got'[g] = got[g], queue'[g].list = queue[g].list,
           \A s \in Slot : slot'[s].logger = slot[s].logger, UNCHANGED loggers,
           thread'[g] \in {"closing", "done"} =>
               thread[g] \in {"closing", "done"} \/ due[g] \subseteq Messages(g)
    PROVE  DeliverOK(g)'
<1>1. Messages(g)' = Messages(g) /\ Queued(g)' = Queued(g)
  BY DEF Messages, Queued
<1>2. Freed(g)' => Freed(g)
  BY DEF Freed
<1>3. (\E s \in Slot : slot'[s].logger = g) => (\E s \in Slot : slot[s].logger = g)
  OBVIOUS
<1> QED
  BY <1>1, <1>2, <1>3, DeliverKept DEF Inductive, DeliverInv, DeliverOK

(* A message in a queue is one that was accepted. *)
LEMMA DeliverEnqueued ==
    ASSUME Inductive, [Next]_vars, NEW c \in Callers, Enqueues(c), NEW g, g = slot[at[c]].logger
    PROVE  DeliverOK(g)'
<1> DEFINE q == queue[g].list  e == call[c]
<1>1. Types /\ CallerInv /\ DeliverInv
  BY TypeParts DEF Inductive
<1>2. g \in Logger /\ UNCHANGED <<got, due, slot, loggers, thread>> /\ pc[c] \in Unsubmitted
  BY DEF Enqueues, Unsubmitted
<1>3. e \in Entry
  BY <1>1, <1>2, SubmitFacts
<1>4. q \in Seq(Entry)
  BY <1>1, <1>2 DEF Types, QueueTypes, QueueType
<1>5. PICK w : Enqueue(g, c, w)
  BY DEF Enqueues
<1>6. queue'[g].list = Append(q, e)
  BY <1>1, <1>2, <1>5, EnqueueEffect DEF Types
<1>7. ToSet(queue'[g].list) = ToSet(q) \cup {e}
  <2> HIDE DEF q, e
  <2>1. ToSet(Append(q, e)) = ToSet(q) \cup {e}
    BY <1>3, <1>4, AppendSet
  <2> QED
    BY <1>6, <2>1
<1>8. accepted'[g] = IF e.what = "msg" THEN accepted[g] \cup {e.item} ELSE accepted[g]
  BY <1>1, <1>2, <1>5 DEF Enqueue, Accept, Types, AcceptTypes
<1> HIDE DEF e
<1>9. Queued(g)' = IF e.what = "msg" THEN Queued(g) \cup {e.item} ELSE Queued(g)
  BY <1>7 DEF Queued
<1>10. Messages(g)' = Messages(g) /\ (Freed(g)' => Freed(g))
  BY <1>2 DEF Messages, Freed
<1>11. (\E s \in Slot : slot'[s].logger = g) =>
          accepted'[g] \subseteq Messages(g)' \cup Queued(g)'
  BY <1>1, <1>2, <1>8, <1>9, <1>10 DEF DeliverInv, DeliverOK
<1> QED
  BY <1>2, <1>8, <1>10, <1>11, DeliverKept

(* A message that a caller writes is at the sink. *)
LEMMA DeliverWritten ==
    ASSUME Inductive, [Next]_vars, NEW c \in Callers, Writes(c), NEW g, g = slot[at[c]].logger
    PROVE  DeliverOK(g)'
<1> DEFINE e == call[c].item
<1>1. Types /\ CallerInv /\ SlotInv /\ DeliverInv
  BY TypeParts DEF Inductive
<1>2. g \in Logger
  BY <1>1, InLogger DEF Writes, Types, PlaceTypes, Threads
<1>3. pc[c] \in Unsubmitted /\ UNCHANGED <<queue, due, slot, loggers, thread>>
  BY DEF Writes, Write, Unsubmitted, slotVars, threadVars
<1>4. e \in Item /\ got[g] \in Seq(Item)
  BY <1>1, <1>2, <1>3, SubmitFacts DEF Types, SinkTypes
<1>5. got'[g] = Append(got[g], e) /\ accepted'[g] = accepted[g] \cup {e}
  BY <1>1, <1>2 DEF Writes, Write, My, Sink, SinkMessage, Accept, Types, SinkTypes, AcceptTypes
<1> HIDE DEF e
<1>6. Messages(g)' = Messages(g) \cup {e}
  BY <1>4, <1>5, AppendSet DEF Messages
<1>7. Queued(g)' = Queued(g) /\ (Freed(g)' => Freed(g))
  BY <1>3 DEF Queued, Freed
<1>8. (\E s \in Slot : slot'[s].logger = g) =>
          accepted'[g] \subseteq Messages(g)' \cup Queued(g)'
  BY <1>1, <1>2, <1>3, <1>5, <1>6, <1>7 DEF DeliverInv, DeliverOK
<1> QED
  BY <1>2, <1>3, <1>5, <1>6, <1>7, <1>8, DeliverKept

(* A message that a log thread takes out of its queue is at the sink. *)
LEMMA DeliverPopped ==
    ASSUME Inductive, [Next]_vars, NEW t \in Slot, ThreadPop(t), NEW g, g = slot[t].logger
    PROVE  DeliverOK(g)'
<1> DEFINE q == queue[g].list  e == Head(q)
<1>1. Types /\ SlotInv /\ DeliverInv
  BY TypeParts DEF Inductive
<1>2. g \in Logger /\ q # <<>> /\ UNCHANGED <<accepted, due, slot, loggers>>
  BY <1>1, InLogger DEF ThreadPop, ThreadAt, slotVars
<1>3. q \in Seq(Entry) /\ got[g] \in Seq(Item)
  BY <1>1, <1>2 DEF Types, QueueTypes, QueueType, SinkTypes
<1>4. queue'[g].list = Tail(q)
  BY <1>1, <1>2, ListEffect DEF ThreadPop, Types
<1>5. e \in Entry /\ \A x \in ToSet(q) : x = e \/ x \in ToSet(queue'[g].list)
  BY <1>2, <1>3, <1>4, TailElements, TailKeeps
<1>6. e.item \in Item
  BY <1>5, EntryItem
<1>7. thread'[g] \in {"tick", "ack"}
  BY <1>1, <1>2 DEF ThreadPop, ThreadGoto, Types, ThreadTypes
<1>8. got'[g] = IF e.what = "msg" THEN Append(got[g], e.item) ELSE got[g]
  BY <1>1, <1>2 DEF ThreadPop, Sink, SinkMessage, SinkNull, Types, SinkTypes
<1> HIDE DEF e
<1>9. Messages(g)' = IF e.what = "msg" THEN Messages(g) \cup {e.item} ELSE Messages(g)
  <2>1. ToSet(Append(got[g], e.item)) = ToSet(got[g]) \cup {e.item}
    BY <1>3, <1>6, AppendSet
  <2> QED
    BY <1>8, <2>1 DEF Messages
<1>10. \A i \in Queued(g) : i \in Queued(g)' \/ (e.what = "msg" /\ i = e.item)
  BY <1>5 DEF Queued
<1>11. Freed(g)' => Freed(g)
  BY <1>2 DEF Freed
<1>12. (\E s \in Slot : slot'[s].logger = g) =>
          accepted'[g] \subseteq Messages(g)' \cup Queued(g)'
  BY <1>1, <1>2, <1>9, <1>10 DEF DeliverInv, DeliverOK
<1> QED
  BY <1>2, <1>7, <1>9, <1>11, <1>12, DeliverKept

(* A log thread ends when all that its logger has accepted is at the sink. *)
LEMMA DeliverEnded ==
    ASSUME Inductive, NEW t \in Slot, ThreadNext(t), NEW g \in Logger
    PROVE  DeliverOK(g)'
<1> Types /\ DeliverInv
  BY TypeParts DEF Inductive
<1>1. UNCHANGED <<queue, accepted, due, slot, loggers, got>>
  BY DEF ThreadNext, slotVars, sinkVars
<1>2. ASSUME thread'[g] \in {"closing", "done"}, thread[g] \notin {"closing", "done"}
      PROVE  due[g] \subseteq Messages(g)
  <2>1. slot[t].logger = g /\ queue[g].list = <<>>
    BY <1>2 DEF ThreadNext, ThreadGoto, Types, ThreadTypes
  <2>2. Queued(g) = {}
    BY <2>1 DEF Queued, ToSet
  <2> QED
    BY <2>1, <2>2 DEF DeliverInv, DeliverOK
<1> QED
  BY <1>1, <1>2, DeliverSame

(* What is destroyed with a slot was not due. *)
LEMMA DeliverReset ==
    ASSUME Inductive, NEW t \in Setters, Reset(t), NEW g \in Logger
    PROVE  DeliverOK(g)'
<1> Types /\ SetterInv /\ SlotInv /\ ShutInv /\ FreshInv /\ DeliverInv
  BY TypeParts DEF Inductive
<1> DEFINE h == slot[3 - cur].logger
<1>1. UNCHANGED <<accepted, due, loggers, got, thread>>
  BY DEF Reset, sinkVars, threadVars
<1>2. at[t] = 3 - cur /\ lmux = t /\ t # None /\ pc[t] = "reset"
      /\ slot'[cur] = slot[cur] /\ slot'[3 - cur].logger = 0
      /\ (\A s \in Slot : s = cur \/ s = 3 - cur) /\ cur \in Slot /\ 3 - cur \in Slot
      /\ 3 - cur # cur
  BY ResetEffect, LoggerAssumption DEF Reset
<1>3. Messages(g)' = Messages(g) /\ g # 0
  BY <1>1 DEF Messages, Logger
<1>4. CASE g # h
  <2>1. Queued(g)' = Queued(g)
    BY <1>2, <1>4, ResetQueue DEF Queued
  <2>2. /\ Freed(g)' => Freed(g)
        /\ (\E s \in Slot : slot'[s].logger = g) => (\E s \in Slot : slot[s].logger = g)
    BY <1>1, <1>2, <1>3, <1>4 DEF Freed
  <2> QED
    BY <1>1, <1>3, <2>1, <2>2, DeliverKept DEF DeliverInv, DeliverOK
<1>5. CASE g = h
  <2>1. thread[g] \in {"none", "done"}
    BY <1>2, <1>3, <1>5 DEF ShutInv
  <2>2. due[g] \subseteq Messages(g)
    <3>1. CASE thread[g] = "done"
      BY <3>1 DEF DeliverInv, DeliverOK
    <3>2. CASE thread[g] = "none"
      <4>1. queue[g].list = <<>>
        BY <3>2 DEF FreshInv, FreshOK
      <4>2. Queued(g) = {}
        BY <4>1 DEF Queued, ToSet
      <4> QED
        BY <1>2, <1>5, <4>2 DEF DeliverInv, DeliverOK
    <3> QED
      BY <2>1, <3>1, <3>2
  <2>3. ~ \E s \in Slot : slot'[s].logger = g
    <3>1. slot[cur].logger # g
      BY <1>2, <1>3, <1>5 DEF SlotInv, Slot
    <3> QED
      BY <1>2, <1>3, <3>1
  <2> QED
    BY <1>1, <1>3, <2>2, <2>3, DeliverKept
<1> QED
  BY <1>4, <1>5

(* What the old logger has accepted is due, and the new one has accepted
   nothing. *)
LEMMA DeliverSet ==
    ASSUME Inductive, NEW t \in Setters, NEW kind \in Kinds, SetLogger(t, kind),
           NEW g \in Logger
    PROVE  DeliverOK(g)'
<1> Types /\ CountInv /\ SetterInv /\ SlotInv /\ ShutInv /\ FreshInv /\ DeliverInv
  BY TypeParts DEF Inductive
<1>1. UNCHANGED <<accepted, got>> /\ loggers' \in {loggers, loggers + 1}
  BY DEF SetLogger, sinkVars
<1>2. /\ slot[3 - cur].logger = 0 /\ slot'[cur] = slot[cur] /\ loggers \in Nat
      /\ (\A s \in Slot : s = cur \/ s = 3 - cur) /\ cur \in Slot /\ 3 - cur \in Slot
      /\ slot'[3 - cur].logger = IF loggers' = loggers THEN 0 ELSE loggers + 1
      /\ g # loggers + 1 => thread'[g] = thread[g] /\ queue'[g] = queue[g]
  BY SetLoggerEffect
<1>3. Messages(g)' = Messages(g) /\ g # 0 /\ g \in Nat
  BY <1>1, Bounds DEF Messages, Logger
<1>4. CASE g = loggers + 1
  <2>1. thread[g] = "none" /\ accepted[g] = {} /\ due[g] = {}
    BY <1>2, <1>4 DEF FreshInv, FreshOK
  <2>2. due'[g] = due[g]
    <3>1. slot[cur].logger # g
      BY <1>2, <1>3, <1>4 DEF SlotInv, SlotOK
    <3> QED
      BY <3>1 DEF SetLogger, Types, AcceptTypes
  <2> QED
    BY <1>1, <2>1, <2>2 DEF DeliverOK
<1>5. CASE g # loggers + 1
  <2>1. Queued(g)' = Queued(g) /\ thread'[g] = thread[g]
    BY <1>2, <1>5 DEF Queued
  <2>2. /\ Freed(g)' => Freed(g)
        /\ (\E s \in Slot : slot'[s].logger = g) => (\E s \in Slot : slot[s].logger = g)
    BY <1>1, <1>2, <1>3, <1>5 DEF Freed
  <2>3. CASE g # slot[cur].logger
    <3>1. due'[g] = due[g]
      BY <2>3 DEF SetLogger, Types, AcceptTypes
    <3> QED
      BY <1>1, <1>3, <2>1, <2>2, <3>1, DeliverKept DEF DeliverInv, DeliverOK
  <2>4. CASE g = slot[cur].logger
    <3>1. due'[g] = accepted[g]
      BY <1>3, <2>4 DEF SetLogger, Types, AcceptTypes
    <3>2. ~Freed(g)' /\ thread'[g] \notin {"closing", "done"}
      BY <1>2, <1>3, <2>1, <2>4 DEF Freed, ShutInv
    <3>3. accepted'[g] \subseteq Messages(g)' \cup Queued(g)'
      BY <1>1, <1>2, <1>3, <2>1, <2>4 DEF DeliverInv, DeliverOK
    <3> QED
      BY <1>1, <3>1, <3>2, <3>3 DEF DeliverOK
  <2> QED
    BY <2>3, <2>4
<1> QED
  BY <1>4, <1>5

(* Every step keeps what is due on its way. *)
LEMMA DeliverStep ==
    ASSUME Inductive, [Next]_vars
    PROVE  DeliverInv'
<1> Types
  BY TypeParts DEF Inductive
<1> QueueTypes /\ SinkTypes /\ AcceptTypes /\ ThreadTypes
  BY DEF Types
<1> SUFFICES ASSUME NEW g \in Logger PROVE DeliverOK(g)'
  BY DEF DeliverInv
<1>1. CASE Quiet
  BY <1>1, DeliverSame DEF Quiet
<1>2. ASSUME NEW c \in Callers, Writes(c)
      PROVE  DeliverOK(g)'
  <2>1. CASE g = slot[at[c]].logger
    BY <1>2, <2>1, DeliverWritten
  <2>2. CASE g # slot[at[c]].logger
    <3>1. UNCHANGED <<queue, due, slot, loggers, thread>>
      BY <1>2 DEF Writes, Write, slotVars, threadVars
    <3>2. got'[g] = got[g] /\ accepted'[g] = accepted[g]
      BY <1>2, <2>2 DEF Writes, Write, My, Sink, SinkMessage, Accept, SinkTypes, AcceptTypes
    <3> QED
      BY <3>1, <3>2, DeliverSame
  <2> QED
    BY <2>1, <2>2
<1>3. ASSUME NEW c \in Callers, Enqueues(c)
      PROVE  DeliverOK(g)'
  <2>1. CASE g = slot[at[c]].logger
    BY <1>3, <2>1, DeliverEnqueued
  <2>2. CASE g # slot[at[c]].logger
    <3>1. UNCHANGED <<slot, loggers, thread, got, due>> /\ slot[at[c]].logger \in Logger
      BY <1>3 DEF Enqueues
    <3>2. PICK w : Enqueue(slot[at[c]].logger, c, w)
      BY <1>3 DEF Enqueues
    <3>3. queue'[g] = queue[g]
      BY <2>2, <3>1, <3>2, EnqueueEffect
    <3>4. accepted'[g] = accepted[g]
      BY <2>2, <3>2 DEF Enqueue, Accept, AcceptTypes
    <3> QED
      BY <3>1, <3>3, <3>4, DeliverSame
  <2> QED
    BY <2>1, <2>2
<1>4. ASSUME NEW s \in Slot, ThreadPop(s)
      PROVE  DeliverOK(g)'
  <2>1. CASE g = slot[s].logger
    BY <1>4, <2>1, DeliverPopped
  <2>2. CASE g # slot[s].logger
    <3>1. UNCHANGED <<slot, loggers, accepted, due>>
      BY <1>4 DEF ThreadPop, slotVars
    <3>2. got'[g] = got[g] /\ queue'[g] = queue[g] /\ thread'[g] = thread[g]
      BY <1>4, <2>2 DEF ThreadPop, ThreadGoto, Sink, SinkMessage, SinkNull, SinkTypes,
                        QueueTypes, ThreadTypes
    <3> QED
      BY <3>1, <3>2, DeliverSame
  <2> QED
    BY <2>1, <2>2
<1>5. ASSUME NEW s \in Slot, ThreadNext(s)
      PROVE  DeliverOK(g)'
  BY <1>5, DeliverEnded
<1>6. ASSUME NEW t \in Setters, Reset(t)
      PROVE  DeliverOK(g)'
  BY <1>6, DeliverReset
<1>7. ASSUME NEW t \in Setters, NEW kind \in Kinds, SetLogger(t, kind)
      PROVE  DeliverOK(g)'
  BY <1>7, DeliverSet
<1> QED
  BY <1>1, <1>2, <1>3, <1>4, <1>5, <1>6, <1>7, StepKinds DEF StepKind
-----------------------------------------------------------------------------
(* Nothing has happened yet. *)
LEMMA InductiveInit ==
    ASSUME Init
    PROVE  Inductive
<1> USE LoggerAssumption DEF Init, Start
<1>1. /\ 1 \in Slot /\ 2 \in Slot /\ 0 \in 0..MaxLoggers /\ Blank \in SlotType
      /\ \A s \in Slot : slot[s] = Blank
  BY Bounds DEF Slot, Blank, SlotType
<1>2. NoQueue \in QueueType /\ <<>> \in Seq(Item)
  BY DEF NoQueue, QueueType
<1>3. TypeOK
  BY <1>1, <1>2 DEF TypeOK, FileType, Label, Threads
<1>4. HistoryType
  BY <1>1, <1>2 DEF HistoryType
<1>5. CountInv
  <2>1. Settings = {}
    BY DEF Settings, Threads
  <2> QED
    BY <2>1, FS_EmptySet DEF CountInv, Threads
<1>6. CallerInv /\ BlockedInv /\ WriteInv /\ SetterInv
  BY DEF CallerInv, CallerOK, BlockedInv, BlockedOK, WriteInv, WriteOK, SetterInv, Unsubmitted,
         Threads
<1>7. SlotInv /\ ShutInv
  BY <1>1 DEF SlotInv, SlotOK, ShutInv, Blank, Slot
<1>8. FreshInv
  BY DEF FreshInv, FreshOK, NoQueue
<1>9. OrderInv
  BY DEF OrderInv, OrderOK, NoQueue
<1>10. DeliverInv
  BY <1>1 DEF DeliverInv, DeliverOK, Blank, Logger, Freed
<1> QED
  BY <1>3, <1>4, <1>5, <1>6, <1>7, <1>8, <1>9, <1>10 DEF Inductive

(* The invariant holds whatever callers, setters and log threads do, in any
   order. *)
THEOREM InductiveHolds == Spec => []Inductive
<1>1. ASSUME Inductive, [Next]_vars PROVE Inductive'
  BY <1>1, TypeStep, CountStep, CallerStep, BlockedStep, WriteStep, SetterStep, SlotStep,
     ShutStep, FreshStep, OrderStep, DeliverStep DEF Inductive
<1> QED
  BY <1>1, InductiveInit, PTL DEF Spec

(* Every variable keeps its type. *)
THEOREM TypeCorrect == Spec => []TypeOK
<1>1. Inductive => TypeOK
  BY DEF Inductive
<1> QED
  BY <1>1, InductiveHolds, PTL

(* What was logged before a logger is replaced is at its sink when its slot is
   cleared, whoever logs, blocks or flushes meanwhile: ruSetLogger loses
   nothing of what its queue took before. *)
THEOREM StopFlushesHolds == Spec => []StopFlushes
<1>1. Inductive => StopFlushes
  BY DEF Inductive, DeliverInv, DeliverOK, StopFlushes
<1> QED
  BY <1>1, InductiveHolds, PTL

(* Each sink gets the messages of a thread in the order of its calls and none
   twice, even from a caller that is late and finds another logger in its
   slot. *)
THEOREM ThreadOrderHolds == Spec => []ThreadOrder
<1>1. Inductive => ThreadOrder
  BY DEF Inductive, OrderInv, OrderOK, Before, ThreadOrder
<1> QED
  BY <1>1, InductiveHolds, PTL
=============================================================================
