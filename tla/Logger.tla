------------------------------- MODULE Logger -------------------------------
(***************************************************************************)
(* The logger of logging.c: two slots of which lc_ points to the current   *)
(* one, a log thread and its bound queue per threaded logger, the flush    *)
(* mark, the replacement of a logger, and the file sink with the change of *)
(* its path.                                                               *)
(*                                                                         *)
(* The queue is the buffer of BoundedBuffer, which BoundedList refines.  A *)
(* step is what one thread does between two accesses to lc_, to a field of *)
(* a slot, to the queue or to the sink that another thread can see.        *)
(***************************************************************************)
EXTENDS Naturals, Sequences, FiniteSets, SequencesExt

CONSTANTS Callers,            \* threads that log
          Flushers, Movers,   \* ... those that also flush, or change the path,
          Unblockers,         \* ... or call ruLoggerUnblock
          Flushes,            \* how: "FLUSH" is ruFlushLog, "CLOSE" ruLastLog
          Setters,            \* threads that call ruSetLogger
          Kinds,              \* what they set: "async", "sync" or "none"
          Paths, FirstPath,   \* log files, and the one of a new sink context
          MaxCalls, MaxSets,  \* calls per thread (bounds of the runs)
          QueueSize,          \* RU_LOG_BUFFER_LINE_COUNT
          Opens,              \* whether opening a log file may succeed, or fail
          Prompt,             \* a call leaves a slot before it is freed
          None                \* no thread, no path

Threads == Callers \cup Setters
MaxLoggers == MaxSets * Cardinality(Setters)
Slot == {1, 2}
Logger == 1..MaxLoggers       \* the k-th logger set; its sink context
Item == Callers \X (1..MaxCalls)
Entry == [what : {"msg", "FLUSH", "CLOSE"}, item : Item]

ASSUME LoggerAssumption ==
    /\ Flushers \cup Movers \cup Unblockers \subseteq Callers
    /\ Flushes \subseteq {"FLUSH", "CLOSE"}
    /\ Callers \cap Setters = {} /\ IsFiniteSet(Setters)
    /\ None \notin Callers \cup Setters \cup Paths
    /\ FirstPath \in Paths
    /\ MaxCalls \in Nat \ {0} /\ MaxSets \in Nat \ {0} /\ QueueSize \in Nat \ {0}
    /\ Kinds \subseteq {"async", "sync", "none"}
    /\ Opens \subseteq BOOLEAN /\ TRUE \in Opens
    /\ Prompt \in BOOLEAN

VARIABLES
    cur,      \* lc_
    slot,     \* l1_ and l2_
    queue,    \* the queue of each threaded logger
    thread,   \* where each log thread is
    flushed,  \* its flushed: the sink had a NULL since the last message
    file,     \* the sink context of each logger
    lmux,
    pc,       \* where each caller and setter is
    at,       \* the slot it works on
    call,     \* what a caller is submitting
    made,     \* calls made
    loggers   \* loggers made

VARIABLES     \* histories, which no action reads
    accepted, \* what each logger's queue took, or its sink at once
    got,      \* the messages each sink received, in order
    wrote,    \* the file each message went to
    closes,   \* final CLOSE calls of each sink
    nulls,    \* the flushes and closes of callers that a sink received
    due,      \* what was in the queue when its logger was replaced
    gen,      \* the logger current when a caller's call began
    leaving   \* the path a caller's ruSinkCtxPath is leaving

slotVars == <<cur, slot, lmux, loggers>>
sinkVars == <<file, got, wrote, closes, nulls>>
callVars == <<at, call, made, gen, leaving>>
threadVars == <<thread, flushed>>
vars == <<slotVars, queue, threadVars, sinkVars, pc, callVars, accepted, due>>

Blank == [logger |-> 0, queuer |-> "noQ", logThread |-> FALSE,
          flushReq |-> FALSE, quitting |-> FALSE]
NoQueue == [list |-> <<>>, bound |-> TRUE, open |-> FALSE, waiting |-> <<>>]

SlotType == [logger : 0..MaxLoggers, queuer : {"noQ", "syncQ", "asyncQ"},
             logThread : BOOLEAN, flushReq : BOOLEAN, quitting : BOOLEAN]
QueueType == [list : Seq(Entry), bound : BOOLEAN, open : BOOLEAN, waiting : Seq(Callers)]
FileType == [wh : Paths \cup {None}, path : Paths, newPath : Paths \cup {None}]
Label == {"idle", "info", "last", "flag", "set", "dispatch", "write", "push", "blocked",
          "await", "quit", "wait", "free", "reset", "undefined"}

TypeOK ==
    /\ cur \in Slot
    /\ slot \in [Slot -> SlotType]
    /\ queue \in [Logger -> QueueType]
    /\ thread \in [Logger -> {"none", "loop", "ack", "tick", "closing", "done"}]
    /\ flushed \in [Logger -> BOOLEAN]
    /\ file \in [Logger -> FileType]
    /\ lmux \in Setters \cup {None}
    /\ pc \in [Threads -> Label]
    /\ at \in [Threads -> Slot]
    /\ call \in [Threads -> Entry \cup {None}]
    /\ made \in [Threads -> Nat]
    /\ loggers \in 0..MaxLoggers

Start ==
    /\ lmux = None /\ loggers = 0
    /\ slot = [s \in Slot |-> Blank]
    /\ queue = [g \in Logger |-> NoQueue]
    /\ thread = [g \in Logger |-> "none"]
    /\ flushed = [g \in Logger |-> FALSE]
    /\ file = [g \in Logger |-> [wh |-> None, path |-> FirstPath, newPath |-> None]]
    /\ pc = [t \in Threads |-> "idle"]
    /\ at = [t \in Threads |-> 1]
    /\ call = [t \in Threads |-> None]
    /\ made = [t \in Threads |-> 0]
    /\ accepted = [g \in Logger |-> {}] /\ due = accepted
    /\ got = [g \in Logger |-> <<>>]
    /\ wrote = [i \in Item |-> None]
    /\ closes = [g \in Logger |-> 0] /\ nulls = {}
    /\ gen = [t \in Threads |-> 0]
    /\ leaving = [t \in Threads |-> None]

(* initLog, and nothing logged yet. *)
Init == cur = 1 /\ Start

Goto(t, label) == pc' = [pc EXCEPT ![t] = label] /\ UNCHANGED callVars
Return(t) ==
    /\ pc' = [pc EXCEPT ![t] = "idle"]
    /\ at' = [at EXCEPT ![t] = 1]
    /\ call' = [call EXCEPT ![t] = None]
    /\ gen' = [gen EXCEPT ![t] = 0]
    /\ leaving' = [leaving EXCEPT ![t] = None]
    /\ UNCHANGED made

My(c) == slot[at[c]]
(* A call that dereferences NULL ends the program. *)
Running == \A c \in Callers : pc[c] # "undefined"
-----------------------------------------------------------------------------
(* ruFileLogSink of logger g with entry e.                                 *)

(* Mutant: the sink closes its file but keeps its path. *)
SinkNull_KeepsPath(g, what) ==
    /\ file' = [file EXCEPT ![g].wh = None]
    /\ UNCHANGED <<got, wrote>>

(* The sink closes its file on every NULL; CLOSE alone moves to the path
   that ruSinkCtxPath left. *)
SinkNull(g, what) ==
    /\ file' = [file EXCEPT ![g] =
                   IF what = "CLOSE" /\ @.newPath # None
                   THEN [wh |-> None, path |-> @.newPath, newPath |-> None]
                   ELSE [@ EXCEPT !.wh = None]]
    /\ UNCHANGED <<got, wrote>>

(* A message goes to the open file, or to the one opened for it: stderr if
   that fails.  The check for a file that was moved away closes it and opens
   the same path. *)
SinkMessage(g, i) ==
    /\ \E opened \in Opens :
          file' = [file EXCEPT ![g].wh = IF opened THEN file[g].path ELSE None]
    /\ wrote' = [wrote EXCEPT ![i] = file'[g].wh]
    /\ got' = [got EXCEPT ![g] = Append(@, i)]

Sink(g, e) ==
    /\ IF e.what = "msg" THEN SinkMessage(g, e.item) ELSE SinkNull(g, e.what)
    /\ nulls' = IF e.what = "msg" THEN nulls ELSE nulls \cup {e.item}
    /\ UNCHANGED closes

SinkFinal(g) ==
    SinkNull(g, "CLOSE") /\ closes' = [closes EXCEPT ![g] = @ + 1] /\ UNCHANGED nulls
-----------------------------------------------------------------------------
(* Logging and flushing.  A call works on the slot that lc_ pointed to when *)
(* it read it.                                                             *)
Begin(c, what) ==
    /\ Running
    /\ made[c] < MaxCalls
    /\ made' = [made EXCEPT ![c] = @ + 1]
    /\ call' = [call EXCEPT ![c] = [what |-> what, item |-> <<c, made[c] + 1>>]]
    /\ gen' = [gen EXCEPT ![c] = slot[cur].logger]
    /\ UNCHANGED <<slotVars, queue, threadVars, got, wrote, closes, nulls, accepted, due>>

(* ruRawLog: nothing is logged while the level is RU_LOG_NONE. *)
RawLog(c) ==
    /\ slot[cur].logger # 0
    /\ Begin(c, "msg")
    /\ at' = [at EXCEPT ![c] = cur]
    /\ pc' = [pc EXCEPT ![c] = "dispatch"]
    /\ UNCHANGED <<file, leaving>>

Log(c) == pc[c] = "idle" /\ RawLog(c)

Flush(c) ==
    /\ c \in Flushers
    /\ pc[c] = "idle"
    /\ \E what \in Flushes : Begin(c, what)
    /\ at' = [at EXCEPT ![c] = cur]
    /\ pc' = [pc EXCEPT ![c] = "flag"]
    /\ UNCHANGED <<file, leaving>>

ChangePath(c) ==
    /\ c \in Movers
    /\ pc[c] = "idle"
    /\ slot[cur].logger # 0
    /\ leaving' = [leaving EXCEPT ![c] = file[slot[cur].logger].path]
    /\ Begin(c, "CLOSE")
    /\ pc' = [pc EXCEPT ![c] = "last"]
    /\ UNCHANGED at

(* Mutant: the path is changed at once, not when the old file is closed. *)
SinkCtxPath_AtOnce(c) ==
    /\ ChangePath(c)
    /\ \E p \in Paths \ {leaving'[c]} : file' = [file EXCEPT ![slot[cur].logger].path = p]

(* ruSinkCtxPath, on the sink context of the current logger ... *)
SinkCtxPath(c) ==
    /\ ChangePath(c)
    /\ \E p \in Paths \ {leaving'[c]} : file' = [file EXCEPT ![slot[cur].logger].newPath = p]

(* ... then ruLastLog, on the logger that is current by now. *)
LastLog(c) ==
    /\ Running
    /\ pc[c] = "last"
    /\ pc' = [pc EXCEPT ![c] = "flag"]
    /\ at' = [at EXCEPT ![c] = cur]
    /\ UNCHANGED <<slotVars, queue, threadVars, sinkVars, call, made, gen, leaving,
                   accepted, due>>

(* setFlushMark raises flushReq if there is a log thread to lower it. *)
FlagLook(c) ==
    /\ Running
    /\ pc[c] = "flag"
    /\ Goto(c, IF My(c).logThread THEN "set" ELSE "dispatch")
    /\ UNCHANGED <<slotVars, queue, threadVars, sinkVars, accepted, due>>

FlagSet(c) ==
    /\ Running
    /\ pc[c] = "set"
    /\ slot' = [slot EXCEPT ![at[c]].flushReq = TRUE]
    /\ Goto(c, "dispatch")
    /\ UNCHANGED <<cur, lmux, loggers, queue, threadVars, sinkVars, accepted, due>>

(* The entry is submitted; a flush goes on to wait.                        *)
Submitted(c) == IF call[c].what = "msg" THEN Return(c) ELSE Goto(c, "await")

Dispatch(c) ==
    /\ Running
    /\ pc[c] = "dispatch"
    /\ \/ My(c).queuer = "noQ" /\ Submitted(c)
       \/ My(c).queuer = "syncQ" /\ Goto(c, "write")
       \/ My(c).queuer = "asyncQ" /\ Goto(c, "push")
    /\ UNCHANGED <<slotVars, queue, threadVars, sinkVars, accepted, due>>

Accept(g, c) ==
    accepted' = IF call[c].what = "msg"
                THEN [accepted EXCEPT ![g] = @ \cup {call[c].item}] ELSE accepted

(* syncQ: the caller runs the sink itself.  A slot that was freed has none. *)
Write(c) ==
    /\ Running
    /\ pc[c] = "write"
    /\ IF My(c).logger = 0
       THEN Goto(c, "undefined") /\ UNCHANGED <<sinkVars, accepted>>
       ELSE Sink(My(c).logger, call[c]) /\ Accept(My(c).logger, c) /\ Submitted(c)
    /\ UNCHANGED <<slotVars, queue, threadVars, due>>

(* Mutant: the entry is put in front of those that wait. *)
Enqueue_First(g, c, waiting) ==
    /\ queue' = [queue EXCEPT ![g].list = <<call[c]>> \o @, ![g].waiting = waiting]
    /\ Accept(g, c)
    /\ Submitted(c)

Enqueue(g, c, waiting) ==
    /\ queue' = [queue EXCEPT ![g].list = Append(@, call[c]), ![g].waiting = waiting]
    /\ Accept(g, c)
    /\ Submitted(c)

(* asyncQ: a slot without a queue, or a queue that is being freed, takes
   nothing and the message is dropped. *)
Push(c) ==
    /\ Running
    /\ pc[c] = "push"
    /\ LET g == My(c).logger
       IN  IF ~My(c).logThread \/ ~queue[g].open
           THEN Submitted(c) /\ UNCHANGED <<queue, accepted>>
           ELSE \/ Len(queue[g].list) < QueueSize /\ Enqueue(g, c, queue[g].waiting)
                \/ /\ Len(queue[g].list) >= QueueSize
                   /\ queue' = [queue EXCEPT ![g].waiting = Append(@, c)]
                   /\ Goto(c, "blocked")
                   /\ UNCHANGED accepted
    /\ UNCHANGED <<slotVars, threadVars, sinkVars, due>>

PushResume(c) ==
    /\ Running
    /\ pc[c] = "blocked"
    /\ LET g == My(c).logger
       IN  /\ queue[g].open
           /\ Head(queue[g].waiting) = c
           /\ Len(queue[g].list) < QueueSize \/ ~queue[g].bound
           /\ Enqueue(g, c, Tail(queue[g].waiting))
    /\ UNCHANGED <<slotVars, threadVars, sinkVars, due>>

PushAbort(c) ==
    /\ Running
    /\ pc[c] = "blocked"
    /\ LET g == My(c).logger
       IN  /\ ~queue[g].open
           /\ \E k \in DOMAIN queue[g].waiting :
                 /\ queue[g].waiting[k] = c
                 /\ queue' = [queue EXCEPT ![g].waiting = RemoveAt(@, k)]
    /\ Submitted(c)
    /\ UNCHANGED <<slotVars, threadVars, sinkVars, accepted, due>>

(* Mutant: ruFlushLog does not wait. *)
Await_Not(c) ==
    /\ Running
    /\ pc[c] = "await"
    /\ Return(c)
    /\ UNCHANGED <<slotVars, queue, threadVars, sinkVars, accepted, due>>

Await(c) ==
    /\ Running
    /\ pc[c] = "await" /\ ~My(c).flushReq
    /\ Return(c)
    /\ UNCHANGED <<slotVars, queue, threadVars, sinkVars, accepted, due>>
-----------------------------------------------------------------------------
(* The log thread of the logger in slot s.                                 *)
ThreadAt(s, label) == Running /\ slot[s].logger # 0 /\ thread[slot[s].logger] = label
ThreadGoto(s, label) == thread' = [thread EXCEPT ![slot[s].logger] = label]
Flushed(s, b) == flushed' = [flushed EXCEPT ![slot[s].logger] = b]

ThreadPop(s) ==
    /\ ThreadAt(s, "loop")
    /\ LET g == slot[s].logger  e == Head(queue[g].list)
       IN  /\ queue[g].list # <<>>
           /\ queue' = [queue EXCEPT ![g].list = Tail(@)]
           /\ Sink(g, e)
           /\ ThreadGoto(s, IF e.what = "msg" THEN "tick" ELSE "ack")
    /\ Flushed(s, FALSE)
    /\ UNCHANGED <<slotVars, pc, callVars, accepted, due>>

(* Mutant: a queue that has run dry is not followed by a flush. *)
ThreadTimeout_Quiet(s) ==
    /\ ThreadAt(s, "loop")
    /\ queue[slot[s].logger].list = <<>>
    /\ ThreadGoto(s, "tick")
    /\ UNCHANGED <<slotVars, queue, flushed, sinkVars, pc, callVars, accepted, due>>

(* The pop timed out: the sink is flushed, once for the last message.      *)
ThreadTimeout(s) ==
    /\ ThreadAt(s, "loop")
    /\ LET g == slot[s].logger
       IN  /\ queue[g].list = <<>>
           /\ IF flushed[g] THEN UNCHANGED sinkVars
              ELSE SinkNull(g, "FLUSH") /\ UNCHANGED <<closes, nulls>>
    /\ Flushed(s, TRUE)
    /\ ThreadGoto(s, "tick")
    /\ UNCHANGED <<slotVars, queue, pc, callVars, accepted, due>>

(* Mutant: flushReq is not lowered. *)
ThreadAck_Not(s) ==
    /\ ThreadAt(s, "ack")
    /\ ThreadGoto(s, "tick")
    /\ UNCHANGED <<slotVars, queue, flushed, sinkVars, pc, callVars, accepted, due>>

(* The entry was a NULL: whoever raised flushReq may go on.                *)
ThreadAck(s) ==
    /\ ThreadAt(s, "ack")
    /\ slot' = [slot EXCEPT ![s].flushReq = FALSE]
    /\ Flushed(s, slot[s].flushReq)
    /\ ThreadGoto(s, "tick")
    /\ UNCHANGED <<cur, lmux, loggers, queue, sinkVars, pc, callVars, accepted, due>>

(* FLUSH_INT passed since the last flush.                                  *)
ThreadFlush(s) ==
    /\ ThreadAt(s, "tick")
    /\ Flushed(s, TRUE)
    /\ SinkNull(slot[s].logger, "FLUSH")
    /\ UNCHANGED <<slotVars, queue, thread, closes, nulls, pc, callVars, accepted, due>>

(* Mutant: the thread ends with its queue not empty. *)
ThreadNext_Eager(s) ==
    /\ ThreadAt(s, "tick")
    /\ ThreadGoto(s, IF slot[s].quitting THEN "closing" ELSE "loop")
    /\ UNCHANGED <<slotVars, queue, flushed, sinkVars, pc, callVars, accepted, due>>

(* When quitting, the loop goes on until the queue is empty.               *)
ThreadNext(s) ==
    /\ ThreadAt(s, "tick")
    /\ ThreadGoto(s, IF slot[s].quitting /\ queue[slot[s].logger].list = <<>>
                     THEN "closing" ELSE "loop")
    /\ UNCHANGED <<slotVars, queue, flushed, sinkVars, pc, callVars, accepted, due>>

(* Mutant: the sink is not closed at the end. *)
ThreadClose_Not(s) ==
    /\ ThreadAt(s, "closing")
    /\ slot' = [slot EXCEPT ![s].quitting = FALSE, ![s].flushReq = FALSE]
    /\ ThreadGoto(s, "done")
    /\ UNCHANGED <<cur, lmux, loggers, queue, flushed, sinkVars, pc, callVars, accepted, due>>

(* The sink gets a last CLOSE, and ruSetLogger and all who flush may go on. *)
ThreadClose(s) ==
    /\ ThreadAt(s, "closing")
    /\ SinkFinal(slot[s].logger)
    /\ slot' = [slot EXCEPT ![s].quitting = FALSE, ![s].flushReq = FALSE]
    /\ ThreadGoto(s, "done")
    /\ UNCHANGED <<cur, lmux, loggers, queue, flushed, pc, callVars, accepted, due>>
-----------------------------------------------------------------------------
(* ruSetLogger.  The other slot is filled, lc_ turned to it, and the old   *)
(* slot, at[t], is shut down; lmux_ is kept throughout.                    *)
NewSlot(kind) ==
    CASE kind = "none" -> Blank
      [] kind = "sync" -> [Blank EXCEPT !.logger = loggers + 1, !.queuer = "syncQ"]
      [] kind = "async" -> [Blank EXCEPT !.logger = loggers + 1, !.queuer = "asyncQ",
                                         !.logThread = TRUE]

Lock(t) == lmux = None /\ lmux' = t

SetLogger(t, kind) ==
    /\ Running
    /\ pc[t] = "idle" /\ made[t] < MaxSets
    /\ Lock(t)
    /\ made' = [made EXCEPT ![t] = @ + 1]
    /\ at' = [at EXCEPT ![t] = cur]
    /\ cur' = 3 - cur
    /\ slot' = [slot EXCEPT ![3 - cur] = NewSlot(kind)]
    /\ loggers' = IF kind = "none" THEN loggers ELSE loggers + 1
    /\ IF kind = "async"
       THEN /\ queue' = [queue EXCEPT ![loggers + 1] = [NoQueue EXCEPT !.open = TRUE]]
            /\ thread' = [thread EXCEPT ![loggers + 1] = "loop"]
       ELSE UNCHANGED <<queue, thread>>
    /\ UNCHANGED flushed
    /\ LET g == slot[cur].logger
       IN  /\ pc' = [pc EXCEPT ![t] = IF g = 0 THEN "reset" ELSE "quit"]
           /\ due' = IF g = 0 THEN due ELSE [due EXCEPT ![g] = accepted[g]]
    /\ UNCHANGED <<sinkVars, call, gen, leaving, accepted>>

(* A caller that has read lc_ and is not done with that slot.              *)
InSlot(s) == {c \in Callers : at[c] = s /\ pc[c] \in {"flag", "set", "dispatch", "write", "push"}}
Migrated(s) == Prompt => InSlot(s) = {}

(* A threaded logger is unbound and told to quit.  One without a thread is
   given 10 ms, "hopefully time for all logging to migrate", and closed.   *)
Quit(t) ==
    /\ Running
    /\ pc[t] = "quit"
    /\ LET s == at[t]  g == slot[s].logger
       IN  IF slot[s].logThread
           THEN /\ queue' = [queue EXCEPT ![g].bound = FALSE]
                /\ slot' = [slot EXCEPT ![s].quitting = TRUE]
                /\ Goto(t, "wait") /\ UNCHANGED sinkVars
           ELSE /\ Migrated(s) /\ SinkFinal(g) /\ Goto(t, "reset")
                /\ UNCHANGED <<queue, slot>>
    /\ UNCHANGED <<cur, lmux, loggers, threadVars, accepted, due>>

WaitQuit(t) ==
    /\ Running
    /\ pc[t] = "wait" /\ ~slot[at[t]].quitting
    /\ Goto(t, "free")
    /\ UNCHANGED <<slotVars, queue, threadVars, sinkVars, accepted, due>>

(* freeLogger: the thread is joined, ruListFree lets blocked calls go ...  *)
FreeQueue(t) ==
    /\ Running
    /\ pc[t] = "free"
    /\ LET g == slot[at[t]].logger
       IN  thread[g] = "done" /\ queue' = [queue EXCEPT ![g].open = FALSE]
    /\ Goto(t, "reset")
    /\ UNCHANGED <<slotVars, threadVars, sinkVars, accepted, due>>

(* ... and destroys what is queued; the slot is cleared. *)
Reset(t) ==
    /\ Running
    /\ pc[t] = "reset"
    /\ LET s == at[t]  g == slot[s].logger
       IN  /\ Migrated(s)
           /\ IF g # 0
              THEN /\ queue[g].waiting = <<>>
                   /\ queue' = [queue EXCEPT ![g].list = <<>>]
              ELSE UNCHANGED queue
           /\ slot' = [slot EXCEPT ![s] = Blank]
    /\ lmux' = None
    /\ Return(t)
    /\ UNCHANGED <<cur, loggers, threadVars, sinkVars, accepted, due>>

(* ruLoggerUnblock lifts the limit of the current logger's queue ...       *)
Unblock(c) ==
    /\ Running
    /\ c \in Unblockers /\ pc[c] = "idle" /\ made[c] < MaxCalls
    /\ LET g == slot[cur].logger
       IN  IF slot[cur].logThread /\ queue[g].open
           THEN queue' = [queue EXCEPT ![g].bound = FALSE]
           ELSE UNCHANGED queue
    /\ Goto(c, "info")
    /\ UNCHANGED <<slotVars, threadVars, sinkVars, accepted, due>>

(* ... and logs that, if the level has it. *)
Info(c) ==
    /\ pc[c] = "info"
    /\ \/ RawLog(c)
       \/ /\ Running
          /\ Return(c)
          /\ UNCHANGED <<slotVars, queue, threadVars, sinkVars, accepted, due>>

Crashed == ~Running /\ UNCHANGED vars
Rest == /\ \A t \in Callers \cup Setters : pc[t] = "idle"
        /\ UNCHANGED vars

Caller(c) == Log(c) \/ Flush(c) \/ SinkCtxPath(c) \/ Unblock(c)
Going(c) == Info(c) \/ LastLog(c) \/ FlagLook(c) \/ FlagSet(c) \/ Dispatch(c) \/ Write(c) \/ Push(c)
                \/ PushResume(c) \/ PushAbort(c) \/ Await(c)
LogThread(s) == ThreadPop(s) \/ ThreadTimeout(s) \/ ThreadAck(s) \/ ThreadFlush(s)
                    \/ ThreadNext(s) \/ ThreadClose(s)
Setting(t) == Quit(t) \/ WaitQuit(t) \/ FreeQueue(t) \/ Reset(t)

Next ==
    \/ \E c \in Callers : Caller(c) \/ Going(c)
    \/ \E s \in Slot : LogThread(s)
    \/ \E t \in Setters, kind \in Kinds : SetLogger(t, kind)
    \/ \E t \in Setters : Setting(t)
    \/ Crashed \/ Rest

Spec == Init /\ [][Next]_vars

(* A call in progress and a log thread go on when they can.                *)
FairSpec ==
    /\ Spec
    /\ \A c \in Callers : WF_vars(Going(c))
    /\ \A s \in Slot : WF_vars(LogThread(s))
    /\ \A t \in Setters : WF_vars(Setting(t))
-----------------------------------------------------------------------------
Messages(g) == ToSet(got[g])
Freed(g) == g <= loggers /\ \A s \in Slot : slot[s].logger # g
Returns(c) == pc[c] = "await" /\ pc'[c] = "idle"

(* testLogging.c, cutoff: what was logged before ruStopLogger is called has
   reached the sink before ruStopLogger returns. *)
StopFlushes == \A g \in Logger : Freed(g) => due[g] \subseteq Messages(g)

(* Each sink gets a thread's messages in the order they were logged, each
   once, through queue, waits and replaced loggers. *)
ThreadOrder ==
    \A g \in Logger : \A i, j \in DOMAIN got[g] :
        i < j /\ got[g][i][1] = got[g][j][1] => got[g][i][2] < got[g][j][2]

(* logging.h, ruSetLogger: if the old logger "used ruFileLogSink then the log
   will also have been flushed and closed before this function returns". *)
ClosedAfter == \A g \in Logger : Freed(g) => closes[g] = 1 /\ file[g].wh = None

(* The flush mark is one flag of the slot: the NULL of another thread lowers it
   too, so that a call may return while its own NULL is still queued. *)
Released(c) == \E i \in nulls : i[1] # c
Overtaken(c) == Released(c) /\ call[c] \in ToSet(queue[gen[c]].list)

(* ruFlushLog returns when all its thread logged before has reached the sink,
   unless it is overtaken (logging.c:438-440, against logging.h:421). *)
FlushCovers ==
    [][\A c \in Callers : Returns(c) /\ gen[c] # 0 /\ leaving[c] = None /\ ~Overtaken(c) =>
          {i \in accepted[gen[c]] : i[1] = c} \subseteq Messages(gen[c])]_vars

(* logging.h, ruSinkCtxPath: "this function will block until the old file has
   been closed", unless it is overtaken. *)
PathClosed ==
    [][\A c \in Callers : Returns(c) /\ leaving[c] # None /\ ~Overtaken(c) =>
          file[gen[c]].wh # leaving[c] /\ file[gen[c]].path # leaving[c]]_vars

(* checkCb, "to better define the cut over moment": what a thread logged just
   before it changes the path has gone to the old file, or to stderr.  After a
   change that was overtaken its CLOSE may still come in the next one. *)
CutOver ==
    [][\A c \in Callers : Returns(c) /\ leaving[c] # None /\ ~Released(c) =>
          LET i == <<c, call[c].item[2] - 1>>
          IN  i \in accepted[gen[c]] => wrote[i] \in {leaving[c], None}]_vars

(* Calls return: what is blocked or waits for the log thread goes on, and so
   does the shutdown of a logger. *)
CallsReturn ==
    /\ \A c \in Callers : pc[c] # "idle" ~> pc[c] = "idle"
    /\ \A t \in Setters : lmux = t ~> lmux # t

(* logging.h, ruSetLogger: the log thread "always follows up with one NULL
   message when there are no more messages": its file does not stay open. *)
QuietCloses ==
    \A g \in Logger : thread[g] # "none" /\ file[g].wh # None ~> file[g].wh = None
=============================================================================
