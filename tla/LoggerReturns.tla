---------------------------- MODULE LoggerReturns ----------------------------
(***************************************************************************)
(* What has happened when a call of the logger returns, if each call       *)
(* leaves a slot before it is freed: ruSetLogger has closed the sink of    *)
(* the old logger, once and for all; ruFlushLog of the one thread that     *)
(* flushes has had written what that thread logged before; ruSinkCtxPath   *)
(* has moved its logger off the old path, after what its thread had        *)
(* logged.                                                                 *)
(***************************************************************************)
EXTENDS LoggerProofs

Closed(g) == closes[g] = 1 /\ file[g].wh = None

(* A thread closes the sink of its logger as it ends. *)
EndOK(g) ==
    /\ thread[g] \notin {"none", "done"} => closes[g] = 0
    /\ thread[g] = "done" \/ Freed(g) => Closed(g)

(* The sink of a logger without a thread is closed by the setter, when nobody
   works on its slot any more. *)
Left(s) == lmux # None /\ s = 3 - cur /\ pc[lmux] = "reset"
LeftOK(s) ==
    slot[s].logger # 0 /\ ~slot[s].logThread =>
        IF Left(s) THEN Closed(slot[s].logger) /\ InSlot(s) = {}
                   ELSE closes[slot[s].logger] = 0

WriterOK(c) == pc[c] = "write" => slot[at[c]].queuer = "syncQ"

CloseInv ==
    /\ \A g \in Logger : EndOK(g)
    /\ \A s \in Slot : LeftOK(s)
    /\ \A c \in Callers : WriterOK(c)
-----------------------------------------------------------------------------
(* What a step can do to the sink of a logger and its thread: nothing, ... *)
Kept(g) == closes'[g] = closes[g] /\ file'[g].wh = file[g].wh /\ thread'[g] = thread[g]
(* ... the thread uses it, ... *)
Used(g) ==
    /\ closes'[g] = closes[g]
    /\ \E s \in Slot : slot[s].logger = g
    /\ thread[g] \in {"loop", "ack", "tick"} /\ thread'[g] \in {"loop", "ack", "tick", "closing"}
(* ... a caller writes, ... *)
Written(g) ==
    /\ closes'[g] = closes[g] /\ thread'[g] = thread[g]
    /\ \E c \in Callers : pc[c] = "write" /\ slot[at[c]].logger = g
(* ... the thread or the setter closes it, ... *)
EndedBy(s) == thread[slot[s].logger] = "closing" /\ thread'[slot[s].logger] = "done"
QuitBy(t) == Quit(t) /\ ~slot[at[t]].logThread
Closing(g) ==
    /\ closes'[g] = closes[g] + 1 /\ file'[g].wh = None
    /\ \/ \E s \in Slot : slot[s].logger = g /\ EndedBy(s)
       \/ thread'[g] = thread[g] /\ \E t \in Setters : slot[at[t]].logger = g /\ QuitBy(t)
(* ... or the thread is started. *)
Born(g) ==
    /\ closes'[g] = closes[g]
    /\ g = loggers + 1 /\ thread[g] = "none" /\ thread'[g] = "loop"

LoggerMove(g) == Kept(g) \/ Used(g) \/ Written(g) \/ Closing(g) \/ Born(g)

(* A NULL closes the file of its sink, and no other. *)
LEMMA NullEffect ==
    ASSUME SinkTypes, NEW h \in Logger, NEW what, SinkNull(h, what)
    PROVE  /\ file'[h].wh = None
           /\ \A g \in Logger : g # h => file'[g] = file[g]
<1>1. file[h] \in FileType
  BY DEF SinkTypes
<1> QED
  BY <1>1 DEF SinkNull, SinkTypes, FileType

(* A change of the path leaves the file open. *)
LEMMA PathMoves ==
    ASSUME Types, NEW c \in Callers, SinkCtxPath(c), NEW g \in Logger
    PROVE  LoggerMove(g)
<1>1. UNCHANGED <<closes, thread>>
  BY DEF SinkCtxPath, ChangePath, Begin, threadVars
<1>2. PICK h, p : file' = [file EXCEPT ![h].newPath = p]
  BY DEF SinkCtxPath
<1>3. file[g] \in FileType /\ file \in [Logger -> FileType]
  BY DEF Types, SinkTypes
<1>4. file'[g].wh = file[g].wh
  <2>1. CASE g = h
    <3>1. file'[g] = [file[g] EXCEPT !.newPath = p]
      BY <1>2, <1>3, <2>1
    <3> QED
      BY <1>3, <3>1 DEF FileType
  <2>2. CASE g # h
    BY <1>2, <1>3, <2>2
  <2> QED
    BY <2>1, <2>2
<1> QED
  BY <1>1, <1>4 DEF LoggerMove, Kept

(* A caller that writes uses the sink of its slot. *)
LEMMA WriteMoves ==
    ASSUME Types, SlotInv, NEW c \in Callers, Write(c), NEW g \in Logger
    PROVE  LoggerMove(g)
<1> SinkTypes
  BY DEF Types
<1> DEFINE h == slot[at[c]].logger
<1>1. UNCHANGED <<closes, thread>> /\ pc[c] = "write"
  BY DEF Write, Sink, sinkVars, threadVars
<1>2. CASE h = g
  BY <1>1, <1>2 DEF LoggerMove, Written
<1>3. CASE h # g
  <2>1. file'[g] = file[g]
    <3>1. CASE h = 0
      BY <3>1 DEF Write, My, sinkVars
    <3>2. CASE h # 0
      BY <1>3, <3>2, SinkElsewhere DEF Write, My
    <3> QED
      BY <3>1, <3>2
  <2> QED
    BY <1>1, <2>1 DEF LoggerMove, Kept
<1> QED
  BY <1>2, <1>3

(* A log thread uses the sink of its logger until it closes it. *)
LEMMA ThreadMoves ==
    ASSUME Types, SlotInv, NEW s \in Slot, LogThread(s), NEW g \in Logger
    PROVE  LoggerMove(g)
<1> SinkTypes /\ ThreadTypes
  BY DEF Types
<1> DEFINE h == slot[s].logger
<1>1. h \in Logger
  BY InLogger DEF LogThread, ThreadPop, ThreadTimeout, ThreadAck, ThreadFlush, ThreadNext,
                  ThreadClose, ThreadAt
<1>2. CASE ThreadClose(s)
  <2>1. /\ SinkNull(h, "CLOSE") /\ closes' = [closes EXCEPT ![h] = @ + 1]
        /\ thread[h] = "closing" /\ thread' = [thread EXCEPT ![h] = "done"]
    BY <1>2 DEF ThreadClose, SinkFinal, ThreadAt, ThreadGoto
  <2>2. file'[h].wh = None /\ (h # g => file'[g] = file[g])
    BY <1>1, <2>1, NullEffect
  <2>3. CASE h = g
    BY <1>1, <2>1, <2>2, <2>3 DEF LoggerMove, Closing, EndedBy, SinkTypes, ThreadTypes
  <2>4. CASE h # g
    BY <1>1, <2>1, <2>2, <2>4 DEF LoggerMove, Kept, SinkTypes, ThreadTypes
  <2> QED
    BY <2>3, <2>4
<1>3. CASE ~ThreadClose(s)
  <2>1. UNCHANGED closes
    BY <1>3 DEF LogThread, ThreadPop, ThreadTimeout, ThreadAck, ThreadFlush, ThreadNext, Sink,
                sinkVars
  <2>2. /\ thread[h] \in {"loop", "ack", "tick"}
        /\ \/ UNCHANGED thread
           \/ \E l \in {"loop", "ack", "tick", "closing"} : thread' = [thread EXCEPT ![h] = l]
    BY <1>3 DEF LogThread, ThreadPop, ThreadTimeout, ThreadAck, ThreadFlush, ThreadNext, ThreadAt,
                ThreadGoto
  <2>3. \/ \E e : Sink(h, e)
        \/ \E what : SinkNull(h, what)
        \/ UNCHANGED file
    BY <1>3 DEF LogThread, ThreadPop, ThreadTimeout, ThreadAck, ThreadFlush, ThreadNext, sinkVars
  <2>4. CASE h = g
    <3>1. thread'[g] \in {"loop", "ack", "tick", "closing"}
      BY <1>1, <2>2, <2>4 DEF ThreadTypes
    <3> QED
      BY <2>1, <2>2, <2>4, <3>1 DEF LoggerMove, Used
  <2>5. CASE h # g
    <3>1. thread'[g] = thread[g]
      BY <1>1, <2>2, <2>5 DEF ThreadTypes
    <3>2. file'[g] = file[g]
      BY <2>3, <2>5, SinkElsewhere
    <3> QED
      BY <2>1, <3>1, <3>2 DEF LoggerMove, Kept
  <2> QED
    BY <2>4, <2>5
<1> QED
  BY <1>2, <1>3

(* A setter closes the sink of a logger that has no thread. *)
LEMMA QuitMoves ==
    ASSUME Types, SetterInv, SlotInv, ShutInv, NEW t \in Setters, Quit(t), NEW g \in Logger
    PROVE  LoggerMove(g)
<1> SinkTypes /\ ThreadTypes
  BY DEF Types
<1> DEFINE h == slot[at[t]].logger
<1>1. h \in Logger /\ UNCHANGED thread
  <2>1. h # 0 /\ at[t] \in Slot
    BY SetterAt DEF Quit, ShutInv
  <2> QED
    BY <2>1, InLogger DEF Quit, threadVars
<1>2. CASE slot[at[t]].logThread
  BY <1>1, <1>2 DEF Quit, sinkVars, LoggerMove, Kept
<1>3. CASE ~slot[at[t]].logThread
  <2>1. SinkNull(h, "CLOSE") /\ closes' = [closes EXCEPT ![h] = @ + 1]
    BY <1>3 DEF Quit, SinkFinal
  <2>2. file'[h].wh = None /\ (h # g => file'[g] = file[g])
    BY <1>1, <2>1, NullEffect
  <2>3. CASE h = g
    BY <1>1, <1>3, <2>1, <2>2, <2>3 DEF LoggerMove, Closing, QuitBy, SinkTypes
  <2>4. CASE h # g
    BY <1>1, <2>1, <2>2, <2>4 DEF LoggerMove, Kept, SinkTypes
  <2> QED
    BY <2>3, <2>4
<1> QED
  BY <1>2, <1>3

(* No step does anything else. *)
LEMMA LoggerMoves ==
    ASSUME Inductive, [Next]_vars, NEW g \in Logger
    PROVE  LoggerMove(g)
<1> Types /\ CountInv /\ SetterInv /\ SlotInv /\ ShutInv /\ FreshInv
  BY TypeParts DEF Inductive
<1> USE DEF slotVars, sinkVars, threadVars, vars
<1>1. ASSUME NEW c \in Callers, pc[c] \in {"idle", "info"}, RawLog(c)
      PROVE  LoggerMove(g)
  BY <1>1 DEF RawLog, Begin, LoggerMove, Kept
<1>2. ASSUME NEW c \in Callers, Flush(c)
      PROVE  LoggerMove(g)
  BY <1>2 DEF Flush, Begin, LoggerMove, Kept
<1>3. ASSUME NEW c \in Callers, SinkCtxPath(c)
      PROVE  LoggerMove(g)
  BY <1>3, PathMoves
<1>4. ASSUME NEW c \in Callers, Unblock(c)
      PROVE  LoggerMove(g)
  BY <1>4 DEF Unblock, LoggerMove, Kept
<1>5. ASSUME NEW c \in Callers, Return(c), pc[c] = "info",
             UNCHANGED <<slotVars, queue, threadVars, sinkVars, accepted, due>>
      PROVE  LoggerMove(g)
  BY <1>5 DEF LoggerMove, Kept
<1>6. ASSUME NEW c \in Callers, LastLog(c)
      PROVE  LoggerMove(g)
  BY <1>6 DEF LastLog, LoggerMove, Kept
<1>7. ASSUME NEW c \in Callers, FlagLook(c)
      PROVE  LoggerMove(g)
  BY <1>7 DEF FlagLook, LoggerMove, Kept
<1>8. ASSUME NEW c \in Callers, FlagSet(c)
      PROVE  LoggerMove(g)
  BY <1>8 DEF FlagSet, LoggerMove, Kept
<1>9. ASSUME NEW c \in Callers, Dispatch(c)
      PROVE  LoggerMove(g)
  BY <1>9 DEF Dispatch, Submitted, LoggerMove, Kept
<1>10. ASSUME NEW c \in Callers, Write(c)
      PROVE  LoggerMove(g)
  BY <1>10, WriteMoves
<1>11. ASSUME NEW c \in Callers, Push(c)
      PROVE  LoggerMove(g)
  BY <1>11 DEF Push, Enqueue, Accept, Submitted, LoggerMove, Kept
<1>12. ASSUME NEW c \in Callers, PushResume(c)
      PROVE  LoggerMove(g)
  BY <1>12 DEF PushResume, Enqueue, Accept, Submitted, LoggerMove, Kept
<1>13. ASSUME NEW c \in Callers, PushAbort(c)
      PROVE  LoggerMove(g)
  BY <1>13 DEF PushAbort, Submitted, LoggerMove, Kept
<1>14. ASSUME NEW c \in Callers, Await(c)
      PROVE  LoggerMove(g)
  BY <1>14 DEF Await, LoggerMove, Kept
<1>15. ASSUME NEW s \in Slot, ThreadPop(s)
      PROVE  LoggerMove(g)
  BY <1>15, ThreadMoves, Zenon DEF LogThread
<1>16. ASSUME NEW s \in Slot, ThreadTimeout(s)
      PROVE  LoggerMove(g)
  BY <1>16, ThreadMoves, Zenon DEF LogThread
<1>17. ASSUME NEW s \in Slot, ThreadAck(s)
      PROVE  LoggerMove(g)
  BY <1>17, ThreadMoves, Zenon DEF LogThread
<1>18. ASSUME NEW s \in Slot, ThreadFlush(s)
      PROVE  LoggerMove(g)
  BY <1>18, ThreadMoves, Zenon DEF LogThread
<1>19. ASSUME NEW s \in Slot, ThreadNext(s)
      PROVE  LoggerMove(g)
  BY <1>19, ThreadMoves, Zenon DEF LogThread
<1>20. ASSUME NEW s \in Slot, ThreadClose(s)
      PROVE  LoggerMove(g)
  BY <1>20, ThreadMoves, Zenon DEF LogThread
<1>21. ASSUME NEW t \in Setters, NEW kind \in Kinds, SetLogger(t, kind)
      PROVE  LoggerMove(g)
  <2>1. UNCHANGED sinkVars /\ loggers + 1 \in Logger
    BY <1>21, SetLoggerEffect DEF SetLogger
  <2>2. CASE g = loggers + 1
    <3>1. thread[g] = "none" /\ thread'[g] \in {"none", "loop"}
      <4>1. thread[g] = "none" /\ thread \in [Logger -> {"none", "loop", "ack", "tick", "closing", "done"}]
        BY <2>1, <2>2, Bounds DEF FreshInv, FreshOK, Types, SlotTypes, ThreadTypes
      <4> QED
        BY <1>21, <2>1, <2>2, <4>1 DEF SetLogger
    <3> QED
      BY <2>1, <2>2, <3>1 DEF LoggerMove, Kept, Born
  <2>3. CASE g # loggers + 1
    BY <1>21, <2>1, <2>3, SetLoggerEffect DEF LoggerMove, Kept
  <2> QED
    BY <2>2, <2>3
<1>22. ASSUME NEW t \in Setters, Quit(t)
      PROVE  LoggerMove(g)
  BY <1>22, QuitMoves
<1>23. ASSUME NEW t \in Setters, WaitQuit(t)
      PROVE  LoggerMove(g)
  BY <1>23 DEF WaitQuit, LoggerMove, Kept
<1>24. ASSUME NEW t \in Setters, FreeQueue(t)
      PROVE  LoggerMove(g)
  BY <1>24 DEF FreeQueue, LoggerMove, Kept
<1>25. ASSUME NEW t \in Setters, Reset(t)
      PROVE  LoggerMove(g)
  BY <1>25 DEF Reset, LoggerMove, Kept
<1>26. ASSUME UNCHANGED vars
      PROVE  LoggerMove(g)
  BY <1>26 DEF LoggerMove, Kept
<1> QED
  BY <1>1, <1>2, <1>3, <1>4, <1>5, <1>6, <1>7, <1>8, <1>9, <1>10, <1>11, <1>12, <1>13, <1>14, <1>15, <1>16, <1>17, <1>18, <1>19, <1>20, <1>21, <1>22, <1>23, <1>24, <1>25, <1>26
     DEF Next, Caller, Going, LogThread, Setting, Log, Info, Crashed, Rest

(* Nobody enters a slot that is not the current one. *)
LEMMA NobodyEnters ==
    ASSUME Inductive, [Next]_vars, NEW u, u # cur
    PROVE  InSlot(u)' \subseteq InSlot(u)
<1> Types
  BY TypeParts DEF Inductive
<1> USE LoggerAssumption
    DEF Types, PlaceTypes, slotVars, sinkVars, callVars, threadVars, vars, Goto, Return, Threads, My
<1>1. ASSUME NEW c \in Callers, pc[c] \in {"idle", "info"}, RawLog(c)
      PROVE  InSlot(u)' \subseteq InSlot(u)
  BY <1>1 DEF RawLog, Begin, InSlot
<1>2. ASSUME NEW c \in Callers, Flush(c)
      PROVE  InSlot(u)' \subseteq InSlot(u)
  BY <1>2 DEF Flush, Begin, InSlot
<1>3. ASSUME NEW c \in Callers, SinkCtxPath(c)
      PROVE  InSlot(u)' \subseteq InSlot(u)
  BY <1>3 DEF SinkCtxPath, ChangePath, Begin, InSlot
<1>4. ASSUME NEW c \in Callers, Unblock(c)
      PROVE  InSlot(u)' \subseteq InSlot(u)
  BY <1>4 DEF Unblock, InSlot
<1>5. ASSUME NEW c \in Callers, Return(c), pc[c] = "info",
             UNCHANGED <<slotVars, queue, threadVars, sinkVars, accepted, due>>
      PROVE  InSlot(u)' \subseteq InSlot(u)
  BY <1>5 DEF InSlot
<1>6. ASSUME NEW c \in Callers, LastLog(c)
      PROVE  InSlot(u)' \subseteq InSlot(u)
  BY <1>6 DEF LastLog, InSlot
<1>7. ASSUME NEW c \in Callers, FlagLook(c)
      PROVE  InSlot(u)' \subseteq InSlot(u)
  BY <1>7 DEF FlagLook, InSlot
<1>8. ASSUME NEW c \in Callers, FlagSet(c)
      PROVE  InSlot(u)' \subseteq InSlot(u)
  BY <1>8 DEF FlagSet, InSlot
<1>9. ASSUME NEW c \in Callers, Dispatch(c)
      PROVE  InSlot(u)' \subseteq InSlot(u)
  BY <1>9 DEF Dispatch, Submitted, InSlot
<1>10. ASSUME NEW c \in Callers, Write(c)
      PROVE  InSlot(u)' \subseteq InSlot(u)
  BY <1>10 DEF Write, Accept, Submitted, InSlot
<1>11. ASSUME NEW c \in Callers, Push(c)
      PROVE  InSlot(u)' \subseteq InSlot(u)
  BY <1>11 DEF Push, Enqueue, Accept, Submitted, InSlot
<1>12. ASSUME NEW c \in Callers, PushResume(c)
      PROVE  InSlot(u)' \subseteq InSlot(u)
  BY <1>12 DEF PushResume, Enqueue, Accept, Submitted, InSlot
<1>13. ASSUME NEW c \in Callers, PushAbort(c)
      PROVE  InSlot(u)' \subseteq InSlot(u)
  BY <1>13 DEF PushAbort, Submitted, InSlot
<1>14. ASSUME NEW c \in Callers, Await(c)
      PROVE  InSlot(u)' \subseteq InSlot(u)
  BY <1>14 DEF Await, InSlot
<1>15. ASSUME NEW s \in Slot, ThreadPop(s)
      PROVE  InSlot(u)' \subseteq InSlot(u)
  BY <1>15 DEF ThreadPop, InSlot
<1>16. ASSUME NEW s \in Slot, ThreadTimeout(s)
      PROVE  InSlot(u)' \subseteq InSlot(u)
  BY <1>16 DEF ThreadTimeout, InSlot
<1>17. ASSUME NEW s \in Slot, ThreadAck(s)
      PROVE  InSlot(u)' \subseteq InSlot(u)
  BY <1>17 DEF ThreadAck, InSlot
<1>18. ASSUME NEW s \in Slot, ThreadFlush(s)
      PROVE  InSlot(u)' \subseteq InSlot(u)
  BY <1>18 DEF ThreadFlush, InSlot
<1>19. ASSUME NEW s \in Slot, ThreadNext(s)
      PROVE  InSlot(u)' \subseteq InSlot(u)
  BY <1>19 DEF ThreadNext, InSlot
<1>20. ASSUME NEW s \in Slot, ThreadClose(s)
      PROVE  InSlot(u)' \subseteq InSlot(u)
  BY <1>20 DEF ThreadClose, SinkFinal, InSlot
<1>21. ASSUME NEW t \in Setters, NEW kind \in Kinds, SetLogger(t, kind)
      PROVE  InSlot(u)' \subseteq InSlot(u)
  BY <1>21 DEF SetLogger, Lock, InSlot
<1>22. ASSUME NEW t \in Setters, Quit(t)
      PROVE  InSlot(u)' \subseteq InSlot(u)
  BY <1>22 DEF Quit, SinkFinal, InSlot
<1>23. ASSUME NEW t \in Setters, WaitQuit(t)
      PROVE  InSlot(u)' \subseteq InSlot(u)
  BY <1>23 DEF WaitQuit, InSlot
<1>24. ASSUME NEW t \in Setters, FreeQueue(t)
      PROVE  InSlot(u)' \subseteq InSlot(u)
  BY <1>24 DEF FreeQueue, InSlot
<1>25. ASSUME NEW t \in Setters, Reset(t)
      PROVE  InSlot(u)' \subseteq InSlot(u)
  BY <1>25 DEF Reset, InSlot
<1>26. ASSUME UNCHANGED vars
      PROVE  InSlot(u)' \subseteq InSlot(u)
  BY <1>26 DEF InSlot
<1> QED
  BY <1>1, <1>2, <1>3, <1>4, <1>5, <1>6, <1>7, <1>8, <1>9, <1>10, <1>11, <1>12, <1>13, <1>14, <1>15, <1>16, <1>17, <1>18, <1>19, <1>20, <1>21, <1>22, <1>23, <1>24, <1>25, <1>26
     DEF Next, Caller, Going, LogThread, Setting, Log, Info, Crashed, Rest

(* What a step can do to the slots: nothing that matters here, or one of these. *)
SlotsKept ==
    /\ UNCHANGED <<cur, loggers>>
    /\ \A s \in Slot : /\ slot'[s].logger = slot[s].logger
                       /\ slot'[s].queuer = slot[s].queuer
                       /\ slot'[s].logThread = slot[s].logThread
                       /\ slot[s].logThread \/ (Left(s)' <=> Left(s))

SlotMove ==
    \/ SlotsKept
    \/ \E t \in Setters : QuitBy(t) \/ Reset(t) \/ \E kind \in Kinds : SetLogger(t, kind)

(* The place of who shuts a logger down is not changed by others. *)
LEMMA LeftKept ==
    ASSUME Types, SetterInv, UNCHANGED <<cur, lmux>>, \A t \in Setters : pc'[t] = pc[t], NEW s
    PROVE  Left(s)' <=> Left(s)
BY LoggerAssumption DEF Left, Types, SlotTypes

(* No step does anything else. *)
LEMMA SlotMoves ==
    ASSUME Inductive, [Next]_vars
    PROVE  SlotMove
<1> Types /\ SetterInv /\ ShutInv
  BY TypeParts DEF Inductive
<1> SlotTypes
  BY DEF Types
<1> USE LoggerAssumption
    DEF Types, PlaceTypes, slotVars, sinkVars, callVars, threadVars, vars, Goto, Return, Threads, My
<1>1. ASSUME NEW c \in Callers, pc[c] \in {"idle", "info"}, RawLog(c)
      PROVE  SlotMove
  <2>1. UNCHANGED <<slot, cur, loggers, lmux>> /\ \A t \in Setters : pc'[t] = pc[t]
    BY <1>1 DEF RawLog, Begin
  <2> QED
    BY <2>1, LeftKept DEF SlotMove, SlotsKept
<1>2. ASSUME NEW c \in Callers, Flush(c)
      PROVE  SlotMove
  <2>1. UNCHANGED <<slot, cur, loggers, lmux>> /\ \A t \in Setters : pc'[t] = pc[t]
    BY <1>2 DEF Flush, Begin
  <2> QED
    BY <2>1, LeftKept DEF SlotMove, SlotsKept
<1>3. ASSUME NEW c \in Callers, SinkCtxPath(c)
      PROVE  SlotMove
  <2>1. UNCHANGED <<slot, cur, loggers, lmux>> /\ \A t \in Setters : pc'[t] = pc[t]
    BY <1>3 DEF SinkCtxPath, ChangePath, Begin
  <2> QED
    BY <2>1, LeftKept DEF SlotMove, SlotsKept
<1>4. ASSUME NEW c \in Callers, Unblock(c)
      PROVE  SlotMove
  <2>1. UNCHANGED <<slot, cur, loggers, lmux>> /\ \A t \in Setters : pc'[t] = pc[t]
    BY <1>4 DEF Unblock
  <2> QED
    BY <2>1, LeftKept DEF SlotMove, SlotsKept
<1>5. ASSUME NEW c \in Callers, Return(c), pc[c] = "info",
             UNCHANGED <<slotVars, queue, threadVars, sinkVars, accepted, due>>
      PROVE  SlotMove
  <2>1. UNCHANGED <<slot, cur, loggers, lmux>> /\ \A t \in Setters : pc'[t] = pc[t]
    BY <1>5 DEF Return
  <2> QED
    BY <2>1, LeftKept DEF SlotMove, SlotsKept
<1>6. ASSUME NEW c \in Callers, LastLog(c)
      PROVE  SlotMove
  <2>1. UNCHANGED <<slot, cur, loggers, lmux>> /\ \A t \in Setters : pc'[t] = pc[t]
    BY <1>6 DEF LastLog
  <2> QED
    BY <2>1, LeftKept DEF SlotMove, SlotsKept
<1>7. ASSUME NEW c \in Callers, FlagLook(c)
      PROVE  SlotMove
  <2>1. UNCHANGED <<slot, cur, loggers, lmux>> /\ \A t \in Setters : pc'[t] = pc[t]
    BY <1>7 DEF FlagLook
  <2> QED
    BY <2>1, LeftKept DEF SlotMove, SlotsKept
<1>8. ASSUME NEW c \in Callers, FlagSet(c)
      PROVE  SlotMove
  <2>1. UNCHANGED <<cur, loggers, lmux>> /\ \A t \in Setters : pc'[t] = pc[t]
    BY <1>8 DEF FlagSet
  <2>2. \A u \in Slot : /\ slot'[u].logger = slot[u].logger
                        /\ slot'[u].queuer = slot[u].queuer
                        /\ slot'[u].logThread = slot[u].logThread
    BY <1>8, LowerEffect DEF FlagSet
  <2> QED
    BY <2>1, <2>2, LeftKept DEF SlotMove, SlotsKept
<1>9. ASSUME NEW c \in Callers, Dispatch(c)
      PROVE  SlotMove
  <2>1. UNCHANGED <<slot, cur, loggers, lmux>> /\ \A t \in Setters : pc'[t] = pc[t]
    BY <1>9 DEF Dispatch, Submitted
  <2> QED
    BY <2>1, LeftKept DEF SlotMove, SlotsKept
<1>10. ASSUME NEW c \in Callers, Write(c)
      PROVE  SlotMove
  <2>1. UNCHANGED <<slot, cur, loggers, lmux>> /\ \A t \in Setters : pc'[t] = pc[t]
    BY <1>10 DEF Write, Accept, Submitted
  <2> QED
    BY <2>1, LeftKept DEF SlotMove, SlotsKept
<1>11. ASSUME NEW c \in Callers, Push(c)
      PROVE  SlotMove
  <2>1. UNCHANGED <<slot, cur, loggers, lmux>> /\ \A t \in Setters : pc'[t] = pc[t]
    BY <1>11 DEF Push, Enqueue, Accept, Submitted
  <2> QED
    BY <2>1, LeftKept DEF SlotMove, SlotsKept
<1>12. ASSUME NEW c \in Callers, PushResume(c)
      PROVE  SlotMove
  <2>1. UNCHANGED <<slot, cur, loggers, lmux>> /\ \A t \in Setters : pc'[t] = pc[t]
    BY <1>12 DEF PushResume, Enqueue, Accept, Submitted
  <2> QED
    BY <2>1, LeftKept DEF SlotMove, SlotsKept
<1>13. ASSUME NEW c \in Callers, PushAbort(c)
      PROVE  SlotMove
  <2>1. UNCHANGED <<slot, cur, loggers, lmux>> /\ \A t \in Setters : pc'[t] = pc[t]
    BY <1>13 DEF PushAbort, Submitted
  <2> QED
    BY <2>1, LeftKept DEF SlotMove, SlotsKept
<1>14. ASSUME NEW c \in Callers, Await(c)
      PROVE  SlotMove
  <2>1. UNCHANGED <<slot, cur, loggers, lmux>> /\ \A t \in Setters : pc'[t] = pc[t]
    BY <1>14 DEF Await
  <2> QED
    BY <2>1, LeftKept DEF SlotMove, SlotsKept
<1>15. ASSUME NEW s \in Slot, ThreadPop(s)
      PROVE  SlotMove
  BY <1>15 DEF ThreadPop, SlotMove, SlotsKept, Left
<1>16. ASSUME NEW s \in Slot, ThreadTimeout(s)
      PROVE  SlotMove
  BY <1>16 DEF ThreadTimeout, SlotMove, SlotsKept, Left
<1>17. ASSUME NEW s \in Slot, ThreadAck(s)
      PROVE  SlotMove
  <2>1. UNCHANGED <<cur, loggers, lmux>> /\ \A t \in Setters : pc'[t] = pc[t]
    BY <1>17 DEF ThreadAck
  <2>2. \A u \in Slot : /\ slot'[u].logger = slot[u].logger
                        /\ slot'[u].queuer = slot[u].queuer
                        /\ slot'[u].logThread = slot[u].logThread
    BY <1>17, LowerEffect DEF ThreadAck
  <2> QED
    BY <2>1, <2>2, LeftKept DEF SlotMove, SlotsKept
<1>18. ASSUME NEW s \in Slot, ThreadFlush(s)
      PROVE  SlotMove
  BY <1>18 DEF ThreadFlush, SlotMove, SlotsKept, Left
<1>19. ASSUME NEW s \in Slot, ThreadNext(s)
      PROVE  SlotMove
  BY <1>19 DEF ThreadNext, SlotMove, SlotsKept, Left
<1>20. ASSUME NEW s \in Slot, ThreadClose(s)
      PROVE  SlotMove
  <2>1. UNCHANGED <<cur, loggers, lmux>> /\ \A t \in Setters : pc'[t] = pc[t]
    BY <1>20 DEF ThreadClose, SinkFinal
  <2>2. \A u \in Slot : /\ slot'[u].logger = slot[u].logger
                        /\ slot'[u].queuer = slot[u].queuer
                        /\ slot'[u].logThread = slot[u].logThread
    BY <1>20, LowerEffect DEF ThreadClose, SinkFinal
  <2> QED
    BY <2>1, <2>2, LeftKept DEF SlotMove, SlotsKept
<1>21. ASSUME NEW t \in Setters, NEW kind \in Kinds, SetLogger(t, kind)
      PROVE  SlotMove
  BY <1>21 DEF SlotMove
<1>22. ASSUME NEW t \in Setters, Quit(t)
      PROVE  SlotMove
  <2>1. CASE ~slot[at[t]].logThread
    BY <1>22, <2>1 DEF SlotMove, QuitBy
  <2>2. CASE slot[at[t]].logThread
    <3>1. lmux = t /\ at[t] = 3 - cur /\ at[t] \in Slot
      BY <1>22, SetterAt DEF Quit
    <3>2. UNCHANGED <<cur, loggers, lmux>> /\ slot' = [slot EXCEPT ![at[t]].quitting = TRUE]
      BY <1>22, <2>2 DEF Quit
    <3>3. \A s \in Slot : /\ slot'[s].logger = slot[s].logger
                          /\ slot'[s].queuer = slot[s].queuer
                          /\ slot'[s].logThread = slot[s].logThread
      BY <3>1, <3>2, LowerEffect
    <3> QED
      BY <2>2, <3>1, <3>2, <3>3 DEF SlotMove, SlotsKept, Left
  <2> QED
    BY <2>1, <2>2
<1>23. ASSUME NEW t \in Setters, WaitQuit(t)
      PROVE  SlotMove
  <2>1. UNCHANGED <<slot, cur, lmux, loggers>> /\ pc[t] \in {"wait", "free"}
    BY <1>23 DEF WaitQuit
  <2>2. lmux = t /\ slot[3 - cur].logThread
    BY <2>1, SetterAt DEF ShutInv
  <2> QED
    BY <2>1, <2>2 DEF SlotMove, SlotsKept, Left
<1>24. ASSUME NEW t \in Setters, FreeQueue(t)
      PROVE  SlotMove
  <2>1. UNCHANGED <<slot, cur, lmux, loggers>> /\ pc[t] \in {"wait", "free"}
    BY <1>24 DEF FreeQueue
  <2>2. lmux = t /\ slot[3 - cur].logThread
    BY <2>1, SetterAt DEF ShutInv
  <2> QED
    BY <2>1, <2>2 DEF SlotMove, SlotsKept, Left
<1>25. ASSUME NEW t \in Setters, Reset(t)
      PROVE  SlotMove
  BY <1>25 DEF SlotMove
<1>26. ASSUME UNCHANGED vars
      PROVE  SlotMove
  BY <1>26 DEF SlotMove, SlotsKept, Left
<1> QED
  BY <1>1, <1>2, <1>3, <1>4, <1>5, <1>6, <1>7, <1>8, <1>9, <1>10, <1>11, <1>12, <1>13, <1>14, <1>15, <1>16, <1>17, <1>18, <1>19, <1>20, <1>21, <1>22, <1>23, <1>24, <1>25, <1>26
     DEF Next, Caller, Going, LogThread, Setting, Log, Info, Crashed, Rest

(* A slot that is freed is one that its callers have left. *)
LEMMA LeftQuit ==
    ASSUME Prompt, Inductive, [Next]_vars, CloseInv, NEW t \in Setters, QuitBy(t), NEW s \in Slot
    PROVE  LeftOK(s)'
<1> Types /\ SetterInv /\ SlotInv /\ ShutInv
  BY TypeParts DEF Inductive
<1> SinkTypes
  BY DEF Types
<1>1. /\ pc[t] = "quit" /\ lmux = t /\ lmux # None /\ at[t] = 3 - cur /\ at[t] \in Slot
      /\ cur \in Slot
  BY SetterAt DEF QuitBy, Quit
<1>2. /\ UNCHANGED <<slot, cur, lmux>> /\ pc'[t] = "reset" /\ InSlot(at[t]) = {}
      /\ SinkFinal(slot[at[t]].logger)
  BY <1>1 DEF QuitBy, Quit, Goto, Migrated, Types, PlaceTypes, Threads
<1> DEFINE h == slot[at[t]].logger
<1>3. h \in Logger
  BY <1>1, InLogger DEF ShutInv
<1>4. /\ closes'[h] = closes[h] + 1 /\ file'[h].wh = None
      /\ \A g \in Logger : g # h => closes'[g] = closes[g]
  BY <1>2, <1>3, NullEffect DEF SinkFinal, SinkTypes
<1>5. CASE s = at[t]
  <2>1. closes[h] = 0
    BY <1>1, <1>3, <1>5 DEF CloseInv, LeftOK, Left, QuitBy, Logger
  <2>2. InSlot(s)' = {}
    BY <1>1, <1>2, <1>5, NobodyEnters DEF Slot
  <2>3. Left(s)'
    BY <1>1, <1>2, <1>5 DEF Left
  <2> QED
    BY <1>2, <1>4, <1>5, <2>1, <2>2, <2>3 DEF LeftOK, Closed
<1>6. CASE s # at[t]
  <2>1. s = cur /\ s # 3 - cur
    BY <1>1, <1>6 DEF Slot
  <2>2. ~Left(s) /\ ~Left(s)'
    BY <1>2, <2>1 DEF Left
  <2>3. slot[s].logger # 0 => slot[s].logger \in Logger /\ slot[s].logger # h
    BY <1>1, <1>6, InLogger DEF SlotInv, Slot
  <2> QED
    BY <1>2, <1>4, <2>2, <2>3 DEF LeftOK, CloseInv
<1> QED
  BY <1>5, <1>6

(* The current slot is not left. *)
LEMMA LeftSet ==
    ASSUME Inductive, CloseInv, NEW t \in Setters, NEW s \in Slot,
           Reset(t) \/ \E kind \in Kinds : SetLogger(t, kind)
    PROVE  LeftOK(s)'
<1> Types /\ CountInv /\ SetterInv /\ SlotInv /\ ShutInv /\ FreshInv
  BY TypeParts DEF Inductive
<1>1. CASE Reset(t)
  <2>1. /\ (s = cur \/ s = 3 - cur) /\ 3 - cur # cur /\ lmux' = None
        /\ slot'[cur] = slot[cur] /\ slot'[3 - cur].logger = 0
    BY <1>1, ResetEffect
  <2>2. UNCHANGED closes
    BY <1>1 DEF Reset, sinkVars
  <2> QED
    BY <2>1, <2>2 DEF LeftOK, Left, CloseInv
<1>2. ASSUME NEW kind \in Kinds, SetLogger(t, kind)
      PROVE  LeftOK(s)'
  <2>1. /\ lmux = None /\ (s = cur \/ s = 3 - cur) /\ 3 - cur # cur /\ lmux' = t
        /\ cur' = 3 - cur /\ 3 - cur' = cur /\ slot'[cur] = slot[cur]
        /\ pc' = [pc EXCEPT ![t] = IF slot[cur].logger = 0 THEN "reset" ELSE "quit"]
        /\ slot'[3 - cur].logger \in {0, loggers + 1} /\ loggers + 1 \in Logger
        /\ loggers \in Nat
    BY <1>2, SetLoggerEffect
  <2>2. UNCHANGED closes
    BY <1>2 DEF SetLogger, sinkVars
  <2>3. CASE s = cur
    <3>1. slot[cur].logger # 0 => pc'[t] = "quit"
      BY <2>1 DEF Types, PlaceTypes, Threads
    <3>2. ~Left(cur)
      BY <2>1 DEF Left
    <3> QED
      BY <2>1, <2>2, <2>3, <3>1, <3>2 DEF LeftOK, Left, CloseInv
  <2>4. CASE s = 3 - cur
    <3>1. closes[loggers + 1] = 0
      BY <2>1 DEF FreshInv, FreshOK
    <3>2. ~Left(s)'
      BY <2>1, <2>4 DEF Left
    <3> QED
      BY <2>1, <2>2, <2>4, <3>1, <3>2 DEF LeftOK
  <2> QED
    BY <2>1, <2>3, <2>4
<1> QED
  BY <1>1, <1>2

(* Nobody uses the sink of a logger whose slot is left, and nobody but its
   setter closes it. *)
LEMMA LeftSame ==
    ASSUME Inductive, [Next]_vars, CloseInv, NEW s \in Slot, SlotsKept,
           ~\E t \in Setters : QuitBy(t)
    PROVE  LeftOK(s)'
<1> Types /\ SlotInv /\ ShutInv
  BY TypeParts DEF Inductive
<1> DEFINE g == slot[s].logger
<1> SUFFICES ASSUME g # 0, ~slot[s].logThread
             PROVE  IF Left(s)' THEN Closed(g)' /\ InSlot(s)' = {} ELSE closes'[g] = 0
  BY DEF LeftOK, SlotsKept, Closed
<1>1. g \in Logger /\ g <= loggers /\ loggers \in Nat /\ thread[g] = "none"
  BY InLogger DEF SlotInv, SlotOK
<1>2. Left(s)' <=> Left(s)
  BY DEF SlotsKept
<1>3. Kept(g) \/ Written(g)
  BY <1>1, LoggerMoves DEF LoggerMove, Used, Closing, EndedBy, Born
<1>4. ASSUME Left(s) PROVE Closed(g)' /\ InSlot(s)' = {}
  <2>1. Closed(g) /\ InSlot(s) = {}
    BY <1>4 DEF CloseInv, LeftOK
  <2>2. InSlot(s)' = {}
    BY <1>4, <2>1, NobodyEnters DEF Left, Types, SlotTypes, Slot
  <2>3. ~Written(g)
    <3> SUFFICES ASSUME NEW c \in Callers, pc[c] = "write", slot[at[c]].logger = g
                 PROVE  FALSE
      BY DEF Written
    <3>1. at[c] \in Slot
      BY DEF Types, PlaceTypes, Threads
    <3>2. at[c] = s
      BY <1>1, <3>1 DEF SlotInv, Slot, Logger
    <3> QED
      BY <2>1, <3>2 DEF InSlot
  <2> QED
    BY <1>3, <2>1, <2>2, <2>3 DEF Kept, Closed, SlotsKept
<1>5. ASSUME ~Left(s) PROVE closes'[g] = 0
  BY <1>3, <1>5 DEF CloseInv, LeftOK, Kept, Written
<1> QED
  BY <1>2, <1>4, <1>5

(* Who writes is sent to the sink by a slot that stays as it is. *)
LEMMA WriterSame ==
    ASSUME Prompt, Inductive, [Next]_vars, CloseInv, NEW c \in Callers
    PROVE  WriterOK(c)'
<1> Types /\ CountInv /\ SetterInv /\ SlotInv /\ ShutInv
  BY TypeParts DEF Inductive
<1> SUFFICES ASSUME pc'[c] = "write" PROVE slot'[at'[c]].queuer = "syncQ"
  BY DEF WriterOK
<1>1. at'[c] = at[c] /\ at[c] \in Slot /\ slot[at[c]].queuer = "syncQ"
  BY CallerMoves DEF CallerMove, CloseInv, WriterOK, Types, PlaceTypes, Threads
<1>2. CASE SlotsKept
  BY <1>1, <1>2 DEF SlotsKept
<1>3. ASSUME NEW t \in Setters, QuitBy(t)
      PROVE  slot'[at'[c]].queuer = "syncQ"
  BY <1>1, <1>3 DEF QuitBy, Quit
<1>4. ASSUME NEW t \in Setters, Reset(t)
      PROVE  slot'[at'[c]].queuer = "syncQ"
  <2>1. /\ at[t] = 3 - cur /\ slot'[cur] = slot[cur]
        /\ \A s \in Slot : s = cur \/ s = 3 - cur
    BY <1>4, ResetEffect
  <2>2. pc[c] = "write" /\ InSlot(at[t]) = {}
    BY <1>4, LoggerAssumption DEF Reset, Return, Migrated, Types, PlaceTypes, Threads
  <2>3. at[c] # at[t]
    BY <2>2 DEF InSlot
  <2> QED
    BY <1>1, <2>1, <2>3
<1>5. ASSUME NEW t \in Setters, NEW kind \in Kinds, SetLogger(t, kind)
      PROVE  slot'[at'[c]].queuer = "syncQ"
  <2>1. /\ slot[3 - cur].logger = 0 /\ slot'[cur] = slot[cur] /\ 3 - cur \in Slot
        /\ \A s \in Slot : s = cur \/ s = 3 - cur
    BY <1>5, SetLoggerEffect
  <2>2. slot[3 - cur].queuer = "noQ"
    BY <2>1 DEF SlotInv, SlotOK
  <2> QED
    BY <1>1, <2>1, <2>2
<1> QED
  BY <1>2, <1>3, <1>4, <1>5, SlotMoves DEF SlotMove

(* A logger that is freed has been closed by its thread or by its setter. *)
LEMMA FreedMoves ==
    ASSUME Inductive, [Next]_vars, CloseInv, NEW g \in Logger, Freed(g)'
    PROVE  Freed(g) \/ Closed(g)'
<1> Types /\ CountInv /\ SetterInv /\ SlotInv /\ ShutInv
  BY TypeParts DEF Inductive
<1>1. CASE SlotsKept
  BY <1>1 DEF SlotsKept, Freed
<1>2. ASSUME NEW t \in Setters, QuitBy(t)
      PROVE  Freed(g)
  BY <1>2 DEF QuitBy, Quit, Freed
<1>3. ASSUME NEW t \in Setters, NEW kind \in Kinds, SetLogger(t, kind)
      PROVE  Freed(g)
  <2>1. /\ slot[3 - cur].logger = 0 /\ slot'[cur] = slot[cur] /\ 3 - cur \in Slot
        /\ (\A s \in Slot : s = cur \/ s = 3 - cur) /\ loggers \in Nat
        /\ \/ loggers' = loggers
           \/ loggers' = loggers + 1 /\ slot'[3 - cur].logger = loggers + 1
    BY <1>3, SetLoggerEffect
  <2>2. g # 0 /\ g \in Nat
    BY Bounds DEF Logger
  <2> QED
    BY <2>1, <2>2 DEF Freed
<1>4. ASSUME NEW t \in Setters, Reset(t)
      PROVE  Freed(g) \/ Closed(g)'
  <2>1. /\ lmux = t /\ t # None /\ pc[t] = "reset" /\ UNCHANGED <<file, closes, loggers>>
        /\ slot'[cur] = slot[cur] /\ 3 - cur \in Slot
        /\ \A s \in Slot : s = cur \/ s = 3 - cur
    BY <1>4, ResetEffect, LoggerAssumption DEF Reset, sinkVars
  <2>2. CASE slot[3 - cur].logger # g
    BY <2>1, <2>2 DEF Freed
  <2>3. CASE slot[3 - cur].logger = g
    <3>1. g # 0
      BY DEF Logger
    <3>2. CASE slot[3 - cur].logThread
      BY <2>1, <2>3, <3>1, <3>2 DEF ShutInv, SlotInv, SlotOK, CloseInv, EndOK, Closed
    <3>3. CASE ~slot[3 - cur].logThread
      BY <2>1, <2>3, <3>1, <3>3 DEF CloseInv, LeftOK, Left, Closed
    <3> QED
      BY <3>2, <3>3
  <2> QED
    BY <2>2, <2>3
<1> QED
  BY <1>1, <1>2, <1>3, <1>4, SlotMoves DEF SlotMove

(* Nobody uses the sink of a logger whose thread has ended, or that is freed. *)
LEMMA EndSame ==
    ASSUME Inductive, [Next]_vars, CloseInv, NEW g \in Logger
    PROVE  EndOK(g)'
<1> Types /\ SlotInv /\ FreshInv
  BY TypeParts DEF Inductive
<1>1. EndOK(g) /\ g \in Nat /\ loggers \in Nat /\ closes[g] \in Nat /\ g # 0
  BY Bounds DEF CloseInv, Types, SlotTypes, SinkTypes, Logger
<1>2. CASE Kept(g)
  BY <1>1, <1>2, FreedMoves DEF EndOK, Kept, Closed
<1>3. CASE Used(g)
  <2>1. ~Freed(g) /\ closes'[g] = 0 /\ thread'[g] # "done"
    BY <1>1, <1>3 DEF Used, Freed, EndOK
  <2> QED
    BY <2>1, FreedMoves DEF EndOK
<1>4. CASE Written(g)
  <2>1. PICK c \in Callers : pc[c] = "write" /\ slot[at[c]].logger = g
    BY <1>4 DEF Written
  <2>2. at[c] \in Slot /\ slot[at[c]].queuer = "syncQ"
    BY <2>1 DEF CloseInv, WriterOK, Types, PlaceTypes, Threads
  <2>3. thread[g] = "none" /\ ~Freed(g)
    BY <1>1, <2>1, <2>2 DEF SlotInv, SlotOK, Freed
  <2> QED
    BY <1>4, <2>3, FreedMoves DEF EndOK, Written
<1>5. CASE Closing(g)
  <2>1. ASSUME NEW s \in Slot, slot[s].logger = g, EndedBy(s)
        PROVE  EndOK(g)'
    BY <1>1, <1>5, <2>1 DEF EndedBy, Closing, EndOK, Closed
  <2>2. ASSUME NEW t \in Setters, slot[at[t]].logger = g, QuitBy(t), thread'[g] = thread[g]
        PROVE  EndOK(g)'
    <3>1. at[t] \in Slot
      BY DEF Types, PlaceTypes, Threads
    <3>2. thread[g] = "none" /\ ~Freed(g)
      BY <1>1, <2>2, <3>1 DEF SlotInv, SlotOK, QuitBy, Freed
    <3> QED
      BY <2>2, <3>2, FreedMoves DEF EndOK
  <2> QED
    BY <1>5, <2>1, <2>2 DEF Closing
<1>6. CASE Born(g)
  <2>1. closes[g] = 0 /\ ~Freed(g)
    BY <1>1, <1>6 DEF Born, FreshInv, FreshOK, Freed
  <2> QED
    BY <1>6, <2>1, FreedMoves DEF EndOK, Born
<1> QED
  BY <1>2, <1>3, <1>4, <1>5, <1>6, LoggerMoves DEF LoggerMove

(* No step breaks what holds of the files. *)
LEMMA CloseStep ==
    ASSUME Prompt, Inductive, [Next]_vars, CloseInv
    PROVE  CloseInv'
<1>1. ASSUME NEW s \in Slot PROVE LeftOK(s)'
  <2>1. CASE \E t \in Setters : QuitBy(t)
    BY <2>1, LeftQuit
  <2>2. CASE ~\E t \in Setters : QuitBy(t)
    BY <2>2, LeftSet, LeftSame, SlotMoves DEF SlotMove
  <2> QED
    BY <2>1, <2>2
<1> QED
  BY <1>1, EndSame, WriterSame DEF CloseInv
-----------------------------------------------------------------------------
(* It holds from the first state on. *)
THEOREM CloseHolds == Prompt /\ Spec => []CloseInv
<1>1. ASSUME Init PROVE CloseInv
  <2>1. ASSUME NEW g \in Logger PROVE EndOK(g)
    BY <1>1, <2>1, Bounds DEF Init, Start, EndOK, Freed, Logger
  <2>2. ASSUME NEW s \in Slot PROVE LeftOK(s)
    BY <1>1, <2>2 DEF Init, Start, LeftOK, Blank
  <2>3. ASSUME NEW c \in Callers PROVE WriterOK(c)
    BY <1>1, <2>3 DEF Init, Start, WriterOK, Threads
  <2> QED
    BY <2>1, <2>2, <2>3 DEF CloseInv
<1>2. Prompt /\ Inductive /\ CloseInv /\ [Next]_vars => CloseInv'
  BY CloseStep
<1>3. CASE Prompt
  BY <1>1, <1>2, <1>3, InductiveHolds, PTL DEF Spec
<1> QED
  BY <1>3

(* If calls leave a slot before it is freed, the sink of a logger has got its
   last CLOSE, once, and its file is closed when the logger is freed, which is
   before ruSetLogger returns; and it stays so. *)
THEOREM ClosedAfterHolds == Prompt /\ Spec => []ClosedAfter
<1>1. CloseInv => ClosedAfter
  BY DEF CloseInv, EndOK, ClosedAfter, Closed
<1> QED
  BY <1>1, CloseHolds, PTL
-----------------------------------------------------------------------------
(* One thread flushes, with ruFlushLog or ruLastLog, and changes the path. *)
OneFlusher == \A p, q \in Flushers \cup Movers : p = q

Flushing(c) == pc[c] \in Unsubmitted \cup {"await"} /\ call[c].what # "msg"
Submits == {"dispatch", "write", "push", "blocked"}
Live(g) == thread[g] \in {"loop", "ack", "tick"}
Mine(c) == {i \in accepted[gen[c]] : i[1] = c}
Covered(c) == Mine(c) \subseteq Messages(gen[c])
Raised(c, g) == slot[at[c]].logger = g /\ slot[at[c]].flushReq

(* A call submits to the logger that was current when it began; that of
   ruSinkCtxPath, to the one current at its ruLastLog. *)
GenOK(c) ==
    /\ gen[c] <= loggers
    /\ pc[c] \in Unsubmitted \ {"last"} =>
          /\ lmux = None => at[c] = cur
          /\ leaving[c] = None => slot[at[c]].logger = gen[c]
    /\ pc[c] \in {"last", "flag", "set", "await"} => call[c].what # "msg"
    /\ Flushing(c) => c \in Flushers \cup Movers
    /\ pc[c] \in {"idle", "info"} => leaving[c] = None
    /\ leaving[c] # None => c \in Movers /\ gen[c] # 0
    /\ pc[c] = "last" => leaving[c] # None

(* What a flush has to cover is due once its logger is replaced. *)
DueOK(c) == Flushing(c) /\ gen[c] # 0 /\ slot[cur].logger # gen[c] => Mine(c) \subseteq due[gen[c]]

(* The mark is up until the flush is covered, while there is a thread to lower
   it. *)
MarkOK(c) ==
    LET g == slot[at[c]].logger
    IN  Flushing(c) =>
            /\ pc[c] \in Submits /\ g # 0 /\ Live(g) => slot[at[c]].flushReq
            /\ pc[c] = "await" /\ leaving[c] = None /\ gen[c] # 0 => Covered(c) \/ Raised(c, gen[c])

(* A NULL in a queue is that of a call that waits for its mark to go down, and
   when the thread is about to do that, the NULL was the last entry of its
   caller. *)
NullOK(g) ==
    Live(g) => \A j \in DOMAIN queue[g].list :
        LET e == queue[g].list[j]  c == e.item[1]
        IN  e.what # "msg" => pc[c] = "await" /\ Raised(c, g) /\ e.item = call[c].item
                              /\ (leaving[c] = None => gen[c] = g)
AckOK(g) ==
    thread[g] = "ack" =>
        /\ \A j \in DOMAIN queue[g].list : queue[g].list[j].what = "msg"
        /\ \A c \in Flushers \cup Movers :
              pc[c] = "await" /\ Raised(c, g) /\ (leaving[c] = None => gen[c] = g /\ Covered(c))

FlushInv ==
    /\ \A c \in Callers : GenOK(c) /\ DueOK(c) /\ MarkOK(c)
    /\ \A g \in Logger : NullOK(g) /\ AckOK(g)
-----------------------------------------------------------------------------
(* A step of a call: none, its end, its begin, ... *)
Same(d) == /\ call'[d] = call[d] /\ made'[d] = made[d]
           /\ gen'[d] = gen[d] /\ leaving'[d] = leaving[d]
Stays(d) == pc'[d] = pc[d] /\ at'[d] = at[d] /\ Same(d)
Ends(d) ==
    /\ pc[d] # "undefined" /\ made'[d] = made[d]
    /\ \/ pc'[d] \in {"idle", "info"} /\ gen'[d] \in {0, gen[d]} /\ leaving'[d] = None
       \/ pc'[d] = "undefined" /\ Same(d)
    /\ pc[d] = "await" => ~slot[at[d]].flushReq
Begins(d) ==
    /\ pc[d] \in {"idle", "info"}
    /\ gen'[d] = slot[cur].logger /\ made'[d] = made[d] + 1
    /\ UNCHANGED <<slotVars, thread, accepted, got, due>>
    /\ \/ pc'[d] = "dispatch" /\ at'[d] = cur /\ call'[d].what = "msg" /\ leaving'[d] = None
       \/ /\ pc'[d] = "flag" /\ at'[d] = cur /\ call'[d].what # "msg" /\ leaving'[d] = None
          /\ d \in Flushers
       \/ /\ pc'[d] = "last" /\ call'[d].what = "CLOSE" /\ leaving'[d] # None
          /\ d \in Movers /\ gen'[d] # 0 /\ SinkCtxPath(d)
(* ... or one on its way: ruLastLog of ruSinkCtxPath, or another. *)
Meets(d) ==
    /\ pc[d] = "last" /\ pc'[d] = "flag" /\ at'[d] = cur /\ Same(d)
    /\ UNCHANGED <<slotVars, thread, accepted, got, due>>
Passes(d) == Dispatch(d) \/ Write(d) \/ Push(d) \/ PushResume(d) \/ PushAbort(d)
Goes(d) ==
    /\ at'[d] = at[d] /\ Same(d)
    /\ \/ pc[d] = "flag" /\ pc'[d] = "set"
       \/ pc[d] = "flag" /\ pc'[d] = "dispatch" /\ ~slot[at[d]].logThread
       \/ pc[d] = "set" /\ pc'[d] = "dispatch" /\ slot'[at[d]].flushReq
       \/ pc[d] \in Submits /\ pc'[d] \in Submits /\ (Dispatch(d) \/ pc[d] = "push")
       \/ pc[d] \in Submits /\ pc'[d] = "await" /\ call[d].what # "msg" /\ Passes(d)
CallStep(d) == Stays(d) \/ Ends(d) \/ Begins(d) \/ Meets(d) \/ Goes(d)

(* A step leaves the marks up, but for those that a log thread lowers, and a
   log thread lowers them after it has taken a NULL. *)
MarksKept ==
    \A s \in Slot : slot[s].logger # 0 /\ slot'[s].logger = slot[s].logger /\ slot[s].flushReq =>
        slot'[s].flushReq \/ ThreadAck(s) \/ thread'[slot[s].logger] = "done"
AckFrom ==
    \A g \in Logger : thread'[g] = "ack" /\ thread[g] # "ack" =>
        \E s \in Slot : ThreadPop(s) /\ slot[s].logger = g /\ Head(queue[g].list).what # "msg"
LockKept == UNCHANGED lmux \/ \E t \in Setters : Reset(t) \/ \E kind \in Kinds : SetLogger(t, kind)

(* A call takes these steps. *)
LEMMA CallSteps ==
    ASSUME Inductive, [Next]_vars
    PROVE  \A d \in Callers : GenOK(d) => CallStep(d)
<1> Types /\ CallerInv /\ SetterInv /\ SlotInv
  BY TypeParts DEF Inductive
<1> USE LoggerAssumption
    DEF Types, PlaceTypes, SlotTypes, slotVars, sinkVars, callVars, threadVars, vars, Goto, Return, Threads, My
<1> SUFFICES ASSUME NEW d \in Callers, GenOK(d) PROVE CallStep(d)
  OBVIOUS
<1> CallerOK(d) /\ (pc[d] \in {"idle", "info"} => leaving[d] = None)
  BY DEF CallerInv, GenOK
<1>1. ASSUME NEW c \in Callers, pc[c] \in {"idle", "info"}, RawLog(c)
      PROVE  CallStep(d)
  BY <1>1 DEF RawLog, Begin, CallStep, Same, Stays, Ends, Begins, Meets, Passes, Goes, Submits, Unsubmitted
<1>2. ASSUME NEW c \in Callers, Flush(c)
      PROVE  CallStep(d)
  BY <1>2 DEF Flush, Begin, CallStep, Same, Stays, Ends, Begins, Meets, Passes, Goes, Submits, Unsubmitted
<1>3. ASSUME NEW c \in Callers, SinkCtxPath(c)
      PROVE  CallStep(d)
  <2>1. slot[cur].logger # 0 /\ file[slot[cur].logger].path # None
    BY <1>3, InLogger DEF SinkCtxPath, ChangePath, SinkTypes, FileType, Inductive
  <2> QED
    BY <1>3, <2>1 DEF SinkCtxPath, ChangePath, Begin, CallStep, Same, Stays, Ends, Begins, Meets, Passes, Goes, Submits, Unsubmitted
<1>4. ASSUME NEW c \in Callers, Unblock(c)
      PROVE  CallStep(d)
  BY <1>4 DEF Unblock, CallStep, Same, Stays, Ends, Begins, Meets, Passes, Goes, Submits, Unsubmitted
<1>5. ASSUME NEW c \in Callers, Return(c), pc[c] = "info",
             UNCHANGED <<slotVars, queue, threadVars, sinkVars, accepted, due>>
      PROVE  CallStep(d)
  BY <1>5 DEF CallStep, Same, Stays, Ends, Begins, Meets, Passes, Goes, Submits, Unsubmitted
<1>6. ASSUME NEW c \in Callers, LastLog(c)
      PROVE  CallStep(d)
  BY <1>6 DEF LastLog, CallStep, Same, Stays, Ends, Begins, Meets, Passes, Goes, Submits, Unsubmitted
<1>7. ASSUME NEW c \in Callers, FlagLook(c)
      PROVE  CallStep(d)
  BY <1>7 DEF FlagLook, CallStep, Same, Stays, Ends, Begins, Meets, Passes, Goes, Submits, Unsubmitted
<1>8. ASSUME NEW c \in Callers, FlagSet(c)
      PROVE  CallStep(d)
  BY <1>8 DEF FlagSet, CallStep, Same, Stays, Ends, Begins, Meets, Passes, Goes, Submits, Unsubmitted
<1>9. ASSUME NEW c \in Callers, Dispatch(c)
      PROVE  CallStep(d)
  BY <1>9 DEF Dispatch, Submitted, CallStep, Same, Stays, Ends, Begins, Meets, Passes, Goes, Submits, Unsubmitted
<1>10. ASSUME NEW c \in Callers, Write(c)
      PROVE  CallStep(d)
  BY <1>10 DEF Write, Accept, Submitted, CallStep, Same, Stays, Ends, Begins, Meets, Passes, Goes, Submits, Unsubmitted
<1>11. ASSUME NEW c \in Callers, Push(c)
      PROVE  CallStep(d)
  <2>1. d = c => Passes(d)
    BY <1>11 DEF Passes
  <2> QED
    BY <1>11, <2>1 DEF Push, Enqueue, Accept, Submitted, CallStep, Same, Stays, Ends, Goes, Submits
<1>12. ASSUME NEW c \in Callers, PushResume(c)
      PROVE  CallStep(d)
  <2>1. d = c => Passes(d)
    BY <1>12 DEF Passes
  <2> QED
    BY <1>12, <2>1 DEF PushResume, Enqueue, Accept, Submitted, CallStep, Same, Stays, Ends, Goes, Submits
<1>13. ASSUME NEW c \in Callers, PushAbort(c)
      PROVE  CallStep(d)
  <2>1. d = c => Passes(d)
    BY <1>13 DEF Passes
  <2> QED
    BY <1>13, <2>1 DEF PushAbort, Submitted, CallStep, Same, Stays, Ends, Goes, Submits
<1>14. ASSUME NEW c \in Callers, Await(c)
      PROVE  CallStep(d)
  BY <1>14 DEF Await, CallStep, Same, Stays, Ends, Begins, Meets, Passes, Goes, Submits, Unsubmitted
<1>15. ASSUME NEW s \in Slot, ThreadPop(s)
      PROVE  CallStep(d)
  BY <1>15 DEF ThreadPop, CallStep, Same, Stays, Ends, Begins, Meets, Passes, Goes, Submits, Unsubmitted
<1>16. ASSUME NEW s \in Slot, ThreadTimeout(s)
      PROVE  CallStep(d)
  BY <1>16 DEF ThreadTimeout, CallStep, Same, Stays, Ends, Begins, Meets, Passes, Goes, Submits, Unsubmitted
<1>17. ASSUME NEW s \in Slot, ThreadAck(s)
      PROVE  CallStep(d)
  BY <1>17 DEF ThreadAck, CallStep, Same, Stays, Ends, Begins, Meets, Passes, Goes, Submits, Unsubmitted
<1>18. ASSUME NEW s \in Slot, ThreadFlush(s)
      PROVE  CallStep(d)
  BY <1>18 DEF ThreadFlush, CallStep, Same, Stays, Ends, Begins, Meets, Passes, Goes, Submits, Unsubmitted
<1>19. ASSUME NEW s \in Slot, ThreadNext(s)
      PROVE  CallStep(d)
  BY <1>19 DEF ThreadNext, CallStep, Same, Stays, Ends, Begins, Meets, Passes, Goes, Submits, Unsubmitted
<1>20. ASSUME NEW s \in Slot, ThreadClose(s)
      PROVE  CallStep(d)
  BY <1>20 DEF ThreadClose, SinkFinal, CallStep, Same, Stays, Ends, Begins, Meets, Passes, Goes, Submits, Unsubmitted
<1>21. ASSUME NEW t \in Setters, NEW kind \in Kinds, SetLogger(t, kind)
      PROVE  CallStep(d)
  BY <1>21 DEF SetLogger, Lock, CallStep, Same, Stays, Ends, Begins, Meets, Passes, Goes, Submits, Unsubmitted
<1>22. ASSUME NEW t \in Setters, Quit(t)
      PROVE  CallStep(d)
  BY <1>22 DEF Quit, SinkFinal, CallStep, Same, Stays, Ends, Begins, Meets, Passes, Goes, Submits, Unsubmitted
<1>23. ASSUME NEW t \in Setters, WaitQuit(t)
      PROVE  CallStep(d)
  BY <1>23 DEF WaitQuit, CallStep, Same, Stays, Ends, Begins, Meets, Passes, Goes, Submits, Unsubmitted
<1>24. ASSUME NEW t \in Setters, FreeQueue(t)
      PROVE  CallStep(d)
  BY <1>24 DEF FreeQueue, CallStep, Same, Stays, Ends, Begins, Meets, Passes, Goes, Submits, Unsubmitted
<1>25. ASSUME NEW t \in Setters, Reset(t)
      PROVE  CallStep(d)
  BY <1>25 DEF Reset, CallStep, Same, Stays, Ends, Begins, Meets, Passes, Goes, Submits, Unsubmitted
<1>26. ASSUME UNCHANGED vars
      PROVE  CallStep(d)
  BY <1>26 DEF CallStep, Same, Stays, Ends, Begins, Meets, Passes, Goes, Submits, Unsubmitted
<1> QED
  BY <1>1, <1>2, <1>3, <1>4, <1>5, <1>6, <1>7, <1>8, <1>9, <1>10, <1>11, <1>12, <1>13, <1>14, <1>15, <1>16, <1>17, <1>18, <1>19, <1>20, <1>21, <1>22, <1>23, <1>24, <1>25, <1>26
     DEF Next, Caller, Going, LogThread, Setting, Log, Info, Crashed, Rest

(* Only a log thread lowers a mark, and only a setter takes lmux_. *)
LEMMA MarkMoves ==
    ASSUME Inductive, [Next]_vars
    PROVE  MarksKept /\ AckFrom /\ LockKept
<1> Types /\ CallerInv /\ SetterInv /\ CountInv /\ ShutInv /\ SlotInv
  BY TypeParts DEF Inductive
<1> SlotTypes /\ ThreadTypes
  BY DEF Types
<1> USE DEF slotVars, sinkVars, callVars, threadVars, vars, My
<1>1. ASSUME NEW c \in Callers, pc[c] \in {"idle", "info"}, RawLog(c)
      PROVE  MarksKept /\ AckFrom /\ LockKept
  BY <1>1 DEF RawLog, Begin, MarksKept, AckFrom, LockKept
<1>2. ASSUME NEW c \in Callers, Flush(c)
      PROVE  MarksKept /\ AckFrom /\ LockKept
  BY <1>2 DEF Flush, Begin, MarksKept, AckFrom, LockKept
<1>3. ASSUME NEW c \in Callers, SinkCtxPath(c)
      PROVE  MarksKept /\ AckFrom /\ LockKept
  BY <1>3 DEF SinkCtxPath, ChangePath, Begin, MarksKept, AckFrom, LockKept
<1>4. ASSUME NEW c \in Callers, Unblock(c)
      PROVE  MarksKept /\ AckFrom /\ LockKept
  BY <1>4 DEF Unblock, MarksKept, AckFrom, LockKept
<1>5. ASSUME NEW c \in Callers, Return(c), pc[c] = "info",
             UNCHANGED <<slotVars, queue, threadVars, sinkVars, accepted, due>>
      PROVE  MarksKept /\ AckFrom /\ LockKept
  BY <1>5 DEF MarksKept, AckFrom, LockKept
<1>6. ASSUME NEW c \in Callers, LastLog(c)
      PROVE  MarksKept /\ AckFrom /\ LockKept
  BY <1>6 DEF LastLog, MarksKept, AckFrom, LockKept
<1>7. ASSUME NEW c \in Callers, FlagLook(c)
      PROVE  MarksKept /\ AckFrom /\ LockKept
  BY <1>7 DEF FlagLook, MarksKept, AckFrom, LockKept
<1>8. ASSUME NEW c \in Callers, FlagSet(c)
      PROVE  MarksKept /\ AckFrom /\ LockKept
  BY <1>8 DEF FlagSet, MarksKept, AckFrom, LockKept
<1>9. ASSUME NEW c \in Callers, Dispatch(c)
      PROVE  MarksKept /\ AckFrom /\ LockKept
  BY <1>9 DEF Dispatch, Submitted, MarksKept, AckFrom, LockKept
<1>10. ASSUME NEW c \in Callers, Write(c)
      PROVE  MarksKept /\ AckFrom /\ LockKept
  BY <1>10 DEF Write, Accept, Submitted, MarksKept, AckFrom, LockKept
<1>11. ASSUME NEW c \in Callers, Push(c)
      PROVE  MarksKept /\ AckFrom /\ LockKept
  BY <1>11 DEF Push, Enqueue, Accept, Submitted, MarksKept, AckFrom, LockKept
<1>12. ASSUME NEW c \in Callers, PushResume(c)
      PROVE  MarksKept /\ AckFrom /\ LockKept
  BY <1>12 DEF PushResume, Enqueue, Accept, Submitted, MarksKept, AckFrom, LockKept
<1>13. ASSUME NEW c \in Callers, PushAbort(c)
      PROVE  MarksKept /\ AckFrom /\ LockKept
  BY <1>13 DEF PushAbort, Submitted, MarksKept, AckFrom, LockKept
<1>14. ASSUME NEW c \in Callers, Await(c)
      PROVE  MarksKept /\ AckFrom /\ LockKept
  BY <1>14 DEF Await, MarksKept, AckFrom, LockKept
<1>15. ASSUME NEW s \in Slot, ThreadPop(s)
      PROVE  MarksKept /\ AckFrom /\ LockKept
  BY <1>15 DEF ThreadPop, ThreadGoto, ThreadAt, ThreadTypes, MarksKept, AckFrom, LockKept
<1>16. ASSUME NEW s \in Slot, ThreadTimeout(s)
      PROVE  MarksKept /\ AckFrom /\ LockKept
  BY <1>16 DEF ThreadTimeout, ThreadGoto, ThreadAt, ThreadTypes, MarksKept, AckFrom, LockKept
<1>17. ASSUME NEW s \in Slot, ThreadAck(s)
      PROVE  MarksKept /\ AckFrom /\ LockKept
  <2>1. MarksKept
    BY <1>17 DEF ThreadAck, SlotTypes, SlotType, MarksKept
  <2> QED
    BY <1>17, <2>1 DEF ThreadAck, ThreadGoto, ThreadTypes, AckFrom, LockKept
<1>18. ASSUME NEW s \in Slot, ThreadFlush(s)
      PROVE  MarksKept /\ AckFrom /\ LockKept
  BY <1>18 DEF ThreadFlush, MarksKept, AckFrom, LockKept
<1>19. ASSUME NEW s \in Slot, ThreadNext(s)
      PROVE  MarksKept /\ AckFrom /\ LockKept
  BY <1>19 DEF ThreadNext, ThreadGoto, ThreadAt, ThreadTypes, MarksKept, AckFrom, LockKept
<1>20. ASSUME NEW s \in Slot, ThreadClose(s)
      PROVE  MarksKept /\ AckFrom /\ LockKept
  <2>1. \A u \in Slot : u # s => slot'[u] = slot[u]
    BY <1>20 DEF ThreadClose, SlotTypes
  <2>2. slot[s].logger \in Logger => thread'[slot[s].logger] = "done"
    BY <1>20 DEF ThreadClose, ThreadGoto, ThreadTypes
  <2>3. MarksKept
    BY <2>1, <2>2, InLogger DEF MarksKept
  <2> QED
    BY <1>20, <2>3 DEF ThreadClose, ThreadGoto, ThreadTypes, AckFrom, LockKept
<1>21. ASSUME NEW t \in Setters, NEW kind \in Kinds, SetLogger(t, kind)
      PROVE  MarksKept /\ AckFrom /\ LockKept
  <2>1. MarksKept
    BY <1>21, SetLoggerEffect DEF MarksKept
  <2>2. AckFrom
    BY <1>21, SetLoggerEffect DEF AckFrom
  <2> QED
    BY <1>21, <2>1, <2>2 DEF LockKept
<1>22. ASSUME NEW t \in Setters, Quit(t)
      PROVE  MarksKept /\ AckFrom /\ LockKept
  <2>1. UNCHANGED thread
    BY <1>22 DEF Quit
  <2>2. UNCHANGED slot \/ slot' = [slot EXCEPT ![at[t]].quitting = TRUE]
    BY <1>22 DEF Quit
  <2>3. MarksKept
    BY <2>2 DEF MarksKept, SlotTypes, SlotType
  <2> QED
    BY <1>22, <2>1, <2>3 DEF Quit, AckFrom, LockKept
<1>23. ASSUME NEW t \in Setters, WaitQuit(t)
      PROVE  MarksKept /\ AckFrom /\ LockKept
  BY <1>23 DEF WaitQuit, MarksKept, AckFrom, LockKept
<1>24. ASSUME NEW t \in Setters, FreeQueue(t)
      PROVE  MarksKept /\ AckFrom /\ LockKept
  BY <1>24 DEF FreeQueue, MarksKept, AckFrom, LockKept
<1>25. ASSUME NEW t \in Setters, Reset(t)
      PROVE  MarksKept /\ AckFrom /\ LockKept
  <2>1. MarksKept
    BY <1>25, ResetEffect DEF MarksKept
  <2> QED
    BY <1>25, <2>1 DEF Reset, AckFrom, LockKept
<1>26. ASSUME UNCHANGED vars
      PROVE  MarksKept /\ AckFrom /\ LockKept
  BY <1>26 DEF MarksKept, AckFrom, LockKept
<1> QED
  BY <1>1, <1>2, <1>3, <1>4, <1>5, <1>6, <1>7, <1>8, <1>9, <1>10, <1>11, <1>12, <1>13, <1>14, <1>15, <1>16, <1>17, <1>18, <1>19, <1>20, <1>21, <1>22, <1>23, <1>24, <1>25, <1>26
     DEF Next, Caller, Going, LogThread, Setting, Log, Info, Crashed, Rest

(* What reached a sink stays there, what is due stays due, and who flushes has
   nothing else accepted meanwhile. *)
LEMMA Histories ==
    ASSUME Inductive, [Next]_vars, NEW g \in Logger
    PROVE  /\ Messages(g) \subseteq Messages(g)'
           /\ due[g] \subseteq due'[g]
           /\ \A d \in Callers : Flushing(d) =>
                 \A i \in accepted'[g] : i[1] = d => i \in accepted[g]
<1> DEFINE New(c) == \A i \in accepted'[g] : i \in accepted[g] \/ i[1] = c
<1>1. Types /\ CallerInv /\ SlotInv /\ DeliverInv
  BY TypeParts DEF Inductive
<1>2. got[g] \in Seq(Item)
  BY <1>1 DEF Types, SinkTypes
<1>3. CASE Quiet
  BY <1>3 DEF Quiet, Messages
<1>4. ASSUME NEW c \in Callers, Accept(slot[at[c]].logger, c), pc[c] \in Unsubmitted
      PROVE  \A d \in Callers : Flushing(d) =>
                 \A i \in accepted'[g] : i[1] = d => i \in accepted[g]
  <2>1. call[c].item[1] = c
    BY <1>1, <1>4, SubmitFacts
  <2>2. New(c)
    BY <1>1, <1>4, <2>1 DEF Accept, Types, AcceptTypes
  <2>3. CASE call[c].what # "msg"
    BY <1>4, <2>3 DEF Accept
  <2>4. CASE call[c].what = "msg"
    BY <2>2, <2>4 DEF Flushing
  <2> QED
    BY <2>3, <2>4
<1>5. ASSUME NEW c \in Callers, Writes(c)
      PROVE  Messages(g) \subseteq Messages(g)' /\ UNCHANGED due
  <2>1. UNCHANGED due
    BY <1>5 DEF Writes, Write
  <2>2. call[c].item \in Item
    BY <1>1, <1>5, SubmitFacts DEF Writes, Write, Unsubmitted
  <2>3. got'[g] \in {got[g], Append(got[g], call[c].item)}
    BY <1>1, <1>5 DEF Writes, Write, My, Sink, SinkMessage, Types, SinkTypes
  <2>4. ToSet(got[g]) \subseteq ToSet(Append(got[g], call[c].item))
    BY <1>2, <2>2, AppendSet
  <2> QED
    BY <2>1, <2>3, <2>4 DEF Messages
<1>6. ASSUME NEW s \in Slot, ThreadPop(s)
      PROVE  Messages(g) \subseteq Messages(g)' /\ UNCHANGED <<accepted, due>>
  <2> DEFINE h == slot[s].logger  e == Head(queue[h].list)
  <2>1. h \in Logger /\ queue[h].list # <<>> /\ UNCHANGED <<accepted, due>>
    BY <1>1, <1>6, InLogger DEF ThreadPop, ThreadAt
  <2>2. e \in Entry
    BY <1>1, <2>1, TailElements DEF Types, QueueTypes, QueueType
  <2>3. e.item \in Item
    BY <2>2, EntryItem
  <2>4. got'[g] \in {got[g], Append(got[g], e.item)}
    BY <1>1, <1>6, <2>1 DEF ThreadPop, Sink, SinkMessage, SinkNull, Types, SinkTypes
  <2> HIDE DEF e
  <2>5. ToSet(got[g]) \subseteq ToSet(Append(got[g], e.item))
    BY <1>2, <2>3, AppendSet
  <2> QED
    BY <2>1, <2>4, <2>5 DEF Messages
<1>7. ASSUME NEW c \in Callers, Writes(c)
      PROVE  Accept(slot[at[c]].logger, c) /\ pc[c] \in Unsubmitted
  BY <1>7 DEF Writes, Write, My, Unsubmitted
<1>8. ASSUME NEW c \in Callers, Enqueues(c)
      PROVE  /\ Accept(slot[at[c]].logger, c) /\ pc[c] \in Unsubmitted
             /\ UNCHANGED <<got, due>>
  BY <1>8 DEF Enqueues, Enqueue, Unsubmitted
<1>9. ASSUME NEW s \in Slot, ThreadNext(s)
      PROVE  UNCHANGED <<got, due, accepted>>
  BY <1>9 DEF ThreadNext, sinkVars
<1>10. ASSUME NEW t \in Setters, Reset(t)
       PROVE  UNCHANGED <<got, due, accepted>>
  BY <1>10 DEF Reset, sinkVars
<1>11. ASSUME NEW t \in Setters, NEW kind \in Kinds, SetLogger(t, kind)
       PROVE  UNCHANGED <<got, accepted>> /\ due[g] \subseteq due'[g]
  BY <1>1, <1>11 DEF SetLogger, sinkVars, DeliverInv, DeliverOK, Types, AcceptTypes
<1> QED
  BY <1>3, <1>4, <1>5, <1>6, <1>7, <1>8, <1>9, <1>10, <1>11, StepKinds, Zenon
     DEF StepKind, Messages

(* What a flush covers, it covers. *)
LEMMA MineKept ==
    ASSUME Inductive, [Next]_vars, NEW c \in Callers, Flushing(c), gen[c] \in Logger,
           gen'[c] = gen[c]
    PROVE  Mine(c)' \subseteq Mine(c) /\ (Covered(c) => Covered(c)')
<1> SUFFICES ASSUME NEW g \in Logger, g = gen[c]
             PROVE  Mine(c)' \subseteq Mine(c) /\ (Covered(c) => Covered(c)')
  OBVIOUS
<1>1. /\ Messages(g) \subseteq Messages(g)'
      /\ \A i \in accepted'[g] : i[1] = c => i \in accepted[g]
  BY Histories
<1> QED
  BY <1>1 DEF Mine, Covered, Messages

(* When the thread of its logger has ended, or there is none, a flush covers
   what was logged before. *)
LEMMA EndCovers ==
    ASSUME Inductive, NEW c \in Callers, DueOK(c), Flushing(c), gen[c] \in Logger,
           gen[c] <= loggers, ~Live(gen[c])
    PROVE  Covered(c)
<1> DEFINE g == gen[c]
<1>1. Types /\ SlotInv /\ ShutInv /\ FreshInv /\ DeliverInv /\ g # 0 /\ cur \in Slot
  BY TypeParts DEF Inductive, Types, SlotTypes, Logger
<1>2. Mine(c) \subseteq accepted[g]
  BY DEF Mine
<1>3. ASSUME slot[cur].logger # g, Freed(g) \/ thread[g] \in {"closing", "done"}
      PROVE  Covered(c)
  <2>1. Mine(c) \subseteq due[g]
    BY <1>1, <1>3 DEF DueOK
  <2>2. due[g] \subseteq Messages(g)
    BY <1>1, <1>3 DEF DeliverInv, DeliverOK
  <2> QED
    BY <2>1, <2>2 DEF Covered
<1>4. CASE Freed(g)
  <2>1. slot[cur].logger # g
    BY <1>1, <1>4 DEF Freed
  <2> QED
    BY <1>3, <1>4, <2>1
<1>5. CASE ~Freed(g) /\ thread[g] \in {"closing", "done"}
  BY <1>1, <1>3, <1>5 DEF ShutInv
<1>6. CASE ~Freed(g) /\ thread[g] = "none"
  <2>1. accepted[g] \subseteq Messages(g) \cup Queued(g)
    BY <1>1, <1>6 DEF Freed, DeliverInv, DeliverOK
  <2>2. queue[g].list = <<>>
    BY <1>1, <1>6 DEF FreshInv, FreshOK
  <2>3. Queued(g) = {}
    BY <2>2 DEF Queued, ToSet
  <2> QED
    BY <1>2, <2>1, <2>3 DEF Covered
<1>7. thread[g] \in {"none", "closing", "done"}
  BY <1>1 DEF Live, Types, ThreadTypes
<1> QED
  BY <1>4, <1>5, <1>6, <1>7

(* A thread that runs was running, but for that of a new logger. *)
LEMMA LiveBefore ==
    ASSUME Inductive, [Next]_vars, NEW g \in Logger, Live(g)'
    PROVE  Live(g) \/ (g = loggers + 1 /\ thread[g] = "none" /\ thread'[g] = "loop")
<1>1. LoggerMove(g)
  BY LoggerMoves
<1> QED
  BY <1>1 DEF LoggerMove, Kept, Used, Written, Closing, EndedBy, Born, Live

(* A slot changes its logger when nobody submits through it, and its logger's
   thread does not run. *)
LEMMA LoggerStays ==
    ASSUME Prompt, Inductive, [Next]_vars, NEW c \in Callers, GenOK(c), at[c] \in Slot,
           \/ pc[c] \in Unsubmitted \ {"last"}
           \/ slot[at[c]].logger # 0 /\ Live(slot[at[c]].logger)
    PROVE  /\ slot'[at[c]].logger = slot[at[c]].logger
           /\ pc[c] \in Unsubmitted \ {"last"} /\ lmux' = None => at[c] = cur'
<1>1. Types /\ CountInv /\ SetterInv /\ SlotInv /\ ShutInv /\ BlockedInv
  BY TypeParts DEF Inductive
<1>2. ASSUME SlotsKept \/ \E t \in Setters : QuitBy(t)
      PROVE  slot'[at[c]].logger = slot[at[c]].logger /\ UNCHANGED cur
  BY <1>2 DEF SlotsKept, QuitBy, Quit
<1>3. ASSUME NEW t \in Setters, Reset(t)
      PROVE  at[c] = cur /\ UNCHANGED cur /\ slot'[cur] = slot[cur]
  <2>1. /\ lmux = t /\ at[t] = 3 - cur /\ UNCHANGED cur /\ slot'[cur] = slot[cur]
        /\ \A s \in Slot : s = cur \/ s = 3 - cur
    BY <1>1, <1>3, ResetEffect
  <2>2. ASSUME at[c] = 3 - cur PROVE FALSE
    <3>1. /\ pc[t] = "reset" /\ InSlot(3 - cur) = {} /\ lmux # None
          /\ slot[3 - cur].logger # 0 => queue[slot[3 - cur].logger].waiting = <<>>
      BY <1>3, <2>1, LoggerAssumption DEF Reset, Migrated
    <3>2. slot[3 - cur].logger # 0 => ~Live(slot[3 - cur].logger)
      BY <1>1, <2>1, <3>1 DEF ShutInv, Live
    <3>3. pc[c] \in Unsubmitted /\ pc[c] # "last"
      BY <2>2, <3>2 DEF GenOK
    <3>4. pc[c] = "blocked"
      BY <2>2, <3>1, <3>3 DEF InSlot, Unsubmitted
    <3>5. slot[at[c]].logger # 0 /\ c \in ToSet(queue[slot[at[c]].logger].waiting)
      BY <1>1, <3>4 DEF BlockedInv, BlockedOK
    <3> QED
      BY <2>2, <3>1, <3>5 DEF ToSet
  <2> QED
    BY <2>1, <2>2
<1>4. ASSUME NEW t \in Setters, NEW kind \in Kinds, SetLogger(t, kind)
      PROVE  at[c] = cur /\ slot'[cur] = slot[cur] /\ lmux' # None
  <2>1. /\ lmux = None /\ lmux' = t /\ slot[3 - cur].logger = 0 /\ slot'[cur] = slot[cur]
        /\ \A s \in Slot : s = cur \/ s = 3 - cur
    BY <1>1, <1>4, SetLoggerEffect
  <2> QED
    BY <2>1, LoggerAssumption DEF GenOK
<1> QED
  BY <1>2, <1>3, <1>4, SlotMoves, MarkMoves, Zenon DEF SlotMove, LockKept, GenOK

(* A mark stays up as long as the thread of the logger runs and does not lower
   it. *)
LEMMA RaisedStays ==
    ASSUME Prompt, Inductive, [Next]_vars, NEW c \in Callers, GenOK(c),
           NEW g \in Logger, Raised(c, g), Live(g), thread'[g] # "done",
           at'[c] = at[c], ~ThreadAck(at[c])
    PROVE  Raised(c, g)'
<1>1. at[c] \in Slot /\ slot[at[c]].logger = g /\ g # 0 /\ slot[at[c]].flushReq
  BY TypeParts DEF Inductive, Types, PlaceTypes, Threads, Raised, Logger
<1>2. slot'[at[c]].logger = g
  BY <1>1, LoggerStays
<1>3. slot'[at[c]].flushReq
  BY <1>1, <1>2, MarkMoves DEF MarksKept
<1> QED
  BY <1>2, <1>3 DEF Raised

(* The thread of a logger that lowers the mark was about to. *)
LEMMA AckAt ==
    ASSUME Inductive, NEW s \in Slot, ThreadAck(s)
    PROVE  /\ slot[s].logger \in Logger /\ thread[slot[s].logger] = "ack"
           /\ thread'[slot[s].logger] = "tick"
<1>1. Types /\ SlotInv
  BY TypeParts DEF Inductive
<1> QED
  BY <1>1, InLogger DEF ThreadAck, ThreadAt, ThreadGoto, Types, ThreadTypes

(* What a step adds to a queue is what its caller submits. *)
LEMMA QueueFrom ==
    ASSUME Inductive, [Next]_vars, NEW g \in Logger, NEW j \in DOMAIN queue'[g].list
    PROVE  \/ \E i \in DOMAIN queue[g].list : queue'[g].list[j] = queue[g].list[i]
           \/ \E c \in Callers : /\ Enqueues(c) /\ slot[at[c]].logger = g
                                 /\ queue'[g].list[j] = call[c]
<1> DEFINE q == queue[g].list  r == queue'[g].list
           Old == \E i \in DOMAIN q : r[j] = q[i]
<1>1. Types /\ CountInv /\ SlotInv /\ ShutInv /\ CallerInv
  BY TypeParts DEF Inductive
<1>2. q \in Seq(Entry)
  BY <1>1 DEF Types, QueueTypes, QueueType
<1>3. CASE r = q
  BY <1>3
<1>4. CASE r = <<>>
  BY <1>4
<1>5. ASSUME NEW c \in Callers, Enqueues(c)
      PROVE  Old \/ (slot[at[c]].logger = g /\ r[j] = call[c])
  <2> DEFINE h == slot[at[c]].logger
  <2>1. PICK w : Enqueue(h, c, w)
    BY <1>5 DEF Enqueues
  <2>2. /\ h \in Logger /\ queue'[h].list = Append(queue[h].list, call[c])
        /\ \A k \in Logger : k # h => queue'[k] = queue[k]
    BY <1>1, <1>5, <2>1, EnqueueEffect DEF Enqueues, Types
  <2>3. call[c] \in Entry
    BY <1>1, <1>5, SubmitFacts DEF Enqueues, Unsubmitted
  <2>4. CASE g # h
    BY <1>3, <2>2, <2>4
  <2>5. CASE g = h
    <3>1. r = Append(q, call[c])
      BY <2>2, <2>5
    <3>2. /\ DOMAIN Append(q, call[c]) = DOMAIN q \cup {Len(q) + 1}
          /\ \A i \in DOMAIN q : Append(q, call[c])[i] = q[i]
          /\ Append(q, call[c])[Len(q) + 1] = call[c]
      BY <1>2, <2>3, AppendElements
    <3> QED
      BY <2>5, <3>1, <3>2
  <2> QED
    BY <2>4, <2>5
<1>6. ASSUME NEW s \in Slot, ThreadPop(s)
      PROVE  Old
  <2> DEFINE h == slot[s].logger
  <2>1. h \in Logger /\ queue[h].list # <<>> /\ queue' = [queue EXCEPT ![h].list = Tail(@)]
    BY <1>1, <1>6, InLogger DEF ThreadPop, ThreadAt
  <2>2. queue'[h].list = Tail(queue[h].list) /\ \A k \in Logger : k # h => queue'[k] = queue[k]
    BY <1>1, <2>1, ListEffect DEF Types
  <2>3. CASE g # h
    BY <1>3, <2>2, <2>3
  <2>4. CASE g = h
    <3>1. r = Tail(q) /\ q # <<>>
      BY <2>1, <2>2, <2>4
    <3>2. \A i \in DOMAIN Tail(q) : i + 1 \in DOMAIN q /\ Tail(q)[i] = q[i + 1]
      BY <1>2, <3>1, TailElements
    <3> QED
      BY <3>1, <3>2
  <2> QED
    BY <2>3, <2>4
<1>7. ASSUME NEW s \in Slot, ThreadNext(s)
      PROVE  Old
  BY <1>3, <1>7 DEF ThreadNext
<1>8. ASSUME NEW t \in Setters, Reset(t)
      PROVE  Old
  BY <1>1, <1>3, <1>4, <1>8, ResetQueue
<1>9. ASSUME NEW t \in Setters, NEW kind \in Kinds, SetLogger(t, kind)
      PROVE  Old
  <2>1. g # loggers + 1 => queue'[g] = queue[g]
    BY <1>1, <1>9, SetLoggerEffect
  <2>2. CASE g = loggers + 1
    <3>1. UNCHANGED queue \/ queue'[loggers + 1].list = <<>>
      BY <1>1, <1>9, SetLoggerEffect
    <3> QED
      BY <1>3, <1>4, <2>2, <3>1
  <2> QED
    BY <1>3, <2>1, <2>2
<1>10. ASSUME NEW c \in Callers, Writes(c)
       PROVE  Old
  BY <1>3, <1>10 DEF Writes, Write
<1>11. CASE Quiet
  BY <1>3, <1>11 DEF Quiet
<1> QED
  BY <1>5, <1>6, <1>7, <1>8, <1>9, <1>10, <1>11, StepKinds, Zenon DEF StepKind

(* The types that the steps below need. *)
LEMMA FlushFacts ==
    ASSUME Inductive, FlushInv, OneFlusher, NEW c \in Callers
    PROVE  /\ GenOK(c) /\ DueOK(c) /\ MarkOK(c) 
           /\ at[c] \in Slot /\ gen[c] \in Nat /\ loggers \in Nat /\ cur \in Slot
           /\ gen[c] # 0 => gen[c] \in Logger
           /\ c \in Flushers \cup Movers => \A d \in Flushers \cup Movers : d = c
<1>1. Types
  BY TypeParts DEF Inductive
<1>2. /\ at[c] \in Slot /\ gen[c] \in 0..MaxLoggers /\ loggers \in 0..MaxLoggers /\ cur \in Slot
  BY <1>1 DEF Types, PlaceTypes, SlotTypes, Threads
<1>3. GenOK(c) /\ DueOK(c) /\ MarkOK(c)
  BY DEF FlushInv
<1> QED
  BY <1>2, <1>3, Bounds DEF OneFlusher, GenOK, Unsubmitted, Logger

(* How a call goes on. *)
LEMMA FlushCall ==
    ASSUME Inductive, [Next]_vars, FlushInv, OneFlusher, NEW c \in Callers
    PROVE  CallStep(c)
BY CallSteps, FlushFacts

(* Loggers are only added. *)
LEMMA LoggersGrow ==
    ASSUME Inductive, [Next]_vars
    PROVE  loggers' \in Nat /\ loggers <= loggers'
<1>1. Types /\ CountInv /\ ShutInv /\ SetterInv
  BY TypeParts DEF Inductive
<1>2. loggers \in Nat
  BY <1>1, Bounds DEF Types, SlotTypes
<1>3. ASSUME NEW t \in Setters, NEW kind \in Kinds, SetLogger(t, kind)
      PROVE  loggers' \in {loggers, loggers + 1}
  BY <1>1, <1>3, SetLoggerEffect
<1>4. ASSUME NEW t \in Setters, Reset(t)
      PROVE  loggers' = loggers
  BY <1>1, <1>4, ResetEffect
<1>5. ASSUME NEW t \in Setters, QuitBy(t)
      PROVE  loggers' = loggers
  BY <1>5 DEF QuitBy, Quit
<1>6. SlotsKept => loggers' = loggers
  BY DEF SlotsKept
<1> QED
  BY <1>2, <1>3, <1>4, <1>5, <1>6, SlotMoves DEF SlotMove

(* The first part: where calls are. *)
LEMMA GenStep ==
    ASSUME Prompt, Inductive, [Next]_vars, FlushInv, OneFlusher, NEW c \in Callers
    PROVE  GenOK(c)'
<1>1. /\ GenOK(c) /\ at[c] \in Slot /\ gen[c] \in Nat /\ loggers \in Nat
      /\ loggers' \in Nat /\ loggers <= loggers'
  BY FlushFacts, LoggersGrow
<1>2. CASE Ends(c)
  BY <1>1, <1>2 DEF Ends, Same, GenOK, Flushing, Unsubmitted
<1>3. CASE Begins(c)
  <2>1. slot[cur].logger <= loggers
    BY FlushFacts DEF Inductive, SlotInv, SlotOK
  <2> QED
    BY <1>1, <1>3, <2>1 DEF Begins, GenOK, Flushing, Unsubmitted, slotVars
<1>4. CASE Meets(c)
  <2>1. Flushing(c)
    BY <1>1, <1>4 DEF Meets, GenOK, Flushing, Unsubmitted
  <2> QED
    BY <1>1, <1>4, <2>1 DEF Meets, Same, GenOK, Flushing, Unsubmitted, slotVars
<1>5. CASE Stays(c) \/ Goes(c)
  <2>1. at'[c] = at[c] /\ call'[c] = call[c] /\ gen'[c] = gen[c] /\ leaving'[c] = leaving[c]
    BY <1>5 DEF Stays, Goes, Same
  <2>2. pc'[c] \in Unsubmitted \ {"last"} => pc[c] \in Unsubmitted \ {"last"}
    BY <1>5 DEF Stays, Goes, Submits, Unsubmitted
  <2>3. pc'[c] \in {"last", "flag", "set", "await"} => call[c].what # "msg"
    BY <1>1, <1>5 DEF Stays, Goes, Submits, GenOK
  <2>4. Flushing(c)' => Flushing(c)
    BY <1>5, <2>1 DEF Stays, Goes, Submits, Flushing, Unsubmitted
  <2>5. pc[c] \in Unsubmitted \ {"last"} => /\ slot'[at[c]].logger = slot[at[c]].logger
                                            /\ lmux' = None => at[c] = cur'
    BY <1>1, LoggerStays
  <2>6. pc'[c] \in {"idle", "info", "last"} => pc'[c] = pc[c]
    BY <1>5 DEF Stays, Goes, Submits
  <2> QED
    BY <1>1, <2>1, <2>2, <2>3, <2>4, <2>5, <2>6 DEF GenOK
<1> QED
  BY <1>2, <1>3, <1>4, <1>5, FlushCall DEF CallStep

(* The second part: what is due when a logger is replaced is all it accepted. *)
LEMMA DueStep ==
    ASSUME Prompt, Inductive, [Next]_vars, FlushInv, OneFlusher, NEW c \in Callers
    PROVE  DueOK(c)'
<1>1. /\ GenOK(c) /\ DueOK(c) /\ at[c] \in Slot /\ gen[c] \in Nat /\ loggers \in Nat
      /\ gen[c] # 0 => gen[c] \in Logger
  BY FlushFacts
<1>2. CASE Ends(c)
  BY <1>2 DEF Ends, DueOK, Flushing, Unsubmitted
<1>3. CASE Begins(c)
  BY <1>3 DEF Begins, DueOK, slotVars
<1>4. CASE Stays(c) \/ Meets(c) \/ Goes(c)
  <2>1. call'[c] = call[c] /\ gen'[c] = gen[c]
    BY <1>4 DEF Stays, Meets, Goes, Same
  <2>2. Flushing(c)' => Flushing(c)
    BY <1>4, <2>1 DEF Stays, Meets, Goes, Submits, Flushing, Unsubmitted
  <2> SUFFICES ASSUME Flushing(c), NEW g \in Logger, g = gen[c], slot'[cur'].logger # g
               PROVE  Mine(c)' \subseteq due'[g]
    BY <1>1, <2>1, <2>2 DEF DueOK
  <2>3. Mine(c)' \subseteq Mine(c) /\ due[g] \subseteq due'[g]
    BY <2>1, MineKept, Histories
  <2>4. g # 0
    BY DEF Logger
  <2>5. CASE slot[cur].logger # g
    BY <1>1, <2>3, <2>4, <2>5 DEF DueOK
  <2>6. CASE slot[cur].logger = g
    <3>1. Types /\ CountInv /\ ShutInv /\ SetterInv /\ cur \in Slot
      BY TypeParts DEF Inductive, Types, SlotTypes
    <3>2. ~SlotsKept
      BY <2>6, <3>1 DEF SlotsKept
    <3>3. ~\E t \in Setters : QuitBy(t)
      BY <2>6 DEF QuitBy, Quit
    <3>4. ~\E t \in Setters : Reset(t)
      BY <2>6, <3>1, ResetEffect
    <3>5. PICK t \in Setters, kind \in Kinds : SetLogger(t, kind)
      BY <3>2, <3>3, <3>4, SlotMoves DEF SlotMove
    <3>6. due'[g] = accepted[g]
      BY <2>4, <2>6, <3>1, <3>5 DEF SetLogger, Types, AcceptTypes
    <3> QED
      BY <2>3, <3>6 DEF Mine
  <2> QED
    BY <2>5, <2>6
<1> QED
  BY <1>2, <1>3, <1>4, FlushCall DEF CallStep

(* A thread that runs does not end at once. *)
LEMMA LiveNext ==
    ASSUME Inductive, [Next]_vars, NEW g \in Logger, Live(g)
    PROVE  thread'[g] # "done"
<1>1. LoggerMove(g)
  BY LoggerMoves
<1>2. \A s \in Slot : slot[s].logger = g => ~EndedBy(s)
  BY DEF EndedBy, Live
<1> QED
  BY <1>1, <1>2 DEF LoggerMove, Kept, Used, Written, Closing, Born, Live

(* The third part: a mark is not lowered before its flush is covered. *)
LEMMA MarkStep ==
    ASSUME Prompt, Inductive, [Next]_vars, FlushInv, OneFlusher, NEW c \in Callers
    PROVE  MarkOK(c)'
<1>1. /\ GenOK(c) /\ DueOK(c) /\ MarkOK(c) /\ at[c] \in Slot /\ gen[c] \in Nat
      /\ loggers \in Nat
      /\ gen[c] # 0 => gen[c] \in Logger
  BY FlushFacts
<1>2. CASE Ends(c)
  BY <1>2 DEF Ends, MarkOK, Flushing, Unsubmitted
<1>3. CASE Begins(c) \/ Meets(c)
  BY <1>3 DEF Begins, Meets, MarkOK, Flushing, Submits
<1>4. CASE Stays(c) \/ Goes(c)
  <2>1. at'[c] = at[c] /\ call'[c] = call[c] /\ gen'[c] = gen[c] /\ leaving'[c] = leaving[c]
    BY <1>4 DEF Stays, Goes, Same
  <2>2. Flushing(c)' => Flushing(c)
    BY <1>4, <2>1 DEF Stays, Goes, Submits, Flushing, Unsubmitted
  <2>3. ASSUME Flushing(c), NEW g \in Logger, slot[at[c]].logger = g, ThreadAck(at[c])
        PROVE  pc[c] = "await" /\ (leaving[c] = None => Covered(c))
    <3>1. c \in Flushers \cup Movers
      BY <1>1, <2>3 DEF GenOK
    <3> QED
      BY <1>1, <2>3, <3>1, AckAt DEF FlushInv, AckOK
  <2>4. ASSUME NEW g \in Logger, Raised(c, g), Live(g), ~ThreadAck(at[c])
        PROVE  Raised(c, g)'
    BY <1>1, <2>1, <2>4, RaisedStays, LiveNext
  <2>5. ASSUME Flushing(c), pc'[c] \in Submits, NEW g, g = slot'[at[c]].logger, g # 0, Live(g)'
        PROVE  slot'[at[c]].flushReq
    <3>1. pc[c] \in Unsubmitted \ {"last"}
      BY <1>4, <2>5 DEF Stays, Goes, Submits, Unsubmitted
    <3>2. slot[at[c]].logger = g
      BY <1>1, <2>5, <3>1, LoggerStays
    <3>3. Types /\ SlotInv
      BY TypeParts DEF Inductive
    <3>4. g \in Logger /\ g <= loggers
      BY <1>1, <2>5, <3>2, <3>3, InLogger
    <3>5. Live(g)
      BY <1>1, <2>5, <3>4, LiveBefore DEF Logger
    <3>6. CASE pc[c] \in Submits
      <4>1. Raised(c, g)
        BY <1>1, <2>5, <3>2, <3>5, <3>6 DEF MarkOK, Raised
      <4>2. ~ThreadAck(at[c])
        BY <2>3, <2>5, <3>2, <3>4, <3>6 DEF Submits
      <4>3. Raised(c, g)'
        BY <2>4, <3>4, <3>5, <4>1, <4>2
      <4> QED
        BY <2>1, <4>3 DEF Raised
    <3>7. CASE pc[c] = "flag"
      <4>1. ~slot[at[c]].logThread
        BY <1>4, <2>5, <3>7 DEF Stays, Goes, Submits
      <4>2. thread[g] = "none"
        BY <1>1, <2>5, <3>2, <3>3, <4>1 DEF SlotInv, SlotOK
      <4> QED
        BY <3>5, <4>2 DEF Live
    <3>8. CASE pc[c] = "set"
      BY <1>4, <2>5, <3>8 DEF Stays, Goes, Submits
    <3> QED
      BY <1>4, <2>5, <3>6, <3>7, <3>8 DEF Stays, Goes
  <2>6. ASSUME Flushing(c), pc'[c] = "await", leaving[c] = None, NEW g \in Logger, g = gen[c]
        PROVE  Covered(c)' \/ Raised(c, g)'
    <3>1. pc[c] \in Submits \cup {"await"}
      BY <1>4, <2>6 DEF Stays, Goes, Submits
    <3>2. ~Live(g) => Covered(c)
      BY <1>1, <2>6, EndCovers DEF GenOK
    <3>3. Covered(c) => Covered(c)'
      BY <2>1, <2>6, MineKept
    <3>4. Covered(c) \/ (Raised(c, g) /\ Live(g))
      <4>1. g # 0
        BY DEF Logger
      <4>2. CASE pc[c] = "await"
        BY <1>1, <2>6, <3>2, <4>1, <4>2 DEF MarkOK
      <4>3. CASE pc[c] \in Submits
        <5>1. slot[at[c]].logger = g
          BY <1>1, <2>6, <4>3 DEF GenOK, Submits, Unsubmitted
        <5> QED
          BY <1>1, <2>6, <3>2, <4>1, <4>3, <5>1 DEF MarkOK, Raised
      <4> QED
        BY <3>1, <4>2, <4>3
    <3>5. CASE Raised(c, g) /\ Live(g)
      <4>1. slot[at[c]].logger = g
        BY <3>5 DEF Raised
      <4> QED
        BY <2>3, <2>4, <2>6, <3>3, <3>5, <4>1
    <3> QED
      BY <3>3, <3>4, <3>5
  <2>7. \A g : /\ Flushing(c)' /\ pc'[c] \in Submits
                /\ g = slot'[at[c]].logger /\ g # 0 /\ Live(g)'
              => slot'[at[c]].flushReq
    BY <2>2, <2>5
  <2>8. Flushing(c)' /\ pc'[c] = "await" /\ leaving'[c] = None /\ gen'[c] # 0
            => Covered(c)' \/ Raised(c, gen[c])'
    BY <1>1, <2>1, <2>2, <2>6
  <2> QED
    BY <2>1, <2>7, <2>8 DEF MarkOK, Live, Raised
<1> QED
  BY <1>2, <1>3, <1>4, FlushCall DEF CallStep

(* Who waits for its mark waits on while it is up. *)
LEMMA WaiterStays ==
    ASSUME Inductive, [Next]_vars, FlushInv, OneFlusher, NEW c \in Callers,
           pc[c] = "await", slot[at[c]].flushReq
    PROVE  Stays(c)
BY FlushCall DEF CallStep, Ends, Begins, Meets, Goes, Submits

(* What a queue takes from a flush is an entry of a call that waits. *)
LEMMA NullEnqueued ==
    ASSUME Prompt, Inductive, [Next]_vars, FlushInv, OneFlusher, NEW c \in Callers,
           Enqueues(c), call[c].what # "msg", NEW g \in Logger, slot[at[c]].logger = g,
           Live(g)
    PROVE  /\ c \in Flushers \cup Movers /\ pc[c] # "await" /\ call[c].item[1] = c
           /\ pc'[c] = "await" /\ Raised(c, g)' /\ call'[c] = call[c]
           /\ leaving'[c] = None => gen'[c] = g
<1>1. /\ GenOK(c) /\ MarkOK(c) /\ at[c] \in Slot /\ gen[c] \in Nat
  BY FlushFacts
<1>2. pc[c] \in {"push", "blocked"} /\ UNCHANGED slot /\ Submitted(c)
  BY DEF Enqueues, Enqueue
<1>3. UNCHANGED callVars /\ pc' = [pc EXCEPT ![c] = "await"]
  BY <1>2 DEF Submitted, Goto
<1>4. /\ pc'[c] = "await" /\ gen'[c] = gen[c] /\ at'[c] = at[c] /\ call'[c] = call[c]
      /\ leaving'[c] = leaving[c]
  BY <1>3, TypeParts DEF callVars, Inductive, Types, PlaceTypes, Threads
<1>5. Flushing(c) /\ (leaving[c] = None => gen[c] = g) /\ g # 0
  BY <1>1, <1>2 DEF Flushing, Unsubmitted, GenOK, Logger
<1>6. slot[at[c]].flushReq
  BY <1>1, <1>2, <1>5 DEF MarkOK, Submits
<1>7. Raised(c, g)'
  BY <1>2, <1>4, <1>6 DEF Raised
<1>8. call[c].item[1] = c
  BY <1>2, SubmitFacts, TypeParts DEF Inductive, Unsubmitted
<1> QED
  BY <1>1, <1>2, <1>4, <1>5, <1>7, <1>8 DEF GenOK

(* The fourth part: the NULLs in a queue. *)
LEMMA NullStep ==
    ASSUME Prompt, Inductive, [Next]_vars, FlushInv, OneFlusher, NEW g \in Logger
    PROVE  NullOK(g)'
<1> DEFINE Good(c, e) == /\ pc'[c] = "await" /\ Raised(c, g)' /\ e.item = call'[c].item
                         /\ leaving'[c] = None => gen'[c] = g
<1> SUFFICES ASSUME Live(g)', NEW j \in DOMAIN queue'[g].list, NEW e, e = queue'[g].list[j],
                    e.what # "msg", NEW c, c = e.item[1]
             PROVE  Good(c, e)
  BY DEF NullOK, Live
<1>1. Types /\ SlotInv /\ FreshInv /\ CallerInv /\ queue[g].list \in Seq(Entry)
  BY TypeParts DEF Inductive, Types, QueueTypes, QueueType
<1>2. ASSUME NEW i \in DOMAIN queue[g].list, e = queue[g].list[i]
      PROVE  Good(c, e)
  <2>1. thread[g] # "none"
    BY <1>1, <1>2 DEF FreshInv, FreshOK
  <2>2. Live(g)
    BY <2>1, LiveBefore
  <2>3. /\ pc[c] = "await" /\ Raised(c, g) /\ e.item = call[c].item
        /\ leaving[c] = None => gen[c] = g
    BY <1>2, <2>2 DEF FlushInv, NullOK
  <2>4. c \in Callers
    <3>1. e \in Entry
      BY <1>1, <1>2, ElementIn
    <3> QED
      BY <3>1 DEF Entry, Item
  <2>5. Stays(c)
    BY <2>3, <2>4, WaiterStays DEF Raised
  <2>6. GenOK(c) /\ at[c] \in Slot /\ slot[at[c]].logger = g
    BY <2>3, <2>4, FlushFacts DEF Raised
  <2>7. thread[g] # "ack"
    BY <1>2 DEF FlushInv, AckOK
  <2>8. ~ThreadAck(at[c])
    BY <2>6, <2>7, AckAt
  <2>9. Raised(c, g)'
    BY <2>2, <2>3, <2>4, <2>5, <2>6, <2>8, RaisedStays, LiveNext DEF Stays
  <2> QED
    BY <2>3, <2>5, <2>9 DEF Stays, Same
<1>3. ASSUME NEW d \in Callers, Enqueues(d), slot[at[d]].logger = g, e = call[d]
      PROVE  Good(c, e)
  <2>1. Live(g)
    BY <1>3 DEF Enqueues, Live
  <2>2. /\ call[d].item[1] = d
        /\ pc'[d] = "await" /\ Raised(d, g)' /\ call'[d] = call[d]
        /\ leaving'[d] = None => gen'[d] = g
    BY <1>3, <2>1, NullEnqueued
  <2> QED
    BY <1>3, <2>2
<1> QED
  BY <1>2, <1>3, QueueFrom

(* A log thread takes a NULL out of its queue when nothing of its caller is
   queued behind it, and all of it that the logger accepted is at the sink. *)
LEMMA NullTaken ==
    ASSUME Inductive, [Next]_vars, FlushInv, OneFlusher, NEW g \in Logger,
           NEW s \in Slot, ThreadPop(s), slot[s].logger = g, Head(queue[g].list).what # "msg"
    PROVE  \E c \in Flushers \cup Movers :
              /\ c \in Callers /\ pc[c] = "await" /\ Raised(c, g)
              /\ leaving[c] = None => gen[c] = g
              /\ Head(queue[g].list).item = call[c].item
              /\ {i \in accepted[g] : i[1] = c} \subseteq Messages(g)
              /\ \A j \in DOMAIN queue'[g].list : queue'[g].list[j].what = "msg"
<1> SUFFICES ASSUME NEW q, q = queue[g].list
             PROVE  \E c \in Flushers \cup Movers :
                       /\ c \in Callers /\ pc[c] = "await" /\ Raised(c, g)
                       /\ leaving[c] = None => gen[c] = g
                       /\ Head(queue[g].list).item = call[c].item
                       /\ {i \in accepted[g] : i[1] = c} \subseteq Messages(g)
                       /\ \A j \in DOMAIN queue'[g].list : queue'[g].list[j].what = "msg"
  OBVIOUS
<1> DEFINE e == q[1]  c == e.item[1]
<1>1. Types /\ SlotInv /\ CallerInv /\ OrderInv /\ DeliverInv
  BY TypeParts DEF Inductive
<1>2. q \in Seq(Entry) /\ q # <<>> /\ thread[g] = "loop" /\ UNCHANGED <<slot, accepted, pc, callVars>>
  BY <1>1 DEF ThreadPop, ThreadAt, Types, QueueTypes, QueueType, slotVars
<1>3. /\ 1 \in DOMAIN q /\ Head(q) = e /\ e \in Entry /\ DOMAIN q \subseteq Nat
      /\ \A j \in DOMAIN Tail(q) : j + 1 \in DOMAIN q /\ j + 1 > 1 /\ Tail(q)[j] = q[j + 1]
      /\ \A i \in DOMAIN q : i # 1 => i > 1
  <2>1. DOMAIN q = 1..Len(q) /\ Len(q) \in Nat
    BY <1>2, LenProperties
  <2> QED
    BY <1>2, <2>1, TailElements
<1>4. queue'[g].list = Tail(q)
  BY <1>1, <1>2, ListEffect DEF ThreadPop, Types
<1>5. /\ pc[c] = "await" /\ Raised(c, g) /\ e.item = call[c].item
      /\ leaving[c] = None => gen[c] = g
  BY <1>2, <1>3 DEF FlushInv, NullOK, Live
<1>6. c \in Callers /\ e.item[2] = made[c] /\ made[c] \in Nat
  <2>1. c \in Callers
    BY <1>3 DEF Entry, Item
  <2>2. e.item = <<c, made[c]>>
    BY <1>1, <1>5, <2>1 DEF CallerInv, CallerOK
  <2> QED
    BY <1>1, <2>1, <2>2 DEF Types, PlaceTypes, Threads
<1>7. c \in Flushers \cup Movers /\ \A d \in Flushers \cup Movers : d = c
  BY <1>5, <1>6, FlushFacts DEF GenOK, Flushing
<1>8. ASSUME NEW i \in DOMAIN q, i # 1
      PROVE  q[i].item[1] # c
  <2> SUFFICES ASSUME q[i].item[1] = c PROVE FALSE
    OBVIOUS
  <2>1. Before(e.item, q[i].item) /\ q[i].item[2] <= Sent[q[i].item[1]]
    BY <1>1, <1>3, <1>8 DEF OrderInv, OrderOK
  <2>2. q[i].item \in Item
    BY <1>2, <1>8, ElementIn, EntryItem
  <2>3. q[i].item[2] \in Nat
    BY <2>2 DEF Item
  <2>4. Sent[c] = made[c]
    BY <1>5, <1>6 DEF Sent, Unsubmitted
  <2> QED
    BY <1>6, <2>1, <2>3, <2>4 DEF Before
<1>9. ASSUME NEW j \in DOMAIN queue'[g].list
      PROVE  queue'[g].list[j].what = "msg"
  <2>1. PICK i \in DOMAIN q : i # 1 /\ queue'[g].list[j] = q[i]
    BY <1>3, <1>4, <1>9
  <2> SUFFICES ASSUME q[i].what # "msg" PROVE FALSE
    BY <2>1
  <2> DEFINE d == q[i].item[1]
  <2>2. pc[d] = "await" /\ Raised(d, g) /\ q[i].item = call[d].item
    BY <1>2 DEF FlushInv, NullOK, Live
  <2>3. d \in Callers
    <3>1. q[i] \in Entry
      BY <1>2, ElementIn
    <3> QED
      BY <3>1 DEF Entry, Item
  <2>4. d \in Flushers \cup Movers
    BY <2>2, <2>3, FlushFacts DEF GenOK, Flushing
  <2> QED
    BY <1>7, <1>8, <2>1, <2>4
<1>10. {i \in accepted[g] : i[1] = c} \subseteq Messages(g)
  <2>1. g # 0 /\ accepted[g] \subseteq Messages(g) \cup Queued(g)
    BY <1>1 DEF DeliverInv, DeliverOK, Logger
  <2>2. \A i \in Queued(g) : i[1] # c
    <3> SUFFICES ASSUME NEW x \in ToSet(q), x.what = "msg" PROVE x.item[1] # c
      BY DEF Queued
    <3>1. PICK i \in DOMAIN q : x = q[i]
      BY DEF ToSet
    <3>2. i # 1
      BY <1>3, <3>1
    <3> QED
      BY <1>8, <3>1, <3>2
  <2> QED
    BY <2>1, <2>2
<1> QED
  BY <1>3, <1>5, <1>6, <1>7, <1>9, <1>10

(* Then it is about to lower the mark. *)
LEMMA AckBegins ==
    ASSUME Prompt, Inductive, [Next]_vars, FlushInv, OneFlusher, NEW g \in Logger,
           NEW s \in Slot, ThreadPop(s), slot[s].logger = g, Head(queue[g].list).what # "msg"
    PROVE  AckOK(g)'
<1>1. PICK c \in Flushers \cup Movers :
              /\ c \in Callers /\ pc[c] = "await" /\ Raised(c, g)
              /\ leaving[c] = None => gen[c] = g
              /\ Head(queue[g].list).item = call[c].item
              /\ {i \in accepted[g] : i[1] = c} \subseteq Messages(g)
              /\ \A j \in DOMAIN queue'[g].list : queue'[g].list[j].what = "msg"
  BY NullTaken
<1>2. UNCHANGED <<slot, accepted, pc, callVars>>
  BY DEF ThreadPop, slotVars
<1>3. Messages(g) \subseteq Messages(g)'
  BY Histories
<1>4. leaving[c] = None => Covered(c)'
  BY <1>1, <1>2, <1>3 DEF Covered, Mine, Messages, callVars
<1>5. pc'[c] = "await" /\ Raised(c, g)' /\ leaving'[c] = leaving[c] /\ gen'[c] = gen[c]
  BY <1>1, <1>2 DEF Raised, callVars
<1>6. \A d \in Flushers \cup Movers : d = c
  BY DEF OneFlusher
<1> QED
  BY <1>1, <1>4, <1>5, <1>6 DEF AckOK

(* The fifth part: a log thread that is about to lower a mark. *)
LEMMA AckStep ==
    ASSUME Prompt, Inductive, [Next]_vars, FlushInv, OneFlusher, NEW g \in Logger
    PROVE  AckOK(g)'
<1> SUFFICES ASSUME thread'[g] = "ack" PROVE AckOK(g)'
  BY DEF AckOK
<1>1. CASE thread[g] # "ack"
  BY <1>1, MarkMoves, AckBegins DEF AckFrom
<1>2. CASE thread[g] = "ack"
  <2>1. Live(g) /\ AckOK(g)
    BY <1>2 DEF Live, FlushInv
  <2>2. ASSUME NEW c \in Flushers \cup Movers
        PROVE  pc'[c] = "await" /\ Raised(c, g)'
               /\ (leaving'[c] = None => gen'[c] = g /\ Covered(c)')
    <3>1. /\ pc[c] = "await" /\ Raised(c, g) /\ c \in Callers
          /\ leaving[c] = None => gen[c] = g /\ Covered(c)
      BY <1>2, <2>1, LoggerAssumption DEF AckOK
    <3>2. Stays(c)
      BY <3>1, WaiterStays DEF Raised
    <3>3. GenOK(c) /\ at[c] \in Slot /\ slot[at[c]].logger = g /\ Flushing(c)
      BY <3>1, FlushFacts DEF Raised, GenOK, Flushing
    <3>4. ~ThreadAck(at[c])
      BY <3>3, AckAt
    <3>5. Raised(c, g)'
      BY <2>1, <3>1, <3>2, <3>3, <3>4, RaisedStays, LiveNext DEF Stays
    <3>6. leaving[c] = None => Covered(c)'
      BY <3>1, <3>2, <3>3, MineKept DEF Stays, Same
    <3> QED
      BY <3>1, <3>2, <3>5, <3>6 DEF Stays, Same
  <2>3. ASSUME NEW j \in DOMAIN queue'[g].list
        PROVE  queue'[g].list[j].what = "msg"
    <3>1. ASSUME NEW c \in Callers, Enqueues(c), slot[at[c]].logger = g,
                 queue'[g].list[j] = call[c]
          PROVE  call[c].what = "msg"
      BY <1>2, <2>1, <3>1, NullEnqueued DEF AckOK
    <3> QED
      BY <1>2, <2>1, <3>1, QueueFrom DEF AckOK
  <2> QED
    BY <2>2, <2>3 DEF AckOK
<1> QED
  BY <1>1, <1>2
-----------------------------------------------------------------------------
(* Flushes are as FlushInv says, if one thread flushes and no call is late. *)
THEOREM FlushHolds == Prompt /\ OneFlusher /\ Spec => []FlushInv
<1>1. ASSUME Init PROVE FlushInv
  <2>1. ASSUME NEW c \in Callers PROVE GenOK(c) /\ DueOK(c) /\ MarkOK(c)
    BY <1>1, <2>1 DEF Init, Start, GenOK, DueOK, MarkOK, Flushing, Unsubmitted, Threads
  <2>2. ASSUME NEW g \in Logger PROVE NullOK(g) /\ AckOK(g)
    BY <1>1, <2>2 DEF Init, Start, NullOK, AckOK, Live
  <2> QED
    BY <2>1, <2>2 DEF FlushInv
<1>2. ASSUME Prompt, OneFlusher, Inductive, [Next]_vars, FlushInv PROVE FlushInv'
  <2>1. ASSUME NEW c \in Callers PROVE GenOK(c)' /\ DueOK(c)' /\ MarkOK(c)'
    BY <1>2, <2>1, GenStep, DueStep, MarkStep
  <2>2. ASSUME NEW g \in Logger PROVE NullOK(g)' /\ AckOK(g)'
    BY <1>2, <2>2, NullStep, AckStep
  <2> QED
    BY <2>1, <2>2 DEF FlushInv
<1>3. CASE Prompt /\ OneFlusher
  BY <1>1, <1>2, <1>3, InductiveHolds, PTL DEF Spec
<1> QED
  BY <1>3

(* If one thread flushes, and changes the path if any does, and no call is
   late, then a flush returns when all that its thread logged before has
   reached the sink. *)
THEOREM FlushCoversHolds == Prompt /\ OneFlusher /\ Spec => FlushCovers
<1> DEFINE Covering ==
              \A c \in Callers : Returns(c) /\ gen[c] # 0 /\ leaving[c] = None => Covered(c)
<1>1. ASSUME OneFlusher, Inductive, FlushInv, [Next]_vars
      PROVE  Covering
  <2> SUFFICES ASSUME NEW c \in Callers, Returns(c), gen[c] # 0, leaving[c] = None PROVE Covered(c)
    OBVIOUS
  <2>1. pc[c] = "await" /\ pc'[c] = "idle"
    BY DEF Returns
  <2>2. GenOK(c) /\ MarkOK(c)
    BY <1>1, FlushFacts
  <2>3. ~slot[at[c]].flushReq
    BY <1>1, <2>1, WaiterStays DEF Stays
  <2> QED
    BY <1>1, <2>1, <2>2, <2>3 DEF GenOK, MarkOK, Flushing, Raised
<1>2. ASSUME OneFlusher, Inductive, FlushInv, [Next]_vars
      PROVE  [\A c \in Callers :
                 Returns(c) /\ gen[c] # 0 /\ leaving[c] = None /\ ~Overtaken(c) =>
                    {i \in accepted[gen[c]] : i[1] = c} \subseteq Messages(gen[c])]_vars
  BY <1>1, <1>2 DEF Covered, Mine
<1>3. CASE Prompt /\ OneFlusher
  BY <1>2, <1>3, InductiveHolds, FlushHolds, PTL DEF Spec, FlushCovers
<1> QED
  BY <1>3
-----------------------------------------------------------------------------
Latest(c) == <<c, made[c]>>
Earlier(c) == <<c, made[c] - 1>>
Moving(c) == Flushing(c) /\ leaving[c] # None

(* A message is queued once and written once. *)
FreshItem(i) == i[2] <= Sent[i[1]] \/ wrote[i] = None
WaitingOK(g) == \A i \in Queued(g) : i \in accepted[g] /\ wrote[i] = None
ApartOK(g, h) == g # h => Queued(g) \cap (Queued(h) \cup Messages(h)) = {}
AwaitOK(c) == pc[c] = "await" => \A g \in Logger : Latest(c) \notin Messages(g) \cup Queued(g)
OnceInv ==
    /\ \A g \in Logger : WaitingOK(g)
    /\ \A g, h \in Logger : ApartOK(g, h)
    /\ \A i \in Item : FreshItem(i)
    /\ \A c \in Callers : AwaitOK(c)

(* What a caller that may change the path logged last went to the file its
   logger still writes to ... *)
KeptOK(c) ==
    LET g == slot[cur].logger
    IN  c \in Movers /\ leaving[c] = None /\ g # 0 /\ Latest(c) \in Messages(g) =>
            wrote[Latest(c)] \in {file[g].path, None}

(* ... and goes to the one that it leaves. *)
CutOK(c) ==
    LET g == gen[c]
    IN  Moving(c) => IF Earlier(c) \in Messages(g) THEN wrote[Earlier(c)] \in {leaving[c], None}
                     ELSE Earlier(c) \in accepted[g] => file[g].path = leaving[c]

CutInv == \A c \in Callers : KeptOK(c) /\ CutOK(c)

(* The queue of a log thread is open while the thread runs, and a call that is
   at a queue is at that of a log thread. *)
OpenOK(g) == thread[g] \notin {"none", "done"} => queue[g].open
QueuerOK(c) ==
    pc[c] \in {"push", "blocked"} => slot[at[c]].logger # 0 /\ thread[slot[at[c]].logger] # "none"

(* What a sink has open is at its path. *)
FileOK(g) == file[g].wh \in {None, file[g].path}

(* The sink has left the old path, or the caller's CLOSE will tell it to. *)
Coming(c) ==
    \/ pc[c] = "last"
    \/ pc[c] \in Unsubmitted /\ at[c] = cur
    \/ pc[c] = "await" /\ at[c] = cur /\ \E j \in DOMAIN queue[gen[c]].list : queue[gen[c]].list[j] = call[c]
PathOK(c) ==
    LET f == file[gen[c]]
    IN  Moving(c) =>
            /\ call[c].what = "CLOSE"
            /\ slot[cur].logger = gen[c] =>
                  \/ f.path # leaving[c] /\ f.newPath = None
                  \/ f.newPath \notin {None, leaving[c]} /\ Coming(c)

PathInv ==
    /\ \A c \in Callers : QueuerOK(c) /\ PathOK(c)
    /\ \A g \in Logger : OpenOK(g) /\ FileOK(g)
OnlyInv == loggers = 1 => slot[cur].logger = 1

(* PathClosed, of the calls whose logger is not replaced before they return. *)
PathKept ==
    [][\A c \in Callers : Returns(c) /\ leaving[c] # None /\ slot[cur].logger = gen[c] =>
          file[gen[c]].wh # leaving[c] /\ file[gen[c]].path # leaving[c]]_vars
Takes(s, g) == ThreadPop(s) /\ slot[s].logger = g
(* A step hands a message to a sink, ... *)
Delivers(g, i) ==
    /\ SinkMessage(g, i)
    /\ \/ \E s \in Slot : Takes(s, g) /\ Head(queue[g].list).what = "msg"
                                     /\ Head(queue[g].list).item = i
       \/ \E c \in Callers : Writes(c) /\ slot[at[c]].logger = g /\ call[c].item = i
(* ... or a NULL, ... *)
CloseBy(g) ==
    \/ \E s \in Slot : ThreadPop(s) /\ slot[s].logger = g /\ Head(queue[g].list).what # "msg"
    \/ \E c \in Callers : Write(c) /\ slot[at[c]].logger = g /\ call[c].what = "CLOSE"
    \/ \E s \in Slot : ThreadClose(s) /\ slot[s].logger = g
    \/ \E t \in Setters : QuitBy(t) /\ slot[at[t]].logger = g
(* ... or tells it the path to go to. *)
SinkMove ==
    \/ UNCHANGED <<file, got, wrote>>
    \/ \E g \in Logger, i \in Item : Delivers(g, i)
    \/ \E g \in Logger, what \in {"FLUSH", "CLOSE"} :
          SinkNull(g, what) /\ (CloseBy(g) \/ what = "FLUSH")
    \/ \E c \in Movers : SinkCtxPath(c)

(* A step does one of these to the sinks. *)
LEMMA SinkMoves ==
    ASSUME Inductive, [Next]_vars
    PROVE  SinkMove
<1> Types /\ SlotInv /\ CallerInv /\ SetterInv
  BY TypeParts DEF Inductive
<1> USE DEF slotVars, sinkVars, callVars, threadVars, vars
<1> HIDE DEF SinkMove
<1>1. ASSUME NEW c \in Callers, pc[c] \in {"idle", "info"}, RawLog(c)
      PROVE  SinkMove
  <2>1. UNCHANGED <<file, got, wrote>>
    BY <1>1 DEF RawLog, Begin
  <2> QED
    BY <2>1 DEF SinkMove
<1>2. ASSUME NEW c \in Callers, Flush(c)
      PROVE  SinkMove
  <2>1. UNCHANGED <<file, got, wrote>>
    BY <1>2 DEF Flush, Begin
  <2> QED
    BY <2>1 DEF SinkMove
<1>3. ASSUME NEW c \in Callers, SinkCtxPath(c)
      PROVE  SinkMove
  BY <1>3, LoggerAssumption DEF SinkMove, SinkCtxPath, ChangePath
<1>4. ASSUME NEW c \in Callers, Unblock(c)
      PROVE  SinkMove
  <2>1. UNCHANGED <<file, got, wrote>>
    BY <1>4 DEF Unblock
  <2> QED
    BY <2>1 DEF SinkMove
<1>5. ASSUME NEW c \in Callers, Return(c), pc[c] = "info",
             UNCHANGED <<slotVars, queue, threadVars, sinkVars, accepted, due>>
      PROVE  SinkMove
  <2>1. UNCHANGED <<file, got, wrote>>
    BY <1>5
  <2> QED
    BY <2>1 DEF SinkMove
<1>6. ASSUME NEW c \in Callers, LastLog(c)
      PROVE  SinkMove
  <2>1. UNCHANGED <<file, got, wrote>>
    BY <1>6 DEF LastLog
  <2> QED
    BY <2>1 DEF SinkMove
<1>7. ASSUME NEW c \in Callers, FlagLook(c)
      PROVE  SinkMove
  <2>1. UNCHANGED <<file, got, wrote>>
    BY <1>7 DEF FlagLook
  <2> QED
    BY <2>1 DEF SinkMove
<1>8. ASSUME NEW c \in Callers, FlagSet(c)
      PROVE  SinkMove
  <2>1. UNCHANGED <<file, got, wrote>>
    BY <1>8 DEF FlagSet
  <2> QED
    BY <2>1 DEF SinkMove
<1>9. ASSUME NEW c \in Callers, Dispatch(c)
      PROVE  SinkMove
  <2>1. UNCHANGED <<file, got, wrote>>
    BY <1>9 DEF Dispatch, Submitted
  <2> QED
    BY <2>1 DEF SinkMove
<1>10. ASSUME NEW c \in Callers, Write(c)
      PROVE  SinkMove
  <2> DEFINE g == slot[at[c]].logger
  <2>1. at[c] \in Slot /\ call[c] \in Entry /\ pc[c] = "write"
    BY <1>10, SubmitFacts DEF Types, PlaceTypes, Threads, Write, Unsubmitted
  <2>2. CASE g = 0
    BY <1>10, <2>2 DEF Write, My, SinkMove
  <2>3. CASE g # 0
    <3>1. g \in Logger /\ Sink(g, call[c])
      BY <1>10, <2>1, <2>3, InLogger DEF Write, My
    <3>2. CASE call[c].what = "msg"
      <4>1. SinkMessage(g, call[c].item) /\ Writes(c) /\ call[c].item \in Item
        BY <1>10, <2>1, <2>3, <3>1, <3>2, EntryItem DEF Sink, Writes
      <4>2. Delivers(g, call[c].item)
        BY <4>1 DEF Delivers
      <4> QED
        BY <3>1, <4>1, <4>2 DEF SinkMove
    <3>3. CASE call[c].what # "msg"
      <4>1. SinkNull(g, call[c].what) /\ call[c].what \in {"FLUSH", "CLOSE"}
        BY <2>1, <3>1, <3>3 DEF Sink, Entry
      <4>2. CloseBy(g) \/ call[c].what = "FLUSH"
        BY <1>10, <4>1 DEF CloseBy
      <4> QED
        BY <3>1, <4>1, <4>2 DEF SinkMove
    <3> QED
      BY <3>2, <3>3
  <2> QED
    BY <2>2, <2>3
<1>11. ASSUME NEW c \in Callers, Push(c)
      PROVE  SinkMove
  <2>1. UNCHANGED <<file, got, wrote>>
    BY <1>11 DEF Push, Enqueue, Accept, Submitted
  <2> QED
    BY <2>1 DEF SinkMove
<1>12. ASSUME NEW c \in Callers, PushResume(c)
      PROVE  SinkMove
  <2>1. UNCHANGED <<file, got, wrote>>
    BY <1>12 DEF PushResume, Enqueue, Accept, Submitted
  <2> QED
    BY <2>1 DEF SinkMove
<1>13. ASSUME NEW c \in Callers, PushAbort(c)
      PROVE  SinkMove
  <2>1. UNCHANGED <<file, got, wrote>>
    BY <1>13 DEF PushAbort, Submitted
  <2> QED
    BY <2>1 DEF SinkMove
<1>14. ASSUME NEW c \in Callers, Await(c)
      PROVE  SinkMove
  <2>1. UNCHANGED <<file, got, wrote>>
    BY <1>14 DEF Await
  <2> QED
    BY <2>1 DEF SinkMove
<1>15. ASSUME NEW s \in Slot, ThreadPop(s)
      PROVE  SinkMove
  <2> DEFINE g == slot[s].logger  e == Head(queue[g].list)
  <2>1. g \in Logger /\ Sink(g, e) /\ queue[g].list # <<>>
    BY <1>15, InLogger DEF ThreadPop, ThreadAt
  <2>2. e \in Entry
    BY <2>1, TailElements DEF Types, QueueTypes, QueueType
  <2> HIDE DEF e
  <2>3. CASE e.what = "msg"
    <3>1. SinkMessage(g, e.item) /\ e.item \in Item
      BY <2>1, <2>2, <2>3, EntryItem DEF Sink
    <3>2. Delivers(g, e.item)
      BY <1>15, <2>3, <3>1 DEF Delivers, Takes, e
    <3> QED
      BY <2>1, <3>1, <3>2 DEF SinkMove
  <2>4. CASE e.what # "msg"
    <3>1. SinkNull(g, e.what) /\ e.what \in {"FLUSH", "CLOSE"}
      BY <2>1, <2>2, <2>4 DEF Sink, Entry
    <3>2. CloseBy(g) \/ e.what = "FLUSH"
      BY <1>15, <2>4, <3>1 DEF CloseBy, e
    <3> QED
      BY <2>1, <3>1, <3>2 DEF SinkMove
  <2> QED
    BY <2>3, <2>4
<1>16. ASSUME NEW s \in Slot, ThreadTimeout(s)
      PROVE  SinkMove
  <2>1. slot[s].logger \in Logger
    BY <1>16, InLogger DEF ThreadTimeout, ThreadAt
  <2> QED
    BY <1>16, <2>1 DEF ThreadTimeout, SinkMove
<1>17. ASSUME NEW s \in Slot, ThreadAck(s)
      PROVE  SinkMove
  <2>1. UNCHANGED <<file, got, wrote>>
    BY <1>17 DEF ThreadAck
  <2> QED
    BY <2>1 DEF SinkMove
<1>18. ASSUME NEW s \in Slot, ThreadFlush(s)
      PROVE  SinkMove
  <2>1. slot[s].logger \in Logger
    BY <1>18, InLogger DEF ThreadFlush, ThreadAt
  <2> QED
    BY <1>18, <2>1 DEF ThreadFlush, SinkMove
<1>19. ASSUME NEW s \in Slot, ThreadNext(s)
      PROVE  SinkMove
  <2>1. UNCHANGED <<file, got, wrote>>
    BY <1>19 DEF ThreadNext
  <2> QED
    BY <2>1 DEF SinkMove
<1>20. ASSUME NEW s \in Slot, ThreadClose(s)
      PROVE  SinkMove
  <2>1. slot[s].logger \in Logger /\ SinkNull(slot[s].logger, "CLOSE")
    BY <1>20, InLogger DEF ThreadClose, ThreadAt, SinkFinal
  <2>2. CloseBy(slot[s].logger)
    BY <1>20 DEF CloseBy
  <2> QED
    BY <2>1, <2>2 DEF SinkMove
<1>21. ASSUME NEW t \in Setters, NEW kind \in Kinds, SetLogger(t, kind)
      PROVE  SinkMove
  <2>1. UNCHANGED <<file, got, wrote>>
    BY <1>21 DEF SetLogger, Lock
  <2> QED
    BY <2>1 DEF SinkMove
<1>22. ASSUME NEW t \in Setters, Quit(t)
      PROVE  SinkMove
  <2>1. pc[t] # "idle" /\ pc[t] = "quit"
    BY <1>22 DEF Quit
  <2>2. lmux = t /\ at[t] = 3 - cur /\ cur \in Slot
    BY <2>1, SetterAt
  <2>3. CASE slot[at[t]].logThread
    BY <1>22, <2>3 DEF Quit, SinkMove
  <2>4. CASE ~slot[at[t]].logThread
    <3>1. SinkNull(slot[at[t]].logger, "CLOSE") /\ QuitBy(t)
      BY <1>22, <2>4 DEF Quit, SinkFinal, QuitBy
    <3>2. at[t] \in Slot /\ slot[at[t]].logger # 0
      BY <2>1, <2>2, LoggerAssumption DEF Inductive, ShutInv, Slot
    <3>3. slot[at[t]].logger \in Logger
      BY <3>2, InLogger
    <3>4. CloseBy(slot[at[t]].logger)
      BY <3>1 DEF CloseBy
    <3> QED
      BY <3>1, <3>3, <3>4 DEF SinkMove
  <2> QED
    BY <2>3, <2>4
<1>23. ASSUME NEW t \in Setters, WaitQuit(t)
      PROVE  SinkMove
  <2>1. UNCHANGED <<file, got, wrote>>
    BY <1>23 DEF WaitQuit
  <2> QED
    BY <2>1 DEF SinkMove
<1>24. ASSUME NEW t \in Setters, FreeQueue(t)
      PROVE  SinkMove
  <2>1. UNCHANGED <<file, got, wrote>>
    BY <1>24 DEF FreeQueue
  <2> QED
    BY <2>1 DEF SinkMove
<1>25. ASSUME NEW t \in Setters, Reset(t)
      PROVE  SinkMove
  <2>1. UNCHANGED <<file, got, wrote>>
    BY <1>25 DEF Reset
  <2> QED
    BY <2>1 DEF SinkMove
<1>26. ASSUME UNCHANGED vars
      PROVE  SinkMove
  <2>1. UNCHANGED <<file, got, wrote>>
    BY <1>26
  <2> QED
    BY <2>1 DEF SinkMove
<1> QED
  BY <1>1, <1>2, <1>3, <1>4, <1>5, <1>6, <1>7, <1>8, <1>9, <1>10, <1>11, <1>12, <1>13, <1>14, <1>15, <1>16, <1>17, <1>18, <1>19, <1>20, <1>21, <1>22, <1>23, <1>24, <1>25, <1>26
     DEF Next, Caller, Going, LogThread, Setting, Log, Info, Crashed, Rest

(* A message that is handed over goes to the file of the sink. *)
LEMMA DeliverEffect ==
    ASSUME Inductive, [Next]_vars, NEW g \in Logger, NEW i \in Item, Delivers(g, i)
    PROVE  /\ got' = [got EXCEPT ![g] = Append(@, i)] /\ got'[g] = Append(got[g], i)
           /\ i \in Messages(g)'
           /\ file'[g].path = file[g].path /\ file'[g].newPath = file[g].newPath
           /\ \A h \in Logger : h # g => file'[h] = file[h] /\ got'[h] = got[h]
           /\ wrote'[i] \in {None, file[g].path}
           /\ file'[g].wh \in {None, file[g].path}
           /\ \A j \in Item : j # i => wrote'[j] = wrote[j]
<1>1. SinkTypes
  BY TypeParts DEF Inductive, Types
<1>2. got[g] \in Seq(Item) /\ file[g] \in FileType
  BY <1>1 DEF SinkTypes
<1>3. PICK opened \in Opens : file' = [file EXCEPT ![g].wh = IF opened THEN file[g].path ELSE None]
  BY DEF Delivers, SinkMessage
<1>4. /\ file'[g].path = file[g].path /\ file'[g].newPath = file[g].newPath
      /\ file'[g].wh \in {None, file[g].path}
      /\ \A h \in Logger : h # g => file'[h] = file[h]
  BY <1>1, <1>2, <1>3 DEF SinkTypes, FileType
<1>5. /\ wrote' = [wrote EXCEPT ![i] = file'[g].wh]
      /\ got' = [got EXCEPT ![g] = Append(@, i)]
  BY DEF Delivers, SinkMessage
<1>6. wrote'[i] = file'[g].wh /\ \A j \in Item : j # i => wrote'[j] = wrote[j]
  BY <1>1, <1>5 DEF SinkTypes
<1>7. got'[g] = Append(got[g], i) /\ \A h \in Logger : h # g => got'[h] = got[h]
  BY <1>1, <1>5 DEF SinkTypes
<1>8. ToSet(got'[g]) = ToSet(got[g]) \cup {i}
  BY <1>2, <1>7, AppendSet
<1> QED
  BY <1>4, <1>5, <1>6, <1>7, <1>8 DEF Messages

(* A NULL closes the file, and CLOSE moves the sink to the new path. *)
LEMMA NullMoves ==
    ASSUME SinkTypes, NEW g \in Logger, NEW what, SinkNull(g, what)
    PROVE  /\ UNCHANGED <<got, wrote>>
           /\ \A h \in Logger : h # g => file'[h] = file[h]
           /\ file'[g].wh = None
           /\ IF what = "CLOSE" /\ file[g].newPath # None
              THEN file'[g].path = file[g].newPath /\ file'[g].newPath = None
              ELSE file'[g].path = file[g].path /\ file'[g].newPath = file[g].newPath
<1>1. file[g] \in FileType
  BY DEF SinkTypes
<1> QED
  BY <1>1 DEF SinkTypes, SinkNull, FileType

(* A message is written when it is handed to a sink, and to its file. *)
LEMMA WroteMoves ==
    ASSUME Inductive, [Next]_vars, NEW i \in Item
    PROVE  /\ wrote'[i] = wrote[i] \/ \E g \in Logger : Delivers(g, i)
           /\ \A g \in Logger : i \in Messages(g)' => i \in Messages(g) \/ Delivers(g, i)
<1>1. SinkTypes
  BY TypeParts DEF Inductive, Types
<1>2. CASE UNCHANGED <<file, got, wrote>>
  BY <1>2 DEF Messages
<1>3. ASSUME NEW h \in Logger, NEW j \in Item, Delivers(h, j)
      PROVE  /\ wrote'[i] = wrote[i] \/ \E g \in Logger : Delivers(g, i)
             /\ \A g \in Logger : i \in Messages(g)' => i \in Messages(g) \/ Delivers(g, i)
  <2>1. got[h] \in Seq(Item)
    BY <1>1 DEF SinkTypes
  <2>2. /\ got'[h] = Append(got[h], j) /\ (j # i => wrote'[i] = wrote[i])
        /\ \A g \in Logger : g # h => got'[g] = got[g]
    BY <1>3, DeliverEffect
  <2>3. ToSet(got'[h]) = ToSet(got[h]) \cup {j}
    BY <2>1, <2>2, AppendSet
  <2> QED
    BY <1>3, <2>2, <2>3 DEF Messages
<1>4. ASSUME NEW h \in Logger, NEW what, SinkNull(h, what)
      PROVE  UNCHANGED <<got, wrote>>
  BY <1>4 DEF SinkNull
<1>5. ASSUME NEW c \in Movers, SinkCtxPath(c)
      PROVE  UNCHANGED <<got, wrote>>
  BY <1>5 DEF SinkCtxPath, ChangePath, Begin
<1>6. UNCHANGED <<got, wrote>> => /\ wrote'[i] = wrote[i]
                                  /\ \A g \in Logger : Messages(g)' = Messages(g)
  BY DEF Messages
<1> QED
  BY <1>2, <1>3, <1>4, <1>5, <1>6, SinkMoves, Zenon DEF SinkMove

(* What is handed to a sink comes from its queue, or from a caller that has not
   submitted it yet. *)
LEMMA DeliverFrom ==
    ASSUME Inductive, [Next]_vars, NEW g \in Logger, NEW i \in Item, Delivers(g, i)
    PROVE  i \in Queued(g) \/ \E c \in Callers : i = Latest(c) /\ pc[c] \in Unsubmitted
<1>1. Types /\ CallerInv /\ SlotInv
  BY TypeParts DEF Inductive
<1>2. ASSUME NEW s \in Slot, Takes(s, g), Head(queue[g].list).what = "msg",
             Head(queue[g].list).item = i
      PROVE  i \in Queued(g)
  <2>1. queue[g].list \in Seq(Entry) /\ queue[g].list # <<>>
    BY <1>1, <1>2 DEF Takes, ThreadPop, Types, QueueTypes, QueueType
  <2>2. Head(queue[g].list) \in ToSet(queue[g].list)
    BY <2>1, TailElements DEF ToSet
  <2> QED
    BY <1>2, <2>2 DEF Queued
<1>3. ASSUME NEW c \in Callers, Writes(c), call[c].item = i
      PROVE  i = Latest(c) /\ pc[c] \in Unsubmitted
  <2>1. pc[c] \in Unsubmitted
    BY <1>3 DEF Writes, Write, Unsubmitted
  <2> QED
    BY <1>1, <1>3, <2>1, SubmitFacts DEF Latest
<1> QED
  BY <1>2, <1>3, Zenon DEF Delivers

(* What a step adds to a queue was not submitted before, and the step hands
   nothing to a sink. *)
LEMMA QueuedFrom ==
    ASSUME Inductive, [Next]_vars, NEW g \in Logger, NEW i \in Queued(g)'
    PROVE  \/ i \in Queued(g)
           \/ \E c \in Callers : /\ Enqueues(c) /\ slot[at[c]].logger = g /\ call[c].what = "msg"
                                 /\ i = Latest(c) /\ pc[c] \in Unsubmitted /\ i \in accepted'[g]
                                 /\ UNCHANGED got
<1>1. Types /\ CallerInv /\ SlotInv
  BY TypeParts DEF Inductive
<1>2. PICK j \in DOMAIN queue'[g].list : queue'[g].list[j].what = "msg" /\ i = queue'[g].list[j].item
  BY DEF Queued, ToSet
<1>3. ASSUME NEW k \in DOMAIN queue[g].list, queue'[g].list[j] = queue[g].list[k]
      PROVE  i \in Queued(g)
  BY <1>2, <1>3 DEF Queued, ToSet
<1>4. ASSUME NEW c \in Callers, Enqueues(c), slot[at[c]].logger = g,
             queue'[g].list[j] = call[c]
      PROVE  /\ call[c].what = "msg" /\ i = Latest(c) /\ pc[c] \in Unsubmitted
             /\ i \in accepted'[g] /\ UNCHANGED got
  <2>1. pc[c] \in Unsubmitted /\ Accept(g, c) /\ UNCHANGED got
    BY <1>4 DEF Enqueues, Enqueue, Unsubmitted
  <2>2. call[c].item = Latest(c)
    BY <1>1, <2>1, SubmitFacts DEF Latest
  <2>3. call[c].what = "msg" /\ i = call[c].item
    BY <1>2, <1>4
  <2>4. i \in accepted'[g]
    BY <1>1, <2>1, <2>3 DEF Accept, Types, AcceptTypes
  <2> QED
    BY <2>1, <2>2, <2>3, <2>4
<1> QED
  BY <1>3, <1>4, QueueFrom

(* What is queued or at a sink was submitted; what is queued is not at the
   sink. *)
LEMMA InOrder ==
    ASSUME NEW q \in Seq(Entry), NEW s \in Seq(Item), NEW sent,
           \A j \in DOMAIN s, k \in DOMAIN q : Before(s[j], q[k].item),
           \A j \in DOMAIN s : s[j][2] <= sent[s[j][1]],
           \A k \in DOMAIN q : q[k].item[2] <= sent[q[k].item[1]],
           NEW m, m = {e.item : e \in {x \in ToSet(q) : x.what = "msg"}},
           NEW i \in m \cup ToSet(s)
    PROVE  i \in Item /\ i[2] <= sent[i[1]] /\ ~(i \in m /\ i \in ToSet(s))
<1>1. ASSUME i \in m
      PROVE  \E j \in DOMAIN q : q[j].item = i /\ i \in Item
  <2>1. PICK j \in DOMAIN q : q[j].item = i
    BY <1>1 DEF ToSet
  <2>2. q[j].item \in Item
    BY ElementIn, EntryItem
  <2> QED
    BY <2>1, <2>2
<1>2. ASSUME i \in ToSet(s)
      PROVE  \E j \in DOMAIN s : s[j] = i /\ i \in Item
  BY <1>2, ElementIn DEF ToSet
<1>3. i \in Item => i[2] \in Nat
  BY DEF Item
<1> QED
  BY <1>1, <1>2, <1>3 DEF Before

(* That is so before and after a step. *)
LEMMA WasSent ==
    ASSUME Inductive, [Next]_vars, NEW g \in Logger
    PROVE  /\ \A i \in Queued(g) \cup Messages(g) :
                 i \in Item /\ i[2] <= Sent[i[1]] /\ ~(i \in Queued(g) /\ i \in Messages(g))
           /\ \A i \in Queued(g)' \cup Messages(g)' :
                 i \in Item /\ i[2] <= Sent'[i[1]] /\ ~(i \in Queued(g)' /\ i \in Messages(g)')
<1>1. Types /\ OrderInv
  BY TypeParts DEF Inductive
<1>2. Types' /\ OrderInv'
  BY TypeStep, OrderStep, TypeParts
<1>3. queue[g].list \in Seq(Entry) /\ got[g] \in Seq(Item) /\ OrderOK(g)
  BY <1>1 DEF Types, QueueTypes, QueueType, SinkTypes, OrderInv
<1>4. queue'[g].list \in Seq(Entry) /\ got'[g] \in Seq(Item) /\ OrderOK(g)'
  BY <1>2 DEF Types, QueueTypes, QueueType, SinkTypes, OrderInv
<1>5. \A i \in Queued(g) \cup Messages(g) :
         i \in Item /\ i[2] <= Sent[i[1]] /\ ~(i \in Queued(g) /\ i \in Messages(g))
  BY <1>3, InOrder DEF OrderOK, Queued, Messages
<1>6. \A i \in Queued(g)' \cup Messages(g)' :
         i \in Item /\ i[2] <= Sent'[i[1]] /\ ~(i \in Queued(g)' /\ i \in Messages(g)')
  BY <1>4, InOrder DEF OrderOK, Queued, Messages
<1> QED
  BY <1>5, <1>6

(* What a caller has not submitted yet. *)
LEMMA NotSent ==
    ASSUME Types, CallerInv, NEW c \in Callers, pc[c] \in Unsubmitted
    PROVE  Latest(c) \in Item /\ ~(Latest(c)[2] <= Sent[Latest(c)[1]])
           /\ Latest(c)[1] = c
BY SubmitFacts DEF Latest

(* What a logger has accepted, it has accepted. *)
LEMMA AcceptedGrows ==
    ASSUME Inductive, [Next]_vars, NEW g \in Logger
    PROVE  accepted[g] \subseteq accepted'[g]
<1>1. AcceptTypes
  BY TypeParts DEF Inductive, Types
<1>2. ASSUME NEW c \in Callers, Accept(slot[at[c]].logger, c)
      PROVE  accepted[g] \subseteq accepted'[g]
  BY <1>1, <1>2 DEF Accept, AcceptTypes
<1>3. ASSUME NEW c \in Callers, Writes(c) \/ Enqueues(c)
      PROVE  Accept(slot[at[c]].logger, c)
  BY <1>3 DEF Writes, Write, My, Enqueues, Enqueue
<1>4. ASSUME NEW s \in Slot, ThreadPop(s) \/ ThreadNext(s)
      PROVE  UNCHANGED accepted
  BY <1>4 DEF ThreadPop, ThreadNext
<1>5. ASSUME NEW t \in Setters, Reset(t) \/ \E kind \in Kinds : SetLogger(t, kind)
      PROVE  UNCHANGED accepted
  BY <1>5 DEF Reset, SetLogger
<1>6. Quiet => UNCHANGED accepted
  BY DEF Quiet
<1> QED
  BY <1>2, <1>3, <1>4, <1>5, <1>6, StepKinds DEF StepKind

(* What a step hands to a sink, nothing else has had. *)
LEMMA DeliversNew ==
    ASSUME Inductive, [Next]_vars, OnceInv, NEW h \in Logger, NEW i \in Item, Delivers(h, i),
           NEW g \in Logger
    PROVE  /\ i \notin Messages(g) /\ i \notin Queued(g)'
           /\ i \in Queued(g) => g = h
<1>1. Types /\ CallerInv
  BY TypeParts DEF Inductive
<1>2. i \in Messages(h)'
  BY DeliverEffect
<1>3. CASE i \in Queued(h)
  <2>1. g # h => i \notin Queued(g) /\ i \notin Messages(g)
    BY <1>3 DEF OnceInv, ApartOK
  <2>2. i \notin Messages(h) /\ i \notin Queued(h)'
    BY <1>2, <1>3, WasSent
  <2>3. g # h => i \notin Queued(g)'
    <3> SUFFICES ASSUME g # h, i \in Queued(g)' PROVE FALSE
      OBVIOUS
    <3>1. PICK c \in Callers : i = Latest(c) /\ pc[c] \in Unsubmitted
      BY <2>1, QueuedFrom
    <3>2. ~(i[2] <= Sent[i[1]])
      BY <1>1, <3>1, NotSent
    <3> QED
      BY <1>3, <3>2, WasSent
  <2> QED
    BY <2>1, <2>2, <2>3
<1>4. CASE i \notin Queued(h)
  <2>1. PICK c \in Callers : i = Latest(c) /\ pc[c] \in Unsubmitted
    BY <1>4, DeliverFrom
  <2>2. ~(i[2] <= Sent[i[1]])
    BY <1>1, <2>1, NotSent
  <2>3. i \notin Messages(g) /\ i \notin Queued(g)
    BY <2>2, WasSent
  <2>4. i \notin Queued(g)'
    <3> SUFFICES ASSUME i \in Queued(g)' PROVE FALSE
      OBVIOUS
    <3>1. UNCHANGED got
      BY <2>3, QueuedFrom
    <3>2. i \in Messages(h)
      BY <1>2, <3>1 DEF Messages
    <3> QED
      BY <2>2, <3>2, WasSent
  <2> QED
    BY <2>3, <2>4
<1> QED
  BY <1>3, <1>4

(* What a sink had, it does not get again. *)
LEMMA WrittenOnce ==
    ASSUME Inductive, [Next]_vars, OnceInv, NEW g \in Logger, NEW i \in Messages(g)
    PROVE  wrote'[i] = wrote[i] /\ i \in Messages(g)'
<1>1. i \in Item /\ i \in Messages(g)'
  BY WasSent, Histories
<1> QED
  BY <1>1, WroteMoves, DeliversNew

(* The step of OnceInv, part by part. *)
LEMMA WaitingStep ==
    ASSUME Inductive, [Next]_vars, OnceInv, NEW g \in Logger
    PROVE  WaitingOK(g)'
<1> SUFFICES ASSUME NEW i \in Queued(g)' PROVE i \in accepted'[g] /\ wrote'[i] = None
  BY DEF WaitingOK
<1>1. Types /\ CallerInv /\ i \in Item
  BY TypeParts, WasSent DEF Inductive
<1>2. wrote'[i] = wrote[i]
  BY <1>1, WroteMoves, DeliversNew
<1>3. CASE i \in Queued(g)
  BY <1>2, <1>3, AcceptedGrows DEF OnceInv, WaitingOK
<1>4. ASSUME NEW c \in Callers, i = Latest(c), pc[c] \in Unsubmitted, i \in accepted'[g]
      PROVE  i \in accepted'[g] /\ wrote[i] = None
  BY <1>1, <1>4, NotSent DEF OnceInv, FreshItem
<1> QED
  BY <1>2, <1>3, <1>4, QueuedFrom

(* A message is in one queue, and not at another sink. *)
LEMMA ApartStep ==
    ASSUME Inductive, [Next]_vars, OnceInv, NEW g \in Logger, NEW h \in Logger
    PROVE  ApartOK(g, h)'
<1> SUFFICES ASSUME g # h, NEW i \in Queued(g)', i \in Queued(h)' \cup Messages(h)' PROVE FALSE
  BY DEF ApartOK
<1>1. Types /\ CallerInv /\ i \in Item
  BY TypeParts, WasSent DEF Inductive
<1>2. i \in Messages(h)' => i \in Messages(h)
  BY <1>1, WroteMoves, DeliversNew
<1>3. CASE i \in Queued(g)
  <2>1. i \notin Queued(h) /\ i \notin Messages(h) /\ i[2] <= Sent[i[1]]
    BY <1>3, WasSent DEF OnceInv, ApartOK
  <2>2. PICK c \in Callers : i = Latest(c) /\ pc[c] \in Unsubmitted
    BY <1>2, <2>1, QueuedFrom
  <2> QED
    BY <1>1, <2>1, <2>2, NotSent
<1>4. ASSUME NEW c \in Callers, slot[at[c]].logger = g, i = Latest(c), pc[c] \in Unsubmitted
      PROVE  FALSE
  <2>1. ~(i[2] <= Sent[i[1]]) /\ i[1] = c
    BY <1>1, <1>4, NotSent
  <2>2. i \notin Queued(h) /\ i \notin Messages(h)
    BY <2>1, WasSent
  <2>3. PICK d \in Callers : slot[at[d]].logger = h /\ i = Latest(d)
    BY <1>2, <2>2, QueuedFrom
  <2>4. d = c
    BY <2>1, <2>3 DEF Latest
  <2> QED
    BY <1>4, <2>3, <2>4
<1> QED
  BY <1>3, <1>4, QueuedFrom

(* Nothing that was not submitted has been written. *)
LEMMA FreshItemStep ==
    ASSUME Inductive, [Next]_vars, OnceInv, NEW i \in Item
    PROVE  FreshItem(i)'
<1> SUFFICES ASSUME ~(i[2] <= Sent'[i[1]]) PROVE wrote'[i] = None
  BY DEF FreshItem
<1>1. ~(i[2] <= Sent[i[1]])
  BY SentGrows
<1>2. wrote[i] = None
  BY <1>1 DEF OnceInv, FreshItem
<1>3. ASSUME NEW g \in Logger, Delivers(g, i)
      PROVE  FALSE
  <2>1. i \in Messages(g)'
    BY <1>3, DeliverEffect
  <2> QED
    BY <2>1, WasSent
<1> QED
  BY <1>2, <1>3, WroteMoves

(* The number of a flush is that of no message. *)
LEMMA AwaitStep ==
    ASSUME Prompt, Inductive, [Next]_vars, FlushInv, OneFlusher, OnceInv, NEW c \in Callers
    PROVE  AwaitOK(c)'
<1> SUFFICES ASSUME pc'[c] = "await", NEW g \in Logger, NEW i, i = Latest(c)',
                    i \in Messages(g)' \cup Queued(g)'
             PROVE  FALSE
  BY DEF AwaitOK
<1>1. Types /\ CallerInv
  BY TypeParts DEF Inductive
<1>2. /\ i = Latest(c) /\ call[c].what # "msg"
      /\ pc[c] = "await" \/ pc[c] \in Unsubmitted
  BY FlushCall, FlushFacts
     DEF CallStep, Stays, Ends, Begins, Meets, Goes, Same, Submits, Unsubmitted, Latest, GenOK
<1>3. i \notin Messages(g) /\ i \notin Queued(g)
  <2>1. CASE pc[c] = "await"
    BY <1>2, <2>1 DEF OnceInv, AwaitOK
  <2>2. CASE pc[c] \in Unsubmitted
    BY <1>1, <1>2, <2>2, NotSent, WasSent
  <2> QED
    BY <1>2, <2>1, <2>2
<1>4. i \in Item
  BY WasSent
<1>5. ASSUME NEW d \in Callers, i = Latest(d)
      PROVE  d = c
  BY <1>2, <1>5 DEF Latest
<1>6. CASE i \in Queued(g)'
  BY <1>2, <1>3, <1>5, <1>6, QueuedFrom
<1>7. CASE i \in Messages(g)'
  <2>1. Delivers(g, i)
    BY <1>3, <1>4, <1>7, WroteMoves
  <2>2. PICK d \in Callers : Writes(d) /\ call[d].item = i
    <3>1. ASSUME NEW s \in Slot, Takes(s, g), Head(queue[g].list).what = "msg",
                 Head(queue[g].list).item = i
          PROVE  i \in Queued(g)
      <4>1. queue[g].list \in Seq(Entry) /\ queue[g].list # <<>>
        BY <1>1, <3>1 DEF Takes, ThreadPop, Types, QueueTypes, QueueType
      <4>2. Head(queue[g].list) \in ToSet(queue[g].list)
        BY <4>1, TailElements DEF ToSet
      <4> QED
        BY <3>1, <4>2 DEF Queued
    <3> QED
      BY <1>3, <2>1, <3>1 DEF Delivers
  <2>3. call[d].item = Latest(d) /\ call[d].what = "msg"
    BY <1>1, <2>2, SubmitFacts DEF Writes, Write, Unsubmitted, Latest
  <2>4. d = c
    BY <1>5, <2>2, <2>3
  <2> QED
    BY <1>2, <2>3, <2>4
<1> QED
  BY <1>6, <1>7

(* A logger is current until it is replaced, by one that got nothing yet. *)
LEMMA CurStays ==
    ASSUME Inductive, [Next]_vars, NEW g \in Logger, slot'[cur'].logger = g
    PROVE  \/ slot[cur].logger = g /\ cur' = cur
           \/ g = loggers + 1 /\ Messages(g)' = {}
<1>1. Types /\ CountInv /\ ShutInv /\ SetterInv /\ FreshInv /\ cur \in Slot /\ g # 0
  BY TypeParts DEF Inductive, Types, SlotTypes, Logger
<1>2. SlotsKept => slot[cur].logger = g /\ cur' = cur
  BY <1>1 DEF SlotsKept
<1>3. ASSUME NEW t \in Setters, QuitBy(t)
      PROVE  slot[cur].logger = g /\ cur' = cur
  BY <1>3 DEF QuitBy, Quit
<1>4. ASSUME NEW t \in Setters, Reset(t)
      PROVE  slot[cur].logger = g /\ cur' = cur
  BY <1>1, <1>4, ResetEffect
<1>5. ASSUME NEW t \in Setters, NEW kind \in Kinds, SetLogger(t, kind)
      PROVE  g = loggers + 1 /\ Messages(g)' = {}
  <2>1. g = loggers + 1 /\ loggers \in Nat
    BY <1>1, <1>5, SetLoggerEffect
  <2>2. got[g] = <<>> /\ UNCHANGED got
    BY <1>1, <1>5, <2>1 DEF FreshInv, FreshOK, SetLogger, sinkVars
  <2> QED
    BY <2>1, <2>2 DEF Messages, ToSet
<1> QED
  BY <1>2, <1>3, <1>4, <1>5, SlotMoves DEF SlotMove

(* The path of a sink moves when it gets a CLOSE after it was told a new one. *)
LEMMA FileStep ==
    ASSUME Inductive, [Next]_vars, NEW g \in Logger
    PROVE  /\ \/ file'[g].path = file[g].path /\ file'[g].newPath = file[g].newPath
              \/ /\ CloseBy(g) /\ file[g].newPath # None
                 /\ file'[g].path = file[g].newPath /\ file'[g].newPath = None
              \/ (\E c \in Movers : SinkCtxPath(c)) /\ file'[g].path = file[g].path
           /\ FileOK(g) => FileOK(g)'
<1>1. SinkTypes
  BY TypeParts DEF Inductive, Types
<1>2. CASE UNCHANGED <<file, got, wrote>>
  BY <1>2 DEF FileOK
<1>3. ASSUME NEW h \in Logger, NEW i \in Item, Delivers(h, i)
      PROVE  /\ file'[g].path = file[g].path /\ file'[g].newPath = file[g].newPath
             /\ FileOK(g) => FileOK(g)'
  BY <1>3, DeliverEffect DEF FileOK
<1>4. ASSUME NEW h \in Logger, NEW what \in {"FLUSH", "CLOSE"},
             SinkNull(h, what), CloseBy(h) \/ what = "FLUSH"
      PROVE  /\ \/ file'[g].path = file[g].path /\ file'[g].newPath = file[g].newPath
                \/ /\ CloseBy(g) /\ file[g].newPath # None
                   /\ file'[g].path = file[g].newPath /\ file'[g].newPath = None
             /\ FileOK(g) => FileOK(g)'
  BY <1>1, <1>4, NullMoves DEF FileOK
<1>5. ASSUME NEW c \in Movers, SinkCtxPath(c)
      PROVE  file'[g].path = file[g].path /\ file'[g].wh = file[g].wh
  <2>1. \E p : file' = [file EXCEPT ![slot[cur].logger].newPath = p]
    BY <1>5 DEF SinkCtxPath
  <2>2. file[g] \in FileType
    BY <1>1 DEF SinkTypes
  <2> QED
    BY <1>1, <2>1, <2>2 DEF SinkTypes, FileType
<1> QED
  BY <1>2, <1>3, <1>4, <1>5, SinkMoves, Zenon DEF SinkMove, FileOK

(* Who gives a logger a CLOSE: the only one who flushes, when all of its that
   was accepted is at the sink, or the end of the logger. *)
LEMMA CloseCovers ==
    ASSUME Inductive, CloseInv, [Next]_vars, FlushInv, OneFlusher, NEW g \in Logger, CloseBy(g)
    PROVE  \/ \E c \in Flushers \cup Movers :
                 /\ c \in Callers /\ Flushing(c)
                 /\ pc[c] = "await" \/ pc[c] \in Unsubmitted
                 /\ {i \in accepted[g] : i[1] = c} \subseteq Messages(g)
           \/ slot[cur].logger # g /\ ~Live(g)
<1>1. Types /\ CallerInv /\ SlotInv /\ ShutInv /\ SetterInv /\ FreshInv /\ DeliverInv
  BY TypeParts DEF Inductive
<1>2. cur \in Slot /\ g # 0
  BY <1>1 DEF Types, SlotTypes, Logger
<1>3. ASSUME NEW s \in Slot, ThreadPop(s), slot[s].logger = g, Head(queue[g].list).what # "msg"
      PROVE  \E c \in Flushers \cup Movers :
                 /\ c \in Callers /\ Flushing(c)
                 /\ pc[c] = "await" \/ pc[c] \in Unsubmitted
                 /\ {i \in accepted[g] : i[1] = c} \subseteq Messages(g)
  <2>1. PICK c \in Flushers \cup Movers :
           /\ c \in Callers /\ pc[c] = "await"
           /\ {i \in accepted[g] : i[1] = c} \subseteq Messages(g)
    BY <1>3, NullTaken
  <2>2. Flushing(c)
    BY <2>1, FlushFacts DEF GenOK, Flushing
  <2> QED
    BY <2>1, <2>2
<1>4. ASSUME NEW c \in Callers, Write(c), slot[at[c]].logger = g, call[c].what = "CLOSE"
      PROVE  /\ c \in Flushers \cup Movers /\ Flushing(c) /\ pc[c] \in Unsubmitted
             /\ {i \in accepted[g] : i[1] = c} \subseteq Messages(g)
  <2>1. pc[c] = "write" /\ at[c] \in Slot
    BY <1>1, <1>4 DEF Write, Types, PlaceTypes, Threads
  <2>2. Flushing(c)
    BY <1>4, <2>1 DEF Flushing, Unsubmitted
  <2>3. c \in Flushers \cup Movers
    BY <2>2, FlushFacts DEF GenOK
  <2>4. slot[at[c]].queuer = "syncQ"
    BY <2>1 DEF CloseInv, WriterOK
  <2>5. thread[g] = "none"
    BY <1>1, <1>2, <1>4, <2>1, <2>4 DEF SlotInv, SlotOK
  <2>6. accepted[g] \subseteq Messages(g) \cup Queued(g)
    BY <1>1, <1>4, <2>1 DEF DeliverInv, DeliverOK
  <2>7. Queued(g) = {}
    BY <1>1, <2>5 DEF FreshInv, FreshOK, Queued, ToSet
  <2> QED
    BY <2>1, <2>2, <2>3, <2>6, <2>7 DEF Unsubmitted
<1>5. ASSUME NEW s \in Slot, ThreadClose(s), slot[s].logger = g
      PROVE  slot[cur].logger # g /\ ~Live(g)
  <2>1. thread[g] = "closing"
    BY <1>5 DEF ThreadClose, ThreadAt
  <2> QED
    BY <1>1, <1>2, <2>1 DEF ShutInv, Live
<1>6. ASSUME NEW t \in Setters, QuitBy(t), slot[at[t]].logger = g
      PROVE  slot[cur].logger # g /\ ~Live(g)
  <2>1. pc[t] # "idle" /\ ~slot[at[t]].logThread
    BY <1>6 DEF QuitBy, Quit
  <2>2. at[t] = 3 - cur
    BY <1>1, <2>1, SetterAt
  <2>3. at[t] \in Slot /\ at[t] # cur
    BY <1>2, <2>2 DEF Slot
  <2>4. thread[g] = "none"
    BY <1>1, <1>2, <1>6, <2>1, <2>3 DEF SlotInv, SlotOK
  <2>5. slot[cur].logger # g
    BY <1>1, <1>2, <1>6, <2>3 DEF SlotInv, Slot
  <2> QED
    BY <2>4, <2>5 DEF Live
<1> QED
  BY <1>3, <1>4, <1>5, <1>6 DEF CloseBy

(* The last message of a mover, and the file its logger writes to. *)
LEMMA KeptStep ==
    ASSUME Prompt, Inductive, CloseInv, [Next]_vars, FlushInv, OneFlusher, OnceInv, CutInv,
           NEW c \in Callers
    PROVE  KeptOK(c)'
<1> SUFFICES ASSUME c \in Movers, leaving'[c] = None, NEW g, g = slot'[cur'].logger, g # 0,
                    NEW i, i = Latest(c)', i \in Messages(g)'
             PROVE  wrote'[i] \in {file'[g].path, None}
  BY DEF KeptOK
<1>1. Types /\ CallerInv /\ SlotInv /\ ShutInv
  BY TypeParts DEF Inductive
<1>2. Types' /\ CallerInv' /\ SlotInv'
  BY TypeStep, CallerStep, SlotStep, TypeParts DEF Inductive
<1>3. g \in Logger
  BY <1>2, Bounds DEF Types, SlotTypes, SlotType, Logger
<1>4. i \in Item /\ i[2] <= Sent'[i[1]] /\ i[1] = c /\ i[2] = made'[c]
  BY <1>3, WasSent DEF Latest
<1>5. pc'[c] \notin Unsubmitted
  <2>1. made'[c] \in Nat
    BY <1>2 DEF Types, PlaceTypes, Threads
  <2> QED
    BY <1>4, <2>1 DEF Sent
<1>6. i = Latest(c)
  BY <1>5, FlushCall DEF CallStep, Stays, Ends, Begins, Meets, Goes, Same, Unsubmitted, Latest
<1>7. slot[cur].logger = g
  BY <1>3, CurStays
<1>8. CASE i \notin Messages(g)
  <2>1. Delivers(g, i)
    BY <1>3, <1>4, <1>8, WroteMoves
  <2> QED
    BY <1>3, <1>4, <2>1, DeliverEffect
<1>9. CASE i \in Messages(g)
  <2>1. wrote'[i] = wrote[i] /\ i[2] <= Sent[i[1]]
    BY <1>3, <1>9, WrittenOnce, WasSent
  <2>2. pc[c] \notin Unsubmitted
    BY <1>1, <1>6, <2>1, NotSent
  <2>3. pc[c] # "await"
    BY <1>3, <1>6, <1>9 DEF OnceInv, AwaitOK
  <2>4. leaving[c] = None
    <3>1. pc[c] \in {"idle", "info"} \/ pc[c] = "undefined"
      BY <1>1, <2>2, <2>3 DEF CallerInv, CallerOK
    <3>2. CASE pc[c] = "undefined"
      <4>1. Stays(c)
        BY <2>2, <3>2, FlushCall DEF CallStep, Ends, Begins, Meets, Goes, Submits, Unsubmitted
      <4> QED
        BY <4>1 DEF Stays, Same
    <3> QED
      BY <3>1, <3>2, FlushFacts DEF GenOK
  <2>5. wrote[i] \in {file[g].path, None}
    BY <1>6, <1>7, <1>9, <2>4 DEF CutInv, KeptOK
  <2>6. ~CloseBy(g)
    <3> SUFFICES ASSUME CloseBy(g) PROVE FALSE
      OBVIOUS
    <3>1. PICK d \in Flushers \cup Movers : pc[d] = "await" \/ pc[d] \in Unsubmitted
      BY <1>3, <1>7, CloseCovers
    <3>2. d = c
      BY <3>1 DEF OneFlusher
    <3> QED
      BY <2>2, <2>3, <3>1, <3>2
  <2>7. file'[g].path = file[g].path
    BY <1>3, <2>6, FileStep
  <2> QED
    BY <2>1, <2>5, <2>7
<1> QED
  BY <1>8, <1>9

(* The message before a change of the path, and the path. *)
LEMMA CutStep ==
    ASSUME Prompt, Inductive, CloseInv, [Next]_vars, FlushInv, OneFlusher, OnceInv, CutInv,
           NEW c \in Callers
    PROVE  CutOK(c)'
<1> SUFFICES ASSUME Moving(c)', NEW g, g = gen'[c], NEW i, i = Earlier(c)'
             PROVE  IF i \in Messages(g)' THEN wrote'[i] \in {leaving'[c], None}
                    ELSE i \in accepted'[g] => file'[g].path = leaving'[c]
  BY DEF CutOK
<1>1. Types /\ CallerInv /\ SlotInv /\ made[c] \in Nat
  BY TypeParts DEF Inductive, Types, PlaceTypes, Threads
<1>2. CASE SinkCtxPath(c)
  <2>1. /\ g = slot[cur].logger /\ g # 0 /\ leaving'[c] = file[g].path /\ made'[c] = made[c] + 1
        /\ UNCHANGED <<got, wrote, accepted>> /\ pc[c] = "idle" /\ c \in Movers
    BY <1>1, <1>2 DEF SinkCtxPath, ChangePath, Begin, Types, PlaceTypes, Threads
  <2>2. g \in Logger
    BY <1>1, <2>1, InLogger DEF Types, SlotTypes
  <2>3. i = Latest(c) /\ Messages(g)' = Messages(g)
    BY <1>1, <2>1 DEF Earlier, Latest, Messages
  <2>4. file'[g].path = file[g].path
    <3>1. \E p : file' = [file EXCEPT ![g].newPath = p]
      BY <1>2, <2>1 DEF SinkCtxPath
    <3>2. file[g] \in FileType
      BY <1>1, <2>2 DEF Types, SinkTypes
    <3> QED
      BY <1>1, <2>2, <3>1, <3>2 DEF Types, SinkTypes, FileType
  <2>5. leaving[c] = None
    BY <2>1, FlushFacts DEF GenOK
  <2>6. i \in Messages(g) => wrote[i] \in {file[g].path, None}
    BY <2>1, <2>3, <2>5 DEF CutInv, KeptOK
  <2> QED
    BY <2>1, <2>3, <2>4, <2>6
<1>3. CASE Same(c) /\ Flushing(c)
  <2>1. /\ leaving'[c] = leaving[c] /\ g = gen[c] /\ i = Earlier(c) /\ Moving(c)
    BY <1>3 DEF Same, Moving, Earlier
  <2>2. g \in Logger /\ GenOK(c) /\ DueOK(c)
    BY <2>1, FlushFacts DEF GenOK, Moving
  <2>3. IF i \in Messages(g) THEN wrote[i] \in {leaving[c], None}
        ELSE i \in accepted[g] => file[g].path = leaving[c]
    BY <2>1 DEF CutInv, CutOK
  <2>4. CASE i \in Messages(g)
    BY <2>1, <2>2, <2>3, <2>4, WrittenOnce
  <2>5. CASE i \notin Messages(g) /\ i \in Messages(g)'
    <3>1. Delivers(g, i) /\ i \in Item
      BY <2>2, <2>5, WroteMoves, WasSent
    <3>2. i \in Queued(g)
      <4> SUFFICES ASSUME NEW d \in Callers, i = Latest(d) PROVE FALSE
        BY <2>2, <3>1, DeliverFrom
      <4> QED
        BY <1>1, <2>1 DEF Earlier, Latest
    <3>3. file[g].path = leaving[c]
      BY <2>2, <2>3, <2>5, <3>2 DEF OnceInv, WaitingOK
    <3> QED
      BY <2>1, <2>2, <2>5, <3>1, <3>3, DeliverEffect
  <2>6. CASE i \notin Messages(g) /\ i \notin Messages(g)'
    <3> SUFFICES ASSUME i \in accepted'[g] PROVE file'[g].path = leaving[c]
      BY <2>1, <2>6
    <3>1. i[1] = c /\ i \in accepted[g]
      BY <1>3, <2>1, <2>2, Histories DEF Earlier
    <3>2. file[g].path = leaving[c]
      BY <2>3, <2>6, <3>1
    <3>3. ~CloseBy(g)
      <4> SUFFICES ASSUME CloseBy(g) PROVE i \in Messages(g)
        BY <2>6
      <4>1. ASSUME NEW d \in Flushers \cup Movers, d \in Callers,
                   {k \in accepted[g] : k[1] = d} \subseteq Messages(g)
            PROVE  i \in Messages(g)
        <5>1. d = c
          BY <1>3, <4>1, FlushFacts DEF GenOK
        <5> QED
          BY <3>1, <4>1, <5>1
      <4>2. ASSUME ~Live(g)
            PROVE  i \in Messages(g)
        <5>1. Covered(c)
          BY <1>3, <2>1, <2>2, <4>2, EndCovers DEF GenOK
        <5> QED
          BY <2>1, <3>1, <5>1 DEF Covered, Mine
      <4> QED
        BY <2>2, <4>1, <4>2, CloseCovers
    <3> QED
      BY <2>2, <3>2, <3>3, FileStep
  <2> QED
    BY <2>4, <2>5, <2>6
<1> QED
  BY <1>2, <1>3, FlushCall, FlushFacts
     DEF CallStep, Stays, Ends, Begins, Meets, Goes, Same, Submits, Unsubmitted, GenOK, Moving, Flushing

(* No message is written, and nobody changes the path, when the program starts. *)
LEMMA OnceInit ==
    ASSUME Init
    PROVE  OnceInv /\ CutInv
<1>1. \A g \in Logger : queue[g].list = <<>> /\ got[g] = <<>>
  BY DEF Init, Start, NoQueue
<1>2. \A g \in Logger : Queued(g) = {} /\ Messages(g) = {}
  BY <1>1 DEF Queued, Messages, ToSet
<1>3. \A i \in Item : wrote[i] = None
  BY DEF Init, Start
<1>4. \A c \in Callers : pc[c] = "idle" /\ leaving[c] = None
  BY DEF Init, Start, Threads
<1>5. slot[cur].logger = 0
  BY DEF Init, Start, Slot, Blank
<1> QED
  BY <1>2, <1>3, <1>4, <1>5
     DEF OnceInv, WaitingOK, ApartOK, FreshItem, AwaitOK, CutInv, KeptOK, CutOK, Moving

(* A message is written once; what a caller logged before it changed the path
   is there, or waits for the path that it leaves. *)
THEOREM CutHolds == Prompt /\ OneFlusher /\ Spec => [](OnceInv /\ CutInv)
<1>1. Prompt /\ OneFlusher /\ Inductive /\ CloseInv /\ FlushInv /\ OnceInv /\ CutInv /\ [Next]_vars
          => (OnceInv /\ CutInv)'
  <2> SUFFICES ASSUME Prompt, OneFlusher, Inductive, CloseInv, FlushInv, OnceInv, CutInv, [Next]_vars
               PROVE  OnceInv' /\ CutInv'
    OBVIOUS
  <2>1. OnceInv'
    BY WaitingStep, ApartStep, FreshItemStep, AwaitStep DEF OnceInv
  <2>2. CutInv'
    BY KeptStep, CutStep DEF CutInv
  <2> QED
    BY <2>1, <2>2
<1>2. Init => OnceInv /\ CutInv
  BY OnceInit
<1>3. CASE Prompt /\ OneFlusher
  BY <1>1, <1>2, <1>3, InductiveHolds, CloseHolds, FlushHolds, PTL DEF Spec
<1> QED
  BY <1>3

(* A caller that changes the path waits until its CLOSE is covered, and then
   its last message is at the sink, or is not written at all. *)
LEMMA CutReturns ==
    ASSUME Inductive, [Next]_vars, FlushInv, OneFlusher, OnceInv, CutInv,
           NEW c \in Callers, Returns(c), leaving[c] # None, NEW i, i = Earlier(c),
           i \in accepted[gen[c]]
    PROVE  wrote[i] \in {leaving[c], None}
<1> DEFINE g == gen[c]
<1>1. Flushing(c) /\ gen[c] # 0
  BY FlushFacts DEF Returns, GenOK, Flushing
<1>2. Types /\ CallerInv /\ DeliverInv /\ g \in Logger /\ g <= loggers /\ i[1] = c
  BY <1>1, TypeParts, FlushFacts DEF Inductive, GenOK, Earlier
<1>3. CASE i \in Messages(g)
  BY <1>1, <1>3 DEF CutInv, CutOK, Moving
<1>4. CASE i \in Queued(g)
  BY <1>2, <1>4 DEF OnceInv, WaitingOK
<1>5. CASE i \notin Queued(g) /\ i \notin Messages(g)
  <2>1. Freed(g)
    BY <1>2, <1>5 DEF DeliverInv, DeliverOK, Freed
  <2>2. slot[cur].logger # g
    BY <2>1, FlushFacts DEF Freed
  <2>3. i \in due[g]
    BY <1>1, <1>2, <2>2, FlushFacts DEF DueOK, Mine
  <2> QED
    BY <1>2, <1>5, <2>1, <2>3 DEF DeliverInv, DeliverOK
<1> QED
  BY <1>3, <1>4, <1>5

(* checkCb, "to better define the cut over moment": what a thread logged just
   before it changes the path has gone to the old file, or to stderr, when one
   thread flushes and changes the path. *)
THEOREM CutOverHolds == Prompt /\ OneFlusher /\ Spec => CutOver
<1>1. OneFlusher /\ Inductive /\ FlushInv /\ OnceInv /\ CutInv /\ [Next]_vars =>
         [\A c \in Callers : Returns(c) /\ leaving[c] # None /\ ~Released(c) =>
             LET i == <<c, call[c].item[2] - 1>>
             IN  i \in accepted[gen[c]] => wrote[i] \in {leaving[c], None}]_vars
  <2> SUFFICES ASSUME OneFlusher, Inductive, FlushInv, OnceInv, CutInv, [Next]_vars,
                      NEW c \in Callers, Returns(c), leaving[c] # None
               PROVE  LET i == <<c, call[c].item[2] - 1>>
                      IN  i \in accepted[gen[c]] => wrote[i] \in {leaving[c], None}
    OBVIOUS
  <2>1. call[c].item = <<c, made[c]>>
    BY DEF Inductive, CallerInv, CallerOK, Returns
  <2>2. <<c, call[c].item[2] - 1>> = Earlier(c)
    BY <2>1 DEF Earlier
  <2> QED
    BY <2>2, CutReturns
<1>2. CASE Prompt /\ OneFlusher
  BY <1>1, <1>2, InductiveHolds, FlushHolds, CutHolds, PTL DEF Spec, CutOver
<1> QED
  BY <1>2

(* The queue of a log thread is open until the thread has ended. *)
LEMMA OpenStep ==
    ASSUME Inductive, [Next]_vars, PathInv, NEW g \in Logger
    PROVE  OpenOK(g)'
<1> Types /\ SlotInv /\ CallerInv /\ SetterInv /\ CountInv /\ ShutInv /\ FreshInv /\ BlockedInv
  BY TypeParts DEF Inductive
<1> QueueTypes /\ ThreadTypes
  BY DEF Types
<1> USE DEF slotVars, sinkVars, callVars, threadVars, vars
<1>0. OpenOK(g)
  BY DEF PathInv
<1>1. ASSUME NEW c \in Callers, pc[c] \in {"idle", "info"}, RawLog(c)
      PROVE  OpenOK(g)'
  <2>1. UNCHANGED <<queue, thread>>
    BY <1>1 DEF RawLog, Begin
  <2> QED
    BY <1>0, <2>1 DEF OpenOK
<1>2. ASSUME NEW c \in Callers, Flush(c)
      PROVE  OpenOK(g)'
  <2>1. UNCHANGED <<queue, thread>>
    BY <1>2 DEF Flush, Begin
  <2> QED
    BY <1>0, <2>1 DEF OpenOK
<1>3. ASSUME NEW c \in Callers, SinkCtxPath(c)
      PROVE  OpenOK(g)'
  <2>1. UNCHANGED <<queue, thread>>
    BY <1>3 DEF SinkCtxPath, ChangePath, Begin
  <2> QED
    BY <1>0, <2>1 DEF OpenOK
<1>4. ASSUME NEW c \in Callers, Unblock(c)
      PROVE  OpenOK(g)'
  <2>1. queue'[g].open = queue[g].open
    BY <1>4, UnboundEffect DEF Unblock
  <2>2. UNCHANGED thread
    BY <1>4 DEF Unblock
  <2> QED
    BY <1>0, <2>1, <2>2 DEF OpenOK
<1>5. ASSUME NEW c \in Callers, Return(c), pc[c] = "info",
             UNCHANGED <<slotVars, queue, threadVars, sinkVars, accepted, due>>
      PROVE  OpenOK(g)'
  <2>1. UNCHANGED <<queue, thread>>
    BY <1>5
  <2> QED
    BY <1>0, <2>1 DEF OpenOK
<1>6. ASSUME NEW c \in Callers, LastLog(c)
      PROVE  OpenOK(g)'
  <2>1. UNCHANGED <<queue, thread>>
    BY <1>6 DEF LastLog
  <2> QED
    BY <1>0, <2>1 DEF OpenOK
<1>7. ASSUME NEW c \in Callers, FlagLook(c)
      PROVE  OpenOK(g)'
  <2>1. UNCHANGED <<queue, thread>>
    BY <1>7 DEF FlagLook
  <2> QED
    BY <1>0, <2>1 DEF OpenOK
<1>8. ASSUME NEW c \in Callers, FlagSet(c)
      PROVE  OpenOK(g)'
  <2>1. UNCHANGED <<queue, thread>>
    BY <1>8 DEF FlagSet
  <2> QED
    BY <1>0, <2>1 DEF OpenOK
<1>9. ASSUME NEW c \in Callers, Dispatch(c)
      PROVE  OpenOK(g)'
  <2>1. UNCHANGED <<queue, thread>>
    BY <1>9 DEF Dispatch, Submitted
  <2> QED
    BY <1>0, <2>1 DEF OpenOK
<1>10. ASSUME NEW c \in Callers, Write(c)
      PROVE  OpenOK(g)'
  <2>1. UNCHANGED <<queue, thread>>
    BY <1>10 DEF Write, Accept, Submitted
  <2> QED
    BY <1>0, <2>1 DEF OpenOK
<1>11. ASSUME NEW c \in Callers, Push(c)
      PROVE  OpenOK(g)'
  <2>1. UNCHANGED thread
    BY <1>11, PushEffect
  <2>2. queue'[g].open = queue[g].open
    <3> DEFINE h == slot[at[c]].logger
    <3>1. \/ UNCHANGED queue
          \/ h \in Logger /\ Enqueue(h, c, queue[h].waiting)
          \/ h \in Logger /\ queue' = [queue EXCEPT ![h].waiting = Append(queue[h].waiting, c)]
      BY <1>11, PushEffect
    <3>2. CASE h \in Logger /\ Enqueue(h, c, queue[h].waiting)
      BY <3>2, EnqueueEffect
    <3>3. CASE h \in Logger /\ queue' = [queue EXCEPT ![h].waiting = Append(queue[h].waiting, c)]
      BY <3>3, WaitingEffect
    <3> QED
      BY <3>1, <3>2, <3>3
  <2> QED
    BY <1>0, <2>1, <2>2 DEF OpenOK
<1>12. ASSUME NEW c \in Callers, PushResume(c)
      PROVE  OpenOK(g)'
  <2>1. UNCHANGED thread
    BY <1>12, ResumeEffect
  <2>2. queue'[g].open = queue[g].open
    BY <1>12, ResumeEffect, EnqueueEffect
  <2> QED
    BY <1>0, <2>1, <2>2 DEF OpenOK
<1>13. ASSUME NEW c \in Callers, PushAbort(c)
      PROVE  OpenOK(g)'
  <2>1. UNCHANGED thread /\ queue'[g].open = queue[g].open
    BY <1>13, AbortEffect
  <2> QED
    BY <1>0, <2>1 DEF OpenOK
<1>14. ASSUME NEW c \in Callers, Await(c)
      PROVE  OpenOK(g)'
  <2>1. UNCHANGED <<queue, thread>>
    BY <1>14 DEF Await
  <2> QED
    BY <1>0, <2>1 DEF OpenOK
<1>15. ASSUME NEW s \in Slot, ThreadPop(s)
      PROVE  OpenOK(g)'
  <2>1. /\ slot[s].logger \in Logger /\ thread[slot[s].logger] = "loop"
        /\ queue' = [queue EXCEPT ![slot[s].logger].list = Tail(@)]
        /\ \A k \in Logger : k # slot[s].logger => thread'[k] = thread[k]
    BY <1>15, InLogger DEF ThreadPop, ThreadAt, ThreadGoto, ThreadTypes
  <2>2. queue'[g].open = queue[g].open
    BY <2>1, ListEffect
  <2> QED
    BY <1>0, <2>1, <2>2 DEF OpenOK
<1>16. ASSUME NEW s \in Slot, ThreadTimeout(s)
      PROVE  OpenOK(g)'
  BY <1>16, <1>0 DEF ThreadTimeout, ThreadAt, ThreadGoto, ThreadTypes, OpenOK
<1>17. ASSUME NEW s \in Slot, ThreadAck(s)
      PROVE  OpenOK(g)'
  BY <1>17, <1>0 DEF ThreadAck, ThreadAt, ThreadGoto, ThreadTypes, OpenOK
<1>18. ASSUME NEW s \in Slot, ThreadFlush(s)
      PROVE  OpenOK(g)'
  BY <1>18, <1>0 DEF ThreadFlush, ThreadAt, ThreadGoto, ThreadTypes, OpenOK
<1>19. ASSUME NEW s \in Slot, ThreadNext(s)
      PROVE  OpenOK(g)'
  BY <1>19, <1>0 DEF ThreadNext, ThreadAt, ThreadGoto, ThreadTypes, OpenOK
<1>20. ASSUME NEW s \in Slot, ThreadClose(s)
      PROVE  OpenOK(g)'
  BY <1>20, <1>0 DEF ThreadClose, ThreadAt, ThreadGoto, ThreadTypes, OpenOK
<1>21. ASSUME NEW t \in Setters, NEW kind \in Kinds, SetLogger(t, kind)
      PROVE  OpenOK(g)'
  <2>1. CASE g # loggers + 1
    <3>1. thread'[g] = thread[g] /\ queue'[g] = queue[g]
      BY <1>21, <2>1, SetLoggerEffect
    <3> QED
      BY <1>0, <3>1 DEF OpenOK
  <2>2. CASE g = loggers + 1 /\ kind = "async"
    <3>1. queue' = [queue EXCEPT ![g] = [NoQueue EXCEPT !.open = TRUE]]
      BY <1>21, <2>2 DEF SetLogger
    <3>2. queue'[g].open
      BY <3>1 DEF QueueTypes, NoQueue
    <3> QED
      BY <3>2 DEF OpenOK
  <2>3. CASE kind # "async"
    BY <1>21, <1>0, <2>3 DEF SetLogger, OpenOK
  <2> QED
    BY <2>1, <2>2, <2>3
<1>22. ASSUME NEW t \in Setters, Quit(t)
      PROVE  OpenOK(g)'
  <2>1. queue'[g].open = queue[g].open
    BY <1>22, UnboundEffect DEF Quit
  <2>2. UNCHANGED thread
    BY <1>22 DEF Quit
  <2> QED
    BY <1>0, <2>1, <2>2 DEF OpenOK
<1>23. ASSUME NEW t \in Setters, WaitQuit(t)
      PROVE  OpenOK(g)'
  <2>1. UNCHANGED <<queue, thread>>
    BY <1>23 DEF WaitQuit
  <2> QED
    BY <1>0, <2>1 DEF OpenOK
<1>24. ASSUME NEW t \in Setters, FreeQueue(t)
      PROVE  OpenOK(g)'
  <2> DEFINE h == slot[at[t]].logger
  <2>1. queue' = [queue EXCEPT ![h].open = FALSE] /\ thread[h] = "done" /\ UNCHANGED thread
    BY <1>24 DEF FreeQueue
  <2>2. g = h \/ queue'[g] = queue[g]
    BY <2>1 DEF QueueTypes
  <2> QED
    BY <1>0, <2>1, <2>2 DEF OpenOK
<1>25. ASSUME NEW t \in Setters, Reset(t)
      PROVE  OpenOK(g)'
  <2>1. UNCHANGED thread /\ queue'[g].open = queue[g].open
    BY <1>25, ResetQueue DEF Reset
  <2> QED
    BY <1>0, <2>1 DEF OpenOK
<1>26. ASSUME UNCHANGED vars
      PROVE  OpenOK(g)'
  <2>1. UNCHANGED <<queue, thread>>
    BY <1>26
  <2> QED
    BY <1>0, <2>1 DEF OpenOK
<1> QED
  BY <1>1, <1>2, <1>3, <1>4, <1>5, <1>6, <1>7, <1>8, <1>9, <1>10, <1>11, <1>12, <1>13, <1>14, <1>15, <1>16, <1>17, <1>18, <1>19, <1>20, <1>21, <1>22, <1>23, <1>24, <1>25, <1>26
     DEF Next, Caller, Going, LogThread, Setting, Log, Info, Crashed, Rest

(* A call is sent to a queue by a slot that has a log thread. *)
LEMMA QueuerStep ==
    ASSUME Prompt, Inductive, [Next]_vars, FlushInv, OneFlusher, PathInv, NEW c \in Callers
    PROVE  QueuerOK(c)'
<1> SUFFICES ASSUME pc'[c] \in {"push", "blocked"}
             PROVE  slot'[at'[c]].logger # 0 /\ thread'[slot'[at'[c]].logger] # "none"
  BY DEF QueuerOK
<1>1. Types /\ SlotInv /\ at[c] \in Slot
  BY TypeParts DEF Inductive, Types, PlaceTypes, Threads
<1>2. at'[c] = at[c] /\ (pc[c] \in {"push", "blocked"} \/ (pc[c] \in Submits /\ Dispatch(c)))
  BY FlushCall DEF CallStep, Stays, Ends, Begins, Meets, Goes, Submits
<1>3. slot[at[c]].logger # 0 /\ thread[slot[at[c]].logger] # "none"
  <2>1. CASE pc[c] \in {"push", "blocked"}
    BY <2>1 DEF PathInv, QueuerOK
  <2>2. CASE Dispatch(c)
    <3>1. slot[at[c]].queuer = "asyncQ"
      BY <1>1, <2>2, FlushFacts DEF Dispatch, Submitted, Goto, Return, My, Types, PlaceTypes, Threads
    <3> QED
      BY <1>1, <3>1 DEF SlotInv, SlotOK
  <2> QED
    BY <1>2, <2>1, <2>2
<1>4. pc[c] \in Unsubmitted \ {"last"}
  BY <1>2 DEF Submits, Unsubmitted
<1>5. slot'[at[c]].logger = slot[at[c]].logger
  BY <1>1, <1>4, FlushFacts, LoggerStays
<1>6. slot[at[c]].logger \in Logger
  BY <1>1, <1>3, InLogger
<1>7. thread'[slot[at[c]].logger] # "none"
  BY <1>3, <1>6, LoggerMoves DEF LoggerMove, Kept, Used, Written, Closing, EndedBy, Born
<1> QED
  BY <1>2, <1>3, <1>5, <1>7

(* An entry leaves the queue of the current logger when its thread takes it. *)
LEMMA EntryStays ==
    ASSUME Inductive, [Next]_vars, NEW g \in Logger, slot[cur].logger = g, NEW e \in ToSet(queue[g].list)
    PROVE  \/ e \in ToSet(queue'[g].list)
           \/ \E s \in Slot : ThreadPop(s) /\ slot[s].logger = g /\ Head(queue[g].list) = e
<1> DEFINE q == queue[g].list  r == queue'[g].list
<1>1. Types /\ CountInv /\ SlotInv /\ ShutInv /\ CallerInv /\ SetterInv /\ cur \in Slot /\ g # 0
  BY TypeParts DEF Inductive, Types, SlotTypes, Logger
<1>2. q \in Seq(Entry) /\ QueueTypes
  BY <1>1 DEF Types, QueueTypes, QueueType
<1>3. CASE r = q
  BY <1>3
<1>4. ASSUME NEW c \in Callers, Enqueues(c)
      PROVE  e \in ToSet(r)
  <2> DEFINE h == slot[at[c]].logger
  <2>1. PICK w : Enqueue(h, c, w)
    BY <1>4 DEF Enqueues
  <2>2. /\ h \in Logger /\ queue'[h].list = Append(queue[h].list, call[c])
        /\ \A k \in Logger : k # h => queue'[k] = queue[k]
    BY <1>2, <1>4, <2>1, EnqueueEffect DEF Enqueues
  <2>3. call[c] \in Entry
    BY <1>1, <1>4, SubmitFacts DEF Enqueues, Unsubmitted
  <2>4. ToSet(Append(q, call[c])) = ToSet(q) \cup {call[c]}
    BY <1>2, <2>3, AppendSet
  <2> QED
    BY <2>2, <2>4
<1>5. ASSUME NEW s \in Slot, ThreadPop(s)
      PROVE  e \in ToSet(r) \/ (slot[s].logger = g /\ Head(q) = e)
  <2> DEFINE h == slot[s].logger
  <2>1. h \in Logger /\ queue[h].list # <<>> /\ queue' = [queue EXCEPT ![h].list = Tail(@)]
    BY <1>1, <1>5, InLogger DEF ThreadPop, ThreadAt
  <2>2. queue'[h].list = Tail(queue[h].list) /\ \A k \in Logger : k # h => queue'[k] = queue[k]
    BY <1>2, <2>1, ListEffect
  <2>3. CASE g # h
    BY <2>2, <2>3
  <2>4. CASE g = h
    <3>1. r = Tail(q) /\ q # <<>>
      BY <2>1, <2>2, <2>4
    <3>2. PICK j \in DOMAIN q : e = q[j]
      BY DEF ToSet
    <3>3. DOMAIN Tail(q) = 1..(Len(q) - 1) /\ j \in 1..Len(q) /\ Len(q) \in Nat
          /\ Head(q) = q[1] /\ \A i \in DOMAIN Tail(q) : Tail(q)[i] = q[i + 1]
      BY <1>2, <3>1, TailElements
    <3>4. CASE j = 1
      BY <2>4, <3>2, <3>3, <3>4
    <3>5. CASE j # 1
      <4>1. j - 1 \in DOMAIN Tail(q) /\ Tail(q)[j - 1] = q[j]
        BY <3>3, <3>5
      <4> QED
        BY <3>1, <3>2, <4>1 DEF ToSet
    <3> QED
      BY <3>4, <3>5
  <2> QED
    BY <2>3, <2>4
<1>6. ASSUME NEW s \in Slot, ThreadNext(s)
      PROVE  r = q
  BY <1>6 DEF ThreadNext
<1>7. ASSUME NEW t \in Setters, Reset(t)
      PROVE  r = q
  <2>1. at[t] \in Slot /\ at[t] # cur
    BY <1>1, <1>7, ResetEffect
  <2>2. slot[at[t]].logger # g
    BY <1>1, <2>1 DEF SlotInv, Slot
  <2> QED
    BY <1>1, <1>7, <2>2, ResetQueue
<1>8. ASSUME NEW t \in Setters, NEW kind \in Kinds, SetLogger(t, kind)
      PROVE  r = q
  <2>1. g # loggers + 1
    BY <1>1, InLogger
  <2> QED
    BY <1>1, <1>8, <2>1, SetLoggerEffect
<1>9. Quiet => r = q
  BY DEF Quiet
<1>10. ASSUME NEW c \in Callers, Writes(c)
       PROVE  r = q
  BY <1>10 DEF Writes, Write
<1> QED
  BY <1>3, <1>4, <1>5, <1>6, <1>7, <1>8, <1>9, <1>10, StepKinds DEF StepKind

(* A caller that changes the path has its CLOSE taken, or the path is changed. *)
LEMMA ComingStep ==
    ASSUME Prompt, Inductive, CloseInv, [Next]_vars, FlushInv, OneFlusher, PathInv,
           NEW c \in Callers, Same(c), Flushing(c), Flushing(c)', call[c].what = "CLOSE",
           NEW g \in Logger, g = gen[c], slot[cur].logger = g, cur' = cur,
           file[g].newPath # None, file'[g].newPath # None, Coming(c)
    PROVE  Coming(c)'
<1>1. Types /\ SlotInv /\ ShutInv /\ CallerInv /\ FreshInv /\ BlockedInv /\ cur \in Slot /\ g # 0
      /\ call[c] \in Entry
  BY TypeParts DEF Inductive, Types, SlotTypes, Logger, CallerInv, CallerOK, Flushing
<1>2. ~SinkNull(g, "CLOSE")
  BY <1>1, NullMoves DEF Types
<1>3. gen'[c] = g /\ call'[c] = call[c]
  BY DEF Same
<1>4. \/ pc[c] = "last" /\ pc'[c] \in {"last", "flag"}
      \/ pc[c] \in Unsubmitted /\ at[c] = cur
      \/ pc[c] = "await" /\ at[c] = cur /\ call[c] \in ToSet(queue[g].list)
  BY FlushCall DEF Coming, CallStep, Stays, Ends, Begins, Meets, Goes, Submits, Unsubmitted,
                   Flushing, ToSet
<1>5. CASE pc[c] = "last"
  BY <1>5, FlushCall
     DEF Coming, CallStep, Stays, Ends, Begins, Meets, Goes, Submits, Unsubmitted, Flushing
<1>6. CASE pc'[c] \in Unsubmitted /\ at'[c] = cur
  BY <1>6 DEF Coming
<1>7. ASSUME at'[c] = cur, pc'[c] = "await", call[c] \in ToSet(queue'[g].list)
      PROVE  Coming(c)'
  BY <1>3, <1>7 DEF Coming, ToSet
<1>8. CASE pc[c] = "await"
  <2>1. pc'[c] = "await" /\ at'[c] = at[c]
    BY <1>8, FlushCall
       DEF CallStep, Stays, Ends, Begins, Meets, Goes, Submits, Unsubmitted, Flushing
  <2>2. ASSUME NEW s \in Slot, ThreadPop(s), slot[s].logger = g, Head(queue[g].list) = call[c]
        PROVE  FALSE
    <3>1. Sink(g, call[c])
      BY <2>2 DEF ThreadPop
    <3> QED
      BY <1>2, <3>1 DEF Sink
  <2>3. call[c] \in ToSet(queue[g].list) /\ at[c] = cur
    BY <1>4, <1>8 DEF Unsubmitted
  <2>4. call[c] \in ToSet(queue'[g].list)
    BY <2>2, <2>3, EntryStays
  <2> QED
    BY <1>7, <2>1, <2>3, <2>4
<1>9. CASE pc[c] \in Unsubmitted \ {"last"} /\ pc'[c] # "await"
  BY <1>4, <1>6, <1>9, FlushCall
     DEF CallStep, Stays, Ends, Begins, Meets, Goes, Submits, Unsubmitted, Flushing
<1>10. CASE pc[c] \in Unsubmitted \ {"last"} /\ pc'[c] = "await"
  <2>1. pc[c] \in Submits /\ Passes(c) /\ at'[c] = at[c] /\ at[c] = cur
    BY <1>4, <1>10, FlushCall
       DEF CallStep, Stays, Ends, Begins, Meets, Goes, Submits, Unsubmitted, Flushing
  <2>2. CASE Dispatch(c)
    <3>1. slot[cur].queuer # "noQ"
      BY <1>1 DEF SlotInv, SlotOK
    <3> QED
      BY <1>1, <1>10, <2>1, <2>2, <3>1 DEF Dispatch, My, Goto, Types, PlaceTypes, Threads
  <2>3. CASE Write(c)
    <3>1. Sink(g, call[c])
      BY <1>1, <2>1, <2>3 DEF Write, My
    <3> QED
      BY <1>2, <3>1 DEF Sink
  <2>4. ASSUME NEW w, Enqueue(g, c, w)
        PROVE  Coming(c)'
    <3>1. queue[g].list \in Seq(Entry) /\ QueueTypes
      BY <1>1 DEF Types, QueueTypes, QueueType
    <3>2. queue'[g].list = Append(queue[g].list, call[c])
      BY <2>4, <3>1, EnqueueEffect
    <3>3. call[c] \in ToSet(queue'[g].list)
      BY <1>1, <3>1, <3>2, AppendSet
    <3> QED
      BY <1>7, <1>10, <2>1, <3>3
  <2>5. ASSUME pc[c] \in {"push", "blocked"}
        PROVE  slot[cur].logThread /\ queue[g].open
    <3>1. thread[g] # "none"
      BY <2>1, <2>5 DEF PathInv, QueuerOK
    <3>2. thread[g] # "done"
      BY <1>1 DEF ShutInv
    <3> QED
      BY <1>1, <3>1, <3>2 DEF SlotInv, SlotOK, PathInv, OpenOK
  <2>6. CASE Push(c)
    <3>1. pc[c] = "push"
      BY <2>6 DEF Push
    <3>2. ~(pc'[c] = "blocked")
      BY <1>10
    <3>3. Enqueue(g, c, queue[g].waiting)
      BY <1>1, <2>1, <2>5, <2>6, <3>1, <3>2 DEF Push, My, Goto, Types, PlaceTypes, Threads
    <3> QED
      BY <2>4, <3>3
  <2>7. CASE PushResume(c)
    <3>1. Enqueue(g, c, Tail(queue[g].waiting))
      BY <2>1, <2>7 DEF PushResume, My
    <3> QED
      BY <2>4, <3>1
  <2>8. CASE PushAbort(c)
    BY <2>1, <2>5, <2>8 DEF PushAbort, My
  <2> QED
    BY <2>1, <2>2, <2>3, <2>6, <2>7, <2>8 DEF Passes
<1> QED
  BY <1>4, <1>5, <1>8, <1>9, <1>10

(* The path that a caller leaves, while its logger is current. *)
LEMMA PathStep ==
    ASSUME Prompt, Inductive, CloseInv, [Next]_vars, FlushInv, OneFlusher, PathInv,
           NEW c \in Callers
    PROVE  PathOK(c)'
<1> SUFFICES ASSUME Moving(c)', NEW g, g = gen'[c]
             PROVE  /\ call'[c].what = "CLOSE"
                    /\ slot'[cur'].logger = g =>
                          \/ file'[g].path # leaving'[c] /\ file'[g].newPath = None
                          \/ file'[g].newPath \notin {None, leaving'[c]} /\ Coming(c)'
  BY DEF PathOK
<1>1. Types /\ CallerInv /\ SlotInv /\ ShutInv
  BY TypeParts DEF Inductive
<1>2. CASE SinkCtxPath(c)
  <2>1. g = slot[cur].logger /\ g # 0 /\ pc'[c] = "last" /\ call'[c].what = "CLOSE"
    BY <1>1, <1>2 DEF SinkCtxPath, ChangePath, Begin, Types, PlaceTypes, Threads
  <2>2. g \in Logger /\ file[g] \in FileType
    BY <1>1, <2>1, InLogger DEF Types, SlotTypes, SinkTypes
  <2>3. PICK p \in Paths \ {leaving'[c]} : file' = [file EXCEPT ![g].newPath = p]
    BY <1>2, <2>1 DEF SinkCtxPath
  <2>4. file'[g].newPath = p
    BY <1>1, <2>2, <2>3 DEF Types, SinkTypes, FileType
  <2> QED
    BY <2>1, <2>3, <2>4, LoggerAssumption DEF Coming
<1>3. CASE Same(c) /\ Flushing(c)
  <2>1. leaving'[c] = leaving[c] /\ g = gen[c] /\ call'[c] = call[c] /\ Moving(c) /\ Flushing(c)'
    BY <1>3 DEF Same, Moving
  <2>2. g \in Logger /\ GenOK(c) /\ c \in Movers /\ g <= loggers /\ loggers \in Nat
    BY <2>1, FlushFacts DEF GenOK, Moving
  <2>3. call[c].what = "CLOSE" /\ PathOK(c)
    BY <2>1 DEF PathInv, PathOK
  <2> SUFFICES ASSUME slot'[cur'].logger = g
               PROVE  \/ file'[g].path # leaving'[c] /\ file'[g].newPath = None
                      \/ file'[g].newPath \notin {None, leaving'[c]} /\ Coming(c)'
    BY <2>1, <2>3
  <2>4. slot[cur].logger = g /\ cur' = cur
    BY <2>2, CurStays
  <2>5. \/ file[g].path # leaving[c] /\ file[g].newPath = None
        \/ file[g].newPath \notin {None, leaving[c]} /\ Coming(c)
    BY <2>1, <2>3, <2>4 DEF PathOK
  <2>6. CASE file'[g].path = file[g].path /\ file'[g].newPath = file[g].newPath
    BY <1>3, <2>1, <2>2, <2>3, <2>4, <2>5, <2>6, ComingStep
  <2>7. CASE /\ file[g].newPath # None
             /\ file'[g].path = file[g].newPath /\ file'[g].newPath = None
    BY <2>1, <2>5, <2>7
  <2>8. ASSUME NEW d \in Movers, SinkCtxPath(d)
        PROVE  FALSE
    <3>1. d = c
      BY <2>2 DEF OneFlusher
    <3> QED
      BY <1>3, <2>8, <3>1 DEF SinkCtxPath, ChangePath, Flushing, Unsubmitted
  <2> QED
    BY <2>2, <2>6, <2>7, <2>8, FileStep
<1> QED
  BY <1>2, <1>3, FlushCall, FlushFacts
     DEF CallStep, Stays, Ends, Begins, Meets, Goes, Same, Submits, Unsubmitted, GenOK, Moving, Flushing

(* A caller that changes the path moves the sink of its logger off the old path
   while that logger is current. *)
THEOREM PathHolds == Prompt /\ OneFlusher /\ Spec => []PathInv
<1>1. Prompt /\ OneFlusher /\ Inductive /\ CloseInv /\ FlushInv /\ PathInv /\ [Next]_vars => PathInv'
  <2> SUFFICES ASSUME Prompt, OneFlusher, Inductive, CloseInv, FlushInv, PathInv, [Next]_vars
               PROVE  PathInv'
    OBVIOUS
  <2>1. ASSUME NEW g \in Logger PROVE FileOK(g)'
    BY <2>1, FileStep DEF PathInv
  <2> QED
    BY <2>1, QueuerStep, PathStep, OpenStep DEF PathInv
<1>2. Init => PathInv
  <2> SUFFICES ASSUME Init PROVE PathInv
    OBVIOUS
  <2>1. \A c \in Callers : pc[c] = "idle" /\ leaving[c] = None
    BY DEF Init, Start, Threads
  <2>2. \A g \in Logger : thread[g] = "none" /\ file[g].wh = None
    BY DEF Init, Start
  <2> QED
    BY <2>1, <2>2 DEF PathInv, QueuerOK, PathOK, Moving, OpenOK, FileOK
<1>3. CASE Prompt /\ OneFlusher
  BY <1>1, <1>2, <1>3, InductiveHolds, CloseHolds, FlushHolds, PTL DEF Spec
<1> QED
  BY <1>3

(* The CLOSE is no longer on its way when the call returns: the mark is down,
   and a logger without a thread has none of its own. *)
LEMMA PathReturns ==
    ASSUME Inductive, [Next]_vars, FlushInv, OneFlusher, PathInv,
           NEW c \in Callers, Returns(c), leaving[c] # None, slot[cur].logger = gen[c]
    PROVE  file[gen[c]].wh # leaving[c] /\ file[gen[c]].path # leaving[c]
<1> DEFINE g == gen[c]
<1>1. Flushing(c) /\ g \in Logger /\ pc[c] = "await" /\ pc'[c] = "idle"
  BY FlushFacts DEF Returns, GenOK, Flushing
<1>2. Types /\ SlotInv /\ ShutInv /\ FreshInv /\ g # 0
  BY <1>1, TypeParts DEF Inductive, Logger
<1>3. ~slot[at[c]].flushReq
  BY <1>1, WaiterStays DEF Stays
<1>4. ~Coming(c)
  <2> SUFFICES ASSUME NEW j \in DOMAIN queue[g].list, queue[g].list[j] = call[c] PROVE FALSE
    BY <1>1 DEF Coming, Unsubmitted
  <2>1. queue[g].list # <<>>
    BY <1>2 DEF Types, QueueTypes, QueueType
  <2>2. Live(g)
    BY <1>1, <1>2, <2>1 DEF ShutInv, FreshInv, FreshOK, Live, Types, ThreadTypes
  <2>3. call[c].what # "msg" /\ call[c].item[1] = c
    BY <1>1 DEF Inductive, CallerInv, CallerOK, Flushing
  <2>4. NullOK(g)
    BY <1>1 DEF FlushInv
  <2>5. Raised(c, g)
    BY <2>2, <2>3, <2>4 DEF NullOK
  <2> QED
    BY <1>3, <2>5 DEF Raised
<1>5. file[g].path # leaving[c]
  BY <1>1, <1>4 DEF PathInv, PathOK, Moving
<1> QED
  BY <1>1, <1>5 DEF PathInv, FileOK

(* ruSinkCtxPath "will block until the old file has been closed": when one
   thread flushes and changes the path, a sink that belongs to the current
   logger has left the old path when the call that set a new one returns. *)
THEOREM PathKeptHolds == Prompt /\ OneFlusher /\ Spec => PathKept
<1>1. OneFlusher /\ Inductive /\ FlushInv /\ PathInv /\ [Next]_vars =>
         [\A c \in Callers : Returns(c) /\ leaving[c] # None /\ slot[cur].logger = gen[c] =>
             file[gen[c]].wh # leaving[c] /\ file[gen[c]].path # leaving[c]]_vars
  BY PathReturns
<1>2. CASE Prompt /\ OneFlusher
  BY <1>1, <1>2, InductiveHolds, FlushHolds, PathHolds, PTL DEF Spec, PathKept
<1> QED
  BY <1>2

(* A logger that is the only one to be made stays current. *)
LEMMA OnlyStep ==
    ASSUME MaxLoggers = 1, Inductive, [Next]_vars, OnlyInv
    PROVE  OnlyInv'
<1>1. Types /\ CountInv /\ ShutInv /\ SetterInv /\ cur \in Slot /\ loggers \in Nat
  BY Bounds, TypeParts DEF Inductive, Types, SlotTypes
<1>2. SlotsKept => OnlyInv'
  BY <1>1 DEF SlotsKept, OnlyInv
<1>3. ASSUME NEW t \in Setters, QuitBy(t)
      PROVE  OnlyInv'
  BY <1>3 DEF QuitBy, Quit, OnlyInv
<1>4. ASSUME NEW t \in Setters, Reset(t)
      PROVE  OnlyInv'
  BY <1>1, <1>4, ResetEffect DEF OnlyInv
<1>5. ASSUME NEW t \in Setters, NEW kind \in Kinds, SetLogger(t, kind)
      PROVE  OnlyInv'
  <2>1. loggers + 1 \in 1..1
    BY <1>1, <1>5, SetLoggerEffect DEF Logger
  <2>2. loggers = 0
    BY <1>1, <2>1
  <2> QED
    BY <1>1, <1>5, <2>2, SetLoggerEffect DEF OnlyInv
<1> QED
  BY <1>2, <1>3, <1>4, <1>5, SlotMoves DEF SlotMove

(* With one logger, made at whatever time, that is so of every call that
   changes the path. *)
THEOREM PathClosedHolds == Prompt /\ OneFlusher /\ MaxLoggers = 1 /\ Spec => PathClosed
<1>1. Init => OnlyInv
  BY DEF Init, Start, OnlyInv
<1>2. MaxLoggers = 1 /\ Inductive /\ OnlyInv /\ [Next]_vars => OnlyInv'
  BY OnlyStep
<1>3. OneFlusher /\ MaxLoggers = 1 /\ Inductive /\ FlushInv /\ PathInv /\ OnlyInv /\ [Next]_vars =>
         [\A c \in Callers : Returns(c) /\ leaving[c] # None /\ ~Overtaken(c) =>
             file[gen[c]].wh # leaving[c] /\ file[gen[c]].path # leaving[c]]_vars
  <2> SUFFICES ASSUME OneFlusher, MaxLoggers = 1, Inductive, FlushInv, PathInv, OnlyInv, [Next]_vars,
                      NEW c \in Callers, Returns(c), leaving[c] # None
               PROVE  file[gen[c]].wh # leaving[c] /\ file[gen[c]].path # leaving[c]
    OBVIOUS
  <2>1. gen[c] # 0 /\ gen[c] \in Logger /\ gen[c] <= loggers
    BY FlushFacts DEF GenOK
  <2>2. loggers \in 0..1
    BY TypeParts DEF Inductive, Types, SlotTypes
  <2>3. gen[c] = 1 /\ loggers = 1
    BY <2>1, <2>2 DEF Logger
  <2> QED
    BY <2>3, PathReturns DEF OnlyInv
<1>4. CASE Prompt /\ OneFlusher /\ MaxLoggers = 1
  BY <1>1, <1>2, <1>3, <1>4, InductiveHolds, FlushHolds, PathHolds, PTL DEF Spec, PathClosed
<1> QED
  BY <1>4
=============================================================================
