-------------------------------- MODULE Threads --------------------------------
(***************************************************************************)
(* thread.c: the life of a thread's context between the thread that runs   *)
(* and the caller that owns the handle, and the mutexes, the condition and *)
(* the counter which the threads share.                                    *)
(*                                                                         *)
(* A step is one access to the context, a mutex or the counter.  On        *)
(* "posix" a kill is a deferred pthread_cancel; "windows" and "android"    *)
(* have none, and leave the context to the thread.                         *)
(***************************************************************************)
EXTENDS Integers, FiniteSets

CONSTANTS Thread,    \* the threads that may be created, each once
          Platforms, \* where the program may run
          Ops,       \* what the start functions do
          MaxOps,    \* how often (a bound of the runs)
          None       \* no thread, no value

Mutex == {"counter", "user"}  \* the counter's own, and one of the program's
CounterOps == {"inc", "take"} \* ruCounterInc(c, 1), ruCountSet(c, 0)

ASSUME ThreadsAssumption ==
    /\ Platforms \subseteq {"posix", "windows", "android"}
    /\ Ops \subseteq CounterOps \cup {"signal", "wait", "waitTil", "try"}
    /\ MaxOps \in Nat
    /\ None \notin Thread

VARIABLES
    platform,
    ctx,    \* the Thr of each thread
    run,    \* where the thread is
    own,    \* where its owner is
    cancel, \* pthread_cancel was called
    ended,  \* what pthread_exit was given
    mux, count,
    op, reg, made \* the thread's operation, what it has read, operations so far

VARIABLES   \* histories, which no action reads
    selfJoin,  \* the thread has tried to join itself
    value,     \* what the owner's join returned
    net        \* the increments minus what ruCountSet took out

ctxVars == <<ctx, own, value, selfJoin>>
syncVars == <<mux, count, op, reg, made, net>>
vars == <<platform, ctxVars, run, cancel, ended, syncVars>>

InCall == {"lock", "have", "add", "unlock", "wait", "relock"}

TypeOK ==
    /\ platform \in Platforms
    /\ ctx \in [Thread -> [mem : {"none", "live", "freed"}, finished : BOOLEAN,
                           orphaned : BOOLEAN, exitRes : {None, "result", "canceled"}]]
    /\ run \in [Thread -> {"none", "body", "stored", "finished", "exited", "undefined"} \cup InCall]
    /\ own \in [Thread -> {"none", "idle", "wait", "late", "join", "free",
                           "done", "undefined"}]
    /\ cancel \in [Thread -> BOOLEAN]
    /\ selfJoin \in [Thread -> BOOLEAN]
    /\ ended \in [Thread -> {None, "result", "canceled"}] /\ value \in [Thread -> {None, "result", "canceled"}]
    /\ mux \in [Mutex -> [holder : Thread \cup {None}, lCnt : Nat, tlCnt : Nat, ulCnt : Nat]]
    /\ count \in Int /\ net \in Int /\ reg \in [Thread -> Int]
    /\ op \in [Thread -> Ops \cup {None}] /\ made \in [Thread -> 0..MaxOps]

NoContext == [mem |-> "none", finished |-> FALSE, orphaned |-> FALSE, exitRes |-> None]

Init ==
    /\ platform \in Platforms
    /\ ctx = [t \in Thread |-> NoContext]
    /\ run = [t \in Thread |-> "none"] /\ own = run
    /\ cancel = [t \in Thread |-> FALSE] /\ selfJoin = cancel
    /\ ended = [t \in Thread |-> None] /\ value = ended /\ op = ended
    /\ mux = [m \in Mutex |-> [holder |-> None, lCnt |-> 0, tlCnt |-> 0, ulCnt |-> 0]]
    /\ count = 0 /\ net = 0
    /\ reg = [t \in Thread |-> 0] /\ made = reg

(* An access to a freed context: anything may follow, the model stops.     *)
Running == \A t \in Thread : run[t] # "undefined" /\ own[t] # "undefined"
Live(t) == ctx[t].mem = "live"

At(t, label) == Running /\ run[t] = label
Goto(t, label) == run' = [run EXCEPT ![t] = label]
OwnerAt(t, label) == Running /\ own[t] = label
OwnerGoto(t, label) == own' = [own EXCEPT ![t] = label]
-----------------------------------------------------------------------------
(* The thread: threadRunner.                                               *)

(* The thread writes to its context, if that is still there.               *)
Touch(t, label, new) ==
    IF Live(t) THEN ctx' = [ctx EXCEPT ![t] = new] /\ Goto(t, label)
               ELSE Goto(t, "undefined") /\ UNCHANGED ctx

(* The start function has returned. *)
Store(t) ==
    /\ At(t, "body")
    /\ Touch(t, "stored", [ctx[t] EXCEPT !.exitRes = "result"])
    /\ UNCHANGED <<platform, own, value, selfJoin, cancel, ended, syncVars>>

Finish(t) ==
    /\ At(t, "stored")
    /\ Touch(t, "finished", [ctx[t] EXCEPT !.finished = TRUE])
    /\ UNCHANGED <<platform, own, value, selfJoin, cancel, ended, syncVars>>

(* Mutant: the context is freed by the thread unless it was orphaned. *)
Exit_Inverted(t) ==
    /\ At(t, "finished")
    /\ Touch(t, "exited", IF platform = "windows" /\ ~ctx[t].orphaned
                          THEN [ctx[t] EXCEPT !.mem = "freed"] ELSE ctx[t])
    /\ ended' = [ended EXCEPT ![t] = ctx[t].exitRes]
    /\ UNCHANGED <<platform, own, value, selfJoin, cancel, syncVars>>

(* pthread_exit reads the result and does not return.  Only on Windows does
   the thread get to free a context that was left to it. *)
Exit(t) ==
    /\ At(t, "finished")
    /\ Touch(t, "exited", IF platform = "windows" /\ ctx[t].orphaned
                          THEN [ctx[t] EXCEPT !.mem = "freed"] ELSE ctx[t])
    /\ ended' = [ended EXCEPT ![t] = ctx[t].exitRes]
    /\ UNCHANGED <<platform, own, value, selfJoin, cancel, syncVars>>

(* Mutant: the mutex of a counter can be left by a cancellation. *)
CancelPoints_Locked == {"body", "wait", "stored", "add"}

(* A cancelled thread ends at its next cancellation point: in the start
   function, in a condition wait, or logging.  Locking a mutex is none. *)
CancelPoints == {"body", "wait", "stored"}

Cancelled(t) ==
    /\ Running
    /\ cancel[t] /\ run[t] \in CancelPoints
    /\ run[t] = "wait" => mux["user"].holder = None
    /\ mux' = IF run[t] = "wait" THEN [mux EXCEPT !["user"].holder = t] ELSE mux
    /\ Goto(t, "exited")
    /\ ended' = [ended EXCEPT ![t] = "canceled"]
    /\ UNCHANGED <<platform, ctxVars, cancel, count, op, reg, made, net>>

Runner(t) == Store(t) \/ Finish(t) \/ Exit(t) \/ Cancelled(t)
-----------------------------------------------------------------------------
(* The owner of the handle.                                                *)
(* ruThreadCreate and ruThreadCreateBg; one that fails leaves nothing. *)
Create(t) ==
    /\ OwnerAt(t, "none")
    /\ ctx' = [ctx EXCEPT ![t].mem = "live"]
    /\ Goto(t, "body") /\ OwnerGoto(t, "idle")
    /\ UNCHANGED <<platform, value, selfJoin, cancel, ended, syncVars>>

(* A call, ruThreadWait, ruThreadJoin or ruThreadKill, reads the magic number; one that was orphaned is
   refused, if it is still there. *)
Call(t) ==
    /\ OwnerAt(t, "idle")
    /\ IF ~Live(t) THEN OwnerGoto(t, "undefined")
       ELSE ~ctx[t].orphaned /\ \E label \in {"wait", "join", "late"} : OwnerGoto(t, label)
    /\ UNCHANGED <<platform, ctx, value, selfJoin, run, cancel, ended, syncVars>>

(* Mutant: a wait that is late goes on as if the thread had finished. *)
WaitEnds_NoKill(t) ==
    /\ OwnerAt(t, "wait")
    /\ OwnerGoto(t, "join")
    /\ UNCHANGED <<platform, ctx, value, selfJoin, run, cancel, ended, syncVars>>

(* threadWait: finished, or tosecs are over. *)
WaitEnds(t) ==
    /\ OwnerAt(t, "wait")
    /\ OwnerGoto(t, IF ctx[t].finished THEN "join" ELSE "late")
    /\ UNCHANGED <<platform, ctx, value, selfJoin, run, cancel, ended, syncVars>>

(* Mutant: finished is taken for the end of the thread. *)
Join_Finished(t) ==
    /\ OwnerAt(t, "join")
    /\ ctx[t].finished \/ run[t] = "exited"
    /\ value' = [value EXCEPT ![t] = ctx[t].exitRes]
    /\ OwnerGoto(t, "free")
    /\ UNCHANGED <<platform, ctx, selfJoin, run, cancel, ended, syncVars>>

(* Mutant: exitRes is read before the thread has ended. *)
Join_Early(t) ==
    /\ OwnerAt(t, "join")
    /\ value' = [value EXCEPT ![t] = ctx[t].exitRes]
    /\ OwnerGoto(t, "free")
    /\ UNCHANGED <<platform, ctx, selfJoin, run, cancel, ended, syncVars>>

(* threadJoin *)
Join(t) ==
    /\ OwnerAt(t, "join")
    /\ run[t] = "exited"
    /\ ctx' = [ctx EXCEPT ![t].exitRes = ended[t]]
    /\ value' = [value EXCEPT ![t] = ended[t]]
    /\ OwnerGoto(t, "free")
    /\ UNCHANGED <<platform, selfJoin, run, cancel, ended, syncVars>>

(* A thread that joins itself: pthread_join fails, the context goes.       *)
JoinSelf(t) ==
    /\ At(t, "body") /\ platform # "windows"
    /\ own[t] = "idle" /\ Live(t) /\ ~ctx[t].orphaned
    /\ ctx' = [ctx EXCEPT ![t].mem = "freed"]
    /\ selfJoin' = [selfJoin EXCEPT ![t] = TRUE]
    /\ OwnerGoto(t, "done")
    /\ UNCHANGED <<platform, value, run, cancel, ended, syncVars>>

(* threadKill *)
Kill(t) ==
    /\ OwnerAt(t, "late")
    /\ IF platform = "posix"
       THEN /\ cancel' = [cancel EXCEPT ![t] = TRUE]
            /\ ctx' = [ctx EXCEPT ![t].finished = TRUE]
       ELSE ctx' = [ctx EXCEPT ![t].orphaned = TRUE] /\ UNCHANGED cancel
    /\ OwnerGoto(t, "free")
    /\ UNCHANGED <<platform, value, selfJoin, run, ended, syncVars>>

(* The end of ruThreadKill, ruThreadWait and ruThreadJoin.                 *)
Release(t) ==
    /\ OwnerAt(t, "free")
    /\ CASE ~Live(t) -> OwnerGoto(t, "undefined") /\ UNCHANGED ctx
         [] Live(t) /\ ctx[t].orphaned -> OwnerGoto(t, "idle") /\ UNCHANGED ctx
         [] OTHER -> OwnerGoto(t, "done") /\ ctx' = [ctx EXCEPT ![t].mem = "freed"]
    /\ UNCHANGED <<platform, value, selfJoin, run, cancel, ended, syncVars>>

Returning(t) == WaitEnds(t) \/ Join(t) \/ Kill(t) \/ Release(t)
Owner(t) == Create(t) \/ Call(t) \/ Returning(t) \/ JoinSelf(t)
-----------------------------------------------------------------------------
(* Mutexes, the condition and the counter.                                 *)
MuxOf(t) == IF op[t] \in CounterOps THEN "counter" ELSE "user"

Return(t) ==
    /\ Goto(t, "body")
    /\ op' = [op EXCEPT ![t] = None]
    /\ reg' = [reg EXCEPT ![t] = 0]

Begin(t) ==
    /\ At(t, "body") /\ made[t] < MaxOps
    /\ op' \in {[op EXCEPT ![t] = o] : o \in Ops}
    /\ made' = [made EXCEPT ![t] = @ + 1]
    /\ Goto(t, "lock")
    /\ UNCHANGED <<platform, ctxVars, cancel, ended, mux, count, reg, net>>

(* Mutant: the lock is not waited for. *)
MutexLock_Not(t) ==
    /\ At(t, "lock") /\ op[t] # "try"
    /\ mux' = [mux EXCEPT ![MuxOf(t)].holder = t, ![MuxOf(t)].lCnt = @ + 1]
    /\ Goto(t, "have")
    /\ UNCHANGED <<platform, ctxVars, cancel, ended, count, op, reg, made, net>>

MutexLock(t) ==
    /\ At(t, "lock") /\ op[t] # "try"
    /\ mux[MuxOf(t)].holder = None
    /\ mux' = [mux EXCEPT ![MuxOf(t)].holder = t, ![MuxOf(t)].lCnt = @ + 1]
    /\ Goto(t, "have")
    /\ UNCHANGED <<platform, ctxVars, cancel, ended, count, op, reg, made, net>>

MutexTryLock(t) ==
    /\ At(t, "lock") /\ op[t] = "try"
    /\ IF mux["user"].holder = None
       THEN /\ mux' = [mux EXCEPT !["user"].holder = t, !["user"].tlCnt = @ + 1]
            /\ Goto(t, "unlock") /\ UNCHANGED <<op, reg>>
       ELSE Return(t) /\ UNCHANGED mux
    /\ UNCHANGED <<platform, ctxVars, cancel, ended, count, made, net>>

(* Mutant: the unlock is not counted. *)
MutexUnlock_NotCounted(t) ==
    /\ At(t, "unlock")
    /\ mux' = [mux EXCEPT ![MuxOf(t)].holder = None]
    /\ Return(t)
    /\ UNCHANGED <<platform, ctxVars, cancel, ended, count, made, net>>

MutexUnlock(t) ==
    /\ At(t, "unlock")
    /\ mux' = [mux EXCEPT ![MuxOf(t)].holder = None, ![MuxOf(t)].ulCnt = @ + 1]
    /\ Return(t)
    /\ UNCHANGED <<platform, ctxVars, cancel, ended, count, made, net>>

CountRead(t) ==
    /\ At(t, "have") /\ op[t] \in CounterOps
    /\ reg' = [reg EXCEPT ![t] = count]
    /\ Goto(t, "add")
    /\ UNCHANGED <<platform, ctxVars, cancel, ended, mux, count, op, made, net>>

(* ruCounterIncValue, or ruCountSetValue, which returns what was there.    *)
CountWrite(t) ==
    /\ At(t, "add")
    /\ count' = IF op[t] = "inc" THEN reg[t] + 1 ELSE 0
    /\ net' = IF op[t] = "inc" THEN net + 1 ELSE net - reg[t]
    /\ Goto(t, "unlock")
    /\ UNCHANGED <<platform, ctxVars, cancel, ended, mux, op, reg, made>>

Blocked == {t \in Thread : run[t] = "wait"}

(* ruCondSignal lets one waiter go, if there is one.                       *)
CondSignal(t) ==
    /\ At(t, "have") /\ op[t] = "signal"
    /\ IF Blocked = {} THEN Goto(t, "unlock")
       ELSE \E w \in Blocked : run' = [run EXCEPT ![t] = "unlock", ![w] = "relock"]
    /\ UNCHANGED <<platform, ctxVars, cancel, ended, syncVars>>

(* Mutant: the wait keeps the mutex. *)
CondWait_KeepsLock(t) ==
    /\ At(t, "have") /\ op[t] \in {"wait", "waitTil"}
    /\ Goto(t, "wait")
    /\ UNCHANGED <<platform, ctxVars, cancel, ended, syncVars>>

(* ruCondWaitTil gives up the mutex, which its counts do not show ...      *)
CondWait(t) ==
    /\ At(t, "have") /\ op[t] \in {"wait", "waitTil"}
    /\ mux' = [mux EXCEPT !["user"].holder = None]
    /\ Goto(t, "wait")
    /\ UNCHANGED <<platform, ctxVars, cancel, ended, count, op, reg, made, net>>

CondTimeout(t) ==
    /\ At(t, "wait") /\ op[t] = "waitTil"
    /\ Goto(t, "relock")
    /\ UNCHANGED <<platform, ctxVars, cancel, ended, syncVars>>

(* ... and takes it again. *)
CondResume(t) ==
    /\ At(t, "relock")
    /\ mux["user"].holder = None
    /\ mux' = [mux EXCEPT !["user"].holder = t]
    /\ Goto(t, "unlock")
    /\ UNCHANGED <<platform, ctxVars, cancel, ended, count, op, reg, made, net>>

Working(t) == \/ MutexLock(t) \/ MutexTryLock(t) \/ MutexUnlock(t) \/ CountRead(t)
              \/ CountWrite(t) \/ CondSignal(t) \/ CondWait(t) \/ CondTimeout(t) \/ CondResume(t)

Next == \E t \in Thread : Owner(t) \/ Runner(t) \/ Begin(t) \/ Working(t)

Spec == Init /\ [][Next]_vars

(* The scheduler runs a call that can go on, and the runner once the start
   function has returned; a start function need not return. *)
FairSpec ==
    /\ Spec
    /\ \A t \in Thread : WF_vars(Returning(t)) /\ WF_vars(Finish(t) \/ Exit(t) \/ Working(t))
-----------------------------------------------------------------------------
Killed(t) == cancel[t] \/ ctx[t].orphaned

(* The context is freed before its thread is done with it only when the
   thread was killed, or joins itself: a caller that joins, or waits long
   enough, can rely on it, whatever finished says in between. *)
OnlyKillsDangle ==
    \A t \in Thread :
        \/ ctx[t].mem = "freed" /\ run[t] # "exited"
        \/ "undefined" \in {run[t], own[t]}
        => Killed(t) \/ selfJoin[t]

(* thread.h, ruThreadJoin and ruThreadWait: a wait that was not late hands
   out what the start function returned. *)
JoinedValue == \A t \in Thread : own[t] = "done" /\ ~Killed(t) /\ ~selfJoin[t] => value[t] = "result"

(* The counts of a mutex differ by the threads that have it and those that
   have given it up in a condition wait: with one waiting, the check "Extra
   release error" of ruMutexUnlockLoc would stop a correct program. *)
MuxBalance ==
    \A m \in Mutex :
        LET in == {t \in Thread : MuxOf(t) = m /\ run[t] \in {"wait", "relock"}} \cup {mux[m].holder}
        IN  mux[m].lCnt + mux[m].tlCnt - mux[m].ulCnt = Cardinality(in \ {None})

(* thread.h, "thread safe counter": no increment is lost, and none taken out
   twice, however ruCounterInc and ruCountSet interleave; and a thread that
   is killed does not take the counter's mutex with it, which nobody would
   give back. *)
CounterSound ==
    /\ count = net
    /\ LET h == mux["counter"].holder IN h # None => run[h] \in {"have", "add", "unlock", "undefined"}

(* ruThreadWait returns although the thread may never end.                 *)
WaitReturns ==
    \A t \in Thread : own[t] = "wait" ~> own[t] \notin {"wait", "late", "join"} \/ ~Running
=============================================================================
