--------------------------- MODULE ThreadsProofs ---------------------------
(***************************************************************************)
(* Theorems about Threads, for any threads, platforms and operations.      *)
(*                                                                         *)
(* Two inductive invariants carry them.  LifeInv follows a context from    *)
(* its creation to its release, as long as nobody kills the thread and it  *)
(* does not join itself; LockInv says who holds each mutex, and that a     *)
(* counter does not change between the read and the write of one call.     *)
(***************************************************************************)
EXTENDS Threads, FiniteSetTheorems, TLAPS

Disturbed(t) == Killed(t) \/ selfJoin[t]

(* The life of an undisturbed thread and its context.                      *)
Orderly(t) ==
    /\ run[t] # "undefined" /\ own[t] # "undefined"
    /\ (run[t] = "none") <=> (own[t] = "none")
    /\ (ctx[t].mem = "none") <=> (own[t] = "none")
    /\ (ctx[t].mem = "freed") <=> (own[t] = "done")
    /\ own[t] \in {"free", "done"} => run[t] = "exited" /\ value[t] = "result"
    /\ run[t] \in {"stored", "finished"} => ctx[t].exitRes = "result"
    /\ run[t] = "exited" => ended[t] = "result"
LifeInv == \A t \in Thread : Disturbed(t) \/ Orderly(t)

(* Inside a call, between taking its mutex and giving it back.             *)
Holding == {"have", "add", "unlock"}
Counting(t) == run[t] \in Holding /\ op[t] \in CounterOps
LockInv ==
    /\ \A t \in Thread :
          /\ own[t] = "none" => run[t] = "none"
          /\ run[t] \in {"wait", "relock"} => op[t] \in {"wait", "waitTil"}
          /\ run[t] = "add" => op[t] \in CounterOps /\ reg[t] = count
          /\ run[t] \in Holding => mux[MuxOf(t)].holder = t
    /\ mux["counter"].holder # None => Counting(mux["counter"].holder)
    /\ count = net
-----------------------------------------------------------------------------
CtxType == [mem : {"none", "live", "freed"}, finished : BOOLEAN,
            orphaned : BOOLEAN, exitRes : {None, "result", "canceled"}]
MuxType == [holder : Thread \cup {None}, lCnt : Nat, tlCnt : Nat, ulCnt : Nat]

(* What is written to a context or a mutex is one again. *)
LEMMA CtxFields ==
    ASSUME NEW c \in CtxType
    PROVE  /\ \A m \in {"none", "live", "freed"} : [c EXCEPT !.mem = m] \in CtxType
           /\ \A e \in {None, "result", "canceled"} : [c EXCEPT !.exitRes = e] \in CtxType
           /\ [c EXCEPT !.finished = TRUE] \in CtxType
           /\ [c EXCEPT !.orphaned = TRUE] \in CtxType
  BY DEF CtxType

(* A mutex stays one with a new holder and one of its counts increased. *)
LEMMA MuxFields ==
    ASSUME NEW m \in MuxType, NEW h \in Thread \cup {None}
    PROVE  /\ [m EXCEPT !.holder = h] \in MuxType
           /\ [m EXCEPT !.holder = h, !.lCnt = @ + 1] \in MuxType
           /\ [m EXCEPT !.holder = h, !.tlCnt = @ + 1] \in MuxType
           /\ [m EXCEPT !.holder = h, !.ulCnt = @ + 1] \in MuxType
<1>1. m.lCnt + 1 \in Nat /\ m.tlCnt + 1 \in Nat /\ m.ulCnt + 1 \in Nat
  BY DEF MuxType
<1>2. [m EXCEPT !.holder = h] \in MuxType
  BY DEF MuxType
<1>3. [m EXCEPT !.holder = h, !.lCnt = @ + 1] \in MuxType
  BY <1>1 DEF MuxType
<1>4. [m EXCEPT !.holder = h, !.tlCnt = @ + 1] \in MuxType
  BY <1>1 DEF MuxType
<1>5. [m EXCEPT !.holder = h, !.ulCnt = @ + 1] \in MuxType
  BY <1>1 DEF MuxType
<1> QED
  BY <1>2, <1>3, <1>4, <1>5

(* A thread's context is replaced by another. *)
LEMMA CtxUpdate ==
    ASSUME ctx \in [Thread -> CtxType], NEW t \in Thread, NEW new \in CtxType
    PROVE  [ctx EXCEPT ![t] = new] \in [Thread -> CtxType]
  OBVIOUS

(* TypeOK with the records named. *)
LEMMA PartTypes ==
    ASSUME TypeOK
    PROVE  /\ ctx \in [Thread -> CtxType]
           /\ mux \in [Mutex -> MuxType]
  BY DEF TypeOK, CtxType, MuxType

(* Each step keeps the types. *)
LEMMA TypeStep == ASSUME TypeOK, [Next]_vars PROVE TypeOK'
<1> USE ThreadsAssumption DEF TypeOK, InCall, CounterOps, Mutex
<1>1. CASE UNCHANGED vars
  BY <1>1 DEF vars, ctxVars, syncVars
<1>2. ASSUME NEW t \in Thread, Owner(t) \/ Runner(t) \/ Begin(t) \/ Working(t)
      PROVE  TypeOK'
  <2>1. CASE Create(t)
    <3>1. ctx' \in [Thread -> CtxType]
      BY <2>1, PartTypes, CtxFields, ctx[t] \in CtxType DEF Create, OwnerAt, OwnerGoto, Goto, ctxVars, syncVars
    <3> QED
      BY <2>1, <3>1 DEF Create, OwnerAt, OwnerGoto, Goto, ctxVars, syncVars, CtxType
  <2>2. CASE Call(t)
    BY <2>2 DEF Call, OwnerAt, OwnerGoto, Live, ctxVars, syncVars
  <2>3. CASE WaitEnds(t)
    BY <2>3 DEF WaitEnds, OwnerAt, OwnerGoto, ctxVars, syncVars
  <2>4. CASE Join(t)
    <3>1. ctx' \in [Thread -> CtxType]
      BY <2>4, PartTypes, CtxFields, ctx[t] \in CtxType DEF Join, OwnerAt, OwnerGoto, ctxVars, syncVars
    <3> QED
      BY <2>4, <3>1 DEF Join, OwnerAt, OwnerGoto, ctxVars, syncVars, CtxType
  <2>5. CASE Kill(t)
    <3>1. ctx[t] \in CtxType
      BY PartTypes
    <3>2. [ctx[t] EXCEPT !.finished = TRUE] \in CtxType /\ [ctx[t] EXCEPT !.orphaned = TRUE] \in CtxType
      BY <3>1, CtxFields
    <3>3. PICK new \in CtxType : ctx' = [ctx EXCEPT ![t] = new]
      BY <2>5, <3>2 DEF Kill
    <3>4. ctx' \in [Thread -> CtxType]
      BY <3>3, PartTypes, CtxUpdate
    <3> QED
      BY <2>5, <3>4 DEF Kill, OwnerAt, OwnerGoto, CtxType, syncVars
  <2>6. CASE Release(t)
    <3>1. ctx[t] \in CtxType
      BY PartTypes
    <3>2. [ctx[t] EXCEPT !.mem = "freed"] \in CtxType
      BY <3>1, CtxFields
    <3>3. /\ ctx' = ctx \/ ctx' = [ctx EXCEPT ![t] = [ctx[t] EXCEPT !.mem = "freed"]]
          /\ \E label \in {"undefined", "idle", "done"} : OwnerGoto(t, label)
      BY <2>6 DEF Release
    <3>4. ctx' \in [Thread -> CtxType]
      BY <3>2, <3>3, PartTypes, CtxUpdate
    <3>5. own' \in [Thread -> {"none", "idle", "wait", "late", "join", "free", "done", "undefined"}]
      BY <3>3 DEF OwnerGoto
    <3>6. UNCHANGED <<platform, value, selfJoin, run, cancel, ended, mux, count, op, reg, made, net>>
      BY <2>6 DEF Release, syncVars
    <3> QED
      BY <3>4, <3>5, <3>6 DEF CtxType
  <2>7. CASE JoinSelf(t)
    <3>1. ctx' \in [Thread -> CtxType]
      BY <2>7, PartTypes, CtxFields, ctx[t] \in CtxType DEF JoinSelf, At, OwnerGoto, Live, ctxVars, syncVars
    <3> QED
      BY <2>7, <3>1 DEF JoinSelf, At, OwnerGoto, Live, ctxVars, syncVars, CtxType
  <2>8. CASE Store(t)
    <3>1. [ctx[t] EXCEPT !.exitRes = "result"] \in CtxType
      BY PartTypes, CtxFields
    <3>2. ctx' = ctx \/ ctx' = [ctx EXCEPT ![t] = [ctx[t] EXCEPT !.exitRes = "result"]]
      BY <2>8 DEF Store, Touch
    <3>3. ctx' \in [Thread -> CtxType]
      BY <3>1, <3>2, PartTypes
    <3> QED
      BY <2>8, <3>3 DEF Store, At, Goto, Touch, CtxType, syncVars
  <2>9. CASE Finish(t)
    <3>1. [ctx[t] EXCEPT !.finished = TRUE] \in CtxType
      BY PartTypes, CtxFields
    <3>2. ctx' = ctx \/ ctx' = [ctx EXCEPT ![t] = [ctx[t] EXCEPT !.finished = TRUE]]
      BY <2>9 DEF Finish, Touch
    <3>3. ctx' \in [Thread -> CtxType]
      BY <3>1, <3>2, PartTypes
    <3> QED
      BY <2>9, <3>3 DEF Finish, At, Goto, Touch, CtxType, syncVars
  <2>10. CASE Exit(t)
    <3>1. [ctx[t] EXCEPT !.mem = "freed"] \in CtxType /\ ctx[t] \in CtxType
      BY PartTypes, CtxFields
    <3>2. PICK new \in CtxType : Touch(t, "exited", new)
      BY <2>10, <3>1 DEF Exit
    <3>3. ctx' = ctx \/ ctx' = [ctx EXCEPT ![t] = new]
      BY <3>2 DEF Touch
    <3>4. ctx' \in [Thread -> CtxType]
      BY <3>3, PartTypes, CtxUpdate
    <3>5. ctx[t].exitRes \in {None, "result", "canceled"}
      BY <3>1 DEF CtxType
    <3>6. run' = [run EXCEPT ![t] = "exited"] \/ run' = [run EXCEPT ![t] = "undefined"]
      BY <3>2 DEF Touch, Goto
    <3>7. ended' \in [Thread -> {None, "result", "canceled"}]
      BY <2>10, <3>5 DEF Exit
    <3>8. UNCHANGED <<platform, own, value, selfJoin, cancel, mux, count, op, reg, made, net>>
      BY <2>10 DEF Exit, syncVars
    <3> QED
      BY <3>4, <3>6, <3>7, <3>8 DEF CtxType
  <2>11. CASE Cancelled(t)
    BY <2>11 DEF Cancelled, Goto, CancelPoints, ctxVars, syncVars
  <2>12. CASE MutexLock(t)
    <3>1. mux' \in [Mutex -> MuxType]
      BY <2>12, PartTypes, MuxFields DEF MutexLock, At, Goto, MuxOf, ctxVars, syncVars
    <3> QED
      BY <2>12, <3>1 DEF MutexLock, At, Goto, MuxOf, ctxVars, syncVars, MuxType
  <2>13. CASE MutexTryLock(t)
    <3>1. CASE mux["user"].holder = None
      <4>1. mux["user"] \in MuxType
        BY PartTypes
      <4>2. [mux["user"] EXCEPT !.holder = t, !.tlCnt = @ + 1] \in MuxType
        BY <4>1, MuxFields
      <4>3. mux' = [mux EXCEPT !["user"] = [mux["user"] EXCEPT !.holder = t, !.tlCnt = @ + 1]]
        BY <2>13, <3>1 DEF MutexTryLock
      <4>4. mux' \in [Mutex -> MuxType]
        BY <4>2, <4>3, PartTypes
      <4> QED
        BY <2>13, <3>1, <4>4 DEF MutexTryLock, At, Goto, MuxType, ctxVars
    <3>2. CASE mux["user"].holder # None
      <4>1. run' \in [Thread -> {"none", "body", "stored", "finished", "exited", "undefined"} \cup InCall]
        BY <2>13, <3>2 DEF MutexTryLock, Return, Goto
      <4>2. op' \in [Thread -> Ops \cup {None}] /\ reg' \in [Thread -> Int]
        BY <2>13, <3>2 DEF MutexTryLock, Return
      <4>3. UNCHANGED <<platform, ctx, own, value, selfJoin, cancel, ended, mux, count, made, net>>
        BY <2>13, <3>2 DEF MutexTryLock, ctxVars
      <4> QED
        BY <4>1, <4>2, <4>3
    <3> QED
      BY <3>1, <3>2
  <2>14. CASE MutexUnlock(t)
    <3>1. mux' \in [Mutex -> MuxType]
      BY <2>14, PartTypes, MuxFields DEF MutexUnlock, At, Goto, Return, MuxOf, ctxVars, syncVars
    <3> QED
      BY <2>14, <3>1 DEF MutexUnlock, At, Goto, Return, MuxOf, ctxVars, syncVars, MuxType
  <2>15. CASE CountRead(t)
    BY <2>15 DEF CountRead, At, Goto, ctxVars, syncVars
  <2>16. CASE CountWrite(t)
    BY <2>16 DEF CountWrite, At, Goto, ctxVars, syncVars
  <2>17. CASE CondSignal(t)
    <3>1. Goto(t, "unlock") \/ \E w \in Thread : run' = [run EXCEPT ![t] = "unlock", ![w] = "relock"]
      BY <2>17 DEF CondSignal, Blocked
    <3> QED
      BY <2>17, <3>1 DEF CondSignal, Goto, ctxVars, syncVars
  <2>18. CASE CondWait(t)
    BY <2>18 DEF CondWait, At, Goto, ctxVars, syncVars
  <2>19. CASE CondTimeout(t)
    BY <2>19 DEF CondTimeout, At, Goto, ctxVars, syncVars
  <2>20. CASE CondResume(t)
    BY <2>20 DEF CondResume, At, Goto, ctxVars, syncVars
  <2>21. CASE Begin(t)
    BY <2>21 DEF Begin, At, Goto, ctxVars, syncVars
  <2> QED
    BY <1>2, <2>1, <2>2, <2>3, <2>4, <2>5, <2>6, <2>7, <2>8, <2>9, <2>10, <2>11, <2>12, <2>13, <2>14, <2>15, <2>16, <2>17, <2>18, <2>19, <2>20, <2>21 DEF Owner, Returning, Runner, Working
<1> QED
  BY <1>1, <1>2 DEF Next

(* Each step leaves an undisturbed thread orderly. *)
LEMMA LifeStep == ASSUME TypeOK, LifeInv, [Next]_vars PROVE LifeInv'
<1> USE DEF TypeOK, LifeInv, Orderly, Disturbed, Killed
<1>1. CASE UNCHANGED vars
  BY <1>1 DEF vars, ctxVars, syncVars
<1>2. ASSUME NEW t \in Thread, Owner(t) \/ Runner(t) \/ Begin(t) \/ Working(t)
      PROVE  LifeInv'
  <2>1. CASE Create(t)
    BY <2>1 DEF Create, OwnerAt, OwnerGoto, Goto, ctxVars, syncVars
  <2>2. CASE Call(t)
    BY <2>2 DEF Call, OwnerAt, OwnerGoto, Live, ctxVars, syncVars
  <2>3. CASE WaitEnds(t)
    BY <2>3 DEF WaitEnds, OwnerAt, OwnerGoto, ctxVars, syncVars
  <2>4. CASE Join(t)
    BY <2>4 DEF Join, OwnerAt, OwnerGoto, ctxVars, syncVars
  <2>5. CASE Kill(t)
    BY <2>5 DEF Kill, OwnerAt, OwnerGoto, ctxVars, syncVars
  <2>6. CASE Release(t)
    BY <2>6 DEF Release, OwnerAt, OwnerGoto, Live, ctxVars, syncVars
  <2>7. CASE JoinSelf(t)
    BY <2>7 DEF JoinSelf, At, OwnerGoto, Live, ctxVars, syncVars
  <2>8. CASE Store(t)
    <3>1. CASE Live(t)
      BY <2>8, <3>1 DEF Store, At, Goto, Touch, Live, ctxVars, syncVars
    <3>2. CASE ~Live(t)
      BY <2>8, <3>2 DEF Store, At, Goto, Touch, Live, ctxVars, syncVars
    <3> QED
      BY <3>1, <3>2
  <2>9. CASE Finish(t)
    <3>1. CASE Live(t)
      <4>1. ctx'[t].mem = ctx[t].mem /\ ctx'[t].exitRes = ctx[t].exitRes /\ ctx'[t].orphaned = ctx[t].orphaned
        BY <2>9, <3>1 DEF Finish, Touch
      <4>2. run[t] = "stored" /\ run' = [run EXCEPT ![t] = "finished"]
        BY <2>9, <3>1 DEF Finish, At, Goto, Touch
      <4>3. \A u \in Thread \ {t} : ctx'[u] = ctx[u]
        BY <2>9, <3>1 DEF Finish, Touch
      <4>4. UNCHANGED <<own, value, selfJoin, cancel, ended>>
        BY <2>9 DEF Finish
      <4> QED
        BY <4>1, <4>2, <4>3, <4>4
    <3>2. CASE ~Live(t)
      BY <2>9, <3>2 DEF Finish, At, Goto, Touch, Live, ctxVars, syncVars
    <3> QED
      BY <3>1, <3>2
  <2>10. CASE Exit(t)
    BY <2>10 DEF Exit, At, Goto, Touch, Live, ctxVars, syncVars
  <2>11. CASE Cancelled(t)
    BY <2>11 DEF Cancelled, Goto, CancelPoints, ctxVars, syncVars
  <2>12. CASE MutexLock(t)
    BY <2>12 DEF MutexLock, At, Goto, ctxVars, syncVars
  <2>13. CASE MutexTryLock(t)
    BY <2>13 DEF MutexTryLock, At, Goto, Return, ctxVars, syncVars
  <2>14. CASE MutexUnlock(t)
    BY <2>14 DEF MutexUnlock, At, Goto, Return, ctxVars, syncVars
  <2>15. CASE CountRead(t)
    BY <2>15 DEF CountRead, At, Goto, ctxVars, syncVars
  <2>16. CASE CountWrite(t)
    BY <2>16 DEF CountWrite, At, Goto, ctxVars, syncVars
  <2>17. CASE CondSignal(t)
    BY <2>17 DEF CondSignal, At, Goto, Blocked, ctxVars, syncVars
  <2>18. CASE CondWait(t)
    BY <2>18 DEF CondWait, At, Goto, ctxVars, syncVars
  <2>19. CASE CondTimeout(t)
    BY <2>19 DEF CondTimeout, At, Goto, ctxVars, syncVars
  <2>20. CASE CondResume(t)
    BY <2>20 DEF CondResume, At, Goto, ctxVars, syncVars
  <2>21. CASE Begin(t)
    BY <2>21 DEF Begin, At, Goto, ctxVars, syncVars
  <2> QED
    BY <1>2, <2>1, <2>2, <2>3, <2>4, <2>5, <2>6, <2>7, <2>8, <2>9, <2>10, <2>11, <2>12, <2>13, <2>14, <2>15, <2>16, <2>17, <2>18, <2>19, <2>20, <2>21 DEF Owner, Returning, Runner, Working
<1> QED
  BY <1>1, <1>2 DEF Next

(* Each step leaves a mutex with who has taken it. *)
LEMMA LockStep == ASSUME TypeOK, LockInv, [Next]_vars PROVE LockInv'
<1> USE ThreadsAssumption DEF TypeOK, LockInv, Counting, Holding, MuxOf, CounterOps, Mutex
<1>1. CASE UNCHANGED vars
  BY <1>1 DEF vars, ctxVars, syncVars
<1>2. ASSUME NEW t \in Thread, Owner(t) \/ Runner(t) \/ Begin(t) \/ Working(t)
      PROVE  LockInv'
  <2>1. CASE Create(t)
    BY <2>1 DEF Create, OwnerAt, OwnerGoto, Goto, ctxVars, syncVars
  <2>2. CASE Call(t)
    BY <2>2 DEF Call, OwnerAt, OwnerGoto, Live, ctxVars, syncVars
  <2>3. CASE WaitEnds(t)
    BY <2>3 DEF WaitEnds, OwnerAt, OwnerGoto, ctxVars, syncVars
  <2>4. CASE Join(t)
    BY <2>4 DEF Join, OwnerAt, OwnerGoto, ctxVars, syncVars
  <2>5. CASE Kill(t)
    BY <2>5 DEF Kill, OwnerAt, OwnerGoto, ctxVars, syncVars
  <2>6. CASE Release(t)
    BY <2>6 DEF Release, OwnerAt, OwnerGoto, Live, ctxVars, syncVars
  <2>7. CASE JoinSelf(t)
    BY <2>7 DEF JoinSelf, At, OwnerGoto, Live, ctxVars, syncVars
  <2>8. CASE Store(t)
    BY <2>8 DEF Store, At, Goto, Touch, Live, ctxVars, syncVars
  <2>9. CASE Finish(t)
    BY <2>9 DEF Finish, At, Goto, Touch, Live, ctxVars, syncVars
  <2>10. CASE Exit(t)
    BY <2>10 DEF Exit, At, Goto, Touch, Live, ctxVars, syncVars
  <2>11. CASE Cancelled(t)
    BY <2>11 DEF Cancelled, Goto, CancelPoints, ctxVars, syncVars
  <2>12. CASE MutexLock(t)
    BY <2>12 DEF MutexLock, At, Goto, ctxVars, syncVars
  <2>13. CASE MutexTryLock(t)
    <3>1. CASE mux["user"].holder = None
      BY <2>13, <3>1 DEF MutexTryLock, At, Goto, ctxVars, syncVars
    <3>2. CASE mux["user"].holder # None
      BY <2>13, <3>2 DEF MutexTryLock, At, Goto, Return, ctxVars, syncVars
    <3> QED
      BY <3>1, <3>2
  <2>14. CASE MutexUnlock(t)
    BY <2>14 DEF MutexUnlock, At, Goto, Return, ctxVars, syncVars
  <2>15. CASE CountRead(t)
    BY <2>15 DEF CountRead, At, Goto, ctxVars, syncVars
  <2>16. CASE CountWrite(t)
    BY <2>16 DEF CountWrite, At, Goto, ctxVars, syncVars
  <2>17. CASE CondSignal(t)
    BY <2>17 DEF CondSignal, At, Goto, Blocked, ctxVars, syncVars
  <2>18. CASE CondWait(t)
    BY <2>18 DEF CondWait, At, Goto, ctxVars, syncVars
  <2>19. CASE CondTimeout(t)
    BY <2>19 DEF CondTimeout, At, Goto, ctxVars, syncVars
  <2>20. CASE CondResume(t)
    BY <2>20 DEF CondResume, At, Goto, ctxVars, syncVars
  <2>21. CASE Begin(t)
    BY <2>21 DEF Begin, At, Goto, ctxVars, syncVars
  <2> QED
    BY <1>2, <2>1, <2>2, <2>3, <2>4, <2>5, <2>6, <2>7, <2>8, <2>9, <2>10, <2>11, <2>12, <2>13, <2>14, <2>15, <2>16, <2>17, <2>18, <2>19, <2>20, <2>21 DEF Owner, Returning, Runner, Working
<1> QED
  BY <1>1, <1>2 DEF Next
-----------------------------------------------------------------------------
(* The counts of a mutex: InMux are the threads that have it and those that
   have given it up to wait.  *)
Waiters(m) == {t \in Thread : MuxOf(t) = m /\ run[t] \in {"wait", "relock"}}
InMux(m) == (Waiters(m) \cup {mux[m].holder}) \ {None}
Taken(m) == mux[m].lCnt + mux[m].tlCnt - mux[m].ulCnt
BalanceInv == \A m \in Mutex : IsFiniteSet(InMux(m)) /\ Taken(m) = Cardinality(InMux(m))

(* What leaves who has a mutex, and its counts, alone keeps the balance. *)
LEMMA SameBalance ==
    ASSUME BalanceInv, \A m \in Mutex : InMux(m)' = InMux(m) /\ Taken(m)' = Taken(m)
    PROVE  BalanceInv'
  BY DEF BalanceInv

(* A mutex that is taken was free, and counts the thread that takes it. *)
LEMMA TakeBalance ==
    ASSUME TypeOK, BalanceInv, NEW t \in Thread, MutexLock(t) \/ MutexTryLock(t)
    PROVE  BalanceInv'
<1> USE ThreadsAssumption
<1>1. CASE op[t] = "try" /\ mux["user"].holder # None
  <2>1. UNCHANGED mux /\ run[t] = "lock" /\ run' = [run EXCEPT ![t] = "body"] /\ op' = [op EXCEPT ![t] = None]
    BY <1>1 DEF MutexLock, MutexTryLock, Return, Goto, At
  <2>2. \A m \in Mutex : InMux(m)' = InMux(m)
    BY <2>1 DEF InMux, Waiters, MuxOf, TypeOK
  <2> QED
    BY <2>1, <2>2, SameBalance DEF Taken
<1>2. CASE ~(op[t] = "try" /\ mux["user"].holder # None)
  <2>1. PICK k \in Mutex : k = MuxOf(t)
    BY DEF MuxOf, Mutex
  <2>2. /\ mux[k].holder = None /\ run[t] = "lock" /\ op' = op
        /\ \E l \in {"have", "unlock"} : run' = [run EXCEPT ![t] = l]
    BY <1>2, <2>1 DEF MutexLock, MutexTryLock, Goto, At, MuxOf, CounterOps
  <2>3. \/ mux' = [mux EXCEPT ![k] = [mux[k] EXCEPT !.holder = t, !.lCnt = @ + 1]]
        \/ mux' = [mux EXCEPT ![k] = [mux[k] EXCEPT !.holder = t, !.tlCnt = @ + 1]]
    <3>1. CASE op[t] = "try"
      BY <1>2, <2>1, <3>1 DEF MutexLock, MutexTryLock, MuxOf, CounterOps
    <3>2. CASE op[t] # "try"
      BY <2>1, <3>2 DEF MutexLock, MutexTryLock
    <3> QED
      BY <3>1, <3>2
  <2>4. mux \in [Mutex -> MuxType] /\ mux[k] \in MuxType
    BY PartTypes
  <2>5. mux'[k].holder = t /\ Taken(k)' = Taken(k) + 1
    <3>1. mux[k].lCnt \in Nat /\ mux[k].tlCnt \in Nat /\ mux[k].ulCnt \in Nat
      BY <2>4 DEF MuxType
    <3>2. CASE mux' = [mux EXCEPT ![k] = [mux[k] EXCEPT !.holder = t, !.lCnt = @ + 1]]
      BY <2>4, <3>1, <3>2 DEF Taken, MuxType
    <3>3. CASE mux' = [mux EXCEPT ![k] = [mux[k] EXCEPT !.holder = t, !.tlCnt = @ + 1]]
      BY <2>4, <3>1, <3>3 DEF Taken, MuxType
    <3> QED
      BY <2>3, <3>2, <3>3
  <2>6. \A m \in Mutex \ {k} : mux'[m] = mux[m]
    BY <2>3, <2>4
  <2>7. \A m \in Mutex : Waiters(m)' = Waiters(m) /\ t \notin Waiters(m)
    BY <2>2 DEF Waiters, MuxOf, TypeOK
  <2>8. InMux(k)' = InMux(k) \cup {t} /\ t \notin InMux(k)
    BY <2>2, <2>5, <2>7 DEF InMux
  <2>9. IsFiniteSet(InMux(k)') /\ Cardinality(InMux(k)') = Cardinality(InMux(k)) + 1
    BY <2>8, FS_AddElement DEF BalanceInv
  <2>10. \A m \in Mutex \ {k} : InMux(m)' = InMux(m) /\ Taken(m)' = Taken(m)
    BY <2>6, <2>7 DEF InMux, Taken
  <2> QED
    BY <2>5, <2>9, <2>10 DEF BalanceInv
<1> QED
  BY <1>1, <1>2

(* A mutex given back counts its holder no more. *)
LEMMA GiveBalance ==
    ASSUME TypeOK, LockInv, BalanceInv, NEW t \in Thread, MutexUnlock(t)
    PROVE  BalanceInv'
<1> USE ThreadsAssumption
<1>1. PICK k \in Mutex : k = MuxOf(t)
  BY DEF MuxOf, Mutex
<1>2. run[t] = "unlock" /\ mux[k].holder = t
  BY <1>1 DEF MutexUnlock, At, LockInv, Holding
<1>3. /\ mux' = [mux EXCEPT ![k] = [mux[k] EXCEPT !.holder = None, !.ulCnt = @ + 1]]
      /\ run' = [run EXCEPT ![t] = "body"] /\ op' = [op EXCEPT ![t] = None]
  BY <1>1 DEF MutexUnlock, Return, Goto
<1>4. mux \in [Mutex -> MuxType] /\ mux[k] \in MuxType
  BY PartTypes
<1>5. mux'[k].holder = None /\ Taken(k)' = Taken(k) - 1
  BY <1>3, <1>4 DEF Taken, MuxType
<1>6. \A m \in Mutex \ {k} : mux'[m] = mux[m]
  BY <1>3, <1>4
<1>7. \A m \in Mutex : Waiters(m)' = Waiters(m) /\ t \notin Waiters(m)
  BY <1>2, <1>3 DEF Waiters, MuxOf, TypeOK
<1>8. InMux(k)' = InMux(k) \ {t} /\ t \in InMux(k)
  BY <1>2, <1>5, <1>7 DEF InMux
<1>9. IsFiniteSet(InMux(k)') /\ Cardinality(InMux(k)') = Cardinality(InMux(k)) - 1
  BY <1>8, FS_RemoveElement DEF BalanceInv
<1>10. \A m \in Mutex \ {k} : InMux(m)' = InMux(m) /\ Taken(m)' = Taken(m)
  BY <1>6, <1>7 DEF InMux, Taken
<1> QED
  BY <1>5, <1>9, <1>10 DEF BalanceInv

(* Who gives a mutex up to wait, takes it again or is cancelled meanwhile is
   counted as before. *)
LEMMA WaitBalance ==
    ASSUME TypeOK, LockInv, BalanceInv, NEW t \in Thread,
           CondWait(t) \/ CondResume(t) \/ Cancelled(t)
    PROVE  BalanceInv'
<1> USE ThreadsAssumption
<1>1. op' = op
  BY DEF CondWait, CondResume, Cancelled
<1>2. mux \in [Mutex -> MuxType] /\ mux["user"] \in MuxType /\ "user" \in Mutex
  BY PartTypes DEF Mutex
<1>3. CASE run[t] \in {"have", "wait", "relock"}
  <2>1. MuxOf(t) = "user"
    BY <1>3 DEF CondWait, CondResume, Cancelled, At, CancelPoints, LockInv, MuxOf, CounterOps
  <2>2. \/ run[t] = "have" /\ mux["user"].holder = t /\ CondWait(t)
        \/ run[t] \in {"wait", "relock"} /\ mux["user"].holder = None /\ (CondResume(t) \/ Cancelled(t))
    BY <1>3, <2>1 DEF CondWait, CondResume, Cancelled, At, LockInv, Holding, CancelPoints
  <2>3. CASE CondWait(t) /\ run[t] = "have" /\ mux["user"].holder = t
    <3>1. mux' = [mux EXCEPT !["user"] = [mux["user"] EXCEPT !.holder = None]] /\ run' = [run EXCEPT ![t] = "wait"]
      BY <2>3 DEF CondWait, Goto
    <3>2. Waiters("user")' = Waiters("user") \cup {t} /\ Waiters("counter")' = Waiters("counter")
      BY <1>1, <2>1, <2>3, <3>1 DEF Waiters, MuxOf, TypeOK
    <3>3. \A m \in Mutex : InMux(m)' = InMux(m) /\ Taken(m)' = Taken(m)
      BY <1>2, <2>3, <3>1, <3>2 DEF InMux, Taken, Mutex, MuxType
    <3> QED
      BY <3>3, SameBalance
  <2>4. CASE (CondResume(t) \/ Cancelled(t)) /\ run[t] \in {"wait", "relock"} /\ mux["user"].holder = None
    <3>1. /\ mux' = [mux EXCEPT !["user"] = [mux["user"] EXCEPT !.holder = t]]
          /\ \E l \in {"unlock", "exited"} : run' = [run EXCEPT ![t] = l]
      BY <2>4 DEF CondResume, Cancelled, CancelPoints, At, Goto
    <3>2. Waiters("user")' = Waiters("user") \ {t} /\ t \in Waiters("user") /\ Waiters("counter")' = Waiters("counter")
      BY <1>1, <2>1, <2>4, <3>1 DEF Waiters, MuxOf, TypeOK
    <3>3. \A m \in Mutex : InMux(m)' = InMux(m) /\ Taken(m)' = Taken(m)
      BY <1>2, <2>4, <3>1, <3>2 DEF InMux, Taken, Mutex, MuxType
    <3> QED
      BY <3>3, SameBalance
  <2> QED
    BY <2>2, <2>3, <2>4
<1>4. CASE run[t] \notin {"have", "wait", "relock"}
  <2>1. UNCHANGED mux /\ run' = [run EXCEPT ![t] = "exited"]
    BY <1>4 DEF CondWait, CondResume, Cancelled, At, Goto
  <2>2. \A m \in Mutex : Waiters(m)' = Waiters(m)
    BY <1>1, <1>4, <2>1 DEF Waiters, MuxOf, TypeOK
  <2> QED
    BY <2>1, <2>2, SameBalance DEF InMux, Taken
<1> QED
  BY <1>3, <1>4

(* All other steps leave the mutexes, and who waits for one, alone. *)
LEMMA OtherBalance ==
    ASSUME TypeOK, LockInv, BalanceInv, UNCHANGED mux,
           \A u \in Thread : (run'[u] \in {"wait", "relock"}) <=> (run[u] \in {"wait", "relock"}),
           \A u \in Thread : run[u] \in {"wait", "relock"} => op'[u] = op[u]
    PROVE  BalanceInv'
<1>1. \A m \in Mutex : Waiters(m)' = Waiters(m)
  BY DEF Waiters, MuxOf
<1> QED
  BY <1>1, SameBalance DEF InMux, Taken

(* Each step keeps the balance of every mutex. *)
LEMMA BalanceStep ==
    ASSUME TypeOK, LockInv, BalanceInv, [Next]_vars
    PROVE  BalanceInv'
<1>1. CASE UNCHANGED vars
  BY <1>1, OtherBalance DEF vars, syncVars
<1>2. ASSUME NEW t \in Thread, Owner(t) \/ Runner(t) \/ Begin(t) \/ Working(t)
      PROVE  BalanceInv'
  <2>1. CASE MutexLock(t) \/ MutexTryLock(t)
    BY <2>1, TakeBalance
  <2>2. CASE MutexUnlock(t)
    BY <2>2, GiveBalance
  <2>3. CASE CondWait(t) \/ CondResume(t) \/ Cancelled(t)
    BY <2>3, WaitBalance
  <2>4. CASE Create(t)
    <3>1. run[t] = "none" /\ run' = [run EXCEPT ![t] = "body"]
      BY <2>4 DEF Create, OwnerAt, Goto, LockInv
    <3> QED
      BY <2>4, <3>1, OtherBalance DEF Create, syncVars, TypeOK
  <2>5. CASE Call(t) \/ WaitEnds(t) \/ Join(t) \/ Kill(t) \/ Release(t) \/ JoinSelf(t)
    <3>1. UNCHANGED <<run, mux, op>>
      BY <2>5 DEF Call, WaitEnds, Join, Kill, Release, JoinSelf, syncVars
    <3> QED
      BY <3>1, OtherBalance
  <2>6. CASE Store(t) \/ Finish(t) \/ Exit(t)
    <3>1. /\ UNCHANGED <<mux, op>> /\ run[t] \in {"body", "stored", "finished"}
          /\ \E l \in {"stored", "finished", "exited", "undefined"} : run' = [run EXCEPT ![t] = l]
      BY <2>6 DEF Store, Finish, Exit, Touch, At, Goto, syncVars
    <3> QED
      BY <3>1, OtherBalance DEF TypeOK
  <2>7. CASE Begin(t)
    <3>1. /\ UNCHANGED mux /\ run[t] = "body" /\ run' = [run EXCEPT ![t] = "lock"]
          /\ \A u \in Thread \ {t} : op'[u] = op[u]
      BY <2>7 DEF Begin, At, Goto, TypeOK
    <3> QED
      BY <3>1, OtherBalance DEF TypeOK
  <2>8. CASE CountRead(t) \/ CountWrite(t)
    <3>1. /\ UNCHANGED <<mux, op>> /\ run[t] \in {"have", "add"}
          /\ \E l \in {"add", "unlock"} : run' = [run EXCEPT ![t] = l]
      BY <2>8 DEF CountRead, CountWrite, At, Goto
    <3> QED
      BY <3>1, OtherBalance DEF TypeOK
  <2>9. CASE CondSignal(t)
    <3>1. UNCHANGED <<mux, op>> /\ run[t] = "have"
      BY <2>9 DEF CondSignal, At, syncVars
    <3>2. \/ run' = [run EXCEPT ![t] = "unlock"]
          \/ \E w \in Blocked : run' = [run EXCEPT ![t] = "unlock", ![w] = "relock"]
      BY <2>9 DEF CondSignal, Goto
    <3> QED
      BY <3>1, <3>2, OtherBalance DEF TypeOK, Blocked
  <2>10. CASE CondTimeout(t)
    <3>1. UNCHANGED <<mux, op>> /\ run[t] = "wait" /\ run' = [run EXCEPT ![t] = "relock"]
      BY <2>10 DEF CondTimeout, At, Goto, syncVars
    <3> QED
      BY <3>1, OtherBalance DEF TypeOK
  <2> QED
    BY <1>2, <2>1, <2>2, <2>3, <2>4, <2>5, <2>6, <2>7, <2>8, <2>9, <2>10
       DEF Owner, Returning, Runner, Working
<1> QED
  BY <1>1, <1>2 DEF Next
-----------------------------------------------------------------------------
(* The theorems.                                                           *)
IInv == TypeOK /\ LifeInv /\ LockInv /\ BalanceInv

(* It holds at the start ... *)
LEMMA Start == Init => IInv
<1> USE ThreadsAssumption
<1> SUFFICES ASSUME Init PROVE IInv
  OBVIOUS
<1>1. TypeOK
  BY DEF Init, TypeOK, NoContext
<1>2. LifeInv
  BY DEF Init, LifeInv, Orderly, NoContext
<1>3. LockInv
  BY DEF Init, LockInv, Holding, Mutex
<1>4. \A m \in Mutex : InMux(m) = {} /\ Taken(m) = 0
  BY DEF Init, InMux, Waiters, Taken
<1>5. BalanceInv
  BY <1>4, FS_EmptySet DEF BalanceInv
<1> QED
  BY <1>1, <1>2, <1>3, <1>5 DEF IInv

(* ... and in every step, so always. *)
LEMMA ThreadsInductive == Spec => []IInv
<1>1. IInv /\ [Next]_vars => IInv'
  BY TypeStep, LifeStep, LockStep, BalanceStep DEF IInv
<1> QED
  BY <1>1, Start, PTL DEF Spec

(* Every variable keeps its type, on every platform. *)
THEOREM ThreadsTypeCorrect == Spec => []TypeOK
  BY ThreadsInductive, PTL DEF IInv

(* A context outlives its thread, and no call reads one that is freed, but
   for a thread that was killed or joined itself: however many threads, and
   whatever finished says while the owner waits. *)
THEOREM OnlyKillsDangleHolds == Spec => []OnlyKillsDangle
<1>1. IInv => OnlyKillsDangle
  BY DEF IInv, LifeInv, Orderly, Disturbed, OnlyKillsDangle
<1> QED
  BY <1>1, ThreadsInductive, PTL

(* ruThreadJoin, and a ruThreadWait that was not late, hand out what the
   start function returned. *)
THEOREM JoinedValueHolds == Spec => []JoinedValue
<1>1. IInv => JoinedValue
  BY DEF IInv, LifeInv, Orderly, Disturbed, JoinedValue
<1> QED
  BY <1>1, ThreadsInductive, PTL

(* The counts of a mutex differ by who has it and who waits for a condition
   with it, for any number of threads. *)
THEOREM MuxBalanceHolds == Spec => []MuxBalance
<1>1. IInv => MuxBalance
  BY DEF IInv, BalanceInv, InMux, Waiters, Taken, MuxBalance
<1> QED
  BY <1>1, ThreadsInductive, PTL

(* No increment of a counter is lost or taken out twice, and its mutex is
   always with a thread that is about to give it back. *)
THEOREM CounterSoundHolds == Spec => []CounterSound
<1>1. IInv => CounterSound
  BY DEF IInv, LockInv, Counting, Holding, CounterSound
<1> QED
  BY <1>1, ThreadsInductive, PTL
=============================================================================
