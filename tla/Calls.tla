------------------------------- MODULE Calls -------------------------------
(***************************************************************************)
(* The helpers of lib/lib.c and lib/regify-util.c: running a program,      *)
(* trying again, comparing versions, reading options, picking addresses.   *)
(* Time is in seconds, or in steps, and what the system does (the child,   *)
(* getopt, the interfaces) is an argument.                                 *)
(***************************************************************************)
EXTENDS Strings, FiniteSets

RUE_FORK_FAILED == -1
RUE_RUN_FAILED == -2
RUE_TIMEOUT == -3
RU_NON_BLOCK == -1
RU_NO_TIMEOUT == 0
chldfail == 234

---------------------------------------------------------------------------
(* Running a program.  A child ends at a second, by a signal or with an    *)
(* exit code; one that could not be executed exits with chldfail.          *)

\* What WEXITSTATUS tells of it: nothing of a signal.
Status(child) ==
  CASE ~child.execs -> chldfail [] child.execs /\ child.signal -> 0 [] OTHER -> child.code
Reported(child) == IF Status(child) = chldfail THEN RUE_RUN_FAILED ELSE Status(child)

\* What is returned, and whether the child is left: running, or a zombie.
RunProgPosix(child, timeout) ==
  CASE ~child.forks -> [ret |-> RUE_FORK_FAILED, left |-> FALSE]
    [] child.forks /\ timeout = RU_NON_BLOCK ->
         IF child.ends = 0 THEN [ret |-> Reported(child), left |-> FALSE]
         ELSE [ret |-> 0, left |-> TRUE]
    [] child.forks /\ timeout = RU_NO_TIMEOUT -> [ret |-> Reported(child), left |-> FALSE]
    [] OTHER -> IF child.ends <= timeout + 1 THEN [ret |-> Reported(child), left |-> FALSE]
                ELSE [ret |-> RUE_TIMEOUT, left |-> TRUE]

\* On Windows every round but the last waits a second and sleeps another.
RunProgWindows(child, timeout) ==
  CASE ~child.forks \/ ~child.execs -> [ret |-> RUE_RUN_FAILED, left |-> FALSE]
    [] child.forks /\ child.execs /\ timeout = RU_NON_BLOCK -> [ret |-> 0, left |-> TRUE]
    [] child.forks /\ child.execs /\ timeout = RU_NO_TIMEOUT -> [ret |-> child.code, left |-> FALSE]
    [] OTHER -> IF child.ends <= 2 * timeout - 1 THEN [ret |-> child.code, left |-> FALSE]
                ELSE [ret |-> RUE_TIMEOUT, left |-> FALSE]

---------------------------------------------------------------------------
(* Trying again.  Each attempt takes work; the loop asks whether it is     *)
(* done after an attempt that failed.                                      *)

ruTryLoopInit(now, retry, timeout) == [retry |-> retry, finish |-> now + timeout, now |-> now]
\* Mutant: the rest is not cut short by the time left.
ruTryLoopDone_Rests(cycle) ==
  LET now == cycle.now + cycle.retry
  IN [done |-> now >= cycle.finish, cycle |-> [cycle EXCEPT !.now = now]]

ruTryLoopDone(cycle) ==
  LET left == cycle.finish - cycle.now
      retry == IF left < cycle.retry THEN left ELSE cycle.retry
      now == IF retry > 0 THEN cycle.now + retry ELSE cycle.now
  IN [done |-> now >= cycle.finish, cycle |-> [cycle EXCEPT !.now = now]]

\* The times the attempts start, and the end of the loop.
RECURSIVE Attempts(_, _)
Attempts(cycle, work) ==
  LET r == ruTryLoopDone([cycle EXCEPT !.now = @ + work])
  IN <<cycle.now>> \o IF r.done THEN <<r.cycle.now>> ELSE Attempts(r.cycle, work)

---------------------------------------------------------------------------
(* Versions                                                                *)

\* strtoul of a text without blanks and signs: the number and what follows.
strtoul(s) ==
  LET tail == SkipSet(s, 1, Digit)
  IN [num |-> FoldLeft(LAMBDA n, c : 10 * n + c - 48, 0, SubSeq(s, 1, tail - 1)), tail |-> From(s, tail)]

\* Any byte separates two numbers.
RECURSIVE CompFrom(_, _)
CompFrom(v1, v2) ==
  CASE v1.num < v2.num -> -1
    [] v1.num > v2.num -> 1
    [] v1.num = v2.num /\ v1.tail = << >> /\ v2.tail = << >> -> 0
    [] v1.num = v2.num /\ v1.tail = << >> /\ v2.tail # << >> -> -1
    [] v1.num = v2.num /\ v1.tail # << >> /\ v2.tail = << >> -> 1
    [] OTHER -> CompFrom(strtoul(Tail(v1.tail)), strtoul(Tail(v2.tail)))
ruVersionComp(ver1, ver2) == CompFrom(strtoul(ver1), strtoul(ver2))

---------------------------------------------------------------------------
(* Options and addresses                                                   *)

NoMap == <<-1>>
\* getopt, strict: it ends at the first word that is no option.  opts is the
\* function from the options to whether they take an argument.
getopt(opts, argv) ==
  LET o == Head(argv)
      arg == opts[o]
  IN CASE argv = << >> -> [c |-> "end", opt |-> 0, arg |-> 0, rest |-> << >>]
       [] argv # << >> /\ o \in Digit -> [c |-> "end", opt |-> 0, arg |-> 0, rest |-> argv]
       [] argv # << >> /\ o \notin Digit ->
            IF o \notin DOMAIN opts THEN [c |-> "?", opt |-> o, arg |-> 0, rest |-> Tail(argv)]
            ELSE IF ~arg THEN [c |-> "option", opt |-> o, arg |-> 0, rest |-> Tail(argv)]
            ELSE IF Len(argv) = 1 THEN [c |-> "?", opt |-> o, arg |-> 0, rest |-> << >>]
            ELSE [c |-> "option", opt |-> o, arg |-> argv[2], rest |-> From(argv, 3)]

RECURSIVE OptLoop(_, _, _, _)
OptLoop(opts, argv, ret, params) ==
  LET r == getopt(opts, argv)
  IN CASE r.c = "end" -> [ret |-> ret, parms |-> IF ret = RUE_OK THEN params ELSE NoMap]
       [] r.c = "?" -> OptLoop(opts, r.rest, RUE_INVALID_PARAMETER, params)
       [] OTHER -> OptLoop(opts, r.rest, IF ret = RUE_FILE_NOT_FOUND THEN RUE_OK ELSE ret,
                           (r.opt :> r.arg) @@ params)
ruGetOptMap(opts, argv) ==
  IF argv = << >> THEN [ret |-> RUE_PARAMETER_NOT_SET, parms |-> NoMap]
  ELSE OptLoop(opts, Tail(argv), RUE_FILE_NOT_FOUND, << >>)

\* The addresses of the families asked for, in the order of the interfaces; no
\* list where there is none.
ruIpAddrs(interfaces, ipfilter) ==
  LET picked == SelectSeq(interfaces, LAMBDA a : a.family \in ipfilter)
  IN IF picked = << >> THEN NoMap ELSE [i \in DOMAIN picked |-> picked[i].ip]
===========================================================================
