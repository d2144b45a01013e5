------------------------------ MODULE Dictionary ------------------------------
(***************************************************************************)
(* What map.h promises: a finite function from keys to values, with one    *)
(* iteration over it that visits each entry once and is over as soon as    *)
(* the map is changed.  answer is what the last call returned.  A closed   *)
(* map refuses its calls; that it may also deny having a key is what the   *)
(* code does, not what map.h:140-143 promises (RUE_USER_ABORT).            *)
(***************************************************************************)
EXTENDS Integers, FiniteSets

CONSTANTS Key, Val

VARIABLES dict, todo, iterating, open, answer

dictVars == <<dict, todo, iterating, open, answer>>

DictInit ==
    /\ dict = <<>> /\ todo = {}
    /\ iterating = FALSE /\ open = TRUE
    /\ answer = <<"none">>

Holds(k) == k \in DOMAIN dict
Change(new) == dict' = new /\ iterating' = FALSE /\ todo' = {} /\ UNCHANGED open
Read == UNCHANGED <<dict, todo, iterating, open>>

With(k, v) == [j \in DOMAIN dict \cup {k} |-> IF j = k THEN v ELSE dict[j]]
Put(k, v) == answer' = <<"put", "ok">> /\ Change(With(k, v))
Offer(k)  == Holds(k) /\ answer' = <<"put", "exists", dict[k]>> /\ Change(dict)

Drop(k) == [j \in DOMAIN dict \ {k} |-> dict[j]]
Remove(k) ==
    IF Holds(k) THEN /\ answer' \in {<<"remove", "ok">>, <<"remove", "ok", dict[k]>>}
                     /\ Change(Drop(k))
                ELSE answer' = <<"remove", "none">> /\ Change(dict)

Get(k) == (answer' = IF Holds(k) THEN <<"get", "ok", dict[k]>> ELSE <<"get", "none">>) /\ Read
Has(k) == answer' = <<"has", Holds(k)>> /\ Read
Size   == answer' = <<"size", Cardinality(DOMAIN dict)>> /\ Read

Visit(from) ==
    /\ \/ from = {} /\ answer' = <<"iter", "end">> /\ todo' = {}
       \/ \E k \in from : answer' = <<"iter", "ok", k, dict[k]>> /\ todo' = from \ {k}
    /\ iterating' = TRUE
    /\ UNCHANGED <<dict, open>>
First == Visit(DOMAIN dict)
Following == iterating /\ Visit(todo)
NotIterating == ~iterating /\ answer' = <<"iter", "state">> /\ Read

Keys == /\ answer' = <<"keys", DOMAIN dict>>
        /\ todo' = {} /\ iterating' = TRUE
        /\ UNCHANGED <<dict, open>>

(* An iteration that is on finds nothing more. *)
Clear == /\ answer' = <<"clear">>
         /\ dict' = <<>> /\ todo' = {}
         /\ UNCHANGED <<iterating, open>>

Close  == open' = FALSE /\ UNCHANGED <<dict, todo, iterating, answer>>
Refuse == ~open /\ answer' = <<"abort">> /\ Read
Deny   == ~open /\ answer' = <<"has", FALSE>> /\ Read

DictNext ==
    \/ \E k \in Key : \/ Offer(k) \/ Remove(k) \/ Get(k) \/ Has(k)
                      \/ \E v \in Val : Put(k, v)
    \/ Size \/ First \/ Following \/ NotIterating \/ Keys \/ Clear \/ Close \/ Refuse \/ Deny

DictSpec == DictInit /\ [][DictNext]_dictVars
=============================================================================
