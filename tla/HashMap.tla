-------------------------------- MODULE HashMap --------------------------------
(***************************************************************************)
(* map.c: a hash table whose buckets are lists, doubled when they become   *)
(* too long, with the iterator kept in the map.  The map's mutex makes a   *)
(* call one step, taken after a first look at doQuit.  The type of the     *)
(* values has a free function and no out function: values are handed over. *)
(***************************************************************************)
EXTENDS Integers, FiniteSets, SequencesExt

CONSTANTS Key, Val, Thread,
          Hash,        \* the hash of each key
          FirstSize,   \* how many buckets a new map has
          MaxLoad,     \* how many entries for each bucket there may be
          None

ASSUME HashMapAssumption ==
    /\ Hash \in [Key -> Nat] /\ FirstSize \in Nat \ {0} /\ MaxLoad \in Nat
    /\ None \notin Key

VARIABLES
    table,  \* a sequence of buckets, each a sequence of kv
    size,
    iter,   \* iterActive, iterBucket and iterElmt, by its key
    owner,  \* who is to free a value
    life,   \* "open", "quit" (doQuit) or "freed"
    pc,     \* the threads: "idle", "begun" (past the first look at doQuit)
    answer  \* what the last call returned

vars == <<table, size, iter, owner, life, pc, answer>>

kv == [key : Key, hash : Nat, value : Val]

TypeOK ==
    /\ table \in Seq(Seq(kv)) /\ table # <<>>
    /\ size \in Nat
    /\ iter \in [active : BOOLEAN, bucket : 0..Len(table), elmt : Key \cup {None}]
    /\ owner \in [Val -> {"nobody", "map", "caller"}]
    /\ life \in {"open", "quit", "freed"}
    /\ pc \in [Thread -> {"idle", "begun", "undefined"}]

Buckets(n) == [b \in 1..n |-> <<>>]

Init ==
    /\ table = Buckets(FirstSize) /\ size = 0
    /\ iter = [active |-> FALSE, bucket |-> 0, elmt |-> None]
    /\ owner = [v \in Val |-> "nobody"]
    /\ life = "open" /\ pc = [t \in Thread |-> "idle"]
    /\ answer = <<"none">>

Bucket(k) == (Hash[k] % Len(table)) + 1
(* Where a key's entry is in its bucket, or 0. *)
Find(k) == SelectInSeq(table[Bucket(k)], LAMBDA e : e.key = k)
At(k) == table[Bucket(k)][Find(k)]

(* The places of the entries of a table, a bucket and a place in it. *)
Places(tbl) == UNION {{b} \X DOMAIN tbl[b] : b \in DOMAIN tbl}
Entries == {table[p[1]][p[2]] : p \in Places(table)}

(* ListInsertAfter(mp->table[hash % mp->buckets], NULL, item) *)
PutFirst(tbl, e) == [tbl EXCEPT ![(e.hash % Len(tbl)) + 1] = <<e>> \o @]

(* Mutant: an entry keeps the number of its bucket. *)
Remap_Stays(tbl) == [b \in 1..2 * Len(tbl) |-> IF b <= Len(tbl) THEN tbl[b] ELSE <<>>]

(* The first entry of the first bucket of from that has one goes to its
   bucket in to, in front of those moved before it. *)
MoveOne(from, to) ==
    LET b == Min({x \in DOMAIN from : from[x] # <<>>})
    IN  [from |-> [from EXCEPT ![b] = Tail(@)], to |-> PutFirst(to, Head(from[b]))]

(* Every entry moves to a table with twice the buckets. *)
Remap(tbl) ==
    LET count == Cardinality(Places(tbl))
        moved[n \in 0..count] ==
            IF n = 0 THEN [from |-> tbl, to |-> Buckets(2 * Len(tbl))]
                     ELSE MoveOne(moved[n - 1].from, moved[n - 1].to)
    IN  moved[count].to

(* A call that has seen that doQuit is not set goes on under the mutex.    *)
Begin(t) ==
    /\ pc[t] = "idle" /\ life = "open"
    /\ pc' = [pc EXCEPT ![t] = "begun"]
    /\ UNCHANGED <<table, size, iter, owner, life, answer>>

Call(t, ret) ==
    /\ pc[t] = "begun" /\ life = "open"
    /\ pc' = [pc EXCEPT ![t] = "idle"]
    /\ answer' = ret
    /\ UNCHANGED life

(* Mutant: the value that is replaced is not freed. *)
Replace_Leaks(k, v) ==
    /\ table' = [table EXCEPT ![Bucket(k)][Find(k)].value = v]
    /\ owner' = [owner EXCEPT ![v] = "map"]

Replace(k, v) ==
    /\ table' = [table EXCEPT ![Bucket(k)][Find(k)].value = v]
    /\ owner' = [owner EXCEPT ![At(k).value] = "nobody", ![v] = "map"]

Insert(k, v) ==
    LET e == [key |-> k, hash |-> Hash[k], value |-> v]
        new == PutFirst(table, e)
    IN  /\ table' = IF (size + 1) \div Len(table) > MaxLoad THEN Remap(new) ELSE new
        /\ owner' = [owner EXCEPT ![v] = "map"]

(* MapPut; where asks for the value that is there already. *)
MapPut(t, k, v, where) ==
    /\ owner[v] # "map"
    /\ CASE Find(k) # 0 /\ where ->
                /\ Call(t, <<"put", "exists", At(k).value>>)
                /\ owner' = [owner EXCEPT ![v] = "caller"] /\ UNCHANGED <<table, size>>
         [] Find(k) # 0 /\ ~where ->
                Call(t, <<"put", "ok">>) /\ Replace(k, v) /\ UNCHANGED size
         [] OTHER -> Call(t, <<"put", "ok">>) /\ Insert(k, v) /\ size' = size + 1
    /\ iter' = [iter EXCEPT !.active = FALSE]

(* runValOut takes the value out of an entry that moves it to the caller,
   so that kvFree frees it only otherwise. *)
MapRemove(t, k, moving) ==
    /\ IF Find(k) = 0
       THEN Call(t, <<"remove", "none">>) /\ UNCHANGED <<table, size, owner>>
       ELSE /\ Call(t, IF moving THEN <<"remove", "ok", At(k).value>> ELSE <<"remove", "ok">>)
            /\ table' = [table EXCEPT ![Bucket(k)] = RemoveAt(@, Find(k))]
            /\ size' = size - 1
            /\ owner' = [owner EXCEPT ![At(k).value] = IF moving THEN "caller" ELSE "nobody"]
    /\ iter' = [iter EXCEPT !.active = FALSE]

GetValue(t, k) ==
    /\ Call(t, IF Find(k) # 0 THEN <<"get", "ok", At(k).value>> ELSE <<"get", "none">>)
    /\ UNCHANGED <<table, size, iter, owner>>

HasKey(t, k) == Call(t, <<"has", Find(k) # 0>>) /\ UNCHANGED <<table, size, iter, owner>>

MapSize(t) == Call(t, <<"size", size>>) /\ UNCHANGED <<table, size, iter, owner>>

Dangling == iter.active /\ iter.elmt # None /\ Find(iter.elmt) = 0

(* The element to visit from iterator i: i.elmt or the first one of the
   buckets that are left, with the number of buckets then behind. *)
Element(i) ==
    LET rest == {b \in i.bucket + 1..Len(table) : table[b] # <<>>}
        b == CHOOSE x \in rest : \A y \in rest : x <= y
    IN  CASE i.elmt # None -> [key |-> i.elmt, bucket |-> i.bucket]
          [] i.elmt = None /\ rest # {} -> [key |-> table[b][1].key, bucket |-> b]
          [] OTHER         -> [key |-> None, bucket |-> Len(table)]

(* iterElmt->next *)
After(k) == LET b == table[Bucket(k)] IN IF Find(k) < Len(b) THEN b[Find(k) + 1].key ELSE None

MapNextSet(t, i) ==
    LET e == Element(i)
    IN  /\ IF ~i.active THEN Call(t, <<"iter", "state">>) /\ iter' = i
           ELSE IF e.key = None
           THEN Call(t, <<"iter", "end">>) /\ iter' = [i EXCEPT !.bucket = e.bucket]
           ELSE /\ Call(t, <<"iter", "ok", e.key, At(e.key).value>>)
                /\ iter' = [i EXCEPT !.bucket = e.bucket, !.elmt = After(e.key)]
        /\ UNCHANGED <<table, size, owner>>

Start == [active |-> TRUE, bucket |-> 0, elmt |-> None]

FirstSet(t) == MapNextSet(t, Start)
NextSet(t) == ~Dangling /\ MapNextSet(t, iter)

(* ruMapKeyList runs the iterator to its end. *)
KeyList(t) ==
    /\ Call(t, <<"keys", {e.key : e \in Entries}>>)
    /\ iter' = [Start EXCEPT !.bucket = Len(table)]
    /\ UNCHANGED <<table, size, owner>>

Freeing == [v \in Val |-> IF owner[v] = "map" THEN "nobody" ELSE owner[v]]

(* The iterator stays as it is, on an element that may be gone. *)
RemoveAll(t) ==
    /\ Call(t, <<"clear">>)
    /\ table' = Buckets(Len(table)) /\ size' = size - Cardinality(Places(table))
    /\ owner' = Freeing
    /\ UNCHANGED iter

(* ruMapFree does not wait for calls that have not got the mutex yet.      *)
Quit == life = "open" /\ life' = "quit" /\ UNCHANGED <<table, size, iter, owner, pc, answer>>

Free ==
    /\ life = "quit" /\ life' = "freed"
    /\ owner' = Freeing
    /\ UNCHANGED <<table, size, iter, pc, answer>>

(* doQuit is set at the first look or at the one under the mutex.          *)
TurnedAway(t, ret) ==
    /\ pc[t] \in {"idle", "begun"} /\ life = "quit"
    /\ pc' = [pc EXCEPT ![t] = "idle"] /\ answer' = ret
    /\ UNCHANGED <<table, size, iter, owner, life>>

Abort(t) == TurnedAway(t, <<"abort">>)

(* ruMapHasKey stores RUE_OK and returns false then, as for a key that is
   not there. *)
HasNothing(t) == TurnedAway(t, <<"has", FALSE>>)

(* A freed element, or a freed map, is read: the thread goes no further.   *)
Undefined(t) ==
    /\ pc[t] = "begun" /\ (life = "freed" \/ (life = "open" /\ Dangling))
    /\ pc' = [pc EXCEPT ![t] = "undefined"]
    /\ UNCHANGED <<table, size, iter, owner, life, answer>>

Next ==
    \/ \E t \in Thread :
        \/ Begin(t) \/ MapSize(t) \/ FirstSet(t) \/ NextSet(t) \/ KeyList(t) \/ RemoveAll(t)
        \/ Abort(t) \/ HasNothing(t) \/ Undefined(t)
        \/ \E k \in Key : \/ GetValue(t, k) \/ HasKey(t, k)
                          \/ \E moving \in BOOLEAN : MapRemove(t, k, moving)
                          \/ \E v \in Val, where \in BOOLEAN : MapPut(t, k, v, where)
    \/ Quit \/ Free

Spec == Init /\ [][Next]_vars
-----------------------------------------------------------------------------
(* The value types hand over: the map owns the values of its entries, each
   once, and no others; one it has moved to a caller is the caller's.  A
   map that is replaced, cleared, rehashed or freed leaks none. *)
ValuesOwned ==
    /\ \A v \in Val : life # "freed" =>
        Cardinality({p \in Places(table) : table[p[1]][p[2]].value = v}) = IF owner[v] = "map" THEN 1 ELSE 0
    /\ life = "freed" => \A v \in Val : owner[v] # "map"
    /\ answer[1] = "remove" /\ Len(answer) = 3 => owner[answer[3]] # "nobody"

(* The keys a running iteration has still to visit. *)
Todo ==
    IF ~iter.active \/ Dangling THEN {}
    ELSE LET b == Bucket(iter.elmt)
             here == IF iter.elmt = None THEN {} ELSE {table[b][i].key : i \in Find(iter.elmt)..Len(table[b])}
         IN  here \cup UNION {{e.key : e \in ToSet(table[b2])} : b2 \in iter.bucket + 1..Len(table)}

Kept == [k \in {x \in Key : Find(x) # 0} |-> At(k).value]
Dict == INSTANCE Dictionary WITH
    dict <- Kept, todo <- Todo, iterating <- iter.active, open <- life = "open"

(* map.h: however often it is rehashed, and whoever else changes it, the map
   answers like a function from keys to values, and an iteration visits each
   entry once; a change ends it, except that ruMapRemoveAll leaves it on.
   A call that meets a quitting map is refused, where map.h:140-143 says so
   of ruMapHasKey too: that one answers that the key is not there. *)
RefinesDict == Dict!DictSpec
=============================================================================
