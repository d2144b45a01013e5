---------------------------- MODULE BoundedBuffer ----------------------------
(***************************************************************************)
(* What a bounded list of list.c promises its callers (list.h: the comments *)
(* of ruListNewBound, ruListBind, ruListFree and of the insert calls),     *)
(* without mutex, condition variables or calls in progress: a buffer with  *)
(* a size limit, the clients blocked on it in the order they blocked, and  *)
(* the verdict every addition got.  BoundedList refines this module.       *)
(***************************************************************************)
EXTENDS Naturals, Sequences, SequencesExt

CONSTANTS Clients,   \* threads that add entries
          MaxItems,  \* additions per client (a bound of the runs)
          MaxSize,   \* ruListNewBound's maxSize
          Ordered,   \* ruListNewBound's ordered
          Fifo       \* entries are only appended, and only the first is taken

VARIABLES buf,       \* the entries, first to last
          blocked,   \* blocked clients, in the order they blocked
          open,      \* FALSE once ruListFree was called
          bounded,   \* the limit is obeyed (ruListBind)
          verdict    \* what the addition of each item returned

absVars == <<buf, blocked, open, bounded, verdict>>

Items == Clients \X (1..MaxItems)

BufferInit ==
    /\ buf = <<>>
    /\ blocked = <<>>
    /\ open = TRUE
    /\ bounded = TRUE
    /\ verdict = [i \in Items |-> "none"]

(* Item i enters the buffer: at the end when Fifo, else anywhere. *)
Put(i) ==
    /\ verdict[i] = "none"
    /\ verdict' = [verdict EXCEPT ![i] = "ok"]
    /\ \E n \in 0..Len(buf) :
          /\ Fifo => n = Len(buf)
          /\ buf' = InsertAt(buf, n + 1, i)

(* A client that finds room adds without waiting, ahead of those blocked. *)
Accept(c, i) ==
    /\ i[1] = c
    /\ ~Contains(blocked, c)
    /\ Len(buf) < MaxSize
    /\ Put(i)
    /\ UNCHANGED <<blocked, open, bounded>>

(* A client is blocked only by a buffer that is full. *)
Block(c) ==
    /\ ~Contains(blocked, c)
    /\ Len(buf) >= MaxSize
    /\ blocked' = Append(blocked, c)
    /\ UNCHANGED <<buf, open, bounded, verdict>>

Leave(c) ==
    \E k \in DOMAIN blocked :
        /\ blocked[k] = c
        /\ blocked' = RemoveAt(blocked, k)

(* There is room, or the limit is lifted: one blocked client adds its item.
   When ordered it is the one that has been blocked the longest. *)
Unblock(c, i) ==
    /\ i[1] = c
    /\ Leave(c)
    /\ Ordered => c = Head(blocked)
    /\ Len(buf) < MaxSize \/ ~bounded
    /\ Put(i)
    /\ UNCHANGED <<open, bounded>>

(* Once closed, an addition may be refused, blocked or not. *)
Refuse(c, i) ==
    /\ ~open
    /\ i[1] = c
    /\ verdict[i] = "none"
    /\ verdict' = [verdict EXCEPT ![i] = "abort"]
    /\ IF Contains(blocked, c) THEN Leave(c) ELSE UNCHANGED blocked
    /\ UNCHANGED <<buf, open, bounded>>

Take(n) ==
    /\ Fifo => n = 1
    /\ buf' = RemoveAt(buf, n)
    /\ UNCHANGED <<blocked, open, bounded, verdict>>

Rebind ==
    /\ open
    /\ bounded' \in BOOLEAN
    /\ UNCHANGED <<buf, blocked, open, verdict>>

Close ==
    /\ open' = FALSE
    /\ UNCHANGED <<buf, blocked, bounded, verdict>>

(* The buffer goes away only when nobody is blocked on it any more. *)
Dispose ==
    /\ ~open
    /\ blocked = <<>>
    /\ buf' = <<>>
    /\ UNCHANGED <<blocked, open, bounded, verdict>>

BufferNext ==
    \/ \E c \in Clients, i \in Items : Accept(c, i) \/ Unblock(c, i) \/ Refuse(c, i)
    \/ \E c \in Clients : Block(c)
    \/ \E n \in DOMAIN buf : Take(n)
    \/ Rebind \/ Close \/ Dispose

BufferSpec == BufferInit /\ [][BufferNext]_absVars
=============================================================================
