-------------------------- MODULE FileMonitorProofs --------------------------
(***************************************************************************)
(* Proofs about FileMonitor.  Moves are told apart by their cookies, which *)
(* the kernel gives once and the thread takes out of its map as it reports *)
(* them: this holds for any folders, names and limits, and whether others  *)
(* wait for the monitor or not.  What is watched and which paths are       *)
(* reported is right when others wait and no name begins another.          *)
(***************************************************************************)
EXTENDS FileMonitor, SequenceLemmas, FiniteSetTheorems

(* What the thread has not processed yet: events it has read, then others. *)
Pending == buf \o queue

IsFrom(e) == e.mask = "MOVED_FROM"

(* Each of these events begins a move, with a cookie of its own that the
   thread has not met. *)
Fresh(s) ==
    \A i \in DOMAIN s : IsFrom(s[i]) =>
        /\ s[i].cookie \in 1..issued.cookie /\ s[i].cookie \notin DOMAIN moved
        /\ \A j \in DOMAIN s : IsFrom(s[j]) /\ s[j].cookie = s[i].cookie => j = i

(* Events that begin no move, or at most one, with the cookie c. *)
Plain(s) == \E S : s \in Seq(S) /\ \A i \in DOMAIN s : ~IsFrom(s[i])
One(s, c) ==
    \E S : /\ s \in Seq(S)
           /\ \A i \in DOMAIN s : IsFrom(s[i]) =>
                 s[i].cookie = c /\ \A j \in DOMAIN s : IsFrom(s[j]) => j = i

IssuedType == [wd : Nat, cookie : Nat, op : Nat]

MoveInv ==
    /\ issued \in IssuedType
    /\ \E S : buf \in Seq(S) /\ queue \in Seq(S)
    /\ Fresh(Pending)
    /\ DOMAIN cookie \subseteq DOMAIN moved /\ DOMAIN moved \subseteq 1..issued.cookie
    /\ MoveOnce
(* Two sequences are sequences of the same. *)
LEMMA SeqOfMore ==
    ASSUME NEW S, NEW T, NEW s \in Seq(S)
    PROVE  s \in Seq(S \cup T) /\ s \in Seq(T \cup S)
OBVIOUS

(* Where the elements of a concatenation are. *)
LEMMA ConcatAt ==
    ASSUME NEW S, NEW s \in Seq(S), NEW t \in Seq(S)
    PROVE  /\ s \o t \in Seq(S) /\ Len(s) \in Nat
           /\ \A i \in DOMAIN s : i \in DOMAIN (s \o t) /\ (s \o t)[i] = s[i]
           /\ \A i \in DOMAIN (s \o t) :
                \/ i \in DOMAIN s /\ (s \o t)[i] = s[i]
                \/ i - Len(s) \in DOMAIN t /\ (s \o t)[i] = t[i - Len(s)] /\ i \notin DOMAIN s /\ i \in Nat
OBVIOUS

(* Concatenation is associative. *)
LEMMA ConcatAssociates ==
    ASSUME NEW S, NEW s \in Seq(S), NEW t \in Seq(S), NEW u \in Seq(S)
    PROVE  (s \o t) \o u = s \o (t \o u)
OBVIOUS

(* What the kernel adds for an event. *)
LEMMA EventShape ==
    ASSUME NEW d, NEW mask, NEW n, NEW isDir, NEW c
    PROVE  /\ One(Event(d, mask, n, isDir, c), c)
           /\ mask # "MOVED_FROM" => Plain(Event(d, mask, n, isDir, c))
<1> DEFINE e == [wd |-> watch[d], mask |-> mask, name |-> n, dir |-> isDir, cookie |-> c,
                 at |-> Join(Path[d], n)]
<1>1. e.mask = mask /\ e.cookie = c
  OBVIOUS
<1>2. Event(d, mask, n, isDir, c) \in {<<>>, <<e>>}
  BY DEF Event
<1> HIDE DEF e
<1>3. CASE Event(d, mask, n, isDir, c) = <<>>
  <2>1. <<>> \in Seq({}) /\ DOMAIN <<>> = {}
    OBVIOUS
  <2> QED
    BY <1>3, <2>1 DEF One, Plain
<1>4. CASE Event(d, mask, n, isDir, c) = <<e>>
  <2>1. <<e>> \in Seq({e}) /\ DOMAIN <<e>> = {1} /\ <<e>>[1] = e
    OBVIOUS
  <2> DEFINE s == <<e>>
  <2>2. \A i \in DOMAIN s : i = 1 /\ s[i] = e
    BY <2>1
  <2>3. s \in Seq({e})
    BY <2>1
  <2> HIDE DEF s
  <2>4. One(s, c)
    BY <1>1, <2>2, <2>3 DEF One
  <2>5. mask # "MOVED_FROM" => Plain(s)
    BY <1>1, <2>2, <2>3 DEF Plain, IsFrom
  <2> QED
    BY <1>4, <2>4, <2>5 DEF s
<1> QED
  BY <1>2, <1>3, <1>4

(* Events after one another. *)
LEMMA EventsAfter ==
    ASSUME NEW s, NEW t, NEW c
    PROVE  /\ Plain(s) /\ Plain(t) => Plain(s \o t)
           /\ One(s, c) /\ Plain(t) => One(s \o t, c)
<1>1. ASSUME One(s, c), Plain(t) PROVE One(s \o t, c)
  <2>1. PICK S : s \in Seq(S) /\ \A i \in DOMAIN s : IsFrom(s[i]) =>
                 s[i].cookie = c /\ \A j \in DOMAIN s : IsFrom(s[j]) => j = i
    BY <1>1 DEF One
  <2>2. PICK T : t \in Seq(T) /\ \A i \in DOMAIN t : ~IsFrom(t[i])
    BY <1>1 DEF Plain
  <2>3. s \in Seq(S \cup T) /\ t \in Seq(S \cup T)
    BY <2>1, <2>2, SeqOfMore
  <2>4. /\ s \o t \in Seq(S \cup T)
        /\ \A i \in DOMAIN (s \o t) :
              \/ i \in DOMAIN s /\ (s \o t)[i] = s[i]
              \/ i - Len(s) \in DOMAIN t /\ (s \o t)[i] = t[i - Len(s)]
    BY <2>3, ConcatAt
  <2> QED
    BY <2>1, <2>2, <2>4 DEF One
<1>2. ASSUME Plain(s), Plain(t) PROVE Plain(s \o t)
  <2>1. PICK S : s \in Seq(S) /\ \A i \in DOMAIN s : ~IsFrom(s[i])
    BY <1>2 DEF Plain
  <2>2. PICK T : t \in Seq(T) /\ \A i \in DOMAIN t : ~IsFrom(t[i])
    BY <1>2 DEF Plain
  <2>3. s \in Seq(S \cup T) /\ t \in Seq(S \cup T)
    BY <2>1, <2>2, SeqOfMore
  <2>4. /\ s \o t \in Seq(S \cup T)
        /\ \A i \in DOMAIN (s \o t) :
              \/ i \in DOMAIN s /\ (s \o t)[i] = s[i]
              \/ i - Len(s) \in DOMAIN t /\ (s \o t)[i] = t[i - Len(s)]
    BY <2>3, ConcatAt
  <2> QED
    BY <2>1, <2>2, <2>4 DEF Plain
<1> QED
  BY <1>1, <1>2

(* Events are added that begin no move, or one with a new cookie. *)
LEMMA Added ==
    ASSUME MoveInv, NEW new, queue' = queue \o new,
           UNCHANGED <<buf, cookie, moved, ended>>, issued' \in IssuedType,
           \/ Plain(new) /\ issued'.cookie = issued.cookie
           \/ One(new, issued'.cookie) /\ issued'.cookie = issued.cookie + 1
    PROVE  MoveInv'
<1>0. PICK T : /\ new \in Seq(T)
               /\ \A i \in DOMAIN new : IsFrom(new[i]) =>
                     /\ new[i].cookie \in (issued.cookie + 1)..issued'.cookie
                     /\ \A j \in DOMAIN new : IsFrom(new[j]) => j = i
  <2>1. issued.cookie + 1 \in (issued.cookie + 1)..(issued.cookie + 1)
    BY DEF MoveInv, IssuedType
  <2>2. CASE Plain(new)
    BY <2>2 DEF Plain
  <2>3. CASE One(new, issued'.cookie) /\ issued'.cookie = issued.cookie + 1
    BY <2>1, <2>3 DEF One
  <2> QED
    BY <2>2, <2>3
<1>13. issued'.cookie \in {issued.cookie, issued.cookie + 1}
  OBVIOUS
<1>1. PICK S : buf \in Seq(S) /\ queue \in Seq(S)
  BY DEF MoveInv
<1> DEFINE U == S \cup T  p == buf \o queue
<1>2. buf \in Seq(U) /\ queue \in Seq(U) /\ new \in Seq(U)
  BY <1>0, <1>1, SeqOfMore
<1> HIDE DEF U
<1>3. p \in Seq(U) /\ queue \o new \in Seq(U) /\ buf \o (queue \o new) = p \o new
  <2>1. p \in Seq(U) /\ queue \o new \in Seq(U)
    BY <1>2, ConcatAt
  <2>2. (buf \o queue) \o new = buf \o (queue \o new)
    BY <1>2, ConcatAssociates, SMTT(40)
  <2> QED
    BY <2>1, <2>2
<1> HIDE DEF p
<1>4. issued.cookie \in Nat /\ issued'.cookie \in Nat /\ DOMAIN moved \subseteq 1..issued.cookie
      /\ issued'.cookie >= issued.cookie
  BY <1>13 DEF MoveInv, IssuedType
<1>5. Fresh(p)
  BY DEF MoveInv, Pending, p
<1>6. \A i \in DOMAIN (p \o new) :
          \/ i \in DOMAIN p /\ (p \o new)[i] = p[i]
          \/ i - Len(p) \in DOMAIN new /\ (p \o new)[i] = new[i - Len(p)] /\ i \notin DOMAIN p /\ i \in Nat
  BY <1>2, <1>3, ConcatAt
<1>7. ASSUME NEW i \in DOMAIN (p \o new), NEW j \in DOMAIN (p \o new), IsFrom((p \o new)[i])
      PROVE  /\ (p \o new)[i].cookie \in 1..issued'.cookie /\ (p \o new)[i].cookie \notin DOMAIN moved
             /\ IsFrom((p \o new)[j]) /\ (p \o new)[j].cookie = (p \o new)[i].cookie => j = i
  <2>1. CASE i \in DOMAIN p /\ (p \o new)[i] = p[i]
    <3>1. p[i].cookie \in 1..issued.cookie /\ p[i].cookie \notin DOMAIN moved
          /\ \A k \in DOMAIN p : IsFrom(p[k]) /\ p[k].cookie = p[i].cookie => k = i
      BY <1>5, <1>7, <2>1 DEF Fresh
    <3>2. ASSUME IsFrom((p \o new)[j]), (p \o new)[j].cookie = (p \o new)[i].cookie PROVE j = i
      <4>1. CASE j \in DOMAIN p /\ (p \o new)[j] = p[j]
        BY <2>1, <3>1, <3>2, <4>1
      <4>2. CASE j - Len(p) \in DOMAIN new /\ (p \o new)[j] = new[j - Len(p)]
        <5>1. new[j - Len(p)].cookie \in (issued.cookie + 1)..issued'.cookie
          BY <1>0, <3>2, <4>2
        <5> QED
          BY <1>4, <2>1, <3>1, <3>2, <4>2, <5>1
      <4> QED
        BY <1>6, <4>1, <4>2
    <3> QED
      BY <1>4, <2>1, <3>1, <3>2
  <2>2. CASE i - Len(p) \in DOMAIN new /\ (p \o new)[i] = new[i - Len(p)] /\ i \notin DOMAIN p /\ i \in Nat
    <3>1. new[i - Len(p)].cookie \in (issued.cookie + 1)..issued'.cookie
          /\ \A k \in DOMAIN new : IsFrom(new[k]) => k = i - Len(p)
      BY <1>0, <1>7, <2>2
    <3>2. ASSUME IsFrom((p \o new)[j]), (p \o new)[j].cookie = (p \o new)[i].cookie PROVE j = i
      <4>1. CASE j \in DOMAIN p /\ (p \o new)[j] = p[j]
        <5>1. p[j].cookie \in 1..issued.cookie
          BY <1>5, <3>2, <4>1 DEF Fresh
        <5> QED
          BY <1>4, <2>2, <3>1, <3>2, <4>1, <5>1
      <4>2. CASE j - Len(p) \in DOMAIN new /\ (p \o new)[j] = new[j - Len(p)] /\ j \in Nat
        <5>1. j - Len(p) = i - Len(p) /\ Len(p) \in Nat
          BY <1>3, <3>1, <3>2, <4>2
        <5> QED
          BY <2>2, <4>2, <5>1
      <4> QED
        BY <1>6, <4>1, <4>2
    <3> QED
      BY <1>4, <2>2, <3>1, <3>2
  <2> QED
    BY <1>6, <2>1, <2>2
<1>8. Pending' = p \o new
  BY <1>3 DEF Pending
<1>9. Fresh(Pending)'
  BY <1>7, <1>8 DEF Fresh, IsFrom
<1>10. MoveOnce'
  BY DEF MoveInv, MoveOnce
<1>11. DOMAIN cookie' \subseteq DOMAIN moved' /\ DOMAIN moved' \subseteq 1..issued'.cookie
  BY <1>4 DEF MoveInv
<1>12. \E V : buf' \in Seq(V) /\ queue' \in Seq(V)
  BY <1>2, <1>3
<1> QED
  BY <1>9, <1>10, <1>11, <1>12 DEF MoveInv

(* Others change the tree: a new move has a new cookie. *)
LEMMA ChangeStep ==
    ASSUME MoveInv, Mkdir \/ Rmdir \/ MoveFile \/ Attrib \/ Move
    PROVE  MoveInv'
<1>0. issued \in IssuedType /\ issued.cookie \in Nat /\ \E S : queue \in Seq(S)
  BY DEF MoveInv, IssuedType
<1>1. ASSUME NEW c \in Nat, Counted(c) PROVE issued' \in IssuedType /\ issued'.cookie = c
  <2>1. issued' = [issued EXCEPT !.op = issued.op + 1, !.cookie = c]
    BY <1>1 DEF Counted
  <2>2. issued.op + 1 \in Nat
    BY <1>0 DEF IssuedType
  <2> QED
    BY <1>0, <2>1, <2>2 DEF IssuedType
<1>2. UNCHANGED <<buf, cookie, moved, ended>>
  BY DEF Mkdir, Rmdir, MoveFile, Attrib, Move, Change, maps
<1>3. ASSUME NEW e, NEW f, queue' = (queue \o e) \o f, One(e, issued.cookie + 1) \/ Plain(e), Plain(f)
      PROVE  queue' = queue \o (e \o f)
  <2>1. PICK S : queue \in Seq(S)
    BY <1>0
  <2>2. \E T : e \in Seq(T)
    BY <1>3 DEF One, Plain
  <2>3. PICK T : e \in Seq(T)
    BY <2>2
  <2>4. PICK U : f \in Seq(U)
    BY <1>3 DEF Plain
  <2> DEFINE V == (S \cup T) \cup U
  <2>5. queue \in Seq(V) /\ e \in Seq(V) /\ f \in Seq(V)
    BY <2>1, <2>3, <2>4, SeqOfMore
  <2> HIDE DEF V
  <2> QED
    BY <1>3, <2>5, ConcatAssociates
<1>4. CASE Mkdir
  <2>1. PICK u, n : queue' = queue \o Event(u, "CREATE", n, TRUE, 0)
    BY <1>4 DEF Mkdir
  <2>2. Counted(issued.cookie)
    BY <1>4 DEF Mkdir
  <2> QED
    BY <1>0, <1>1, <1>2, <2>1, <2>2, EventShape, Added
<1>5. CASE Rmdir
  <2>1. PICK d : queue' = (queue \o Event(d, "DELETE_SELF", <<>>, FALSE, 0))
                              \o Event(up[d], "DELETE", name[d], TRUE, 0)
    BY <1>5 DEF Rmdir
  <2>2. Counted(issued.cookie)
    BY <1>5 DEF Rmdir
  <2> DEFINE e == Event(d, "DELETE_SELF", <<>>, FALSE, 0)  f == Event(up[d], "DELETE", name[d], TRUE, 0)
  <2>3. Plain(e) /\ Plain(f)
    BY EventShape
  <2> HIDE DEF e, f
  <2>4. Plain(e \o f)
    BY <2>3, EventsAfter
  <2>5. queue' = queue \o (e \o f)
    BY <1>3, <2>1, <2>3 DEF e, f
  <2> QED
    BY <1>0, <1>1, <1>2, <2>2, <2>4, <2>5, Added
<1>6. CASE MoveFile
  <2>1. PICK d : queue' = queue \o Event(d, "MOVED_FROM", <<"f">>, FALSE, issued.cookie + 1)
    BY <1>6 DEF MoveFile
  <2>2. Counted(issued.cookie + 1)
    BY <1>6 DEF MoveFile
  <2>3. issued' \in IssuedType /\ issued'.cookie = issued.cookie + 1
    BY <1>0, <1>1, <2>2
  <2> QED
    BY <1>2, <2>1, <2>3, EventShape, Added
<1>7. CASE Attrib
  <2>1. PICK d : queue' = queue \o Event(up[d], "ATTRIB", name[d], TRUE, 0)
    BY <1>7 DEF Attrib
  <2>2. Counted(issued.cookie)
    BY <1>7 DEF Attrib
  <2> QED
    BY <1>0, <1>1, <1>2, <2>1, <2>2, EventShape, Added
<1>8. CASE Move
  <2>1. PICK d, u, n : queue' = (queue \o Event(up[d], "MOVED_FROM", name[d], TRUE, issued.cookie + 1))
                                   \o Event(u, "MOVED_TO", n, TRUE, issued.cookie + 1)
    BY <1>8 DEF Move
  <2>2. Counted(issued.cookie + 1)
    BY <1>8 DEF Move
  <2> DEFINE e == Event(up[d], "MOVED_FROM", name[d], TRUE, issued.cookie + 1)
             f == Event(u, "MOVED_TO", n, TRUE, issued.cookie + 1)
  <2>3. One(e, issued.cookie + 1) /\ Plain(f)
    BY EventShape
  <2>4. queue' = (queue \o e) \o f
    BY <2>1
  <2> HIDE DEF e, f
  <2>5. One(e \o f, issued.cookie + 1)
    BY <2>3, EventsAfter
  <2>6. queue' = queue \o (e \o f)
    BY <1>3, <2>3, <2>4
  <2>7. issued' \in IssuedType /\ issued'.cookie = issued.cookie + 1
    BY <1>0, <1>1, <2>2
  <2> QED
    BY <1>2, <2>5, <2>6, <2>7, Added
<1> QED
  BY <1>4, <1>5, <1>6, <1>7, <1>8

(* Nothing is said of moves in a step that leaves all of this alone. *)
LEMMA MoveFrame ==
    ASSUME MoveInv, UNCHANGED <<buf, queue, cookie, moved, ended>>,
           issued' \in IssuedType, issued'.cookie = issued.cookie
    PROVE  MoveInv'
<1>1. Fresh(Pending)'
  BY DEF MoveInv, Fresh, Pending, IsFrom
<1>2. MoveOnce'
  BY DEF MoveInv, MoveOnce
<1>3. DOMAIN cookie' \subseteq DOMAIN moved' /\ DOMAIN moved' \subseteq 1..issued'.cookie
  BY DEF MoveInv
<1>4. \E S : buf' \in Seq(S) /\ queue' \in Seq(S)
  BY DEF MoveInv
<1> QED
  BY <1>1, <1>2, <1>3, <1>4 DEF MoveInv

(* Watches are not cookies. *)
LEMMA WalkMoves ==
    ASSUME MoveInv, Walk
    PROVE  MoveInv'
<1>1. UNCHANGED <<buf, queue, cookie, moved, ended>>
  BY DEF Walk
<1>2. issued' = issued \/ issued' = [issued EXCEPT !.wd = issued.wd + 1]
  BY DEF Walk, Watch
<1>3. issued \in IssuedType
  BY DEF MoveInv
<1>4. issued' \in IssuedType /\ issued'.cookie = issued.cookie
  BY <1>2, <1>3 DEF IssuedType
<1> QED
  BY <1>1, <1>4, MoveFrame

(* What is read is still to be processed, in its order. *)
LEMMA ReadMoves ==
    ASSUME MoveInv, Read
    PROVE  MoveInv'
<1>1. PICK n \in 1..Len(queue) : buf' = SubSeq(queue, 1, n) /\ queue' = SubSeq(queue, n + 1, Len(queue))
  BY DEF Read
<1>2. buf = <<>> /\ UNCHANGED <<issued, cookie, moved, ended>>
  BY DEF Read, maps
<1>3. PICK S : queue \in Seq(S)
  BY DEF MoveInv
<1>4. buf' \in Seq(S) /\ queue' \in Seq(S)
  BY <1>1, <1>3
<1>5. SubSeq(queue, 1, n) \o SubSeq(queue, n + 1, Len(queue)) = queue
  BY <1>3
<1>6. <<>> \o queue = queue
  BY <1>3
<1>7. Pending' = Pending
  BY <1>1, <1>2, <1>5, <1>6 DEF Pending
<1>8. Fresh(Pending)'
  BY <1>2, <1>7 DEF MoveInv, Fresh, IsFrom
<1>9. MoveOnce'
  BY <1>2 DEF MoveInv, MoveOnce
<1>10. \E V : buf' \in Seq(V) /\ queue' \in Seq(V)
  BY <1>4
<1> QED
  BY <1>2, <1>8, <1>9, <1>10 DEF MoveInv

(* A move that is reported is forgotten. *)
LEMMA ForgottenMove ==
    ASSUME MoveInv, NEW c \in DOMAIN cookie, UNCHANGED <<issued, ended>>,
           moved' = [moved EXCEPT ![c] = moved[c] + 1], DOMAIN cookie' = DOMAIN cookie \ {c}
    PROVE  /\ DOMAIN moved' = DOMAIN moved
           /\ DOMAIN cookie' \subseteq DOMAIN moved' /\ DOMAIN moved' \subseteq 1..issued'.cookie
           /\ MoveOnce'
<1>1. c \in DOMAIN moved /\ moved[c] = 0 /\ DOMAIN moved' = DOMAIN moved
  BY DEF MoveInv, MoveOnce
<1>2. ASSUME NEW d \in DOMAIN moved
      PROVE  IF d \in DOMAIN cookie' THEN moved'[d] = 0 ELSE ended' \/ moved'[d] = 1
  <2>1. moved'[d] = IF d = c THEN 1 ELSE moved[d]
    BY <1>1
  <2>2. IF d \in DOMAIN cookie THEN moved[d] = 0 ELSE ended \/ moved[d] = 1
    BY DEF MoveInv, MoveOnce
  <2> QED
    BY <2>1, <2>2
<1>3. MoveOnce'
  BY <1>1, <1>2 DEF MoveOnce
<1>4. DOMAIN cookie' \subseteq DOMAIN moved' /\ DOMAIN moved' \subseteq 1..issued'.cookie
  BY <1>1 DEF MoveInv
<1> QED
  BY <1>1, <1>3, <1>4

(* A move that is given up is reported and forgotten. *)
LEMMA ExpireMoves ==
    ASSUME MoveInv, NEW c \in DOMAIN cookie, Expire(c)
    PROVE  MoveInv'
<1>1. UNCHANGED <<buf, queue, issued, ended>>
  BY DEF Expire
<1>2. moved' = [moved EXCEPT ![c] = moved[c] + 1] /\ DOMAIN cookie' = DOMAIN cookie \ {c}
  BY DEF Expire, Reported, Without
<1>3. /\ DOMAIN moved' = DOMAIN moved
      /\ DOMAIN cookie' \subseteq DOMAIN moved' /\ DOMAIN moved' \subseteq 1..issued'.cookie
      /\ MoveOnce'
  BY <1>1, <1>2, ForgottenMove
<1>4. Fresh(Pending)'
  BY <1>1, <1>3 DEF MoveInv, Fresh, Pending, IsFrom
<1> QED
  BY <1>1, <1>3, <1>4 DEF MoveInv

(* An event that is processed is the first of those that are pending. *)
LEMMA FirstPending ==
    ASSUME MoveInv, Process
    PROVE  /\ \E S : buf' \in Seq(S) /\ queue' \in Seq(S)
           /\ UNCHANGED <<issued, queue, ended>>
           /\ 1 \in DOMAIN Pending /\ Pending[1] = Head(buf)
           /\ \A i \in DOMAIN Pending' : i + 1 \in DOMAIN Pending /\ Pending'[i] = Pending[i + 1] /\ i \in Nat /\ i > 0
<1>1. PICK S : buf \in Seq(S) /\ queue \in Seq(S)
  BY DEF MoveInv
<1>2. buf # <<>> /\ buf' = Tail(buf) /\ UNCHANGED <<issued, queue, ended>>
  BY DEF Process
<1>3. Tail(buf) \in Seq(S) /\ Len(Tail(buf)) = Len(buf) - 1 /\ Len(buf) \in Nat /\ Len(buf) > 0
      /\ \A i \in 1..Len(buf) - 1 : Tail(buf)[i] = buf[i + 1]
      /\ Head(buf) = buf[1]
  BY <1>1, <1>2
<1>4. /\ Pending \in Seq(S) /\ Len(Pending) = Len(buf) + Len(queue) /\ Len(queue) \in Nat
      /\ \A i \in 1..Len(buf) + Len(queue) : Pending[i] = IF i <= Len(buf) THEN buf[i] ELSE queue[i - Len(buf)]
  BY <1>1, ConcatProperties DEF Pending
<1>5. Pending' = Tail(buf) \o queue
  BY <1>2 DEF Pending
<1>6. /\ Pending' \in Seq(S) /\ Len(Pending') = (Len(buf) - 1) + Len(queue)
      /\ \A i \in 1..(Len(buf) - 1) + Len(queue) :
            Pending'[i] = IF i <= Len(buf) - 1 THEN Tail(buf)[i] ELSE queue[i - (Len(buf) - 1)]
  <2>1. /\ Tail(buf) \o queue \in Seq(S) /\ Len(Tail(buf) \o queue) = Len(Tail(buf)) + Len(queue)
        /\ \A i \in 1..Len(Tail(buf)) + Len(queue) :
              (Tail(buf) \o queue)[i] = IF i <= Len(Tail(buf)) THEN Tail(buf)[i] ELSE queue[i - Len(Tail(buf))]
    BY <1>1, <1>3, ConcatProperties
  <2> QED
    BY <1>3, <1>5, <2>1
<1>7. 1 \in DOMAIN Pending /\ Pending[1] = Head(buf)
  <2>1. 1 \in 1..Len(buf) + Len(queue) /\ 1 <= Len(buf)
    BY <1>3, <1>4
  <2> QED
    BY <1>3, <1>4, <2>1
<1>8. ASSUME NEW i \in DOMAIN Pending'
      PROVE  i + 1 \in DOMAIN Pending /\ Pending'[i] = Pending[i + 1] /\ i \in Nat /\ i > 0
  <2>1. i \in 1..(Len(buf) - 1) + Len(queue) /\ i + 1 \in 1..Len(buf) + Len(queue)
    BY <1>3, <1>4, <1>6, <1>8
  <2>2. CASE i <= Len(buf) - 1
    <3>1. i \in 1..Len(buf) - 1 /\ i + 1 <= Len(buf)
      BY <1>3, <2>1, <2>2
    <3>2. Pending'[i] = Tail(buf)[i] /\ Pending[i + 1] = buf[i + 1]
      BY <1>4, <1>6, <2>1, <2>2, <3>1
    <3> QED
      BY <1>3, <1>4, <2>1, <3>1, <3>2
  <2>3. CASE ~(i <= Len(buf) - 1)
    <3>1. i - (Len(buf) - 1) = i + 1 - Len(buf) /\ ~(i + 1 <= Len(buf))
      BY <1>3, <2>1, <2>3
    <3>2. Pending'[i] = queue[i - (Len(buf) - 1)] /\ Pending[i + 1] = queue[i + 1 - Len(buf)]
      BY <1>4, <1>6, <2>1, <2>3, <3>1, SMTT(40)
    <3> QED
      BY <1>4, <2>1, <3>1, <3>2
  <2> QED
    BY <2>2, <2>3
<1> QED
  BY <1>1, <1>2, <1>3, <1>7, <1>8

(* The events that are left begin other moves than the one that is processed. *)
LEMMA FreshLeft ==
    ASSUME MoveInv, Process, UNCHANGED issued,
           \/ DOMAIN moved' = DOMAIN moved
           \/ IsFrom(Head(buf)) /\ DOMAIN moved' = DOMAIN moved \cup {Head(buf).cookie}
    PROVE  Fresh(Pending)'
<1>1. /\ 1 \in DOMAIN Pending /\ Pending[1] = Head(buf)
      /\ \A i \in DOMAIN Pending' : i + 1 \in DOMAIN Pending /\ Pending'[i] = Pending[i + 1] /\ i \in Nat /\ i > 0
  BY FirstPending
<1>2. Fresh(Pending)
  BY DEF MoveInv
<1>3. ASSUME NEW i \in DOMAIN Pending', IsFrom(Pending'[i])
      PROVE  /\ Pending'[i].cookie \in 1..issued'.cookie /\ Pending'[i].cookie \notin DOMAIN moved'
             /\ \A j \in DOMAIN Pending' : IsFrom(Pending'[j]) /\ Pending'[j].cookie = Pending'[i].cookie => j = i
  <2>1. i + 1 \in DOMAIN Pending /\ Pending'[i] = Pending[i + 1] /\ i + 1 # 1
    BY <1>1, <1>3
  <2>2. /\ Pending[i + 1].cookie \in 1..issued.cookie /\ Pending[i + 1].cookie \notin DOMAIN moved
        /\ \A j \in DOMAIN Pending : IsFrom(Pending[j]) /\ Pending[j].cookie = Pending[i + 1].cookie => j = i + 1
    BY <1>2, <1>3, <2>1 DEF Fresh
  <2>3. ASSUME IsFrom(Head(buf)) PROVE Pending'[i].cookie # Head(buf).cookie
    BY <1>1, <2>1, <2>2, <2>3
  <2>4. ASSUME NEW j \in DOMAIN Pending', IsFrom(Pending'[j]), Pending'[j].cookie = Pending'[i].cookie
        PROVE  j = i
    <3>1. j + 1 \in DOMAIN Pending /\ Pending'[j] = Pending[j + 1] /\ j \in Nat /\ i \in Nat
      BY <1>1
    <3>2. j + 1 = i + 1
      BY <2>1, <2>2, <2>4, <3>1
    <3> QED
      BY <3>1, <3>2
  <2> QED
    BY <2>1, <2>2, <2>3, <2>4
<1> QED
  BY <1>3 DEF Fresh, IsFrom

(* The thread processes an event: one that begins a move is kept with its
   cookie, one that ends it is reported and forgotten. *)
LEMMA ProcessMoves ==
    ASSUME MoveInv, Process
    PROVE  MoveInv'
<1> DEFINE ev == Head(buf)  full == Join(wdPath[ev.wd], ev.name)
<1>1. /\ \E S : buf' \in Seq(S) /\ queue' \in Seq(S)
      /\ UNCHANGED <<issued, queue, ended>>
      /\ 1 \in DOMAIN Pending /\ Pending[1] = ev
  BY FirstPending
<1>2. CASE UNCHANGED <<cookie, moved>>
  <2>1. Fresh(Pending)'
    BY <1>1, <1>2, FreshLeft
  <2>2. MoveOnce'
    BY <1>1, <1>2 DEF MoveInv, MoveOnce
  <2> QED
    BY <1>1, <1>2, <2>1, <2>2 DEF MoveInv
<1>3. CASE ev.mask = "MOVED_FROM" /\ MovedFrom(ev, full)
  <2>1. /\ DOMAIN cookie' = DOMAIN cookie \cup {ev.cookie} /\ DOMAIN moved' = DOMAIN moved \cup {ev.cookie}
        /\ moved'[ev.cookie] = 0 /\ \A d \in DOMAIN moved : d # ev.cookie => moved'[d] = moved[d]
    BY <1>3 DEF MovedFrom, Put
  <2>2. ev.cookie \in 1..issued.cookie /\ ev.cookie \notin DOMAIN moved
    BY <1>1, <1>3 DEF MoveInv, Fresh, IsFrom
  <2>3. Fresh(Pending)'
    BY <1>1, <1>3, <2>1, FreshLeft DEF IsFrom
  <2>4. ASSUME NEW d \in DOMAIN moved'
        PROVE  IF d \in DOMAIN cookie' THEN moved'[d] = 0 ELSE ended' \/ moved'[d] = 1
    <3>1. CASE d = ev.cookie
      BY <2>1, <3>1
    <3>2. CASE d # ev.cookie
      <4>1. d \in DOMAIN moved /\ moved'[d] = moved[d] /\ (d \in DOMAIN cookie' <=> d \in DOMAIN cookie)
        BY <2>1, <3>2
      <4>2. IF d \in DOMAIN cookie THEN moved[d] = 0 ELSE ended \/ moved[d] = 1
        BY <4>1 DEF MoveInv, MoveOnce
      <4> QED
        BY <1>1, <4>1, <4>2
    <3> QED
      BY <3>1, <3>2
  <2>5. MoveOnce'
    BY <2>4 DEF MoveOnce
  <2>6. DOMAIN cookie' \subseteq DOMAIN moved' /\ DOMAIN moved' \subseteq 1..issued'.cookie
    BY <1>1, <2>1, <2>2 DEF MoveInv
  <2> QED
    BY <1>1, <2>3, <2>5, <2>6 DEF MoveInv
<1>4. CASE ev.mask = "MOVED_TO" /\ MovedTo(ev, full) /\ ev.cookie \in DOMAIN cookie
  <2>1. moved' = [moved EXCEPT ![ev.cookie] = moved[ev.cookie] + 1]
        /\ DOMAIN cookie' = DOMAIN cookie \ {ev.cookie}
    BY <1>4 DEF MovedTo, Reported, Without
  <2>2. /\ DOMAIN moved' = DOMAIN moved
        /\ DOMAIN cookie' \subseteq DOMAIN moved' /\ DOMAIN moved' \subseteq 1..issued'.cookie
        /\ MoveOnce'
    BY <1>1, <1>4, <2>1, ForgottenMove
  <2>3. Fresh(Pending)'
    BY <1>1, <2>2, FreshLeft
  <2> QED
    BY <1>1, <2>2, <2>3 DEF MoveInv
<1>5. \/ UNCHANGED <<cookie, moved>>
      \/ ev.mask = "MOVED_FROM" /\ MovedFrom(ev, full)
      \/ ev.mask = "MOVED_TO" /\ MovedTo(ev, full) /\ ev.cookie \in DOMAIN cookie
  <2>1. CASE ev.wd \notin DOMAIN wdPath
    BY <2>1 DEF Process, maps
  <2>2. CASE ev.wd \in DOMAIN wdPath
    <3>1. \/ ev.mask = "DELETE_SELF" /\ DeleteSelf(ev)
          \/ ev.mask = "MOVED_FROM" /\ MovedFrom(ev, full)
          \/ ev.mask = "MOVED_TO" /\ MovedTo(ev, full)
          \/ OtherEvent(ev, full)
      BY <2>2 DEF Process
    <3>2. DeleteSelf(ev) \/ OtherEvent(ev, full) => UNCHANGED <<cookie, moved>>
      BY DEF DeleteSelf, OtherEvent, maps
    <3>3. MovedTo(ev, full) /\ ev.cookie \notin DOMAIN cookie => UNCHANGED <<cookie, moved>>
      BY DEF MovedTo, maps
    <3> HIDE DEF full, ev
    <3> QED
      BY <3>1, <3>2, <3>3
  <2> QED
    BY <2>1, <2>2
<1> QED
  BY <1>2, <1>3, <1>4, <1>5

(* The thread ends: nothing is said of the moves it has not reported. *)
LEMMA EndMoves ==
    ASSUME MoveInv, End
    PROVE  MoveInv'
<1>1. UNCHANGED <<buf, queue, issued, moved>> /\ cookie' = <<>> /\ ended' = TRUE
  BY DEF End
<1>2. DOMAIN cookie' = {}
  BY <1>1
<1>3. Fresh(Pending)'
  BY <1>1 DEF MoveInv, Fresh, Pending, IsFrom
<1>4. MoveOnce'
  BY <1>1, <1>2 DEF MoveOnce
<1> QED
  BY <1>1, <1>2, <1>3, <1>4 DEF MoveInv

(* The invariant holds from the first state on. *)
THEOREM MoveInvHolds == Spec => []MoveInv
<1>1. Init => MoveInv
  <2> SUFFICES ASSUME Init PROVE MoveInv
    OBVIOUS
  <2>1. issued \in IssuedType /\ buf = <<>> /\ queue = <<>> /\ cookie = <<>> /\ moved = <<>>
    BY DEF Init, IssuedType
  <2>2. buf \in Seq({}) /\ queue \in Seq({}) /\ DOMAIN Pending = {} /\ DOMAIN cookie = {} /\ DOMAIN moved = {}
    BY <2>1 DEF Pending
  <2> QED
    BY <2>1, <2>2 DEF MoveInv, Fresh, MoveOnce
<1>2. MoveInv /\ [Next]_vars => MoveInv'
  <2> SUFFICES ASSUME MoveInv, [Next]_vars PROVE MoveInv'
    OBVIOUS
  <2>1. CASE Mkdir \/ Rmdir \/ MoveFile \/ Attrib \/ Move
    BY <2>1, ChangeStep
  <2>2. CASE Walk
    BY <2>2, WalkMoves
  <2>3. CASE Read
    BY <2>3, ReadMoves
  <2>4. CASE Process
    BY <2>4, ProcessMoves
  <2>5. CASE End
    BY <2>5, EndMoves
  <2>6. ASSUME NEW c \in DOMAIN cookie, Expire(c) PROVE MoveInv'
    BY <2>6, ExpireMoves
  <2>7. CASE Kill \/ UNCHANGED vars
    <3>1. UNCHANGED <<buf, queue, cookie, moved, ended, issued>>
      BY <2>7 DEF Kill, vars, kernel, maps
    <3> QED
      BY <3>1, MoveFrame DEF MoveInv
  <2> QED
    BY <2>1, <2>2, <2>3, <2>4, <2>5, <2>6, <2>7 DEF Next, Thread
<1> QED
  BY <1>1, <1>2, PTL DEF Spec

(* A move is reported once, when it arrives or when it is given up, whatever
   others do meanwhile and however the events are split over the reads. *)
THEOREM MoveOnceHolds == Spec => []MoveOnce
<1>1. MoveInv => MoveOnce
  BY DEF MoveInv
<1> QED
  BY <1>1, MoveInvHolds, PTL

(***************************************************************************)
(* Paths, as sequences of letters: what it is to begin with a path, to     *)
(* have one more name, and to be moved.                                    *)
(***************************************************************************)
(* The letters of paths. *)
Letter == {"/", "?", "f"} \cup UNION {ToSet(n) : n \in Name}

(* A path with one more name. *)
Step(q, n) == q \o <<"/">> \o n

(* Whole paths: none of a folder is a path of something else. *)
PathForm == {<<>>} \cup {Step(q, n) : q \in Seq(Letter), n \in Name}

(* The path q when what begins with o begins with n instead. *)
Shifted(o, n, q) == IF IsPrefix(o, q) THEN n \o SubSeq(q, Len(o) + 1, Len(q)) ELSE q

(* No name begins another. *)
Distinct == \A n, m \in Name : IsPrefix(n, m) => n = m
(* What it is to begin with a sequence, letter by letter. *)
LEMMA PrefixMeans ==
    ASSUME NEW p \in Seq(Letter), NEW q \in Seq(Letter)
    PROVE  IsPrefix(p, q) <=> Len(p) <= Len(q) /\ \A i \in 1..Len(p) : p[i] = q[i]
<1>1. Len(p) \in Nat /\ Len(q) \in Nat
  OBVIOUS
<1>2. SubSeq(p, 1, Len(p)) = p
  OBVIOUS
<1>3. ASSUME Len(p) <= Len(q)
      PROVE  SubSeq(q, 1, Len(p)) \in Seq(Letter) /\ Len(SubSeq(q, 1, Len(p))) = Len(p)
             /\ \A i \in 1..Len(p) : SubSeq(q, 1, Len(p))[i] = q[i]
  BY <1>1, <1>3
<1>4. ASSUME Len(p) <= Len(q), \A i \in 1..Len(p) : p[i] = q[i]
      PROVE  SubSeq(q, 1, Len(p)) = p
  <2> DEFINE s == SubSeq(q, 1, Len(p))
  <2>1. s \in Seq(Letter) /\ Len(s) = Len(p) /\ \A i \in 1..Len(p) : s[i] = p[i]
    BY <1>3, <1>4
  <2> HIDE DEF s
  <2>2. s = p
    BY <2>1, SeqEqual
  <2> QED
    BY <2>2 DEF s
<1>5. ASSUME Len(p) <= Len(q), SubSeq(q, 1, Len(p)) = p
      PROVE  \A i \in 1..Len(p) : p[i] = q[i]
  BY <1>3, <1>5
<1> QED
  BY <1>2, <1>4, <1>5 DEF IsPrefix

(* Beginning is an order. *)
LEMMA PrefixOrder ==
    ASSUME NEW p \in Seq(Letter), NEW q \in Seq(Letter), NEW r \in Seq(Letter)
    PROVE  /\ IsPrefix(p, p) /\ IsPrefix(<<>>, p)
           /\ IsPrefix(p, q) /\ IsPrefix(q, r) => IsPrefix(p, r)
           /\ IsPrefix(p, q) /\ IsPrefix(q, p) => p = q
           /\ IsPrefix(p, p \o q) /\ (IsPrefix(q, <<>>) => q = <<>>)
<1>1. Len(p) \in Nat /\ Len(q) \in Nat /\ Len(r) \in Nat
  OBVIOUS
<1>2. IsPrefix(p, p)
  BY <1>1, PrefixMeans
<1>3. IsPrefix(<<>>, p)
  <2> DEFINE e == <<>>
  <2>1. e \in Seq(Letter) /\ Len(e) = 0
    OBVIOUS
  <2> HIDE DEF e
  <2>2. Len(e) <= Len(p) /\ \A i \in 1..Len(e) : e[i] = p[i]
    BY <1>1, <2>1
  <2>3. IsPrefix(e, p)
    BY <2>1, <2>2, PrefixMeans
  <2> QED
    BY <2>3 DEF e
<1>4. IsPrefix(p, q) /\ IsPrefix(q, r) => IsPrefix(p, r)
  BY <1>1, PrefixMeans
<1>5. ASSUME IsPrefix(p, q), IsPrefix(q, p) PROVE p = q
  <2>1. Len(p) = Len(q) /\ \A i \in 1..Len(p) : p[i] = q[i]
    BY <1>1, <1>5, PrefixMeans
  <2> QED
    BY <2>1, SeqEqual
<1>6. IsPrefix(p, p \o q)
  <2>1. p \o q \in Seq(Letter) /\ Len(p) <= Len(p \o q) /\ \A i \in 1..Len(p) : p[i] = (p \o q)[i]
    BY <1>1, ConcatProperties
  <2> QED
    BY <2>1, PrefixMeans
<1>7. ASSUME IsPrefix(q, <<>>) PROVE q = <<>>
  <2>1. <<>> \in Seq(Letter) /\ Len(<<>>) = 0
    OBVIOUS
  <2>2. Len(q) <= 0
    BY <1>7, <2>1, PrefixMeans
  <2> QED
    BY <1>1, <2>2, EmptySeq
<1> QED
  BY <1>2, <1>3, <1>4, <1>5, <1>6, <1>7

(* A path with a name: its letters. *)
LEMMA StepLetters ==
    ASSUME NEW q \in Seq(Letter), NEW n \in Seq(Letter)
    PROVE  LET s == Step(q, n)
           IN  /\ s \in Seq(Letter) /\ Len(s) = Len(q) + 1 + Len(n) /\ Len(q) \in Nat /\ Len(n) \in Nat
               /\ \A i \in 1..Len(q) : s[i] = q[i]
               /\ s[Len(q) + 1] = "/"
               /\ \A i \in 1..Len(n) : s[Len(q) + 1 + i] = n[i]
               /\ IsPrefix(q, s) /\ s # <<>> /\ s # Lost /\ s # q
<1> DEFINE t == <<"/">>  a == q \o t  s == a \o n
<1>1. t \in Seq(Letter) /\ Len(t) = 1 /\ t[1] = "/" /\ Len(q) \in Nat /\ Len(n) \in Nat
  <2>1. "/" \in Letter
    BY DEF Letter
  <2>2. Len(q) \in Nat /\ Len(n) \in Nat
    OBVIOUS
  <2>3. t \in Seq(Letter)
    BY <2>1
  <2>4. Len(t) = 1 /\ t[1] = "/"
    OBVIOUS
  <2> QED
    BY <2>2, <2>3, <2>4
<1> HIDE DEF t
<1>2. /\ a \in Seq(Letter) /\ Len(a) = Len(q) + 1
      /\ \A i \in 1..Len(q) : a[i] = q[i]
      /\ a[Len(q) + 1] = "/"
  <2>1. /\ a \in Seq(Letter) /\ Len(a) = Len(q) + Len(t)
        /\ \A i \in 1..(Len(q) + Len(t)) : a[i] = IF i <= Len(q) THEN q[i] ELSE t[i - Len(q)]
    BY <1>1, ConcatProperties
  <2>2. \A i \in 1..Len(q) : i \in 1..(Len(q) + Len(t)) /\ i <= Len(q)
    BY <1>1
  <2>3. Len(q) + 1 \in 1..(Len(q) + Len(t)) /\ ~(Len(q) + 1 <= Len(q)) /\ (Len(q) + 1) - Len(q) = 1
    BY <1>1
  <2> QED
    BY <1>1, <2>1, <2>2, <2>3
<1> HIDE DEF a
<1>3. /\ s \in Seq(Letter) /\ Len(s) = Len(q) + 1 + Len(n)
      /\ \A i \in 1..(Len(q) + 1) : s[i] = a[i]
      /\ \A i \in 1..Len(n) : s[Len(q) + 1 + i] = n[i]
  <2>1. /\ s \in Seq(Letter) /\ Len(s) = Len(a) + Len(n)
        /\ \A i \in 1..(Len(a) + Len(n)) : s[i] = IF i <= Len(a) THEN a[i] ELSE n[i - Len(a)]
    BY <1>1, <1>2, ConcatProperties
  <2>2. \A i \in 1..(Len(q) + 1) : i \in 1..(Len(a) + Len(n)) /\ i <= Len(a)
    BY <1>1, <1>2
  <2>3. \A i \in 1..Len(n) : /\ Len(q) + 1 + i \in 1..(Len(a) + Len(n))
                              /\ ~(Len(q) + 1 + i <= Len(a)) /\ (Len(q) + 1 + i) - Len(a) = i
    BY <1>1, <1>2
  <2> QED
    BY <1>1, <1>2, <2>1, <2>2, <2>3
<1> HIDE DEF s
<1>4. (\A i \in 1..Len(q) : s[i] = q[i]) /\ s[Len(q) + 1] = "/"
  BY <1>1, <1>2, <1>3
<1>5. IsPrefix(q, s)
  BY <1>1, <1>3, <1>4, PrefixMeans, SMTT(40)
<1>6. s # <<>> /\ s # q
  BY <1>1, <1>3
<1>7. s # Lost
  <2>1. Lost \in Seq(Letter) /\ Len(Lost) = 1 /\ Lost[1] = "?"
    <3>1. "?" \in Letter
      BY DEF Letter
    <3> QED
      BY <3>1 DEF Lost
  <2>2. ASSUME s = Lost PROVE FALSE
    <3>1. Len(q) = 0
      BY <1>1, <1>3, <2>1, <2>2
    <3>2. s[1] = "/"
      BY <1>4, <3>1
    <3> QED
      BY <2>1, <2>2, <3>2
  <2> QED
    BY <2>2
<1> QED
  BY <1>1, <1>3, <1>4, <1>5, <1>6, <1>7 DEF s, a, t, Step

(* What names are. *)
LEMMA NameLetters ==
    ASSUME NEW n \in Name \cup {<<"f">>}
    PROVE  n \in Seq(Letter) /\ n # <<>> /\ \A i \in 1..Len(n) : n[i] # "/"
<1>1. CASE n \in Name
  <2>1. n \in Seq(ToSet(n)) /\ n # <<>> /\ \A i \in DOMAIN n : n[i] # "/"
    BY <1>1, NameAssumption
  <2>2. ToSet(n) \subseteq Letter
    BY <1>1 DEF Letter
  <2>3. n \in Seq(Letter)
    BY <2>1, <2>2, SeqMonotonic
  <2> QED
    BY <2>1, <2>3
<1>2. CASE n = <<"f">>
  <2>1. "f" \in Letter /\ "f" # "/"
    BY DEF Letter
  <2>2. n \in Seq(Letter)
    BY <1>2, <2>1
  <2>3. Len(n) = 1 /\ n[1] = "f" /\ n # <<>>
    BY <1>2
  <2>4. \A i \in 1..Len(n) : i = 1
    BY <2>3
  <2> QED
    BY <2>1, <2>2, <2>3, <2>4
<1> QED
  BY <1>1, <1>2

(* The last name of a path and what is before it are its own. *)
LEMMA StepEqual ==
    ASSUME NEW q \in Seq(Letter), NEW r \in Seq(Letter),
           NEW m \in Name \cup {<<"f">>}, NEW n \in Name \cup {<<"f">>},
           Step(q, m) = Step(r, n)
    PROVE  q = r /\ m = n
<1> DEFINE s == Step(q, m)  t == Step(r, n)
<1>1. /\ m \in Seq(Letter) /\ \A i \in 1..Len(m) : m[i] # "/"
      /\ n \in Seq(Letter) /\ \A i \in 1..Len(n) : n[i] # "/"
  BY NameLetters
<1>2. /\ Len(s) = Len(q) + 1 + Len(m) /\ Len(q) \in Nat /\ Len(m) \in Nat
      /\ \A i \in 1..Len(q) : s[i] = q[i]
      /\ s[Len(q) + 1] = "/"
      /\ \A i \in 1..Len(m) : s[Len(q) + 1 + i] = m[i]
  BY <1>1, StepLetters, ZenonT(40)
<1>3. /\ Len(t) = Len(r) + 1 + Len(n) /\ Len(r) \in Nat /\ Len(n) \in Nat
      /\ \A i \in 1..Len(r) : t[i] = r[i]
      /\ t[Len(r) + 1] = "/"
      /\ \A i \in 1..Len(n) : t[Len(r) + 1 + i] = n[i]
  BY <1>1, StepLetters, ZenonT(40)
<1>4. s = t
  OBVIOUS
<1> HIDE DEF s, t
<1>5. ASSUME Len(q) < Len(r) PROVE FALSE
  <2>1. Len(r) - Len(q) \in 1..Len(m) /\ Len(q) + 1 + (Len(r) - Len(q)) = Len(r) + 1
    BY <1>2, <1>3, <1>4, <1>5
  <2>2. m[Len(r) - Len(q)] = "/"
    BY <1>2, <1>3, <1>4, <2>1
  <2> QED
    BY <1>1, <2>1, <2>2
<1>6. ASSUME Len(r) < Len(q) PROVE FALSE
  <2>1. Len(q) - Len(r) \in 1..Len(n) /\ Len(r) + 1 + (Len(q) - Len(r)) = Len(q) + 1
    BY <1>2, <1>3, <1>4, <1>6
  <2>2. n[Len(q) - Len(r)] = "/"
    BY <1>2, <1>3, <1>4, <2>1
  <2> QED
    BY <1>1, <2>1, <2>2
<1>7. Len(q) = Len(r) /\ Len(m) = Len(n)
  BY <1>2, <1>3, <1>4, <1>5, <1>6
<1>8. q = r
  <2>1. \A i \in 1..Len(q) : q[i] = r[i]
    BY <1>2, <1>3, <1>4, <1>7
  <2> QED
    BY <1>7, <2>1, SeqEqual
<1>9. m = n
  <2>1. \A i \in 1..Len(m) : m[i] = n[i]
    BY <1>2, <1>3, <1>4, <1>7
  <2> QED
    BY <1>1, <1>7, <2>1, SeqEqual
<1> QED
  BY <1>8, <1>9

(* What paths are. *)
LEMMA PathForms ==
    /\ PathForm \subseteq Seq(Letter) /\ <<>> \in PathForm /\ Lost \notin PathForm
    /\ \A q \in Seq(Letter), n \in Name : Step(q, n) \in PathForm
    /\ \A q \in Seq(Letter) : Step(q, <<"f">>) \notin PathForm
<1>1. \A q \in Seq(Letter), n \in Name : Step(q, n) \in PathForm
  BY DEF PathForm
<1>2. ASSUME NEW p \in PathForm PROVE p \in Seq(Letter) /\ p # Lost
  <2>1. CASE p = <<>>
    BY <2>1 DEF Lost
  <2>2. ASSUME NEW q \in Seq(Letter), NEW n \in Name, p = Step(q, n)
        PROVE  p \in Seq(Letter) /\ p # Lost
    BY <2>2, NameLetters, StepLetters
  <2> QED
    BY <2>1, <2>2 DEF PathForm
<1>3. ASSUME NEW q \in Seq(Letter), Step(q, <<"f">>) \in PathForm PROVE FALSE
  <2>1. Step(q, <<"f">>) # <<>>
    BY NameLetters, StepLetters
  <2>2. PICK r \in Seq(Letter), n \in Name : Step(q, <<"f">>) = Step(r, n)
    BY <1>3, <2>1 DEF PathForm
  <2>3. n = <<"f">>
    BY <2>2, StepEqual
  <2> QED
    BY <2>3, NameAssumption
<1>4. <<>> \in PathForm
  BY DEF PathForm
<1> QED
  BY <1>1, <1>2, <1>3, <1>4

(* A path that begins another one ends where a name of it ends. *)
LEMMA PrefixStep ==
    ASSUME Distinct, NEW p \in PathForm, NEW q \in Seq(Letter), NEW n \in Name,
           IsPrefix(p, Step(q, n))
    PROVE  p = Step(q, n) \/ IsPrefix(p, q)
<1> DEFINE s == Step(q, n)
<1>1. n \in Seq(Letter) /\ \A i \in 1..Len(n) : n[i] # "/"
  BY NameLetters
<1>2. /\ s \in Seq(Letter)
      /\ Len(s) = Len(q) + 1 + Len(n) /\ Len(q) \in Nat /\ Len(n) \in Nat
      /\ \A i \in 1..Len(q) : s[i] = q[i]
      /\ s[Len(q) + 1] = "/"
      /\ \A i \in 1..Len(n) : s[Len(q) + 1 + i] = n[i]
  BY <1>1, StepLetters
<1>3. p \in Seq(Letter) /\ Len(p) \in Nat
  BY PathForms
<1>4. IsPrefix(p, s)
  OBVIOUS
<1> HIDE DEF s
<1>5. Len(p) <= Len(s) /\ \A i \in 1..Len(p) : p[i] = s[i]
  BY <1>2, <1>3, <1>4, PrefixMeans
<1>6. CASE Len(p) <= Len(q)
  <2>1. \A i \in 1..Len(p) : p[i] = q[i]
    BY <1>2, <1>3, <1>5, <1>6
  <2> QED
    BY <1>3, <1>6, <2>1, PrefixMeans
<1>7. CASE Len(p) > Len(q)
  <2>1. p # <<>>
    BY <1>2, <1>7
  <2>2. PICK r \in Seq(Letter), m \in Name : p = Step(r, m)
    BY <2>1 DEF PathForm
  <2>3. m \in Seq(Letter) /\ \A i \in 1..Len(m) : m[i] # "/"
    BY NameLetters
  <2>4. /\ Len(p) = Len(r) + 1 + Len(m) /\ Len(r) \in Nat /\ Len(m) \in Nat
        /\ \A i \in 1..Len(r) : p[i] = r[i]
        /\ p[Len(r) + 1] = "/"
        /\ \A i \in 1..Len(m) : p[Len(r) + 1 + i] = m[i]
    BY <2>2, <2>3, StepLetters, ZenonT(40)
  <2>5. p[Len(q) + 1] = "/"
    <3>1. Len(q) + 1 \in 1..Len(p)
      BY <1>2, <1>3, <1>7
    <3> QED
      BY <1>2, <1>5, <3>1
  <2>6. ASSUME Len(r) < Len(q) PROVE FALSE
    <3>1. Len(q) - Len(r) \in 1..Len(m) /\ Len(r) + 1 + (Len(q) - Len(r)) = Len(q) + 1
      BY <1>2, <1>7, <2>4, <2>6
    <3>2. m[Len(q) - Len(r)] = "/"
      BY <2>4, <2>5, <3>1
    <3> QED
      BY <2>3, <3>1, <3>2
  <2>7. ASSUME Len(q) < Len(r) PROVE FALSE
    <3>1. Len(r) - Len(q) \in 1..Len(n) /\ Len(q) + 1 + (Len(r) - Len(q)) = Len(r) + 1
      BY <1>2, <1>5, <2>4, <2>7
    <3>2. Len(r) + 1 \in 1..Len(p)
      BY <2>4
    <3>3. n[Len(r) - Len(q)] = "/"
      BY <1>2, <1>5, <2>4, <3>1, <3>2, SMTT(40)
    <3> QED
      BY <1>1, <3>1, <3>3
  <2>8. Len(r) = Len(q)
    BY <1>2, <2>4, <2>6, <2>7
  <2>9. IsPrefix(m, n)
    <3>1. Len(m) <= Len(n)
      BY <1>2, <1>5, <2>4, <2>8
    <3>2. ASSUME NEW i \in 1..Len(m) PROVE m[i] = n[i]
      <4>1. Len(q) + 1 + i \in 1..Len(p) /\ i \in 1..Len(n)
        BY <1>2, <2>4, <2>8, <3>1
      <4> QED
        BY <1>2, <1>5, <2>4, <2>8, <4>1
    <3> QED
      BY <1>1, <2>3, <3>1, <3>2, PrefixMeans
  <2>10. m = n
    BY <2>9 DEF Distinct
  <2>11. p = s
    <3>1. Len(p) = Len(s)
      BY <1>2, <2>4, <2>8, <2>10
    <3> QED
      BY <1>2, <1>3, <1>5, <3>1, SeqEqual
  <2> QED
    BY <2>11 DEF s
<1> QED
  BY <1>2, <1>3, <1>6, <1>7

(* The beginning of a path is replaced. *)
LEMMA ShiftedRest ==
    ASSUME NEW o \in Seq(Letter), NEW n \in Seq(Letter), NEW q \in Seq(Letter), IsPrefix(o, q)
    PROVE  \E r \in Seq(Letter) : q = o \o r /\ Shifted(o, n, q) = n \o r
<1> DEFINE r == SubSeq(q, Len(o) + 1, Len(q))
<1>1. Len(o) \in Nat /\ Len(q) \in Nat /\ Len(o) <= Len(q) /\ \A i \in 1..Len(o) : o[i] = q[i]
  BY PrefixMeans
<1>2. /\ r \in Seq(Letter) /\ Len(r) = Len(q) - Len(o)
      /\ \A i \in 1..(Len(q) - Len(o)) : r[i] = q[Len(o) + i]
  BY <1>1
<1>3. Shifted(o, n, q) = n \o r
  BY DEF Shifted
<1> HIDE DEF r
<1>4. q = o \o r
  <2>1. /\ o \o r \in Seq(Letter) /\ Len(o \o r) = Len(o) + Len(r)
        /\ \A i \in 1..(Len(o) + Len(r)) : (o \o r)[i] = IF i <= Len(o) THEN o[i] ELSE r[i - Len(o)]
    BY <1>2, ConcatProperties
  <2>2. ASSUME NEW i \in 1..Len(q) PROVE (o \o r)[i] = q[i]
    <3>1. i \in 1..(Len(o) + Len(r))
      BY <1>1, <1>2
    <3>2. CASE i <= Len(o)
      BY <1>1, <2>1, <3>1, <3>2
    <3>3. CASE ~(i <= Len(o))
      <4>1. i - Len(o) \in 1..(Len(q) - Len(o)) /\ Len(o) + (i - Len(o)) = i
        BY <1>1, <3>3
      <4> QED
        BY <1>2, <2>1, <3>1, <3>3, <4>1
    <3> QED
      BY <3>2, <3>3
  <2>3. Len(o \o r) = Len(q)
    BY <1>1, <1>2, <2>1
  <2> QED
    BY <2>1, <2>2, <2>3, SeqEqual
<1> QED
  BY <1>2, <1>3, <1>4

(* So is that of all that continues it. *)
LEMMA ShiftedOn ==
    ASSUME NEW o \in Seq(Letter), NEW n \in Seq(Letter), NEW r \in Seq(Letter)
    PROVE  Shifted(o, n, o \o r) = n \o r
<1> DEFINE q == o \o r
<1>1. q \in Seq(Letter) /\ IsPrefix(o, q)
  BY PrefixOrder
<1>2. PICK t \in Seq(Letter) : q = o \o t /\ Shifted(o, n, q) = n \o t
  BY <1>1, ShiftedRest
<1>3. o \o r = o \o t
  BY <1>2
<1>4. r = t
  BY <1>3, ConcatSimplifications
<1> QED
  BY <1>2, <1>4

(* A path and that with one more name. *)
LEMMA StepFacts ==
    ASSUME NEW q \in Seq(Letter), NEW n \in Name \cup {<<"f">>}
    PROVE  /\ Step(q, n) \in Seq(Letter) /\ IsPrefix(q, Step(q, n)) /\ ~IsPrefix(Step(q, n), q)
           /\ Step(q, n) # <<>> /\ Step(q, n) # Lost /\ Step(q, n) # q
           /\ Join(q, n) = Step(q, n)
<1>1. n \in Seq(Letter) /\ n # <<>>
  BY NameLetters
<1>2. /\ Step(q, n) \in Seq(Letter) /\ IsPrefix(q, Step(q, n))
      /\ Step(q, n) # <<>> /\ Step(q, n) # Lost /\ Step(q, n) # q
  BY <1>1, StepLetters
<1>3. ~IsPrefix(Step(q, n), q)
  BY <1>2, PrefixOrder
<1>4. Join(q, n) = Step(q, n)
  BY <1>1 DEF Join, Step
<1> QED
  BY <1>2, <1>3, <1>4

(* A name is added at the end of the rest. *)
Reassociates(s, t, l, m) == ((s \o t) \o l) \o m = s \o ((t \o l) \o m)

(* Two ways to join four sequences. *)
LEMMA ConcatStep ==
    ASSUME NEW S, NEW s \in Seq(S), NEW t \in Seq(S), NEW l \in Seq(S), NEW m \in Seq(S)
    PROVE  Reassociates(s, t, l, m)
<1>1. (s \o t) \o l = s \o (t \o l) /\ t \o l \in Seq(S)
  BY ConcatAssociates
<1>2. (s \o (t \o l)) \o m = s \o ((t \o l) \o m)
  <2>1. PICK u \in Seq(S) : u = t \o l
    BY <1>1
  <2>2. (s \o u) \o m = s \o (u \o m)
    BY ConcatAssociates, SMTT(40)
  <2> QED
    BY <2>1, <2>2, Zenon
<1> QED
  BY <1>1, <1>2 DEF Reassociates

(* One more name goes to the end of the second of two parts. *)
LEMMA StepOfConcat ==
    ASSUME NEW q \in Seq(Letter), NEW r \in Seq(Letter), NEW m \in Seq(Letter)
    PROVE  Step(q \o r, m) = q \o Step(r, m)
<1>1. PICK slash : slash = <<"/">>
  OBVIOUS
<1>2. slash \in Seq(Letter)
  <2>1. "/" \in Letter
    BY DEF Letter
  <2> QED
    BY <1>1, <2>1
<1>3. Reassociates(q, r, slash, m)
  BY <1>2, ConcatStep
<1> QED
  BY <1>1, <1>3 DEF Step, Reassociates

(* A path that is replaced at its beginning, and one more name. *)
LEMMA ShiftedStep ==
    ASSUME NEW o \in Seq(Letter), NEW n \in Seq(Letter), NEW q \in Seq(Letter),
           NEW m \in Name \cup {<<"f">>}, IsPrefix(o, q)
    PROVE  Shifted(o, n, Step(q, m)) = Step(Shifted(o, n, q), m)
<1>1. PICK r \in Seq(Letter) : q = o \o r /\ Shifted(o, n, q) = n \o r
  BY ShiftedRest
<1>2. m \in Seq(Letter)
  BY NameLetters
<1>3. Step(q, m) = o \o Step(r, m) /\ Step(Shifted(o, n, q), m) = n \o Step(r, m)
  <2>1. Step(o \o r, m) = o \o Step(r, m)
    BY <1>2, StepOfConcat, ZenonT(40)
  <2>2. Step(n \o r, m) = n \o Step(r, m)
    BY <1>2, StepOfConcat, ZenonT(40)
  <2> QED
    BY <1>1, <2>1, <2>2
<1>4. Step(r, m) \in Seq(Letter)
  BY <1>2, StepLetters
<1>5. Shifted(o, n, o \o Step(r, m)) = n \o Step(r, m)
  BY <1>4, ShiftedOn
<1> QED
  BY <1>3, <1>5

(* What replacing the beginning keeps. *)
LEMMA ShiftedFacts ==
    ASSUME NEW o \in Seq(Letter), NEW n \in Seq(Letter), NEW q \in Seq(Letter)
    PROVE  /\ Shifted(o, n, q) \in Seq(Letter) /\ Shifted(o, n, o) = n
           /\ IsPrefix(o, q) => IsPrefix(n, Shifted(o, n, q))
           /\ ~IsPrefix(o, q) => Shifted(o, n, q) = q
           /\ \A p \in Seq(Letter) :
                 IsPrefix(o, q) /\ IsPrefix(o, p) /\ Shifted(o, n, p) = Shifted(o, n, q) => p = q
<1>1. ASSUME IsPrefix(o, q) PROVE Shifted(o, n, q) \in Seq(Letter) /\ IsPrefix(n, Shifted(o, n, q))
  <2>1. PICK r \in Seq(Letter) : q = o \o r /\ Shifted(o, n, q) = n \o r
    BY <1>1, ShiftedRest
  <2>2. n \o r \in Seq(Letter)
    OBVIOUS
  <2> QED
    BY <2>1, <2>2, PrefixOrder
<1>2. ~IsPrefix(o, q) => Shifted(o, n, q) = q
  BY DEF Shifted
<1>3. Shifted(o, n, o) = n
  <2> DEFINE e == <<>>
  <2>1. e \in Seq(Letter) /\ o \o e = o /\ n \o e = n
    BY ConcatEmptySeq
  <2> HIDE DEF e
  <2>2. Shifted(o, n, o \o e) = n \o e
    BY <2>1, ShiftedOn
  <2> QED
    BY <2>1, <2>2
<1>4. ASSUME NEW p \in Seq(Letter), IsPrefix(o, q), IsPrefix(o, p), Shifted(o, n, p) = Shifted(o, n, q)
      PROVE  p = q
  <2>1. PICK r \in Seq(Letter) : q = o \o r /\ Shifted(o, n, q) = n \o r
    BY <1>4, ShiftedRest, ZenonT(40)
  <2>2. PICK t \in Seq(Letter) : p = o \o t /\ Shifted(o, n, p) = n \o t
    BY <1>4, ShiftedRest, ZenonT(40)
  <2>3. n \o t = n \o r
    BY <1>4, <2>1, <2>2
  <2>4. t = r
    BY <2>3, ConcatSimplifications
  <2> QED
    BY <2>1, <2>2, <2>4
<1> QED
  BY <1>1, <1>2, <1>3, <1>4

(* It is a whole path again. *)
LEMMA ShiftedForm ==
    ASSUME Distinct, NEW o \in PathForm, NEW n \in PathForm, NEW q \in PathForm
    PROVE  Shifted(o, n, q) \in PathForm
<1>1. o \in Seq(Letter) /\ n \in Seq(Letter) /\ q \in Seq(Letter)
  BY PathForms
<1>2. CASE o = q
  BY <1>1, <1>2, ShiftedFacts
<1>3. CASE ~IsPrefix(o, q)
  BY <1>1, <1>3, ShiftedFacts
<1>4. CASE IsPrefix(o, q) /\ o # q
  <2>1. q # <<>>
    BY <1>1, <1>4, PrefixOrder
  <2>2. PICK r \in Seq(Letter), m \in Name : q = Step(r, m)
    BY <2>1 DEF PathForm
  <2>3. IsPrefix(o, r)
    BY <1>4, <2>2, PrefixStep
  <2>4. Shifted(o, n, q) = Step(Shifted(o, n, r), m)
    BY <1>1, <2>2, <2>3, ShiftedStep
  <2>5. Shifted(o, n, r) \in Seq(Letter)
    BY <1>1, ShiftedFacts
  <2> QED
    BY <2>4, <2>5, PathForms
<1> QED
  BY <1>2, <1>3, <1>4

(***************************************************************************)
(* The tree: what PathOf computes, whatever its depth, and which paths     *)
(* change when a folder is hung elsewhere.                                 *)
(***************************************************************************)
Dirs == Folder \cup {Top}
Places == Folder \cup {Top, Out, Gone}

(* A tree: no folder is in itself, and none of a folder has the name of another. *)
IsTree(u, n) ==
    /\ u \in [Folder -> Places] /\ n \in [Folder -> Name \cup {<<>>}]
    /\ \A d \in Folder : u[d] # Gone => n[d] \in Name
    /\ \A d \in Folder : u[d] \in Folder => u[u[d]] # Gone
    /\ \A d, e \in Folder : u[d] = u[e] /\ u[d] # Gone /\ n[d] = n[e] => d = e
    /\ \A S \in SUBSET Folder : S # {} => \E d \in S : u[d] \notin S

(* The path of a folder, given those of what it may be in. *)
PathIn(u, n, p, d) == IF p[u[d]] = Lost THEN Lost ELSE Step(p[u[d]], n[d])

Closed(u, S) == S \in SUBSET Folder /\ \A d \in S : u[d] \in S \cup {Top, Out, Gone}

Solves(u, n, S, p) ==
    /\ p \in [Places -> Seq(Letter)]
    /\ p[Top] = <<>> /\ p[Out] = Lost /\ p[Gone] = Lost
    /\ \A d \in S : p[d] = PathIn(u, n, p, d)
(* The places are different. *)
LEMMA PlacesDiffer ==
    /\ Top \notin Folder /\ Out \notin Folder /\ Gone \notin Folder
    /\ Top # Out /\ Top # Gone /\ Out # Gone /\ Lost # <<>> /\ Lost \in Seq(Letter)
<1>1. Top # Out /\ Top # Gone /\ Out # Gone
  BY DEF Top, Out, Gone
<1>2. Lost # <<>> /\ Lost \in Seq(Letter)
  <2>1. "?" \in Letter
    BY DEF Letter
  <2> QED
    BY <2>1 DEF Lost
<1> QED
  BY <1>1, <1>2, FolderAssumption

(* A path in a tree is made of letters. *)
LEMMA PathInLetters ==
    ASSUME NEW u, NEW n, IsTree(u, n), NEW p \in [Places -> Seq(Letter)], NEW d \in Folder
    PROVE  PathIn(u, n, p, d) \in Seq(Letter) /\ u[d] \in Places
<1>1. u[d] \in Places /\ p[u[d]] \in Seq(Letter)
  BY DEF IsTree
<1>2. n[d] \in Seq(Letter)
  <2>1. n[d] \in Name \cup {<<>>}
    BY DEF IsTree
  <2>2. <<>> \in Seq(Letter)
    OBVIOUS
  <2> QED
    BY <2>1, <2>2, NameLetters
<1>3. Step(p[u[d]], n[d]) \in Seq(Letter)
  BY <1>1, <1>2, StepLetters
<1> QED
  BY <1>1, <1>3, PlacesDiffer DEF PathIn

(* Two solutions agree where both are. *)
LEMMA SolutionsAgree ==
    ASSUME NEW u, NEW n, IsTree(u, n), NEW S, NEW T, Closed(u, S), Closed(u, T),
           NEW p, NEW g, Solves(u, n, S, p), Solves(u, n, T, g)
    PROVE  \A d \in S \cap T : p[d] = g[d]
<1> DEFINE B == {d \in S \cap T : p[d] # g[d]}
<1> SUFFICES ASSUME B # {} PROVE FALSE
  OBVIOUS
<1>1. B \in SUBSET Folder
  BY DEF Closed
<1>2. PICK d \in B : u[d] \notin B
  <2> HIDE DEF B
  <2> QED
    BY <1>1 DEF IsTree
<1>3. d \in S /\ d \in T /\ p[d] # g[d]
  OBVIOUS
<1>4. u[d] \in S \cup {Top, Out, Gone} /\ u[d] \in T \cup {Top, Out, Gone}
  BY <1>3 DEF Closed
<1>5. p[u[d]] = g[u[d]]
  <2>1. CASE u[d] \in {Top, Out, Gone}
    BY <2>1 DEF Solves
  <2>2. CASE u[d] \in S \cap T
    BY <1>2, <2>2
  <2> QED
    BY <1>4, <2>1, <2>2, PlacesDiffer DEF Closed
<1>6. p[d] = PathIn(u, n, p, d) /\ g[d] = PathIn(u, n, g, d)
  BY <1>3 DEF Solves
<1> QED
  BY <1>3, <1>5, <1>6 DEF PathIn

(* Every folder has a solution for itself and what it is in. *)
LEMMA SolvableBelow ==
    ASSUME NEW u, NEW n, IsTree(u, n), NEW d \in Folder
    PROVE  \E S \in SUBSET Folder, p \in [Places -> Seq(Letter)] : d \in S /\ Closed(u, S) /\ Solves(u, n, S, p)
<1> DEFINE Good(e) == \E S \in SUBSET Folder, p \in [Places -> Seq(Letter)] :
                          e \in S /\ Closed(u, S) /\ Solves(u, n, S, p)
           B == {e \in Folder : ~Good(e)}
<1> SUFFICES ASSUME B # {} PROVE FALSE
  OBVIOUS
<1>1. PICK e \in B : u[e] \notin B
  <2>1. B \in SUBSET Folder
    OBVIOUS
  <2> HIDE DEF B
  <2> QED
    BY <2>1 DEF IsTree
<1>2. e \in Folder /\ u[e] \in Places /\ ~Good(e)
  BY DEF IsTree
<1>3. PICK S \in SUBSET Folder, p \in [Places -> Seq(Letter)] :
          Closed(u, S) /\ Solves(u, n, S, p) /\ u[e] \in S \cup {Top, Out, Gone}
  <2>1. CASE u[e] \in Folder
    <3>1. Good(u[e])
      BY <1>1, <2>1
    <3> QED
      BY <3>1
  <2>2. CASE u[e] \in {Top, Out, Gone}
    <3> DEFINE p == [x \in Places |-> IF x = Top THEN <<>> ELSE Lost]
    <3>1. \A x \in Places : p[x] = IF x = Top THEN <<>> ELSE Lost
      OBVIOUS
    <3>2. p \in [Places -> Seq(Letter)]
      <4>1. <<>> \in Seq(Letter) /\ Lost \in Seq(Letter)
        BY PlacesDiffer
      <4> QED
        BY <4>1
    <3>3. Top \in Places /\ Out \in Places /\ Gone \in Places
      BY DEF Places
    <3> HIDE DEF p
    <3>4. Solves(u, n, {}, p) /\ Closed(u, {})
      BY <3>1, <3>2, <3>3, PlacesDiffer DEF Solves, Closed
    <3> QED
      BY <2>2, <3>2, <3>4
  <2> QED
    BY <1>2, <2>1, <2>2 DEF Places
<1>4. e \notin S
  BY <1>2, <1>3
<1> DEFINE v == PathIn(u, n, p, e)  q == [x \in Places |-> IF x = e THEN v ELSE p[x]]
<1>5. v \in Seq(Letter)
  BY <1>2, PathInLetters
<1>6. e \in Places /\ e # Top /\ e # Out /\ e # Gone
  BY <1>2, PlacesDiffer DEF Places
<1>7. q \in [Places -> Seq(Letter)] /\ q[e] = v /\ \A x \in Places : x # e => q[x] = p[x]
  <2> HIDE DEF v
  <2> QED
    BY <1>5, <1>6
<1> HIDE DEF q
<1>8. u[e] # e
  BY <1>3, <1>4, <1>6
<1>9. Closed(u, S \cup {e})
  BY <1>2, <1>3 DEF Closed
<1>10. ASSUME NEW x \in S \cup {e} PROVE q[x] = PathIn(u, n, q, x)
  <2>1. CASE x = e
    <3>1. q[u[e]] = p[u[e]]
      BY <1>2, <1>7, <1>8
    <3> QED
      BY <1>7, <2>1, <3>1 DEF PathIn
  <2>2. CASE x # e
    <3>1. x \in S /\ x \in Places /\ u[x] \in S \cup {Top, Out, Gone} /\ u[x] \in Places
      BY <1>3, <1>10, <2>2 DEF Closed, Places
    <3>2. u[x] # e
      BY <1>4, <1>6, <3>1
    <3>3. p[x] = PathIn(u, n, p, x)
      BY <1>3, <3>1 DEF Solves
    <3> QED
      BY <1>7, <2>2, <3>1, <3>2, <3>3 DEF PathIn
  <2> QED
    BY <2>1, <2>2
<1>11. Solves(u, n, S \cup {e}, q)
  <2>1. q[Top] = <<>> /\ q[Out] = Lost /\ q[Gone] = Lost
    BY <1>3, <1>6, <1>7 DEF Solves, Places
  <2> QED
    BY <1>7, <1>10, <2>1 DEF Solves
<1>12. S \cup {e} \in SUBSET Folder
  BY <1>2
<1> QED
  BY <1>2, <1>7, <1>9, <1>11, <1>12

(* The paths of a tree are what their definition says. *)
LEMMA PathsSolve ==
    ASSUME NEW u, NEW n, IsTree(u, n)
    PROVE  Solves(u, n, Folder, PathOf(u, n))
<1> DEFINE Good(e, S, p) == e \in S /\ Closed(u, S) /\ Solves(u, n, S, p)
           Body(p) == [d \in Places |-> IF d = Top THEN <<>>
                                        ELSE IF d \in {Out, Gone} \/ p[u[d]] = Lost THEN Lost
                                        ELSE p[u[d]] \o <<"/">> \o n[d]]
           sol == [e \in Folder |-> CHOOSE p \in [Places -> Seq(Letter)] : \E S \in SUBSET Folder : Good(e, S, p)]
           f == [d \in Places |-> IF d = Top THEN <<>> ELSE IF d \in {Out, Gone} THEN Lost ELSE sol[d][d]]
<1>1. PathOf(u, n) = CHOOSE p : p = Body(p)
  BY DEF PathOf, Places
<1>3. ASSUME NEW p, Solves(u, n, Folder, p) PROVE p = Body(p)
  <2>1. p = [d \in Places |-> p[d]]
    BY <1>3 DEF Solves
  <2>2. ASSUME NEW d \in Places PROVE p[d] = Body(p)[d]
    <3>1. CASE d \in {Top, Out, Gone}
      BY <1>3, <3>1, PlacesDiffer DEF Solves
    <3>2. CASE d \in Folder
      <4>1. d # Top /\ d \notin {Out, Gone}
        BY <3>2, PlacesDiffer
      <4>2. p[d] = PathIn(u, n, p, d)
        BY <1>3, <3>2 DEF Solves
      <4> QED
        BY <4>1, <4>2 DEF PathIn, Step
    <3> QED
      BY <3>1, <3>2 DEF Places
  <2> QED
    BY <2>1, <2>2
<1>4. ASSUME NEW e \in Folder PROVE sol[e] \in [Places -> Seq(Letter)] /\ \E S \in SUBSET Folder : Good(e, S, sol[e])
  <2>1. \E p \in [Places -> Seq(Letter)] : \E S \in SUBSET Folder : Good(e, S, p)
    BY SolvableBelow
  <2>2. sol[e] = CHOOSE p \in [Places -> Seq(Letter)] : \E S \in SUBSET Folder : Good(e, S, p)
    OBVIOUS
  <2> HIDE DEF Good, sol
  <2> QED
    BY <2>1, <2>2
<1> HIDE DEF sol
<1>5. ASSUME NEW d \in Folder PROVE f[d] = sol[d][d]
  BY <1>5, PlacesDiffer DEF Places
<1>6. f[Top] = <<>> /\ f[Out] = Lost /\ f[Gone] = Lost
  BY PlacesDiffer DEF Places
<1>7. f \in [Places -> Seq(Letter)]
  <2>1. <<>> \in Seq(Letter) /\ Lost \in Seq(Letter)
    BY PlacesDiffer
  <2>2. \A d \in Folder : d \in Places /\ sol[d][d] \in Seq(Letter)
    BY <1>4 DEF Places
  <2>3. \A d \in Places : d = Top \/ d \in {Out, Gone} \/ d \in Folder
    BY DEF Places
  <2> QED
    BY <2>1, <2>2, <2>3
<1> HIDE DEF f
<1>8. ASSUME NEW d \in Folder PROVE f[d] = PathIn(u, n, f, d)
  <2>1. PICK S \in SUBSET Folder : Good(d, S, sol[d])
    BY <1>4
  <2>2. sol[d][d] = PathIn(u, n, sol[d], d)
    BY <2>1 DEF Solves
  <2>3. f[u[d]] = sol[d][u[d]]
    <3>1. CASE u[d] \in {Top, Out, Gone}
      BY <1>6, <2>1, <3>1 DEF Solves
    <3>2. CASE u[d] \in S
      <4>1. u[d] \in Folder
        BY <3>2
      <4>2. PICK T \in SUBSET Folder : Good(u[d], T, sol[u[d]])
        BY <1>4, <4>1
      <4>3. sol[u[d]][u[d]] = sol[d][u[d]]
        BY <2>1, <3>2, <4>2, SolutionsAgree
      <4> QED
        BY <1>5, <4>1, <4>3
    <3> QED
      BY <2>1, <3>1, <3>2 DEF Closed
  <2> QED
    BY <1>5, <2>2, <2>3 DEF PathIn
<1>9. Solves(u, n, Folder, f)
  BY <1>6, <1>7, <1>8 DEF Solves
<1>10. f = Body(f)
  BY <1>3, <1>9
<1> DEFINE q == CHOOSE p : p = Body(p)
<1>11. q = Body(q)
  <2> HIDE DEF Body
  <2> QED
    BY <1>10
<1> QED
  <2>1. \A d \in Folder : q[d] = PathIn(u, n, q, d)
    <3> TAKE d \in Folder
    <3>1. d \in Places /\ d # Top /\ d \notin {Out, Gone}
      BY PlacesDiffer DEF Places
    <3> HIDE DEF q
    <3> QED
      BY <1>11, <3>1 DEF PathIn, Step
  <2>2. q[Top] = <<>> /\ q[Out] = Lost /\ q[Gone] = Lost
    <3> HIDE DEF q
    <3> QED
      BY <1>11, PlacesDiffer DEF Places
  <2>3. q = [d \in Places |-> q[d]]
    <3> HIDE DEF q
    <3> QED
      BY <1>11
  <2> HIDE DEF q, Body
  <2>4. ASSUME NEW d \in Folder PROVE q[d] = f[d]
    <3> DEFINE B == {e \in Folder : q[e] # f[e]}
    <3> SUFFICES ASSUME B # {} PROVE FALSE
      OBVIOUS
    <3>1. PICK e \in B : u[e] \notin B
      <4>1. B \in SUBSET Folder
        OBVIOUS
      <4> HIDE DEF B
      <4> QED
        BY <4>1 DEF IsTree
    <3>2. u[e] \in Places
      BY DEF IsTree
    <3>3. q[u[e]] = f[u[e]]
      BY <1>6, <2>2, <3>1, <3>2 DEF Places
    <3> QED
      BY <1>8, <2>1, <3>1, <3>3 DEF PathIn
  <2>5. \A d \in Places : q[d] = f[d]
    BY <1>6, <2>2, <2>4 DEF Places
  <2>6. q = f
    BY <1>7, <2>3, <2>5
  <2> QED
    BY <1>1, <1>9, <2>6 DEF q

(* What solves a tree are its paths. *)
LEMMA PathsUnique ==
    ASSUME NEW u, NEW n, IsTree(u, n), NEW g, Solves(u, n, Folder, g), NEW d \in Places
    PROVE  PathOf(u, n)[d] = g[d]
<1>1. Solves(u, n, Folder, PathOf(u, n))
  BY PathsSolve
<1>2. Closed(u, Folder)
  BY DEF IsTree, Closed, Places
<1>3. \A e \in Folder : PathOf(u, n)[e] = g[e]
  BY <1>1, <1>2, SolutionsAgree
<1> QED
  BY <1>1, <1>3 DEF Solves, Places

(* The path of a folder is that of what it is in, and its name; it has none if
   that has none. *)
LEMMA PathsAre ==
    ASSUME NEW u, NEW n, IsTree(u, n), NEW p, p = PathOf(u, n)
    PROVE  /\ p[Top] = <<>> /\ p[Out] = Lost /\ p[Gone] = Lost
           /\ \A d \in Places : p[d] \in PathForm \cup {Lost}
           /\ \A d \in Folder : u[d] \in Places /\ (p[d] = Lost <=> p[u[d]] = Lost)
           /\ \A d \in Folder : p[d] # Lost =>
                 /\ u[d] \in Dirs /\ n[d] \in Name /\ p[u[d]] \in PathForm /\ p[u[d]] # Lost
                 /\ p[d] = Step(p[u[d]], n[d]) /\ p[d] # <<>>
<1>1. Solves(u, n, Folder, p)
  BY PathsSolve
<1>2. p[Top] = <<>> /\ p[Out] = Lost /\ p[Gone] = Lost /\ p \in [Places -> Seq(Letter)]
  BY <1>1 DEF Solves
<1>3. ASSUME NEW d \in Folder
      PROVE  /\ u[d] \in Places /\ (p[d] = Lost <=> p[u[d]] = Lost)
             /\ p[d] # Lost => /\ u[d] \in Dirs /\ n[d] \in Name /\ p[u[d]] # Lost
                               /\ p[d] = Step(p[u[d]], n[d]) /\ p[d] # <<>> /\ p[d] \in PathForm
  <2>1. u[d] \in Places /\ p[d] = PathIn(u, n, p, d) /\ p[u[d]] \in Seq(Letter)
    BY <1>1, <1>2 DEF Solves, IsTree
  <2>2. CASE p[u[d]] = Lost
    BY <2>1, <2>2 DEF PathIn
  <2>3. CASE p[u[d]] # Lost
    <3>1. u[d] \in Dirs /\ u[d] # Gone
      BY <1>2, <2>1, <2>3 DEF Places, Dirs
    <3>2. n[d] \in Name
      BY <3>1 DEF IsTree
    <3>3. p[d] = Step(p[u[d]], n[d])
      BY <2>1, <2>3 DEF PathIn
    <3>4. p[d] # <<>> /\ p[d] # Lost /\ p[d] \in PathForm
      <4>1. n[d] \in Name \cup {<<"f">>}
        BY <3>2
      <4>2. Step(p[u[d]], n[d]) # <<>> /\ Step(p[u[d]], n[d]) # Lost
        BY <2>1, <4>1, StepFacts
      <4>3. Step(p[u[d]], n[d]) \in PathForm
        BY <2>1, <3>2, PathForms
      <4> QED
        BY <3>3, <4>2, <4>3
    <3> QED
      BY <2>1, <2>3, <3>1, <3>2, <3>3, <3>4
  <2> QED
    BY <2>2, <2>3
<1>4. ASSUME NEW d \in Places PROVE p[d] \in PathForm \cup {Lost}
  <2>1. CASE d \in {Top, Out, Gone}
    BY <1>2, <2>1, PathForms
  <2>2. CASE d \in Folder
    BY <1>3, <2>2
  <2> QED
    BY <2>1, <2>2 DEF Places
<1>5. \A d \in Folder : p[d] # Lost => p[u[d]] \in PathForm
  BY <1>3, <1>4
<1> QED
  BY <1>2, <1>3, <1>4, <1>5

(* A property of folders holds for all if it goes from what holds a folder to
   the folder: there is no first folder that lacks it. *)
LEMMA FirstFolder ==
    ASSUME NEW u, NEW n, IsTree(u, n), NEW B \in SUBSET Folder, B # {}
    PROVE  \E d \in B : u[d] \notin B
BY DEF IsTree

(* Folders have paths of their own. *)
LEMMA PathsDiffer ==
    ASSUME NEW u, NEW n, IsTree(u, n), NEW p, p = PathOf(u, n),
           NEW d \in Dirs, NEW e \in Dirs, p[d] # Lost, p[d] = p[e]
    PROVE  d = e
<1> DEFINE B == {x \in Folder : p[x] # Lost /\ \E y \in Dirs : p[y] = p[x] /\ y # x}
<1>1. ASSUME B # {} PROVE FALSE
  <2>1. PICK x \in B : u[x] \notin B
    <3>1. B \in SUBSET Folder
      OBVIOUS
    <3> HIDE DEF B
    <3> QED
      BY <1>1, <3>1, FirstFolder
  <2>2. PICK y \in Dirs : p[y] = p[x] /\ y # x
    BY <2>1
  <2>3. x \in Folder /\ p[x] # Lost
    BY <2>1
  <2>4. /\ u[x] \in Dirs /\ n[x] \in Name /\ p[u[x]] \in PathForm /\ p[u[x]] # Lost
        /\ p[x] = Step(p[u[x]], n[x]) /\ p[x] # <<>>
    BY <2>3, PathsAre
  <2>5. y \in Folder
    BY <2>2, <2>4, PathsAre DEF Dirs
  <2>6. /\ u[y] \in Dirs /\ n[y] \in Name /\ p[u[y]] \in PathForm /\ p[u[y]] # Lost
        /\ p[y] = Step(p[u[y]], n[y])
    BY <2>2, <2>3, <2>5, PathsAre
  <2>7. p[u[x]] = p[u[y]] /\ n[x] = n[y]
    <3>1. p[u[x]] \in Seq(Letter) /\ p[u[y]] \in Seq(Letter)
      BY <2>4, <2>6, PathForms
    <3>2. Step(p[u[x]], n[x]) = Step(p[u[y]], n[y])
      BY <2>2, <2>4, <2>6
    <3> QED
      BY <2>4, <2>6, <3>1, <3>2, StepEqual
  <2>8. u[x] = u[y]
    <3>1. CASE u[x] \in Folder
      BY <2>1, <2>4, <2>6, <2>7, <3>1
    <3>2. CASE u[x] = Top
      <4>1. p[u[y]] = <<>>
        BY <2>7, <3>2, PathsAre
      <4>2. u[y] \notin Folder
        BY <2>6, <4>1, PathsAre
      <4> QED
        BY <2>6, <3>2, <4>2 DEF Dirs
    <3> QED
      BY <2>4, <3>1, <3>2 DEF Dirs
  <2>9. u[x] # Gone
    BY <2>4, PlacesDiffer DEF Dirs
  <2> QED
    BY <2>2, <2>3, <2>5, <2>7, <2>8, <2>9 DEF IsTree
<1>2. CASE d \in Folder
  BY <1>1, <1>2
<1>3. CASE e \in Folder
  BY <1>1, <1>3
<1> QED
  BY <1>2, <1>3 DEF Dirs

(* Wherever the path of a folder comes by, there is a folder. *)
LEMMA PathAbove ==
    ASSUME Distinct, NEW u, NEW n, IsTree(u, n), NEW p, p = PathOf(u, n),
           NEW q \in PathForm, NEW d \in Dirs, p[d] # Lost, IsPrefix(q, p[d])
    PROVE  \E e \in Dirs : p[e] = q
<1> DEFINE Met == \E e \in Dirs : p[e] = q
           B == {x \in Folder : p[x] # Lost /\ IsPrefix(q, p[x])}
<1> SUFFICES ASSUME ~Met PROVE FALSE
  OBVIOUS
<1>0. q # <<>>
  BY PathsAre DEF Dirs
<1>1. q \in Seq(Letter)
  BY PathForms
<1>2. d \in B
  <2>1. d # Top
    BY <1>0, <1>1, PathsAre, PrefixOrder
  <2> QED
    BY <2>1 DEF Dirs
<1>3. PICK x \in B : u[x] \notin B
  <2>1. B \in SUBSET Folder
    OBVIOUS
  <2> HIDE DEF B
  <2> QED
    BY <1>2, <2>1, FirstFolder
<1>4. x \in Folder /\ p[x] # Lost /\ IsPrefix(q, p[x])
  BY <1>3
<1>5. /\ u[x] \in Dirs /\ n[x] \in Name /\ p[u[x]] \in PathForm /\ p[u[x]] # Lost
      /\ p[x] = Step(p[u[x]], n[x])
  BY <1>4, PathsAre
<1>6. p[u[x]] \in Seq(Letter)
  BY <1>5, PathForms
<1>7. q = p[x] \/ IsPrefix(q, p[u[x]])
  BY <1>4, <1>5, <1>6, PrefixStep
<1>8. q # p[x]
  BY <1>4 DEF Dirs
<1>9. u[x] # Top
  BY <1>0, <1>1, <1>7, <1>8, PathsAre, PrefixOrder
<1> QED
  BY <1>3, <1>5, <1>7, <1>8, <1>9 DEF Dirs

(* On the way from a folder to one below it comes a child of the first. *)
LEMMA PathBetween ==
    ASSUME Distinct, NEW u, NEW n, IsTree(u, n), NEW p, p = PathOf(u, n),
           NEW e \in Dirs, NEW d \in Dirs, p[d] # Lost, IsPrefix(p[e], p[d]), p[e] # Lost, d # e
    PROVE  \E c \in Folder : u[c] = e /\ p[c] # Lost /\ IsPrefix(p[c], p[d])
<1> DEFINE Met(x) == \E c \in Folder : u[c] = e /\ p[c] # Lost /\ IsPrefix(p[c], p[x])
           B == {x \in Folder : p[x] # Lost /\ IsPrefix(p[e], p[x]) /\ x # e /\ ~Met(x)}
<1> SUFFICES ASSUME ~Met(d) PROVE FALSE
  OBVIOUS
<1>1. p[e] \in PathForm /\ p[e] \in Seq(Letter)
  <2>1. e \in Places
    BY DEF Dirs, Places
  <2>2. p[e] \in PathForm
    BY <2>1, PathsAre
  <2> QED
    BY <2>2, PathForms
<1>2. ASSUME NEW x \in Dirs, IsPrefix(p[e], p[x]), x = Top PROVE e = Top
  <2>1. p[e] = <<>> /\ p[Top] = <<>>
    BY <1>1, <1>2, PathsAre, PrefixOrder
  <2> QED
    BY <2>1, PathsAre DEF Dirs
<1>3. d \in B
  BY <1>2 DEF Dirs
<1>4. PICK x \in B : u[x] \notin B
  <2>1. B \in SUBSET Folder
    OBVIOUS
  <2> HIDE DEF B
  <2> QED
    BY <1>3, <2>1, FirstFolder
<1>5. x \in Folder /\ p[x] # Lost /\ IsPrefix(p[e], p[x]) /\ x # e /\ ~Met(x)
  BY <1>4
<1>6. /\ u[x] \in Dirs /\ n[x] \in Name /\ p[u[x]] \in PathForm /\ p[u[x]] # Lost
      /\ p[x] = Step(p[u[x]], n[x])
  BY <1>5, PathsAre
<1>7. p[u[x]] \in Seq(Letter) /\ p[x] \in Seq(Letter)
  <2>1. p[u[x]] \in Seq(Letter)
    BY <1>6, PathForms
  <2>2. Step(p[u[x]], n[x]) \in Seq(Letter)
    BY <1>6, <2>1, StepFacts
  <2> QED
    BY <1>6, <2>1, <2>2
<1>8. p[e] # p[x]
  <2>1. x \in Dirs
    BY <1>5 DEF Dirs
  <2> QED
    BY <1>5, <2>1, PathsDiffer
<1>9. IsPrefix(p[e], p[u[x]])
  BY <1>1, <1>5, <1>6, <1>7, <1>8, PrefixStep
<1>10. u[x] # e
  BY <1>5, <1>7, PrefixOrder
<1>11. u[x] \in Folder
  BY <1>2, <1>6, <1>9, <1>10 DEF Dirs
<1>12. Met(u[x])
  BY <1>4, <1>6, <1>9, <1>10, <1>11
<1>13. PICK c \in Folder : u[c] = e /\ p[c] # Lost /\ IsPrefix(p[c], p[u[x]])
  BY <1>12
<1>14. p[c] \in Seq(Letter)
  <2>1. c \in Places
    BY DEF Places
  <2> QED
    BY <1>13, <2>1, PathsAre, PathForms
<1>15. IsPrefix(p[u[x]], p[x])
  BY <1>6, <1>7, StepFacts
<1>16. IsPrefix(p[c], p[x])
  BY <1>7, <1>13, <1>14, <1>15, PrefixOrder
<1> QED
  BY <1>5, <1>13, <1>16

(* A folder is put under another one, or taken out, with a name there. *)
Rehangs(u, n, w, k, d, v, m) ==
    /\ w = [u EXCEPT ![d] = v] /\ k = [n EXCEPT ![d] = m]

(* It remains a tree if the folder has not been put below itself. *)
LEMMA TreeRehung ==
    ASSUME NEW u, NEW n, IsTree(u, n), NEW w, NEW k, NEW d \in Folder, NEW v \in Places, NEW m,
           Rehangs(u, n, w, k, d, v, m), NEW p, p = PathOf(u, n),
           IF v = Gone THEN m = <<>> /\ \A e \in Folder : u[e] # d
                       ELSE m \in Name /\ \A e \in Folder : u[e] = v => n[e] # m,
           v \in Folder => p[v] # Lost /\ (p[d] = Lost \/ ~IsPrefix(p[d], p[v]))
    PROVE  IsTree(w, k)
<1>1. /\ u \in [Folder -> Places] /\ n \in [Folder -> Name \cup {<<>>}]
      /\ \A x \in Folder : u[x] # Gone => n[x] \in Name
      /\ \A x \in Folder : u[x] \in Folder => u[u[x]] # Gone
      /\ \A x, y \in Folder : u[x] = u[y] /\ u[x] # Gone /\ n[x] = n[y] => x = y
  BY DEF IsTree
<1>2. /\ w \in [Folder -> Places] /\ k \in [Folder -> Name \cup {<<>>}]
      /\ w[d] = v /\ k[d] = m /\ \A x \in Folder : x # d => w[x] = u[x] /\ k[x] = n[x]
  <2>1. m \in Name \cup {<<>>}
    OBVIOUS
  <2> QED
    BY <1>1, <2>1 DEF Rehangs
<1>3. ASSUME v \in Folder PROVE v # d /\ u[v] # Gone
  <2>1. p[v] # Lost /\ p[v] \in PathForm
    BY <1>3, PathsAre
  <2>2. p[v] \in Seq(Letter)
    BY <2>1, PathForms
  <2>3. IsPrefix(p[v], p[v])
    BY <2>2, PrefixOrder
  <2>4. u[v] # Gone
    BY <1>3, <2>1, PathsAre
  <2> QED
    BY <1>3, <2>1, <2>3, <2>4
<1>4. \A x \in Folder : w[x] # Gone => k[x] \in Name
  BY <1>1, <1>2
<1>5. ASSUME NEW x \in Folder, w[x] \in Folder PROVE w[w[x]] # Gone
  <2>1. CASE x = d
    BY <1>2, <1>3, <1>5, <2>1
  <2>2. CASE x # d
    <3>1. w[x] = u[x] /\ u[u[x]] # Gone
      BY <1>1, <1>2, <1>5, <2>2
    <3>2. u[x] = d => v # Gone
      BY <1>5
    <3> QED
      BY <1>2, <1>5, <3>1, <3>2
  <2> QED
    BY <2>1, <2>2
<1>6. ASSUME NEW x \in Folder, NEW y \in Folder, w[x] = w[y], w[x] # Gone, k[x] = k[y] PROVE x = y
  <2>1. CASE x # d /\ y # d
    BY <1>1, <1>2, <1>6, <2>1
  <2>2. CASE x = d /\ y # d
    BY <1>1, <1>2, <1>6, <2>2
  <2>3. CASE y = d /\ x # d
    BY <1>1, <1>2, <1>6, <2>3
  <2> QED
    BY <2>1, <2>2, <2>3
<1>7. ASSUME NEW S \in SUBSET Folder, S # {}, \A x \in S : w[x] \in S PROVE FALSE
  <2>1. d \in S
    <3>1. PICK x \in S : u[x] \notin S
      BY <1>7, FirstFolder
    <3> QED
      BY <1>2, <1>7, <3>1
  <2>2. v \in S /\ v \in Folder
    BY <1>2, <1>7, <2>1
  <2> DEFINE T == {x \in S : p[x] # Lost /\ (p[d] = Lost \/ ~IsPrefix(p[d], p[x]))}
  <2>3. T \in SUBSET Folder /\ T # {}
    BY <2>2
  <2>4. PICK x \in T : u[x] \notin T
    <3> HIDE DEF T
    <3> QED
      BY <2>3, FirstFolder
  <2>5. x \in S /\ x \in Folder /\ p[x] # Lost /\ (p[d] = Lost \/ ~IsPrefix(p[d], p[x]))
    BY <2>4
  <2>6. /\ p[u[x]] \in PathForm /\ p[u[x]] # Lost /\ n[x] \in Name /\ p[x] = Step(p[u[x]], n[x])
    BY <2>5, PathsAre
  <2>7. x # d
    <3>1. p[x] \in Seq(Letter)
      <4>1. x \in Places
        BY <2>5 DEF Places
      <4> QED
        BY <2>5, <4>1, PathsAre, PathForms
    <3> QED
      BY <2>5, <3>1, PrefixOrder
  <2>8. u[x] \in S
    BY <1>2, <1>7, <2>5, <2>7
  <2>9. p[d] # Lost /\ IsPrefix(p[d], p[u[x]])
    BY <2>4, <2>6, <2>8
  <2>10. p[d] \in Seq(Letter) /\ p[u[x]] \in Seq(Letter)
    <3>1. d \in Places
      BY DEF Places
    <3> QED
      BY <2>6, <2>9, <3>1, PathsAre, PathForms, SMTT(40)
  <2>11. p[x] \in Seq(Letter) /\ IsPrefix(p[u[x]], p[x])
    BY <2>6, <2>10, StepFacts
  <2>12. IsPrefix(p[d], p[x])
    BY <2>9, <2>10, <2>11, PrefixOrder
  <2> QED
    BY <2>5, <2>9, <2>12
<1>8. \A S \in SUBSET Folder : S # {} => \E x \in S : w[x] \notin S
  BY <1>7
<1> QED
  BY <1>2, <1>4, <1>5, <1>6, <1>8 DEF IsTree

(* The path of a folder that keeps its place depends on that of what holds it only. *)
LEMMA PathStays ==
    ASSUME NEW u, NEW n, IsTree(u, n), NEW w, NEW k, IsTree(w, k), NEW d \in Folder, NEW v, NEW m,
           Rehangs(u, n, w, k, d, v, m), NEW p, p = PathOf(u, n), NEW q, q = PathOf(w, k),
           NEW e \in Folder, e # d
    PROVE  /\ w[e] = u[e] /\ k[e] = n[e]
           /\ q[u[e]] = p[u[e]] => q[e] = p[e]
<1>1. w[e] = u[e] /\ k[e] = n[e]
  BY DEF Rehangs, IsTree
<1>2. p[e] = PathIn(u, n, p, e) /\ q[e] = PathIn(w, k, q, e)
  BY PathsSolve DEF Solves
<1> QED
  BY <1>1, <1>2 DEF PathIn

(* If nothing is in the folder, only its path changes. *)
LEMMA PathsElsewhere ==
    ASSUME NEW u, NEW n, IsTree(u, n), NEW w, NEW k, IsTree(w, k), NEW d \in Folder, NEW v, NEW m,
           Rehangs(u, n, w, k, d, v, m), NEW p, p = PathOf(u, n), NEW q, q = PathOf(w, k),
           \A x \in Folder : u[x] # d,
           NEW e \in Places, e # d
    PROVE  q[e] = p[e]
<1> DEFINE B == {x \in Folder : x # d /\ q[x] # p[x]}
<1>1. ASSUME B # {} PROVE FALSE
  <2>1. PICK x \in B : u[x] \notin B
    <3>1. B \in SUBSET Folder
      OBVIOUS
    <3> HIDE DEF B
    <3> QED
      BY <1>1, <3>1, FirstFolder
  <2>2. u[x] \in Places /\ u[x] # d
    BY <2>1, PathsAre
  <2>3. q[u[x]] = p[u[x]]
    <3>1. CASE u[x] \in Folder
      BY <2>1, <2>2, <3>1
    <3>2. CASE u[x] \in {Top, Out, Gone}
      BY <3>2, PathsAre
    <3> QED
      BY <2>2, <3>1, <3>2 DEF Places
  <2> QED
    BY <2>1, <2>3, PathStays
<1>2. CASE e \in Folder
  BY <1>1, <1>2
<1>3. CASE e \in {Top, Out, Gone}
  BY <1>3, PathsAre
<1> QED
  BY <1>2, <1>3 DEF Places

(* Beside the folder that is moved the paths are the same. *)
LEMMA PathsBeside ==
    ASSUME NEW u, NEW n, IsTree(u, n), NEW w, NEW k, IsTree(w, k), NEW d \in Folder, NEW v, NEW m,
           Rehangs(u, n, w, k, d, v, m), NEW p, p = PathOf(u, n), NEW q, q = PathOf(w, k),
           NEW e \in Dirs, p[e] # Lost, p[d] = Lost \/ ~IsPrefix(p[d], p[e])
    PROVE  q[e] = p[e]
<1> DEFINE B == {x \in Folder : p[x] # Lost /\ (p[d] = Lost \/ ~IsPrefix(p[d], p[x])) /\ q[x] # p[x]}
<1>1. ASSUME B # {} PROVE FALSE
  <2>1. PICK x \in B : u[x] \notin B
    <3>1. B \in SUBSET Folder
      OBVIOUS
    <3> HIDE DEF B
    <3> QED
      BY <1>1, <3>1, FirstFolder
  <2>2. x \in Folder /\ p[x] # Lost /\ (p[d] = Lost \/ ~IsPrefix(p[d], p[x])) /\ q[x] # p[x]
    BY <2>1
  <2>3. /\ u[x] \in Dirs /\ n[x] \in Name /\ p[u[x]] \in PathForm /\ p[u[x]] # Lost
        /\ p[x] = Step(p[u[x]], n[x])
    BY <2>2, PathsAre
  <2>4. p[u[x]] \in Seq(Letter)
    BY <2>3, PathForms
  <2>5. p[x] \in Seq(Letter) /\ IsPrefix(p[u[x]], p[x])
    BY <2>3, <2>4, StepFacts
  <2>6. x # d
    BY <2>2, <2>5, PrefixOrder
  <2>7. p[d] = Lost \/ ~IsPrefix(p[d], p[u[x]])
    <3>1. ASSUME p[d] # Lost, IsPrefix(p[d], p[u[x]]) PROVE FALSE
      <4>1. d \in Places
        BY DEF Places
      <4>2. p[d] \in Seq(Letter)
        BY <3>1, <4>1, PathsAre, PathForms
      <4>3. IsPrefix(p[d], p[x])
        BY <2>4, <2>5, <3>1, <4>2, PrefixOrder
      <4> QED
        BY <2>2, <3>1, <4>3
    <3> QED
      BY <3>1
  <2>8. q[u[x]] = p[u[x]]
    <3>1. CASE u[x] \in Folder
      BY <2>1, <2>3, <2>7, <3>1
    <3>2. CASE u[x] = Top
      BY <3>2, PathsAre
    <3> QED
      BY <2>3, <3>1, <3>2 DEF Dirs
  <2> QED
    BY <2>2, <2>6, <2>8, PathStays
<1>2. CASE e \in Folder
  BY <1>1, <1>2
<1>3. CASE e = Top
  BY <1>3, PathsAre
<1> QED
  BY <1>2, <1>3 DEF Dirs

(* What is below the folder, but not the folder, is below what holds it. *)
LEMMA BelowHolder ==
    ASSUME Distinct, NEW u, NEW n, IsTree(u, n), NEW p, p = PathOf(u, n), NEW d \in Folder, p[d] # Lost,
           NEW e \in Folder, e # d, p[e] # Lost, IsPrefix(p[d], p[e])
    PROVE  IsPrefix(p[d], p[u[e]]) /\ u[e] \in Folder
<1>1. p[d] \in PathForm /\ p[d] \in Seq(Letter) /\ p[d] # <<>>
  <2>1. d \in Places
    BY DEF Places
  <2>2. p[d] \in PathForm /\ p[d] # <<>>
    BY <2>1, PathsAre
  <2> QED
    BY <2>2, PathForms
<1>2. /\ u[e] \in Dirs /\ n[e] \in Name /\ p[u[e]] \in PathForm /\ p[e] = Step(p[u[e]], n[e])
  BY PathsAre
<1>3. p[u[e]] \in Seq(Letter)
  BY <1>2, PathForms
<1>4. p[d] # p[e]
  BY PathsDiffer DEF Dirs
<1>5. IsPrefix(p[d], p[u[e]])
  BY <1>1, <1>2, <1>3, <1>4, PrefixStep
<1>6. u[e] # Top
  BY <1>1, <1>5, PathsAre, PrefixOrder
<1> QED
  BY <1>2, <1>5, <1>6 DEF Dirs

(* A folder that is moved takes along what is below it. *)
LEMMA PathsMoved ==
    ASSUME Distinct, NEW u, NEW n, IsTree(u, n), NEW w, NEW k, IsTree(w, k), NEW d \in Folder,
           NEW v \in Dirs, NEW m \in Name,
           Rehangs(u, n, w, k, d, v, m), NEW p, p = PathOf(u, n), NEW q, q = PathOf(w, k),
           p[d] # Lost, p[v] # Lost, ~IsPrefix(p[d], p[v]), NEW e \in Folder, p[e] # Lost, IsPrefix(p[d], p[e])
    PROVE  q[e] = Shifted(p[d], Step(p[v], m), p[e])
<1> DEFINE new == Step(p[v], m)
           B == {x \in Folder : p[x] # Lost /\ IsPrefix(p[d], p[x]) /\ q[x] # Shifted(p[d], new, p[x])}
<1> SUFFICES ASSUME B # {} PROVE FALSE
  OBVIOUS
<1>1. PICK x \in B : u[x] \notin B
  <2>1. B \in SUBSET Folder
    OBVIOUS
  <2> HIDE DEF B
  <2> QED
    BY <2>1, FirstFolder
<1>2. x \in Folder /\ p[x] # Lost /\ IsPrefix(p[d], p[x]) /\ q[x] # Shifted(p[d], new, p[x])
  BY <1>1
<1>3. d \in Places /\ v \in Places
  BY DEF Dirs, Places
<1>4. p[d] \in Seq(Letter) /\ p[v] \in Seq(Letter)
  BY <1>3, PathsAre, PathForms
<1>5. new \in Seq(Letter) /\ new # Lost
  BY <1>4, StepFacts
<1> HIDE DEF new
<1>6. CASE x = d
  <2>1. q[v] = p[v]
    BY PathsBeside
  <2>2. w[d] = v /\ k[d] = m
    BY DEF Rehangs, IsTree
  <2>3. q[d] = PathIn(w, k, q, d)
    BY PathsSolve DEF Solves
  <2>4. q[d] = new
    BY <2>1, <2>2, <2>3 DEF PathIn, new
  <2>5. Shifted(p[d], new, p[d]) = new
    BY <1>4, <1>5, ShiftedFacts
  <2> QED
    BY <1>2, <1>6, <2>4, <2>5
<1>7. CASE x # d
  <2>1. IsPrefix(p[d], p[u[x]]) /\ u[x] \in Folder
    BY <1>2, <1>7, BelowHolder
  <2>2. p[u[x]] # Lost /\ p[u[x]] \in PathForm /\ n[x] \in Name /\ p[x] = Step(p[u[x]], n[x])
    BY <1>2, PathsAre
  <2>3. q[u[x]] = Shifted(p[d], new, p[u[x]])
    BY <1>1, <2>1, <2>2
  <2>4. p[u[x]] \in Seq(Letter)
    BY <2>2, PathForms
  <2>5. Shifted(p[d], new, p[x]) = Step(q[u[x]], n[x])
    BY <1>4, <1>5, <2>1, <2>2, <2>3, <2>4, ShiftedStep
  <2>6. w[x] = u[x] /\ k[x] = n[x]
    BY <1>2, <1>7, PathStays
  <2>7. q[x] = PathIn(w, k, q, x)
    BY <1>2, PathsSolve DEF Solves
  <2>8. q[u[x]] # Lost
    <3>1. p[d] \in PathForm /\ new \in PathForm
      BY <1>3, <1>4, PathsAre, PathForms DEF new
    <3>2. Shifted(p[d], new, p[u[x]]) \in PathForm
      BY <2>2, <3>1, ShiftedForm
    <3> QED
      BY <2>3, <3>2, PathForms
  <2> QED
    BY <1>2, <2>5, <2>6, <2>7, <2>8 DEF PathIn
<1> QED
  BY <1>6, <1>7

(* A folder that was in the tree and is moved brings nothing else into it. *)
LEMMA NothingFound ==
    ASSUME NEW u, NEW n, IsTree(u, n), NEW w, NEW k, IsTree(w, k), NEW d \in Folder, NEW v, NEW m,
           Rehangs(u, n, w, k, d, v, m), NEW p, p = PathOf(u, n), NEW q, q = PathOf(w, k),
           p[d] # Lost, NEW e \in Folder, p[e] = Lost
    PROVE  q[e] = Lost
<1> DEFINE B == {x \in Folder : p[x] = Lost /\ q[x] # Lost}
<1> SUFFICES ASSUME B # {} PROVE FALSE
  OBVIOUS
<1>1. PICK x \in B : u[x] \notin B
  <2>1. B \in SUBSET Folder
    OBVIOUS
  <2> HIDE DEF B
  <2> QED
    BY <2>1, FirstFolder
<1>2. x \in Folder /\ p[x] = Lost /\ q[x] # Lost /\ x # d
  BY <1>1
<1>3. w[x] = u[x] /\ k[x] = n[x]
  BY <1>2, PathStays
<1>4. u[x] \in Places /\ p[u[x]] = Lost
  BY <1>2, PathsAre
<1>5. q[u[x]] # Lost
  BY <1>2, <1>3, PathsAre
<1>6. CASE u[x] \in Folder
  BY <1>1, <1>4, <1>5, <1>6
<1>7. CASE u[x] \in {Top, Out, Gone}
  BY <1>4, <1>5, <1>7, PathsAre
<1> QED
  BY <1>4, <1>6, <1>7 DEF Places

(* A folder that leaves the tree takes along what is below it. *)
LEMMA PathsLost ==
    ASSUME Distinct, NEW u, NEW n, IsTree(u, n), NEW w, NEW k, IsTree(w, k), NEW d \in Folder,
           NEW v \in {Out, Gone}, NEW m,
           Rehangs(u, n, w, k, d, v, m), NEW p, p = PathOf(u, n), NEW q, q = PathOf(w, k),
           p[d] # Lost, NEW e \in Folder, p[e] # Lost, IsPrefix(p[d], p[e])
    PROVE  q[e] = Lost
<1> DEFINE B == {x \in Folder : p[x] # Lost /\ IsPrefix(p[d], p[x]) /\ q[x] # Lost}
<1> SUFFICES ASSUME B # {} PROVE FALSE
  OBVIOUS
<1>1. PICK x \in B : u[x] \notin B
  <2>1. B \in SUBSET Folder
    OBVIOUS
  <2> HIDE DEF B
  <2> QED
    BY <2>1, FirstFolder
<1>2. x \in Folder /\ p[x] # Lost /\ IsPrefix(p[d], p[x]) /\ q[x] # Lost
  BY <1>1
<1>3. CASE x = d
  <2>1. w[d] = v
    BY DEF Rehangs, IsTree
  <2>2. q[v] = Lost
    BY PathsAre
  <2> QED
    BY <1>2, <1>3, <2>1, <2>2, PathsAre
<1>4. CASE x # d
  <2>1. IsPrefix(p[d], p[u[x]]) /\ u[x] \in Folder
    BY <1>2, <1>4, BelowHolder
  <2>2. p[u[x]] # Lost
    BY <1>2, PathsAre
  <2>3. q[u[x]] = Lost
    BY <1>1, <2>1, <2>2
  <2>4. w[x] = u[x]
    BY <1>2, <1>4, PathStays
  <2> QED
    BY <1>2, <2>3, <2>4, PathsAre
<1> QED
  BY <1>3, <1>4

(* A folder that comes into the tree brings what is below it, and nothing else. *)
LEMMA PathsFound ==
    ASSUME NEW u, NEW n, IsTree(u, n), NEW w, NEW k, IsTree(w, k), NEW d \in Folder,
           NEW v \in Dirs, NEW m \in Name,
           Rehangs(u, n, w, k, d, v, m), NEW p, p = PathOf(u, n), NEW q, q = PathOf(w, k),
           p[d] = Lost, p[v] # Lost, NEW e \in Folder, p[e] = Lost, q[e] # Lost
    PROVE  IsPrefix(Step(p[v], m), q[e])
<1> DEFINE new == Step(p[v], m)
           B == {x \in Folder : p[x] = Lost /\ q[x] # Lost /\ ~IsPrefix(new, q[x])}
<1> SUFFICES ASSUME B # {} PROVE FALSE
  OBVIOUS
<1>1. PICK x \in B : u[x] \notin B
  <2>1. B \in SUBSET Folder
    OBVIOUS
  <2> HIDE DEF B
  <2> QED
    BY <2>1, FirstFolder
<1>2. x \in Folder /\ p[x] = Lost /\ q[x] # Lost /\ ~IsPrefix(new, q[x])
  BY <1>1
<1>3. v \in Places
  BY DEF Dirs, Places
<1>4. p[v] \in Seq(Letter)
  BY <1>3, PathsAre, PathForms
<1>5. new \in Seq(Letter)
  BY <1>4, StepFacts
<1>6. CASE x = d
  <2>1. q[v] = p[v]
    BY PathsBeside
  <2>2. w[d] = v /\ k[d] = m
    BY DEF Rehangs, IsTree
  <2>3. q[d] = Step(q[w[d]], k[d])
    BY <1>2, <1>6, PathsAre
  <2>4. q[d] = new
    BY <2>1, <2>2, <2>3
  <2> HIDE DEF new
  <2> QED
    BY <1>2, <1>5, <1>6, <2>4, PrefixOrder
<1> HIDE DEF new
<1>7. CASE x # d
  <2>1. w[x] = u[x] /\ k[x] = n[x]
    BY <1>2, <1>7, PathStays
  <2>2. p[u[x]] = Lost
    BY <1>2, PathsAre
  <2>3. /\ u[x] \in Dirs /\ n[x] \in Name /\ q[u[x]] \in PathForm /\ q[u[x]] # Lost
        /\ q[x] = Step(q[u[x]], n[x])
    BY <1>2, <2>1, PathsAre
  <2>4. u[x] \in Folder
    BY <2>2, <2>3, PathsAre DEF Dirs
  <2>5. IsPrefix(new, q[u[x]])
    BY <1>1, <2>2, <2>3, <2>4
  <2>6. q[u[x]] \in Seq(Letter)
    BY <2>3, PathForms
  <2>7. q[x] \in Seq(Letter) /\ IsPrefix(q[u[x]], q[x])
    BY <2>3, <2>6, StepFacts, SMTT(40)
  <2> QED
    BY <1>2, <1>5, <2>5, <2>6, <2>7, PrefixOrder
<1> QED
  BY <1>6, <1>7

(***************************************************************************)
(* What the monitor keeps.  Others change the tree while the thread lags   *)
(* behind: what its maps lack or have too much is in the events that wait, *)
(* in the moves that wait for their other half, or in the walk under way.  *)
(***************************************************************************)
(* Events, by what they say. *)
Waiting == {Pending[i] : i \in DOMAIN Pending}
Leaves(e) == IsFrom(e) /\ e.dir
Arrives(e) == e.mask = "MOVED_TO"
Dies(e) == e.mask = "DELETE_SELF"

(* The thread does nothing any more but end. *)
Live == ~(quit /\ buf = <<>>)

(* A folder has been moved within the tree and the thread has still to move
   the paths that begin with o to n. *)
Shifts(o, n) ==
    \E a \in Waiting :
        /\ Arrives(a) /\ n = a.at
        /\ \/ \E l \in Waiting : Leaves(l) /\ o = l.at
           \/ a.cookie \in DOMAIN cookie /\ o = cookie[a.cookie]
Still ==
    \A a \in Waiting : Arrives(a) => a.cookie \notin DOMAIN cookie /\ \A l \in Waiting : ~Leaves(l)

(* What the thread takes for the path q is the path r. *)
Becomes(q, r) == (Still => r = q) /\ \A o, n : Shifts(o, n) => r = Shifted(o, n, q)

(* The tree is one. *)
TreeInv == IsTree(up, name)

(* Watches are of one folder each, and the two maps agree. *)
WatchInv ==
    /\ watch \in [Dirs \cup {Out} -> Nat] /\ watch[Out] = 0
    /\ \A d, e \in Dirs : watch[d] = watch[e] /\ watch[d] # 0 => d = e
    /\ \A d \in Dirs : watch[d] # 0 => watch[d] \in DOMAIN wdPath
    /\ \A d \in Folder : up[d] = Gone => watch[d] = 0
    /\ \A w \in DOMAIN wdPath :
          /\ w \in 1..issued.wd
          /\ wdPath[w] \in PathForm /\ wdPath[w] \in DOMAIN pathWd /\ pathWd[wdPath[w]] = w
    /\ DOMAIN pathWd \subseteq PathForm

(* What the kernel says in an event. *)
EventForm(e) ==
    /\ e.wd \in 1..issued.wd
    /\ Dies(e) => e.name = <<>> /\ e.at \in PathForm
    /\ ~Dies(e) => IF e.dir THEN e.name \in Name /\ e.at \in PathForm
                            ELSE e.name = <<"f">> /\ e.at \notin PathForm
    /\ e.mask \in {"CREATE", "MOVED_TO"} => e.dir
EventInv == \A e \in Waiting : EventForm(e)

(* A move of a folder is the first thing that the thread has to do. *)
OrderInv ==
    \A i \in DOMAIN Pending :
        /\ Leaves(Pending[i]) => i = 1
        /\ Arrives(Pending[i]) =>
              i = 1 \/ (i = 2 /\ Leaves(Pending[1]) /\ Pending[1].cookie = Pending[2].cookie)
FlightInv ==
    /\ \A l \in Waiting : Leaves(l) => DOMAIN cookie = {} /\ todo = <<>> /\ l.wd \in DOMAIN wdPath
    /\ \A a \in Waiting : Arrives(a) => DOMAIN cookie \subseteq {a.cookie} /\ todo = <<>> /\ a.wd \in DOMAIN wdPath
    /\ \A o, n : Shifts(o, n) =>
          /\ o \in DOMAIN pathWd /\ n \in PathForm /\ ~IsPrefix(n, o)
          /\ \A w \in DOMAIN wdPath : ~IsPrefix(n, wdPath[w])

(* The paths are right, but for the move that is to be done. *)
PlaceInv == \A d \in Dirs : watch[d] # 0 /\ Below(d) => Becomes(wdPath[watch[d]], Path[d])
Placed(e) == \E q \in PathForm : Becomes(wdPath[e.wd], q) /\ e.at = Join(q, e.name)
AtInv == \A e \in Waiting : e.wd \in DOMAIN wdPath => Placed(e)

(* There is no folder at a path. *)
Vacant(p) == p # Lost /\ FolderAt(p) = {}

(* A watch that no folder has any more is about to be forgotten. *)
Held(w) == \E d \in Dirs : watch[d] = w
DeadInv ==
    /\ \A w \in DOMAIN wdPath : ~Held(w) => \E e \in Waiting : e.wd = w /\ Dies(e)
    /\ \A e \in Waiting : Dies(e) => ~Held(e.wd) /\ Vacant(e.at)

(* So is that of a folder that has left the tree. *)
Leaving(o) ==
    \/ \E c \in DOMAIN cookie : cookie[c] = o
    \/ \E e \in Waiting : Leaves(e) /\ e.at = o
Strays(d) == watch[d] # 0 /\ ~Below(d)
OutInv ==
    \A d \in Dirs : Strays(d) =>
        /\ Still
        /\ \E e \in Dirs : Strays(e) /\ Leaving(wdPath[watch[e]]) /\ IsPrefix(wdPath[watch[e]], wdPath[watch[d]])

(* Nothing is any more where something has been moved from. *)
CookieInv ==
    /\ \A c, e \in DOMAIN cookie : cookie[c] \in PathForm /\ cookie[e] \in PathForm => c = e
    /\ \A c \in DOMAIN cookie : Vacant(cookie[c])
    /\ \A e \in Waiting : IsFrom(e) => Vacant(e.at)

TodoItem == [do : {"visit", "read"}, path : PathForm]
WalkInv == root \in PathForm /\ todo \in Seq(TodoItem) /\ \A i \in DOMAIN todo : IsPrefix(root, todo[i].path)

(* A folder that is not watched will be found. *)
DueWalk(p) == \E i \in DOMAIN todo : IsPrefix(todo[i].path, p) /\ (todo[i].do = "read" => todo[i].path # p)
Brings(e) == e.mask = "CREATE" \/ (Arrives(e) /\ Still)
DueEvent(p) == \E e \in Waiting : Brings(e) /\ e.wd \in DOMAIN wdPath /\ IsPrefix(e.at, p)
CoverInv == \A d \in Dirs : Below(d) => watch[d] # 0 \/ DueWalk(Path[d]) \/ DueEvent(Path[d])

LiveInv == /\ WatchInv /\ EventInv /\ OrderInv /\ FlightInv /\ PlaceInv
           /\ AtInv /\ DeadInv /\ OutInv /\ CookieInv /\ WalkInv

(* All of it: the maps matter while the thread goes on, and a folder is to be
   found while nobody has asked it to end. *)
Monitored == TreeInv /\ (Live => LiveInv) /\ (~quit => CoverInv)

(* What the paths of the tree are, in a state. *)
LEMMA StatePaths ==
    ASSUME Distinct, TreeInv
    PROVE  /\ Top \in Dirs /\ Path[Top] = <<>> /\ Below(Top)
           /\ \A d \in Dirs : d \in Places /\ Path[d] \in PathForm \cup {Lost}
           /\ \A d \in Dirs : Below(d) => Path[d] \in PathForm /\ Path[d] \in Seq(Letter) /\ FolderAt(Path[d]) = {d}
           /\ \A d \in Dirs, q \in PathForm : Below(d) /\ IsPrefix(q, Path[d]) => FolderAt(q) # {}
<1>1. IsTree(up, name) /\ Path = PathOf(up, name)
  BY DEF TreeInv, Path
<1>2. Top \in Dirs /\ Path[Top] = <<>> /\ Below(Top)
  BY <1>1, PathsAre, PlacesDiffer DEF Dirs, Below
<1>3. \A d \in Dirs : d \in Places /\ Path[d] \in PathForm \cup {Lost}
  BY <1>1, PathsAre DEF Dirs, Places
<1>4. ASSUME NEW d \in Dirs, Below(d) PROVE Path[d] \in PathForm /\ Path[d] \in Seq(Letter) /\ FolderAt(Path[d]) = {d}
  <2>1. Path[d] \in PathForm /\ Path[d] # Lost
    BY <1>3, <1>4 DEF Below
  <2>2. \A e \in Dirs : Path[e] = Path[d] => e = d
    BY <1>1, <2>1, PathsDiffer
  <2> QED
    BY <2>1, <2>2, PathForms DEF FolderAt, Dirs
<1>5. ASSUME NEW d \in Dirs, NEW q \in PathForm, Below(d), IsPrefix(q, Path[d]) PROVE FolderAt(q) # {}
  <2>1. \E e \in Dirs : Path[e] = q
    BY <1>1, <1>5, PathAbove DEF Below
  <2> QED
    BY <2>1 DEF FolderAt, Dirs
<1> QED
  BY <1>2, <1>3, <1>4, <1>5

(* Events are added to those that wait. *)
LEMMA Appended ==
    ASSUME MoveInv, NEW new, \E S : new \in Seq(S), queue' = queue \o new, buf' = buf
    PROVE  /\ Waiting' = Waiting \cup ToSet(new)
           /\ \A i \in DOMAIN Pending : i \in DOMAIN Pending' /\ Pending'[i] = Pending[i]
           /\ \A i \in DOMAIN Pending' : \/ i \in DOMAIN Pending /\ Pending'[i] = Pending[i]
                                         \/ Pending'[i] \in ToSet(new)
<1>1. PICK S : buf \in Seq(S) /\ queue \in Seq(S)
  BY DEF MoveInv
<1>2. PICK T : new \in Seq(T)
  OBVIOUS
<1> DEFINE U == S \cup T
<1>3. buf \in Seq(U) /\ queue \in Seq(U) /\ new \in Seq(U)
  BY <1>1, <1>2, SeqOfMore
<1> HIDE DEF U
<1>4. Pending \in Seq(U) /\ Pending' = Pending \o new
  <2>1. buf \o queue \in Seq(U)
    BY <1>3, ConcatAt
  <2>2. (buf \o queue) \o new = buf \o (queue \o new)
    BY <1>3, ConcatAssociates
  <2> QED
    BY <2>1, <2>2 DEF Pending
<1> DEFINE p == Pending
<1>5. p \in Seq(U) /\ Pending' = p \o new
  BY <1>4
<1> HIDE DEF p
<1>6. /\ Len(p) \in Nat /\ Len(p \o new) = Len(p) + Len(new) /\ Len(new) \in Nat
      /\ \A i \in DOMAIN p : i \in DOMAIN (p \o new) /\ (p \o new)[i] = p[i]
      /\ \A i \in DOMAIN (p \o new) :
             \/ i \in DOMAIN p /\ (p \o new)[i] = p[i]
             \/ i - Len(p) \in DOMAIN new /\ (p \o new)[i] = new[i - Len(p)]
  BY <1>3, <1>5, ConcatAt, ConcatProperties
<1>7. ASSUME NEW j \in DOMAIN new PROVE \E i \in DOMAIN (p \o new) : (p \o new)[i] = new[j]
  <2>1. Len(p) + j \in 1..Len(p) + Len(new) /\ ~(Len(p) + j <= Len(p)) /\ (Len(p) + j) - Len(p) = j
    BY <1>3, <1>6
  <2>2. (p \o new)[Len(p) + j] = new[(Len(p) + j) - Len(p)]
    BY <1>3, <1>5, <2>1, ConcatProperties
  <2>3. Len(p) + j \in DOMAIN (p \o new)
    BY <1>3, <1>5, <2>1, ConcatProperties
  <2> QED
    BY <2>1, <2>2, <2>3
<1> DEFINE c == p \o new
<1>8. /\ \A i \in DOMAIN p : i \in DOMAIN c /\ c[i] = p[i]
      /\ \A i \in DOMAIN c : (i \in DOMAIN p /\ c[i] = p[i]) \/ (\E j \in DOMAIN new : c[i] = new[j])
      /\ \A j \in DOMAIN new : \E i \in DOMAIN c : c[i] = new[j]
      /\ Pending' = c
  BY <1>5, <1>6, <1>7
<1> HIDE DEF c
<1> QED
  BY <1>8 DEF Waiting, ToSet, p

(* What an event says. *)
Says(s, d, mask, n, isDir, c) ==
    /\ \E S : s \in Seq(S)
    /\ watch[d] = 0 => s = <<>> /\ ToSet(s) = {}
    /\ watch[d] # 0 => \E e : /\ s = <<e>> /\ ToSet(s) = {e} /\ e.wd = watch[d] /\ e.mask = mask /\ e.name = n
                             /\ e.dir = isDir /\ e.cookie = c /\ e.at = Join(Path[d], n)

(* An event says it, if the folder has a watch. *)
LEMMA EventIs ==
    ASSUME NEW d, NEW mask, NEW n, NEW isDir, NEW c
    PROVE  Says(Event(d, mask, n, isDir, c), d, mask, n, isDir, c)
<1> DEFINE e == [wd |-> watch[d], mask |-> mask, name |-> n, dir |-> isDir, cookie |-> c,
                 at |-> Join(Path[d], n)]
<1>1. /\ e.wd = watch[d] /\ e.mask = mask /\ e.name = n /\ e.dir = isDir
      /\ e.cookie = c /\ e.at = Join(Path[d], n)
  OBVIOUS
<1>2. Event(d, mask, n, isDir, c) = IF watch[d] = 0 THEN <<>> ELSE <<e>>
  BY DEF Event
<1> HIDE DEF e
<1>3. <<>> \in Seq({}) /\ ToSet(<<>>) = {}
  BY DEF ToSet
<1>4. <<e>> \in Seq({e}) /\ ToSet(<<e>>) = {e}
  BY DEF ToSet
<1> QED
  BY <1>1, <1>2, <1>3, <1>4 DEF Says

(* Events that are no moves of folders, and no cookie, leave what is to be
   moved as it was. *)
LEMMA SameShifts ==
    ASSUME cookie' = cookie, NEW S, Waiting' = Waiting \cup S, \A e \in S : ~Leaves(e) /\ ~Arrives(e)
    PROVE  /\ Still' <=> Still
           /\ \A o, n : Shifts(o, n)' <=> Shifts(o, n)
           /\ \A q, r : Becomes(q, r)' <=> Becomes(q, r)
<1>1. Still' <=> Still
  BY DEF Still, Arrives, Leaves, IsFrom
<1>2. ASSUME NEW o, NEW n PROVE Shifts(o, n)' <=> Shifts(o, n)
  BY DEF Shifts, Arrives, Leaves, IsFrom
<1>3. ASSUME NEW q, NEW r PROVE Becomes(q, r)' <=> Becomes(q, r)
  BY <1>1, <1>2 DEF Becomes
<1> QED
  BY <1>1, <1>2, <1>3

(* Who is second is not first. *)
LEMMA PendingFirst ==
    ASSUME MoveInv
    PROVE  /\ \E S : Pending \in Seq(S)
           /\ \A i \in DOMAIN Pending : i \in Nat /\ i >= 1 /\ 1 \in DOMAIN Pending
<1>1. PICK S : buf \in Seq(S) /\ queue \in Seq(S)
  BY DEF MoveInv
<1>2. PICK T : buf \in Seq(T) /\ queue \in Seq(T) /\ T = S \cup S
  BY <1>1, SeqOfMore
<1>3. Pending \in Seq(T)
  BY <1>2, ConcatAt DEF Pending
<1>4. \A i \in DOMAIN Pending : i \in Nat /\ i >= 1 /\ 1 \in DOMAIN Pending
  BY <1>3
<1> QED
  BY <1>3, <1>4

(* What others do in the tree while nothing is moved. *)
Noted(new) ==
    /\ \E S : new \in Seq(S)
    /\ \A e \in ToSet(new) :
         /\ ~Leaves(e) /\ ~Arrives(e) /\ EventForm(e)
         /\ \E d \in Dirs : Below(d) /\ watch[d] = e.wd /\ e.at = Join(Path[d], e.name)

(* The watches that others take away are those of folders they delete, and
   the paths of the others stay. *)
Kept(new) ==
    /\ watch' \in [Dirs \cup {Out} -> Nat] /\ watch'[Out] = 0
    /\ \A d \in Dirs : \/ watch'[d] = watch[d] /\ (watch[d] # 0 => Path'[d] = Path[d])
                       \/ watch'[d] = 0 /\ Below(d) /\ \E e \in ToSet(new) : Dies(e) /\ e.wd = watch[d]
                       \/ watch'[d] = 0 /\ watch[d] = 0
    /\ \A d \in Folder : up'[d] = Gone => watch'[d] = 0
    /\ \A e \in ToSet(new) : Dies(e) => \A d \in Dirs : watch'[d] # e.wd

(* Nothing is put where something has been taken from. *)
Avoids(new) ==
    /\ \A e \in Waiting \cup ToSet(new) : Dies(e) \/ IsFrom(e) => Vacant(e.at)'
    /\ \A c \in DOMAIN cookie : Vacant(cookie[c])'

(* Then the thread's maps are as right as before. *)
LEMMA Quietly ==
    ASSUME Distinct, MoveInv, TreeInv, LiveInv, NEW new, queue' = queue \o new,
           UNCHANGED <<maps, buf, todo, root>>, issued'.wd = issued.wd,
           Noted(new), Kept(new), Avoids(new)
    PROVE  LiveInv'
<1> DEFINE N == ToSet(new)
<1>0. maps' = maps /\ wdPath' = wdPath /\ pathWd' = pathWd /\ cookie' = cookie /\ buf' = buf /\ todo' = todo /\ root' = root
  BY DEF maps
<1>1. /\ Waiting' = Waiting \cup N
      /\ \A i \in DOMAIN Pending : i \in DOMAIN Pending' /\ Pending'[i] = Pending[i]
      /\ \A i \in DOMAIN Pending' : \/ i \in DOMAIN Pending /\ Pending'[i] = Pending[i]
                                    \/ Pending'[i] \in N
  BY <1>0, Appended DEF Noted
<1>2. \A e \in N : /\ ~Leaves(e) /\ ~Arrives(e) /\ EventForm(e)
                   /\ \E d \in Dirs : Below(d) /\ watch[d] = e.wd /\ e.at = Join(Path[d], e.name)
  BY DEF Noted
<1>3. /\ Still' <=> Still
      /\ \A o, n : Shifts(o, n)' <=> Shifts(o, n)
      /\ \A q, r : Becomes(q, r)' <=> Becomes(q, r)
  BY <1>0, <1>1, <1>2, SameShifts
<1> HIDE DEF N
<1>4. /\ watch' \in [Dirs \cup {Out} -> Nat] /\ watch'[Out] = 0
      /\ \A d \in Dirs : \/ watch'[d] = watch[d] /\ (watch[d] # 0 => Path'[d] = Path[d])
                         \/ watch'[d] = 0 /\ Below(d) /\ \E e \in N : Dies(e) /\ e.wd = watch[d]
                         \/ watch'[d] = 0 /\ watch[d] = 0
      /\ \A d \in Folder : up'[d] = Gone => watch'[d] = 0
      /\ \A e \in N : Dies(e) => \A d \in Dirs : watch'[d] # e.wd
  BY DEF Kept, N
<1>5. /\ \A e \in Waiting \cup N : Dies(e) \/ IsFrom(e) => Vacant(e.at)'
      /\ \A c \in DOMAIN cookie : Vacant(cookie[c])'
  BY DEF Avoids, N
<1>6. WatchInv /\ EventInv /\ OrderInv /\ FlightInv /\ PlaceInv
      /\ AtInv /\ DeadInv /\ OutInv /\ CookieInv /\ WalkInv
  BY DEF LiveInv
<1>7. WatchInv'
  BY <1>0, <1>4, <1>6 DEF WatchInv, Dirs
<1>8. EventInv'
  BY <1>1, <1>2, <1>6 DEF EventInv, EventForm, Dies
<1>9. OrderInv'
  <2>1. ASSUME NEW i \in DOMAIN Pending', Leaves(Pending'[i]) \/ Arrives(Pending'[i])
        PROVE  i \in DOMAIN Pending /\ Pending'[i] = Pending[i]
    BY <1>1, <1>2, <2>1
  <2>2. ASSUME NEW i \in DOMAIN Pending', Leaves(Pending'[i]) PROVE i = 1
    BY <1>6, <2>1, <2>2 DEF OrderInv
  <2>3. ASSUME NEW i \in DOMAIN Pending', Arrives(Pending'[i])
        PROVE  i = 1 \/ (i = 2 /\ Leaves(Pending'[1]) /\ Pending'[1].cookie = Pending'[2].cookie)
    <3>1. i \in DOMAIN Pending /\ Pending'[i] = Pending[i]
      BY <2>1, <2>3
    <3>2. i = 1 \/ (i = 2 /\ Leaves(Pending[1]) /\ Pending[1].cookie = Pending[2].cookie)
      BY <1>6, <2>3, <3>1 DEF OrderInv
    <3>3. i = 2 => 1 \in DOMAIN Pending
      BY <3>1, PendingFirst
    <3> QED
      BY <1>1, <3>1, <3>2, <3>3
  <2> QED
    BY <2>2, <2>3 DEF OrderInv, Leaves, Arrives, IsFrom
<1>10. FlightInv'
  <2>1. \A e \in Waiting' : Leaves(e) \/ Arrives(e) => e \in Waiting
    BY <1>1, <1>2
  <2>2. \A o, n : Shifts(o, n)' => /\ o \in DOMAIN pathWd /\ n \in PathForm /\ ~IsPrefix(n, o)
                                   /\ \A w \in DOMAIN wdPath : ~IsPrefix(n, wdPath[w])
    BY <1>3, <1>6 DEF FlightInv
  <2> QED
    BY <1>0, <1>6, <2>1, <2>2 DEF FlightInv, Leaves, Arrives, IsFrom
<1>11. PlaceInv'
  BY <1>0, <1>3, <1>4, <1>6 DEF PlaceInv, Below
<1>12. AtInv'
  <2>1. ASSUME NEW e \in Waiting, Placed(e) PROVE Placed(e)'
    BY <1>0, <1>3, <2>1 DEF Placed
  <2>2. ASSUME NEW e \in N, e.wd \in DOMAIN wdPath PROVE Placed(e)'
    <3>1. PICK d \in Dirs : Below(d) /\ watch[d] = e.wd /\ e.at = Join(Path[d], e.name)
      BY <1>2, <2>2
    <3>2. e.wd # 0
      BY <1>2, <2>2 DEF EventForm
    <3>3. Becomes(wdPath[e.wd], Path[d])
      BY <1>6, <3>1, <3>2 DEF PlaceInv
    <3>4. Path[d] \in PathForm
      BY <3>1, StatePaths
    <3> QED
      BY <1>0, <1>3, <3>1, <3>3, <3>4 DEF Placed
  <2> QED
    BY <1>0, <1>1, <1>6, <2>1, <2>2 DEF AtInv
<1>13. DeadInv'
  <2>1. ASSUME NEW w \in DOMAIN wdPath, ~Held(w)' PROVE \E e \in Waiting' : e.wd = w /\ Dies(e)
    <3>1. CASE ~Held(w)
      BY <1>1, <1>6, <3>1 DEF DeadInv
    <3>2. CASE Held(w)
      <4>1. PICK d \in Dirs : watch[d] = w
        BY <3>2 DEF Held
      <4>2. w # 0 /\ watch'[d] # w
        BY <1>6, <2>1, <4>1 DEF WatchInv, Held, Dirs
      <4> QED
        BY <1>1, <1>4, <4>1, <4>2
    <3> QED
      BY <3>1, <3>2
  <2>2. ASSUME NEW e \in Waiting', Dies(e) PROVE ~Held(e.wd)'
    <3>1. CASE e \in N
      BY <1>4, <2>2, <3>1 DEF Held, Dirs
    <3>2. CASE e \in Waiting
      <4>1. ~Held(e.wd) /\ e.wd # 0
        BY <1>6, <2>2, <3>2 DEF DeadInv, EventInv, EventForm
      <4> QED
        BY <1>4, <4>1 DEF Held, Dirs
    <3> QED
      BY <1>1, <3>1, <3>2
  <2> QED
    BY <1>0, <1>1, <1>5, <2>1, <2>2 DEF DeadInv, Dies
<1>14. OutInv'
  <2>1. ASSUME NEW d \in Dirs PROVE Strays(d)' <=> Strays(d)
    BY <1>4, <2>1 DEF Strays, Below
  <2>2. ASSUME NEW d \in Dirs, Strays(d) PROVE watch'[d] = watch[d]
    BY <1>4, <2>2 DEF Strays
  <2>3. \A o : Leaving(o) => Leaving(o)'
    BY <1>0, <1>1 DEF Leaving, Leaves, IsFrom
  <2> QED
    BY <1>0, <1>3, <1>6, <2>1, <2>2, <2>3 DEF OutInv, Dirs
<1>15. CookieInv'
  BY <1>0, <1>1, <1>5, <1>6 DEF CookieInv, IsFrom
<1>16. WalkInv'
  BY <1>0, <1>6 DEF WalkInv
<1> QED
  BY <1>7, <1>8, <1>9, <1>10, <1>11, <1>12, <1>13, <1>14, <1>15, <1>16 DEF LiveInv

(* What is due stays due when events are added. *)
LEMMA DueStays ==
    ASSUME UNCHANGED <<todo, wdPath>>, Waiting \subseteq Waiting', Still' <=> Still
    PROVE  \A p : (DueWalk(p) => DueWalk(p)') /\ (DueEvent(p) => DueEvent(p)')
<1>1. \A p : DueWalk(p) => DueWalk(p)'
  BY DEF DueWalk
<1>2. \A p : DueEvent(p) => DueEvent(p)'
  BY DEF DueEvent, Brings, Arrives
<1> QED
  BY <1>1, <1>2

(* What waits is in one of the two queues. *)
LEMMA WaitingIn ==
    ASSUME MoveInv, NEW e \in Waiting
    PROVE  (\E i \in DOMAIN queue : queue[i] = e) \/ (\E i \in DOMAIN buf : buf[i] = e)
<1>1. PICK S : buf \in Seq(S) /\ queue \in Seq(S)
  BY DEF MoveInv
<1>2. PICK i \in DOMAIN Pending : Pending[i] = e
  BY DEF Waiting
<1>3. \/ i \in DOMAIN buf /\ (buf \o queue)[i] = buf[i]
      \/ i - Len(buf) \in DOMAIN queue /\ (buf \o queue)[i] = queue[i - Len(buf)]
  BY <1>1, <1>2, ConcatAt DEF Pending
<1> QED
  BY <1>2, <1>3 DEF Pending

(* A folder is made. *)
LEMMA MkdirMonitored ==
    ASSUME Distinct, Settled, MoveInv, Monitored, Mkdir
    PROVE  Monitored'
<1>1. PICK d \in Folder, u \in Folder \cup {Top}, n \in Name :
        /\ up[d] = Gone /\ Below(u) /\ Free(u, n)
        /\ LET p == Join(Path[u], n) IN ~Unheard(p) /\ p \notin Range(cookie)
        /\ up' = [up EXCEPT ![d] = u] /\ name' = [name EXCEPT ![d] = n]
        /\ queue' = queue \o Event(u, "CREATE", n, TRUE, 0)
  BY DEF Mkdir
<1>2. /\ UNCHANGED <<maps, buf, todo, root, quit, ended, moved, watch>> /\ issued'.wd = issued.wd
      /\ wdPath' = wdPath /\ pathWd' = pathWd /\ cookie' = cookie
  <2>1. issued \in IssuedType /\ issued' = [issued EXCEPT !.op = @ + 1, !.cookie = issued.cookie]
    BY DEF MoveInv, Mkdir, Counted
  <2> QED
    BY <2>1 DEF Mkdir, Change, IssuedType, maps
<1>3. IsTree(up, name) /\ Path = PathOf(up, name) /\ Path' = PathOf(up', name')
  BY DEF Monitored, TreeInv, Path
<1> DEFINE p == Path  q == Path'  w == up'  k == name'
<1>a. PICK at : at = Join(Path[u], n)
  OBVIOUS
<1>4. Rehangs(up, name, w, k, d, u, n) /\ p = PathOf(up, name) /\ q = PathOf(w, k) /\ u \in Dirs /\ u \in Places
  BY <1>1, <1>3 DEF Rehangs, Dirs, Places
<1>5. p[d] = Lost /\ p[u] # Lost /\ p[u] \in PathForm \cup {Lost} /\ \A x \in Folder : up[x] # d
  <2>1. p[Gone] = Lost /\ (p[d] = Lost <=> p[up[d]] = Lost) /\ \A x \in Places : p[x] \in PathForm \cup {Lost}
    BY <1>3, PathsAre
  <2>2. \A x \in Folder : up[x] # d
    BY <1>1, <1>3 DEF IsTree
  <2> QED
    BY <1>1, <1>4, <2>1, <2>2 DEF Below
<1>6. u # Gone /\ \A e \in Folder : up[e] = u => name[e] # n
  BY <1>1, PlacesDiffer DEF Free, Children
<1> HIDE DEF p, q, w, k
<1>7. IsTree(w, k)
  BY <1>3, <1>4, <1>5, <1>6, TreeRehung
<1>8. TreeInv'
  BY <1>7 DEF TreeInv, w, k
<1>9. \A x \in Dirs : x # d => q[x] = p[x]
  BY <1>3, <1>4, <1>5, <1>7, PathsElsewhere DEF Dirs, Places
<1>10. q[d] = Step(p[u], n) /\ at = Step(p[u], n) /\ at \in PathForm /\ at # Lost
       /\ IsPrefix(p[u], at) /\ ~IsPrefix(at, p[u]) /\ p[u] \in Seq(Letter) /\ p[u] \in PathForm
  <2>1. w[d] = u /\ k[d] = n /\ q[u] = p[u]
    <3>1. up \in [Folder -> Places] /\ name \in [Folder -> Name \cup {<<>>}]
      BY <1>3 DEF IsTree
    <3>2. w[d] = u /\ k[d] = n
      BY <1>1, <3>1 DEF w, k
    <3>3. u # d
      BY <1>5
    <3> QED
      BY <1>4, <1>9, <3>2, <3>3
  <2>2. q[d] # Lost /\ q[d] = Step(p[u], n)
    BY <1>4, <1>5, <1>7, <2>1, PathsAre
  <2>3. p[u] \in Seq(Letter)
    BY <1>5, PathForms
  <2>4. n \in Name \cup {<<"f">>}
    BY <1>1
  <2>5. Step(p[u], n) \in PathForm /\ Lost \notin PathForm
    BY <1>1, <2>3, PathForms
  <2>6. IsPrefix(p[u], Step(p[u], n)) /\ ~IsPrefix(Step(p[u], n), p[u]) /\ Join(p[u], n) = Step(p[u], n)
    BY <2>3, <2>4, StepFacts
  <2> QED
    BY <1>a, <1>5, <2>2, <2>3, <2>5, <2>6 DEF p
<1>11. \A r : r # at /\ Vacant(r) => Vacant(r)'
  BY <1>9, <1>10 DEF Vacant, FolderAt, Dirs, p, q
<1> DEFINE new == Event(u, "CREATE", n, TRUE, 0)
<1>12. /\ \E S : new \in Seq(S)
       /\ watch[u] = 0 => ToSet(new) = {}
       /\ watch[u] # 0 => \E e : /\ ToSet(new) = {e}
                                 /\ e.wd = watch[u] /\ e.mask = "CREATE" /\ e.name = n /\ e.dir = TRUE
                                 /\ e.cookie = 0 /\ e.at = at
  <2>1. Says(new, u, "CREATE", n, TRUE, 0)
    BY EventIs
  <2> QED
    BY <1>a, <2>1 DEF Says
<1>13. queue' = queue \o new
  BY <1>1
<1> HIDE DEF new
<1>14. ASSUME LiveInv PROVE Noted(new) /\ Kept(new) /\ Avoids(new)
  <2>1. WatchInv /\ DeadInv /\ CookieInv
    BY <1>14 DEF LiveInv
  <2>2. Noted(new)
    <3>1. ASSUME NEW e \in ToSet(new)
          PROVE  /\ ~Leaves(e) /\ ~Arrives(e) /\ EventForm(e)
                 /\ \E x \in Dirs : Below(x) /\ watch[x] = e.wd /\ e.at = Join(Path[x], e.name)
      <4>1. /\ watch[u] # 0 /\ e.wd = watch[u] /\ e.mask = "CREATE" /\ e.name = n /\ e.dir = TRUE
            /\ e.cookie = 0 /\ e.at = at
        BY <1>12
      <4>2. e.wd \in 1..issued.wd
        BY <1>4, <2>1, <4>1 DEF WatchInv
      <4>3. e.at = Join(Path[u], e.name)
        BY <1>a, <4>1
      <4> QED
        BY <1>1, <1>4, <1>10, <4>1, <4>2, <4>3 DEF EventForm, Leaves, Arrives, IsFrom, Dies
    <3> QED
      BY <1>12, <3>1 DEF Noted
  <2>3. Kept(new)
    <3>1. \A e \in ToSet(new) : ~Dies(e)
      BY <1>12 DEF Dies
    <3>2. watch[d] = 0
      BY <1>1, <2>1 DEF WatchInv
    <3>3. \A x \in Folder : up'[x] = Gone => up[x] = Gone
      BY <1>1, <1>3, <1>6 DEF IsTree
    <3> QED
      BY <1>2, <1>9, <2>1, <3>1, <3>2, <3>3 DEF Kept, WatchInv, p, q
  <2>4. Avoids(new)
    <3>1. \A e \in ToSet(new) : ~Dies(e) /\ ~IsFrom(e)
      BY <1>12 DEF Dies, IsFrom
    <3>2. \A e \in Waiting : e.at # at
      BY <1>a, <1>1, WaitingIn DEF Unheard
    <3>3. \A c \in DOMAIN cookie : cookie[c] # at
      BY <1>a, <1>1 DEF Range
    <3> QED
      <4>1. ASSUME NEW e \in Waiting \cup ToSet(new), Dies(e) \/ IsFrom(e) PROVE Vacant(e.at)'
        <5>1. Vacant(e.at) /\ e.at # at
          BY <2>1, <3>1, <3>2, <4>1 DEF DeadInv, CookieInv
        <5> QED
          BY <1>11, <5>1
      <4>2. ASSUME NEW c \in DOMAIN cookie PROVE Vacant(cookie[c])'
        <5>1. Vacant(cookie[c]) /\ cookie[c] # at
          BY <2>1, <3>3, <4>2 DEF CookieInv
        <5>2. PICK r : r = cookie[c]
          OBVIOUS
        <5>3. Vacant(r)'
          BY <1>11, <5>1, <5>2
        <5>4. cookie'[c] = r
          BY <1>2, <5>2
        <5> QED
          BY <5>3, <5>4 DEF Vacant, FolderAt
      <4> QED
        BY <4>1, <4>2 DEF Avoids
  <2> QED
    BY <2>2, <2>3, <2>4
<1>15. Live' => LiveInv'
  <2>1. Live' => Live
    BY <1>2 DEF Live
  <2> QED
    BY <1>2, <1>13, <1>14, <2>1, Quietly DEF Monitored
<1>16. ASSUME ~quit' PROVE CoverInv'
  <2>1. CoverInv /\ LiveInv
    BY <1>2, <1>16 DEF Monitored, Live
  <2>2. Waiting' = Waiting \cup ToSet(new)
    BY <1>2, <1>12, <1>13, Appended
  <2>3. \A e \in ToSet(new) : ~Leaves(e) /\ ~Arrives(e)
    BY <1>12 DEF Leaves, Arrives, IsFrom
  <2>4. Still' <=> Still
    BY <1>2, <2>2, <2>3, SameShifts
  <2>5. \A r : (DueWalk(r) => DueWalk(r)') /\ (DueEvent(r) => DueEvent(r)')
    BY <1>2, <2>2, <2>4, DueStays
  <2>6. ASSUME NEW x \in Dirs, Below(x)', x # d
        PROVE  watch'[x] # 0 \/ DueWalk(Path[x])' \/ DueEvent(Path[x])'
    <3>1. Path'[x] = Path[x] /\ Below(x)
      BY <1>9, <2>6 DEF Below, p, q
    <3>2. watch[x] # 0 \/ DueWalk(Path[x]) \/ DueEvent(Path[x])
      BY <2>1, <2>6, <3>1 DEF CoverInv
    <3> QED
      BY <1>2, <2>5, <3>1, <3>2 DEF DueWalk, DueEvent
  <2>7. DueWalk(at)' \/ DueEvent(at)'
    <3>1. watch[u] # 0 \/ DueWalk(Path[u]) \/ DueEvent(Path[u])
      BY <1>1, <1>4, <2>1 DEF CoverInv
    <3>2. CASE watch[u] # 0
      <4>1. PICK e \in ToSet(new) : e.wd = watch[u] /\ e.mask = "CREATE" /\ e.at = at
        BY <1>12, <3>2
      <4>2. e.wd \in DOMAIN wdPath' /\ e \in Waiting'
        BY <1>2, <1>4, <2>1, <2>2, <3>2, <4>1 DEF LiveInv, WatchInv
      <4>3. IsPrefix(at, at)
        BY <1>10, PathForms, PrefixOrder
      <4> QED
        BY <4>1, <4>2, <4>3 DEF DueEvent, Brings
    <3>3. CASE DueWalk(p[u])
      <4>1. PICK i \in DOMAIN todo : IsPrefix(todo[i].path, p[u])
        BY <3>3 DEF DueWalk
      <4>3. todo[i].path \in PathForm
        <5>1. todo \in Seq(TodoItem)
          BY <2>1 DEF LiveInv, WalkInv
        <5>2. todo[i] \in TodoItem
          BY <5>1, ElementIn
        <5> QED
          BY <5>2 DEF TodoItem
      <4>2. IsPrefix(todo[i].path, at) /\ todo[i].path # at
        BY <1>10, <4>1, <4>3, PathForms, PrefixOrder
      <4> QED
        BY <1>2, <4>2 DEF DueWalk
    <3>4. CASE DueEvent(p[u])
      <4>1. PICK e \in Waiting : Brings(e) /\ e.wd \in DOMAIN wdPath /\ IsPrefix(e.at, p[u])
        BY <3>4 DEF DueEvent
      <4>2. e.at \in PathForm
        BY <2>1, <4>1 DEF LiveInv, EventInv, EventForm, Brings, Dies, Arrives
      <4>3. IsPrefix(e.at, at)
        BY <1>10, <4>1, <4>2, PathForms, PrefixOrder
      <4>4. DueEvent(at)
        BY <4>1, <4>3 DEF DueEvent
      <4> QED
        BY <2>5, <4>4
    <3> QED
      BY <3>1, <3>2, <3>3, <3>4 DEF p
  <2>8. DueWalk(Path[d])' \/ DueEvent(Path[d])'
    BY <1>10, <2>7 DEF q, DueWalk, DueEvent
  <2> QED
    BY <2>6, <2>8 DEF CoverInv, Dirs
<1> QED
  BY <1>8, <1>15, <1>16 DEF Monitored

(* The tree as it was. *)
LEMMA TreeSame ==
    ASSUME UNCHANGED <<up, name>>
    PROVE  Path' = Path /\ (TreeInv => TreeInv') /\ \A r : (Vacant(r)' <=> Vacant(r)) /\ (Below(r)' <=> Below(r))
<1>1. Path' = Path
  BY DEF Path
<1>2. TreeInv => TreeInv'
  BY DEF TreeInv
<1> QED
  BY <1>1, <1>2 DEF Vacant, FolderAt, Below

(* One event follows another. *)
LEMMA TwoEvents ==
    ASSUME MoveInv, NEW s, NEW t, \E S : s \in Seq(S), \E S : t \in Seq(S)
    PROVE  /\ (queue \o s) \o t = queue \o (s \o t)
           /\ \E S : s \o t \in Seq(S)
           /\ ToSet(s \o t) = ToSet(s) \cup ToSet(t)
<1>1. PICK R : buf \in Seq(R) /\ queue \in Seq(R)
  BY DEF MoveInv
<1>2. PICK S, T : s \in Seq(S) /\ t \in Seq(T)
  OBVIOUS
<1> DEFINE U == R \cup (S \cup T)
<1>3. queue \in Seq(U) /\ s \in Seq(U) /\ t \in Seq(U)
  <2>1. s \in Seq(S \cup T) /\ t \in Seq(S \cup T)
    BY <1>2, SeqOfMore
  <2> QED
    BY <1>1, <2>1, SeqOfMore
<1> HIDE DEF U
<1>4. s \o t \in Seq(U) /\ (queue \o s) \o t = queue \o (s \o t)
  BY <1>3, ConcatAt, ConcatAssociates, SMTT(40)
<1> DEFINE c == s \o t
<1>5. /\ \A i \in DOMAIN s : i \in DOMAIN c /\ c[i] = s[i]
      /\ \A i \in DOMAIN c : (i \in DOMAIN s /\ c[i] = s[i]) \/ (i - Len(s) \in DOMAIN t /\ c[i] = t[i - Len(s)])
  BY <1>3, ConcatAt
<1>6. ASSUME NEW j \in DOMAIN t PROVE \E i \in DOMAIN c : c[i] = t[j]
  <2>1. /\ Len(s) \in Nat /\ Len(t) \in Nat /\ Len(s \o t) = Len(s) + Len(t)
        /\ Len(s) + j \in 1..Len(s) + Len(t) /\ ~(Len(s) + j <= Len(s)) /\ (Len(s) + j) - Len(s) = j
    BY <1>3, <1>6, ConcatProperties
  <2>2. (s \o t)[Len(s) + j] = t[(Len(s) + j) - Len(s)]
    BY <1>3, <2>1, ConcatProperties
  <2>3. Len(s) + j \in DOMAIN (s \o t)
    BY <1>3, <2>1, ConcatProperties
  <2> QED
    BY <2>1, <2>2, <2>3
<1>7. ToSet(c) = ToSet(s) \cup ToSet(t)
  <2> HIDE DEF c
  <2> QED
    BY <1>5, <1>6 DEF ToSet
<1> QED
  BY <1>4, <1>7

(* Who finds every folder of the tree where it was still finds it. *)
LEMMA StaysCovered ==
    ASSUME MoveInv, CoverInv, NEW new, queue' = queue \o new, UNCHANGED <<maps, buf, todo>>, Noted(new),
           \A d \in Dirs : Below(d)' => Below(d) /\ Path'[d] = Path[d] /\ watch'[d] = watch[d]
    PROVE  CoverInv'
<1>1. buf' = buf /\ todo' = todo /\ wdPath' = wdPath /\ cookie' = cookie
  BY DEF maps
<1>2. Waiting' = Waiting \cup ToSet(new)
  BY <1>1, Appended DEF Noted
<1>3. Still' <=> Still
  BY <1>1, <1>2, SameShifts DEF Noted
<1>4. \A r : (DueWalk(r) => DueWalk(r)') /\ (DueEvent(r) => DueEvent(r)')
  BY <1>1, <1>2, <1>3, DueStays
<1>5. ASSUME NEW d \in Dirs, Below(d)' PROVE watch'[d] # 0 \/ DueWalk(Path[d])' \/ DueEvent(Path[d])'
  <2>1. Below(d) /\ Path'[d] = Path[d] /\ watch'[d] = watch[d]
    BY <1>5
  <2>2. watch[d] # 0 \/ DueWalk(Path[d]) \/ DueEvent(Path[d])
    BY <2>1 DEF CoverInv
  <2> QED
    BY <1>4, <2>1, <2>2 DEF DueWalk, DueEvent
<1> QED
  BY <1>5 DEF CoverInv, Dirs

(* What others do leaves the rest as it was. *)
LEMMA Others ==
    ASSUME MoveInv, NEW op, NEW c, Change(op), Counted(c)
    PROVE  /\ UNCHANGED <<maps, buf, todo, root, quit>> /\ issued'.wd = issued.wd
           /\ (Live' <=> Live) /\ (~quit => Live) /\ (quit' <=> quit)
<1>1. UNCHANGED <<maps, buf, todo, root, quit>>
  BY DEF Change
<1>2. issued'.wd = issued.wd
  BY DEF MoveInv, Counted, IssuedType
<1> QED
  BY <1>1, <1>2 DEF Live

(* A file is moved out of the tree. *)
LEMMA MoveFileMonitored ==
    ASSUME Distinct, MoveInv, Monitored, MoveFile
    PROVE  Monitored'
<1>1. PICK d \in Dirs : Below(d) /\ queue' = queue \o Event(d, "MOVED_FROM", <<"f">>, FALSE, issued.cookie + 1)
  BY DEF MoveFile, Dirs
<1> DEFINE new == Event(d, "MOVED_FROM", <<"f">>, FALSE, issued.cookie + 1)
<1>2. /\ UNCHANGED <<maps, buf, todo, root, quit>> /\ issued'.wd = issued.wd
      /\ (Live' <=> Live) /\ (~quit => Live) /\ (quit' <=> quit)
  BY Others DEF MoveFile
<1>3. /\ UNCHANGED <<up, name, watch>> /\ Path' = Path /\ TreeInv /\ TreeInv'
      /\ \A r : (Vacant(r)' <=> Vacant(r)) /\ (Below(r)' <=> Below(r))
  BY TreeSame DEF MoveFile, Monitored
<1>4. Says(new, d, "MOVED_FROM", <<"f">>, FALSE, issued.cookie + 1)
  BY EventIs
<1>5. queue' = queue \o new
  BY <1>1
<1> HIDE DEF new
<1>6. ASSUME LiveInv PROVE Noted(new) /\ Kept(new) /\ Avoids(new)
  <2>1. WatchInv /\ DeadInv /\ CookieInv
    BY <1>6 DEF LiveInv
  <2>2. ASSUME NEW e \in ToSet(new)
        PROVE  /\ e.mask = "MOVED_FROM" /\ ~e.dir /\ EventForm(e)
               /\ Below(d) /\ watch[d] = e.wd /\ e.at = Join(Path[d], e.name) /\ Vacant(e.at)
    <3>1. /\ watch[d] # 0 /\ e.wd = watch[d] /\ e.mask = "MOVED_FROM" /\ e.name = <<"f">>
          /\ ~e.dir /\ e.at = Join(Path[d], <<"f">>)
      BY <1>4, <2>2 DEF Says
    <3>2. e.wd \in 1..issued.wd
      BY <2>1, <3>1 DEF WatchInv
    <3>3. Path[d] \in PathForm /\ Path[d] \in Seq(Letter) /\ \A x \in Dirs : Path[x] \in PathForm \cup {Lost}
      BY <1>1, <1>3, StatePaths
    <3>4. e.at \notin PathForm /\ e.at # Lost
      <4>1. <<"f">> \in Name \cup {<<"f">>}
        OBVIOUS
      <4>2. Join(Path[d], <<"f">>) = Step(Path[d], <<"f">>) /\ Step(Path[d], <<"f">>) # Lost
        BY <3>3, <4>1, StepFacts
      <4>3. Step(Path[d], <<"f">>) \notin PathForm
        BY <3>3, PathForms
      <4> QED
        BY <3>1, <4>2, <4>3
    <3>5. Vacant(e.at)
      BY <3>3, <3>4 DEF Vacant, FolderAt, Dirs
    <3> QED
      BY <1>1, <3>1, <3>2, <3>4, <3>5 DEF EventForm, Dies
  <2>3. Noted(new)
    BY <1>4, <2>2 DEF Noted, Says, Leaves, Arrives
  <2>4. Kept(new)
    BY <1>3, <2>1, <2>2 DEF Kept, WatchInv, Dies
  <2>5. Avoids(new)
    <3>1. \A e \in Waiting \cup ToSet(new) : Dies(e) \/ IsFrom(e) => Vacant(e.at)'
      BY <1>3, <2>1, <2>2 DEF DeadInv, CookieInv
    <3>2. \A c \in DOMAIN cookie : Vacant(cookie[c])'
      BY <1>2, <1>3, <2>1 DEF CookieInv, Vacant, FolderAt, maps
    <3> QED
      BY <3>1, <3>2 DEF Avoids
  <2> QED
    BY <2>3, <2>4, <2>5
<1>7. Live' => LiveInv'
  BY <1>2, <1>3, <1>5, <1>6, Quietly DEF Monitored
<1>8. ASSUME ~quit' PROVE CoverInv'
  <2>1. CoverInv /\ LiveInv
    BY <1>2, <1>8 DEF Monitored
  <2> QED
    BY <1>2, <1>3, <1>5, <1>6, <2>1, StaysCovered
<1> QED
  BY <1>3, <1>7, <1>8 DEF Monitored

(* The metadata of a folder is changed. *)
LEMMA AttribMonitored ==
    ASSUME Distinct, MoveInv, Monitored, Attrib
    PROVE  Monitored'
<1>1. PICK d \in Folder : Below(d) /\ queue' = queue \o Event(up[d], "ATTRIB", name[d], TRUE, 0)
  BY DEF Attrib
<1> DEFINE new == Event(up[d], "ATTRIB", name[d], TRUE, 0)
<1>2. /\ UNCHANGED <<maps, buf, todo, root, quit>> /\ issued'.wd = issued.wd
      /\ (Live' <=> Live) /\ (~quit => Live) /\ (quit' <=> quit)
  BY Others DEF Attrib
<1>3. /\ UNCHANGED <<up, name, watch>> /\ Path' = Path /\ TreeInv /\ TreeInv'
      /\ \A r : (Vacant(r)' <=> Vacant(r)) /\ (Below(r)' <=> Below(r))
  BY TreeSame DEF Attrib, Monitored
<1>4. Says(new, up[d], "ATTRIB", name[d], TRUE, 0)
  BY EventIs
<1>5. queue' = queue \o new
  BY <1>1
<1> HIDE DEF new
<1>6. ASSUME LiveInv PROVE Noted(new) /\ Kept(new) /\ Avoids(new)
  <2>1. WatchInv /\ DeadInv /\ CookieInv
    BY <1>6 DEF LiveInv
  <2>2. ASSUME NEW e \in ToSet(new)
        PROVE  /\ e.mask = "ATTRIB" /\ EventForm(e)
               /\ up[d] \in Dirs /\ Below(up[d]) /\ watch[up[d]] = e.wd /\ e.at = Join(Path[up[d]], e.name)
    <3>1. /\ watch[up[d]] # 0 /\ e.wd = watch[up[d]] /\ e.mask = "ATTRIB" /\ e.name = name[d]
          /\ e.dir /\ e.at = Join(Path[up[d]], name[d])
      BY <1>4, <2>2 DEF Says
    <3>2. /\ up[d] \in Dirs /\ name[d] \in Name /\ Path[up[d]] \in PathForm /\ Path[up[d]] # Lost
          /\ Path[d] = Step(Path[up[d]], name[d]) /\ Path[d] \in PathForm
      <4>1. Path[d] # Lost /\ IsTree(up, name) /\ Path = PathOf(up, name) /\ d \in Places
        BY <1>1, <1>3 DEF Below, TreeInv, Path, Places
      <4> QED
        BY <4>1, PathsAre
    <3>3. e.wd \in 1..issued.wd
      BY <2>1, <3>1, <3>2 DEF WatchInv
    <3>4. e.at \in PathForm
      <4>1. name[d] \in Name \cup {<<"f">>} /\ Path[up[d]] \in Seq(Letter)
        BY <3>2, PathForms
      <4>2. Join(Path[up[d]], name[d]) = Step(Path[up[d]], name[d])
        BY <4>1, StepFacts
      <4> QED
        BY <3>1, <3>2, <4>2
    <3> QED
      BY <3>1, <3>2, <3>3, <3>4 DEF EventForm, Dies, Below
  <2>3. Noted(new)
    BY <1>4, <2>2 DEF Noted, Says, Leaves, Arrives, IsFrom
  <2>4. Kept(new)
    BY <1>3, <2>1, <2>2 DEF Kept, WatchInv, Dies
  <2>5. Avoids(new)
    <3>1. \A e \in Waiting \cup ToSet(new) : Dies(e) \/ IsFrom(e) => Vacant(e.at)'
      BY <1>3, <2>1, <2>2 DEF DeadInv, CookieInv, Dies, IsFrom
    <3>2. \A c \in DOMAIN cookie : Vacant(cookie[c])'
      BY <1>2, <1>3, <2>1 DEF CookieInv, Vacant, FolderAt, maps
    <3> QED
      BY <3>1, <3>2 DEF Avoids
  <2> QED
    BY <2>3, <2>4, <2>5
<1>7. Live' => LiveInv'
  BY <1>2, <1>3, <1>5, <1>6, Quietly DEF Monitored
<1>8. ASSUME ~quit' PROVE CoverInv'
  <2>1. CoverInv /\ LiveInv
    BY <1>2, <1>8 DEF Monitored
  <2> QED
    BY <1>2, <1>3, <1>5, <1>6, <2>1, StaysCovered
<1> QED
  BY <1>3, <1>7, <1>8 DEF Monitored

(* A folder is deleted. *)
LEMMA RmdirMonitored ==
    ASSUME Distinct, MoveInv, Monitored, Rmdir
    PROVE  Monitored'
<1>1. PICK d \in Folder :
        /\ Below(d) /\ Children(d) = {}
        /\ up' = [up EXCEPT ![d] = Gone] /\ name' = [name EXCEPT ![d] = <<>>]
        /\ watch' = [watch EXCEPT ![d] = 0]
        /\ queue' = (queue \o Event(d, "DELETE_SELF", <<>>, FALSE, 0)) \o Event(up[d], "DELETE", name[d], TRUE, 0)
  BY DEF Rmdir
<1> DEFINE s == Event(d, "DELETE_SELF", <<>>, FALSE, 0)  t == Event(up[d], "DELETE", name[d], TRUE, 0)  new == s \o t
<1>2. /\ UNCHANGED <<maps, buf, todo, root, quit>> /\ issued'.wd = issued.wd
      /\ (Live' <=> Live) /\ (~quit => Live) /\ (quit' <=> quit)
  BY Others DEF Rmdir
<1>3. Says(s, d, "DELETE_SELF", <<>>, FALSE, 0) /\ Says(t, up[d], "DELETE", name[d], TRUE, 0)
  BY EventIs
<1>4. queue' = (queue \o s) \o t
  BY <1>1
<1> HIDE DEF s, t
<1>5. queue' = queue \o new /\ ToSet(new) = ToSet(s) \cup ToSet(t) /\ \E S : new \in Seq(S)
  BY <1>3, <1>4, TwoEvents DEF Says
<1> HIDE DEF new
<1>6. IsTree(up, name) /\ Path = PathOf(up, name) /\ Path' = PathOf(up', name')
  BY DEF Monitored, TreeInv, Path
<1> DEFINE p == Path  q == Path'  w == up'  k == name'
<1>7. Rehangs(up, name, w, k, d, Gone, <<>>) /\ p = PathOf(up, name) /\ q = PathOf(w, k) /\ Gone \in Places
  BY <1>1, <1>6 DEF Rehangs, Places
<1>8. \A x \in Folder : up[x] # d
  BY <1>1 DEF Children
<1> HIDE DEF p, q, w, k
<1>9. IsTree(w, k)
  BY <1>6, <1>7, <1>8, PlacesDiffer, TreeRehung
<1>10. TreeInv'
  BY <1>9 DEF TreeInv, w, k
<1>11. \A x \in Dirs : x # d => q[x] = p[x]
  BY <1>6, <1>7, <1>8, <1>9, PathsElsewhere DEF Dirs, Places
<1>12. q[d] = Lost
  <2>1. w[d] = Gone
    BY <1>1, <1>6 DEF w, IsTree
  <2> QED
    BY <1>7, <1>9, <2>1, PathsAre
<1>13. \A r : Vacant(r) => Vacant(r)'
  BY <1>11, <1>12 DEF Vacant, FolderAt, Dirs, p, q
<1>14. /\ up[d] \in Dirs /\ Below(up[d]) /\ name[d] \in Name /\ Path[d] = Join(Path[up[d]], name[d]) /\ Path[d] \in PathForm
       /\ d \in Dirs /\ Path[d] # Lost /\ FolderAt(Path[d]) = {d}
  <2>1. Path[d] # Lost /\ d \in Dirs /\ d \in Places /\ TreeInv
    BY <1>1 DEF Below, Dirs, Places, Monitored
  <2>2. /\ up[d] \in Dirs /\ name[d] \in Name /\ Path[up[d]] \in PathForm /\ Path[up[d]] # Lost
        /\ Path[d] = Step(Path[up[d]], name[d]) /\ Path[d] \in PathForm
    BY <1>6, <2>1, PathsAre
  <2>3. name[d] \in Name \cup {<<"f">>} /\ Path[up[d]] \in Seq(Letter)
    BY <2>2, PathForms
  <2>4. Join(Path[up[d]], name[d]) = Step(Path[up[d]], name[d])
    BY <2>3, StepFacts
  <2>5. FolderAt(Path[d]) = {d}
    BY <1>1, <2>1, StatePaths
  <2> QED
    BY <2>1, <2>2, <2>4, <2>5 DEF Below
<1>15. ASSUME NEW r, r = Path[d] PROVE Vacant(r)'
  <2>1. \A x \in Dirs : x # d => Path[x] # r
    BY <1>14, <1>15 DEF FolderAt, Dirs
  <2> QED
    BY <1>11, <1>12, <1>14, <1>15, <2>1 DEF Vacant, FolderAt, Dirs, p, q
<1>16. ASSUME LiveInv PROVE Noted(new) /\ Kept(new) /\ Avoids(new)
  <2>1. WatchInv /\ DeadInv /\ CookieInv
    BY <1>16 DEF LiveInv
  <2>2. ASSUME NEW e \in ToSet(s)
        PROVE  /\ e.mask = "DELETE_SELF" /\ EventForm(e) /\ watch[d] # 0
               /\ Below(d) /\ watch[d] = e.wd /\ e.at = Join(Path[d], e.name) /\ Vacant(e.at)'
    <3>1. /\ watch[d] # 0 /\ e.wd = watch[d] /\ e.mask = "DELETE_SELF" /\ e.name = <<>>
          /\ e.at = Join(Path[d], <<>>)
      BY <1>3, <2>2 DEF Says
    <3>2. e.wd \in 1..issued.wd
      BY <1>14, <2>1, <3>1 DEF WatchInv
    <3>3. e.at = Path[d]
      BY <3>1 DEF Join
    <3> QED
      BY <1>1, <1>14, <1>15, <3>1, <3>2, <3>3 DEF EventForm, Dies
  <2>3. ASSUME NEW e \in ToSet(t)
        PROVE  /\ e.mask = "DELETE" /\ EventForm(e)
               /\ watch[up[d]] = e.wd /\ e.at = Join(Path[up[d]], e.name)
    <3>1. /\ watch[up[d]] # 0 /\ e.wd = watch[up[d]] /\ e.mask = "DELETE" /\ e.name = name[d]
          /\ e.dir /\ e.at = Join(Path[up[d]], name[d])
      BY <1>3, <2>3 DEF Says
    <3>2. e.wd \in 1..issued.wd
      BY <1>14, <2>1, <3>1 DEF WatchInv
    <3> QED
      BY <1>14, <3>1, <3>2 DEF EventForm, Dies
  <2>4. Noted(new)
    <3>1. ASSUME NEW e \in ToSet(new)
          PROVE  /\ ~Leaves(e) /\ ~Arrives(e) /\ EventForm(e)
                 /\ \E x \in Dirs : Below(x) /\ watch[x] = e.wd /\ e.at = Join(Path[x], e.name)
      <4>1. CASE e \in ToSet(s)
        BY <1>14, <2>2, <4>1 DEF Leaves, Arrives, IsFrom
      <4>2. CASE e \in ToSet(t)
        BY <1>14, <2>3, <4>2 DEF Leaves, Arrives, IsFrom
      <4> QED
        BY <1>5, <4>1, <4>2
    <3> QED
      BY <1>5, <3>1 DEF Noted
  <2>5. Kept(new)
    <3>1. /\ watch' \in [Dirs \cup {Out} -> Nat] /\ watch'[Out] = 0 /\ watch'[d] = 0
          /\ \A x \in Dirs : x # d => watch'[x] = watch[x]
      BY <1>1, <1>14, <2>1, PlacesDiffer DEF WatchInv, Dirs
    <3>2. watch[d] # 0 => \E e \in ToSet(new) : Dies(e) /\ e.wd = watch[d]
      BY <1>3, <1>5 DEF Says, Dies
    <3>3. ASSUME NEW x \in Folder, up'[x] = Gone PROVE watch'[x] = 0
      <4>1. x # d => up'[x] = up[x]
        BY <1>1, <1>6 DEF IsTree
      <4> QED
        BY <2>1, <3>1, <3>3, <4>1 DEF WatchInv, Dirs
    <3>4. ASSUME NEW e \in ToSet(new), Dies(e), NEW x \in Dirs PROVE watch'[x] # e.wd
      <4>1. e.wd = watch[d] /\ watch[d] # 0
        BY <1>5, <2>2, <2>3, <3>4 DEF Dies
      <4> QED
        BY <1>14, <2>1, <3>1, <4>1 DEF WatchInv
    <3> QED
      BY <1>1, <1>11, <3>1, <3>2, <3>3, <3>4 DEF Kept, p, q
  <2>6. Avoids(new)
    <3>1. \A e \in Waiting \cup ToSet(new) : Dies(e) \/ IsFrom(e) => Vacant(e.at)'
      BY <1>5, <1>13, <2>1, <2>2, <2>3 DEF DeadInv, CookieInv, Dies, IsFrom
    <3>2. ASSUME NEW c \in DOMAIN cookie PROVE Vacant(cookie[c])'
      <4>1. PICK r : r = cookie[c]
        OBVIOUS
      <4>2. Vacant(r)' /\ cookie'[c] = r
        BY <1>2, <1>13, <2>1, <3>2, <4>1 DEF CookieInv, maps
      <4> QED
        BY <4>2 DEF Vacant, FolderAt
    <3> QED
      BY <3>1, <3>2 DEF Avoids
  <2> QED
    BY <2>4, <2>5, <2>6
<1>17. Live' => LiveInv'
  BY <1>2, <1>5, <1>16, Quietly DEF Monitored
<1>18. ASSUME ~quit' PROVE CoverInv'
  <2>1. CoverInv /\ LiveInv
    BY <1>2, <1>18 DEF Monitored
  <2>2. ASSUME NEW x \in Dirs, Below(x)' PROVE Below(x) /\ Path'[x] = Path[x] /\ watch'[x] = watch[x]
    <3>1. x # d
      BY <1>12, <2>2 DEF Below, q
    <3>2. watch'[x] = watch[x]
      BY <1>1, <2>1, <3>1 DEF LiveInv, WatchInv
    <3> QED
      BY <1>11, <2>2, <3>1, <3>2 DEF Below, p, q
  <2> QED
    BY <1>2, <1>5, <1>16, <2>1, <2>2, StaysCovered
<1> QED
  BY <1>10, <1>17, <1>18 DEF Monitored

(* When everything is processed the watches are those of the folders of the
   tree, and their paths are right. *)
LEMMA AtRest ==
    ASSUME MoveInv, LiveInv, CoverInv, Quiet
    PROVE  /\ Waiting = {} /\ Still
           /\ \A d \in Dirs : Below(d) <=> watch[d] # 0
           /\ \A d \in Dirs : Below(d) => watch[d] \in DOMAIN wdPath /\ wdPath[watch[d]] = Path[d]
           /\ \A w \in DOMAIN wdPath : Held(w)
<1>1. Waiting = {}
  <2>1. \A e \in Waiting : (\E i \in DOMAIN queue : queue[i] = e) \/ (\E i \in DOMAIN buf : buf[i] = e)
    BY WaitingIn
  <2>2. DOMAIN queue = {} /\ DOMAIN buf = {}
    BY DEF Quiet
  <2> QED
    BY <2>1, <2>2
<1>2. Still /\ DOMAIN cookie = {} /\ DOMAIN todo = {}
  BY <1>1 DEF Still, Quiet
<1>3. /\ WatchInv /\ DeadInv /\ OutInv /\ PlaceInv
  BY DEF LiveInv
<1>4. ASSUME NEW d \in Dirs, Below(d) PROVE watch[d] # 0
  BY <1>1, <1>2, <1>4 DEF CoverInv, DueWalk, DueEvent
<1>5. ASSUME NEW d \in Dirs, watch[d] # 0 PROVE Below(d)
  BY <1>1, <1>2, <1>3, <1>5 DEF OutInv, Strays, Leaving
<1>6. ASSUME NEW d \in Dirs, Below(d) PROVE watch[d] \in DOMAIN wdPath /\ wdPath[watch[d]] = Path[d]
  BY <1>2, <1>3, <1>4, <1>6 DEF WatchInv, PlaceInv, Becomes
<1>7. \A w \in DOMAIN wdPath : Held(w)
  BY <1>1, <1>3 DEF DeadInv
<1> QED
  BY <1>1, <1>2, <1>4, <1>5, <1>6, <1>7

(* Nothing before a sequence. *)
LEMMA EmptyBefore ==
    ASSUME NEW S, NEW s \in Seq(S)
    PROVE  <<>> \o s = s
  OBVIOUS

(* At rest, the events of a move are all that waits. *)
LEMMA NextPending ==
    ASSUME Quiet, buf' = buf, NEW s, NEW t, \E S : s \in Seq(S), \E S : t \in Seq(S), queue' = (queue \o s) \o t
    PROVE  Pending' = s \o t
<1>1. PICK S, T : s \in Seq(S) /\ t \in Seq(T)
  OBVIOUS
<1>2. PICK U : s \in Seq(U) /\ t \in Seq(U)
  BY <1>1, SeqOfMore, ZenonT(40)
<1>3. queue \o s = s
  BY <1>2, EmptyBefore DEF Quiet
<1>4. queue' = s \o t /\ s \o t \in Seq(U)
  BY <1>2, <1>3, ConcatAt
<1>5. buf' = <<>>
  BY DEF Quiet
<1>6. buf' \o queue' = s \o t
  BY <1>4, <1>5, EmptyBefore
<1> QED
  BY <1>6 DEF Pending

(* What a move finds, and what it leaves. *)
Moves(d, u, n) ==
    /\ d \in Folder /\ u \in Folder \cup {Top, Out} /\ n \in Name
    /\ Below(d) \/ (up[d] = Out /\ u # Out)
    /\ u \in {Top, Out} \/ (Below(u) /\ ~IsPrefix(Path[d], Path[u]))
    /\ Free(u, n)
    /\ up' = [up EXCEPT ![d] = u] /\ name' = [name EXCEPT ![d] = n]
    /\ UNCHANGED <<watch, wdPath, pathWd, cookie, buf, todo, root>> /\ issued'.wd = issued.wd

(* The tree stays one. *)
LEMMA MovesTree ==
    ASSUME TreeInv, NEW d, NEW u, NEW n, Moves(d, u, n)
    PROVE  /\ TreeInv' /\ IsTree(up, name) /\ Path = PathOf(up, name)
           /\ IsTree(up', name') /\ Path' = PathOf(up', name')
           /\ Rehangs(up, name, up', name', d, u, n) /\ u \in Places /\ u # Gone
           /\ \A x \in Folder : up'[x] = Gone => up[x] = Gone
<1>1. IsTree(up, name) /\ Path = PathOf(up, name) /\ Path' = PathOf(up', name')
  BY DEF TreeInv, Path
<1>2. Rehangs(up, name, up', name', d, u, n) /\ u \in Places /\ u # Gone
  BY PlacesDiffer DEF Moves, Rehangs, Places
<1> DEFINE w == up'  k == name' p == Path
<1>3. Rehangs(up, name, w, k, d, u, n) /\ p = PathOf(up, name)
  BY <1>1, <1>2
<1>4. n \in Name /\ \A e \in Folder : up[e] = u => name[e] # n
  BY DEF Moves, Free, Children
<1>5. u \in Folder => p[u] # Lost /\ (p[d] = Lost \/ ~IsPrefix(p[d], p[u]))
  BY PlacesDiffer DEF Moves, Below
<1>6. d \in Folder
  BY DEF Moves
<1> HIDE DEF w, k, p
<1>7. IsTree(w, k)
  BY <1>1, <1>2, <1>3, <1>4, <1>5, <1>6, TreeRehung
<1>8. TreeInv' /\ IsTree(up', name')
  BY <1>7 DEF TreeInv, w, k
<1>9. \A x \in Folder : up'[x] = Gone => up[x] = Gone
  BY <1>1, <1>2 DEF Moves, IsTree
<1> QED
  BY <1>1, <1>2, <1>8, <1>9

(* What does not depend on the kind of the move. *)
LEMMA MovesFrame ==
    ASSUME TreeInv, MoveInv, LiveInv, CoverInv, Quiet, NEW d, NEW u, NEW n, Moves(d, u, n),
           \A e \in Waiting' : ~Dies(e)
    PROVE  WatchInv' /\ DeadInv' /\ WalkInv'
<1>1. WatchInv /\ WalkInv /\ \A w \in DOMAIN wdPath : Held(w)
  BY AtRest DEF LiveInv
<1>2. \A x \in Folder : up'[x] = Gone => up[x] = Gone
  BY MovesTree
<1>3. UNCHANGED <<watch, wdPath, pathWd, todo, root>> /\ issued'.wd = issued.wd
  BY DEF Moves
<1>4. WatchInv'
  BY <1>1, <1>2, <1>3 DEF WatchInv, Dirs
<1>5. DeadInv'
  BY <1>1, <1>3 DEF DeadInv, Held, Dirs, Dies
<1>6. WalkInv'
  BY <1>1, <1>3 DEF WalkInv
<1> QED
  BY <1>4, <1>5, <1>6

(* A folder is moved within the tree: two events, and every path below it is
   to be moved. *)
LEMMA WithinTree ==
    ASSUME Distinct, TreeInv, NEW d, NEW u, NEW n, Moves(d, u, n), Below(d), Below(u), u \in Dirs
    PROVE  \E old, new \in PathForm :
             /\ old = Path[d] /\ new = Step(Path[u], n)
             /\ ~IsPrefix(old, Path[u]) /\ ~IsPrefix(old, Path[up[d]]) /\ up[d] \in Dirs /\ Below(up[d]) /\ name[d] \in Name
             /\ old = Join(Path[up[d]], name[d]) /\ new = Join(Path[u], n)
             /\ \A x \in Dirs : Below(x) => ~IsPrefix(new, Path[x]) /\ Path'[x] = Shifted(old, new, Path[x]) /\ Path'[x] \in PathForm
             /\ \A x \in Dirs : ~Below(x) => ~Below(x)'
             /\ Vacant(old)'
<1> DEFINE p == Path  q == Path'  w == up'  k == name'
<1>1. /\ TreeInv' /\ IsTree(up, name) /\ p = PathOf(up, name) /\ IsTree(w, k) /\ q = PathOf(w, k)
      /\ Rehangs(up, name, w, k, d, u, n) /\ u \in Places /\ d \in Folder /\ n \in Name /\ d \in Dirs /\ d \in Places
  BY MovesTree DEF Moves, Dirs, Places
<1>2. p[d] # Lost /\ p[u] # Lost /\ \A x \in Dirs : Below(x) <=> p[x] # Lost
  BY DEF Below
<1>3. \A x \in Dirs : Below(x)' <=> q[x] # Lost
  BY DEF Below
<1>4. Free(u, n) /\ (u = Top \/ ~IsPrefix(Path[d], Path[u])) /\ p[Top] = <<>>
  BY <1>1, PathsAre, PlacesDiffer DEF Moves, Dirs
<1>5. PICK old : old = Path[d]
  OBVIOUS
<1>6. PICK new : new = Step(Path[u], n)
  OBVIOUS
<1> HIDE DEF p, q, w, k
<1>7. /\ up[d] \in Dirs /\ name[d] \in Name /\ p[up[d]] \in PathForm /\ p[up[d]] # Lost
      /\ p[d] = Step(p[up[d]], name[d]) /\ p[d] # <<>> /\ p[u] \in PathForm \cup {Lost} /\ p[d] \in PathForm \cup {Lost}
  BY <1>1, <1>2, PathsAre
<1>8. p[u] \in PathForm /\ p[u] \in Seq(Letter) /\ p[up[d]] \in Seq(Letter) /\ p[d] \in PathForm /\ p[d] \in Seq(Letter)
  BY <1>2, <1>7, PathForms
<1>9. n \in Name \cup {<<"f">>} /\ name[d] \in Name \cup {<<"f">>}
  BY <1>1, <1>7
<1>10. /\ new \in PathForm /\ new \in Seq(Letter) /\ Join(p[u], n) = Step(p[u], n) /\ Step(p[u], n) # <<>>
  <2>1. Step(p[u], n) \in PathForm /\ PathForm \subseteq Seq(Letter)
    BY <1>1, <1>8, PathForms
  <2>2. Join(p[u], n) = Step(p[u], n) /\ Step(p[u], n) # <<>>
    BY <1>8, <1>9, StepFacts
  <2> QED
    BY <1>6, <2>1, <2>2 DEF p
<1>11. Join(p[up[d]], name[d]) = p[d] /\ ~IsPrefix(p[d], p[up[d]])
  <2>1. Join(p[up[d]], name[d]) = Step(p[up[d]], name[d]) /\ ~IsPrefix(Step(p[up[d]], name[d]), p[up[d]])
    BY <1>8, <1>9, StepFacts
  <2> QED
    BY <1>7, <2>1
<1>12. ~IsPrefix(p[d], p[u])
  <2>1. ~IsPrefix(p[d], <<>>)
    BY <1>7, <1>8, PrefixOrder
  <2> QED
    BY <1>4, <2>1 DEF p
<1>13. ASSUME NEW x \in Dirs, p[x] # Lost PROVE ~IsPrefix(new, p[x])
  <2> SUFFICES ASSUME IsPrefix(new, p[x]) PROVE FALSE
    OBVIOUS
  <2>1. PICK y \in Dirs : p[y] = new
    BY <1>1, <1>10, <1>13, PathAbove
  <2>2. y \in Folder /\ p[y] # Lost /\ y \in Places
    <3>1. p[y] # p[Top] /\ p[y] # Lost
      BY <1>4, <1>6, <1>10, <2>1, PathForms DEF p
    <3> QED
      BY <3>1 DEF Dirs, Places
  <2>3. up[y] \in Dirs /\ name[y] \in Name /\ p[up[y]] \in PathForm /\ p[up[y]] # Lost /\ p[y] = Step(p[up[y]], name[y])
    BY <1>1, <2>2, PathsAre
  <2>4. p[up[y]] \in Seq(Letter) /\ name[y] \in Name \cup {<<"f">>} /\ Step(p[u], n) = Step(p[up[y]], name[y])
    BY <1>6, <2>1, <2>3, PathForms DEF p
  <2>5. p[u] = p[up[y]] /\ n = name[y]
    BY <1>8, <1>9, <2>4, StepEqual
  <2>6. up[y] = u
    BY <1>1, <1>2, <2>3, <2>5, PathsDiffer
  <2> QED
    BY <1>4, <2>2, <2>5, <2>6 DEF Free, Children
<1>14. ASSUME NEW x \in Dirs, p[x] # Lost PROVE q[x] = Shifted(old, new, p[x]) /\ q[x] \in PathForm
  <2>0. p[x] \in PathForm /\ p[x] \in Seq(Letter)
    <3>1. p[x] \in PathForm \cup {Lost}
      BY <1>1, <1>14, PathsAre DEF Dirs, Places
    <3> QED
      BY <1>14, <3>1, PathForms
  <2>1. CASE IsPrefix(p[d], p[x])
    <3>1. x \in Folder
      <4>1. x # Top
        BY <1>4, <1>7, <1>8, <2>1, PrefixOrder
      <4> QED
        BY <4>1 DEF Dirs
    <3>2. q[x] = Shifted(p[d], Step(p[u], n), p[x])
      BY <1>1, <1>2, <1>12, <1>14, <2>1, <3>1, PathsMoved
    <3>3. Shifted(old, new, p[x]) \in PathForm
      BY <1>5, <1>8, <1>10, <2>0, ShiftedForm DEF p
    <3> QED
      BY <1>5, <1>6, <3>2, <3>3 DEF p
  <2>2. CASE ~IsPrefix(p[d], p[x])
    <3>1. q[x] = p[x]
      BY <1>1, <1>14, <2>2, PathsBeside
    <3>2. Shifted(old, new, p[x]) = p[x]
      BY <1>5, <2>2 DEF Shifted, p
    <3> QED
      BY <2>0, <3>1, <3>2
  <2> QED
    BY <2>1, <2>2
<1>15. ASSUME NEW x \in Dirs, p[x] = Lost PROVE q[x] = Lost
  <2>1. x \in Folder
    BY <1>4, <1>15, PlacesDiffer DEF Dirs
  <2> QED
    BY <1>1, <1>2, <1>15, <2>1, NothingFound
<1>16. old # Lost /\ \A x \in Dirs : q[x] # old
  <2>1. ASSUME NEW x \in Dirs, q[x] = old PROVE FALSE
    <3>1. p[x] # Lost
      BY <1>2, <1>5, <1>15, <2>1 DEF p
    <3>2. p[x] \in Seq(Letter) /\ old \in Seq(Letter) /\ new \in Seq(Letter)
      <4>1. p[x] \in PathForm \cup {Lost}
        BY <1>1, PathsAre DEF Dirs, Places
      <4> QED
        BY <1>5, <1>8, <1>10, <3>1, <4>1, PathForms DEF p
    <3>3. CASE IsPrefix(old, p[x])
      <4>1. IsPrefix(new, Shifted(old, new, p[x]))
        BY <3>2, <3>3, ShiftedFacts
      <4>2. IsPrefix(new, p[d])
        BY <1>5, <1>14, <2>1, <3>1, <4>1 DEF p
      <4> QED
        BY <1>1, <1>2, <1>13, <4>2
    <3>4. CASE ~IsPrefix(old, p[x])
      <4>1. Shifted(old, new, p[x]) = p[x]
        BY <3>2, <3>4, ShiftedFacts
      <4>2. p[x] = old
        BY <1>14, <2>1, <3>1, <4>1
      <4> QED
        BY <3>2, <3>4, <4>2, PrefixOrder
    <3> QED
      BY <3>3, <3>4
  <2> QED
    BY <1>2, <1>5, <2>1 DEF p
<1>17. Vacant(old)'
  BY <1>16 DEF Vacant, FolderAt, q, Dirs
<1>18. /\ ~IsPrefix(old, Path[u]) /\ ~IsPrefix(old, Path[up[d]]) /\ up[d] \in Dirs /\ Below(up[d]) /\ name[d] \in Name
       /\ old = Join(Path[up[d]], name[d]) /\ new = Join(Path[u], n) /\ old \in PathForm
  BY <1>2, <1>5, <1>6, <1>7, <1>8, <1>10, <1>11, <1>12 DEF p
<1>19. \A x \in Dirs : Below(x) => ~IsPrefix(new, Path[x]) /\ Path'[x] = Shifted(old, new, Path[x]) /\ Path'[x] \in PathForm
  BY <1>2, <1>13, <1>14 DEF p, q
<1>20. \A x \in Dirs : ~Below(x) => ~Below(x)'
  BY <1>2, <1>3, <1>15
<1> QED
  BY <1>5, <1>6, <1>10, <1>17, <1>18, <1>19, <1>20

(* The move of a folder begins. *)
MoveEvents(d, u, n, c) ==
    queue' = (queue \o Event(up[d], "MOVED_FROM", name[d], TRUE, c)) \o Event(u, "MOVED_TO", n, TRUE, c)

(* The thread has then to move the paths, and nothing else. *)
LEMMA MoveWithin ==
    ASSUME Distinct, TreeInv, MoveInv, LiveInv, CoverInv, Quiet,
           NEW d, NEW u, NEW n, NEW c, Moves(d, u, n), MoveEvents(d, u, n, c), Below(d), Below(u), u \in Dirs
    PROVE  LiveInv' /\ CoverInv'
<1>1. PICK old, new \in PathForm :
             /\ old = Path[d] /\ new = Step(Path[u], n)
             /\ ~IsPrefix(old, Path[u]) /\ ~IsPrefix(old, Path[up[d]]) /\ up[d] \in Dirs /\ Below(up[d]) /\ name[d] \in Name
             /\ old = Join(Path[up[d]], name[d]) /\ new = Join(Path[u], n)
             /\ \A x \in Dirs : Below(x) => ~IsPrefix(new, Path[x]) /\ Path'[x] = Shifted(old, new, Path[x]) /\ Path'[x] \in PathForm
             /\ \A x \in Dirs : ~Below(x) => ~Below(x)'
             /\ Vacant(old)'
  BY WithinTree
<1> DEFINE s == Event(up[d], "MOVED_FROM", name[d], TRUE, c)  t == Event(u, "MOVED_TO", n, TRUE, c)
<1>2. Says(s, up[d], "MOVED_FROM", name[d], TRUE, c) /\ Says(t, u, "MOVED_TO", n, TRUE, c)
  BY EventIs
<1>3. queue' = (queue \o s) \o t
  BY DEF MoveEvents
<1> HIDE DEF s, t
<1>4. /\ Waiting = {} /\ Still /\ DOMAIN cookie = {} /\ todo = <<>> /\ d \in Dirs
      /\ \A x \in Dirs : Below(x) <=> watch[x] # 0
      /\ \A x \in Dirs : Below(x) => watch[x] \in DOMAIN wdPath /\ wdPath[watch[x]] = Path[x]
      /\ \A w \in DOMAIN wdPath : Held(w)
  BY AtRest DEF Quiet, Moves, Dirs
<1>5. /\ watch' = watch /\ wdPath' = wdPath /\ pathWd' = pathWd /\ cookie' = cookie /\ buf' = buf
      /\ todo' = todo /\ root' = root /\ issued'.wd = issued.wd /\ n \in Name
  BY DEF Moves
<1>6. PICK e1 : s = <<e1>> /\ ToSet(s) = {e1} /\ e1.wd = watch[up[d]] /\ e1.mask = "MOVED_FROM" /\ e1.name = name[d]
                /\ e1.dir /\ e1.cookie = c /\ e1.at = old
  BY <1>1, <1>2, <1>4 DEF Says
<1>7. PICK e2 : t = <<e2>> /\ ToSet(t) = {e2} /\ e2.wd = watch[u] /\ e2.mask = "MOVED_TO" /\ e2.name = n
                /\ e2.dir /\ e2.cookie = c /\ e2.at = new
  BY <1>1, <1>2, <1>4 DEF Says
<1>8. /\ DOMAIN Pending' = 1..2 /\ Pending'[1] = e1 /\ Pending'[2] = e2 /\ Waiting' = {e1, e2}
  <2>1. Pending' = s \o t
    BY <1>2, <1>3, <1>5, NextPending DEF Says
  <2>2. Pending' = <<e1>> \o <<e2>>
    BY <1>6, <1>7, <2>1
  <2>3. DOMAIN Pending' = 1..2 /\ Pending'[1] = e1 /\ Pending'[2] = e2
    BY <2>2
  <2>4. 1..2 = {1, 2}
    OBVIOUS
  <2> QED
    BY <2>3, <2>4 DEF Waiting
<1>9. /\ Leaves(e1) /\ ~Arrives(e1) /\ ~Leaves(e2) /\ Arrives(e2) /\ IsFrom(e1) /\ ~IsFrom(e2) /\ ~Dies(e1) /\ ~Dies(e2)
  BY <1>6, <1>7 DEF Leaves, Arrives, IsFrom, Dies
<1>10. /\ e1.wd \in DOMAIN wdPath /\ wdPath[e1.wd] = Path[up[d]] /\ e2.wd \in DOMAIN wdPath /\ wdPath[e2.wd] = Path[u]
       /\ e1.wd \in 1..issued.wd /\ e2.wd \in 1..issued.wd
  BY <1>1, <1>4, <1>6, <1>7 DEF LiveInv, WatchInv
<1>11. /\ ~Still'
       /\ \A o, m : Shifts(o, m)' <=> o = old /\ m = new
       /\ \A q, r : Becomes(q, r)' <=> r = Shifted(old, new, q)
  <2>1. ~Still'
    BY <1>8, <1>9 DEF Still, Arrives, Leaves, IsFrom
  <2>2. ASSUME NEW o, NEW m PROVE Shifts(o, m)' <=> o = old /\ m = new
    BY <1>4, <1>5, <1>6, <1>7, <1>8, <1>9 DEF Shifts, Arrives, Leaves, IsFrom
  <2>3. ASSUME NEW q, NEW r PROVE Becomes(q, r)' <=> r = Shifted(old, new, q)
    BY <2>1, <2>2 DEF Becomes
  <2> QED
    BY <2>1, <2>2, <2>3
<1>12. WatchInv' /\ DeadInv' /\ WalkInv'
  BY <1>8, <1>9, MovesFrame
<1>13. EventInv'
  BY <1>1, <1>5, <1>6, <1>7, <1>8, <1>9, <1>10 DEF EventInv, EventForm, Dies
<1>14. OrderInv'
  BY <1>6, <1>7, <1>8, <1>9 DEF OrderInv, Leaves, Arrives, IsFrom
<1>15. FlightInv'
  <2>1. /\ old \in DOMAIN pathWd /\ new \in PathForm /\ ~IsPrefix(new, old)
        /\ \A w \in DOMAIN wdPath : ~IsPrefix(new, wdPath[w])
    <3>1. old \in DOMAIN pathWd /\ ~IsPrefix(new, old)
      <4>1. watch[d] \in DOMAIN wdPath /\ wdPath[watch[d]] = old /\ ~IsPrefix(new, Path[d])
        BY <1>1, <1>4
      <4>2. \A w \in DOMAIN wdPath : wdPath[w] \in DOMAIN pathWd
        BY DEF LiveInv, WatchInv
      <4> QED
        BY <1>1, <4>1, <4>2
    <3>2. ASSUME NEW w \in DOMAIN wdPath PROVE ~IsPrefix(new, wdPath[w])
      <4>1. PICK x \in Dirs : watch[x] = w
        BY <1>4 DEF Held
      <4>2. w # 0
        BY DEF LiveInv, WatchInv
      <4> QED
        BY <1>1, <1>4, <4>1, <4>2
    <3> QED
      BY <3>1, <3>2
  <2> QED
    BY <1>4, <1>5, <1>8, <1>9, <1>10, <1>11, <2>1 DEF FlightInv, Leaves, Arrives, IsFrom
<1>16. PlaceInv'
  BY <1>1, <1>4, <1>5, <1>11 DEF PlaceInv, Dirs
<1>17. AtInv'
  <2>1. Path[u] \in PathForm /\ Path[up[d]] \in PathForm
    BY <1>1, StatePaths
  <2>2. PICK q1, q2 : q1 = Path[up[d]] /\ q2 = Path[u]
    OBVIOUS
  <2>3. Shifted(old, new, q1) = q1 /\ Shifted(old, new, q2) = q2
    BY <1>1, <2>2 DEF Shifted
  <2>4. Placed(e1)'
    BY <1>1, <1>5, <1>6, <1>10, <1>11, <2>1, <2>2, <2>3 DEF Placed
  <2>5. Placed(e2)'
    BY <1>1, <1>5, <1>7, <1>10, <1>11, <2>1, <2>2, <2>3 DEF Placed
  <2> QED
    BY <1>8, <2>4, <2>5 DEF AtInv
<1>18. OutInv'
  <2>1. ASSUME NEW x \in Dirs, Strays(x)' PROVE FALSE
    <3>1. watch[x] # 0 /\ Path'[x] = Lost
      BY <1>5, <2>1 DEF Strays, Below
    <3> QED
      BY <1>1, <1>4, <3>1, PathForms
  <2> QED
    BY <2>1 DEF OutInv, Dirs
<1>19. CookieInv'
  BY <1>1, <1>4, <1>5, <1>6, <1>8, <1>9 DEF CookieInv, IsFrom
<1>20. CoverInv'
  BY <1>1, <1>4, <1>5 DEF CoverInv, Dirs
<1> QED
  BY <1>12, <1>13, <1>14, <1>15, <1>16, <1>17, <1>18, <1>19, <1>20 DEF LiveInv

(* Nothing is to be moved. *)
LEMMA StillBecomes ==
    ASSUME Still
    PROVE  /\ \A o, n : ~Shifts(o, n)
           /\ \A q, r : Becomes(q, r) <=> r = q
<1>1. \A o, n : ~Shifts(o, n)
  BY DEF Still, Shifts
<1> QED
  BY <1>1 DEF Becomes

(* The same after a step. *)
LEMMA StillNext ==
    Still' => /\ \A o, n : ~Shifts(o, n)'
              /\ \A q, r : Becomes(q, r)' <=> r = q
<1>2. SUFFICES ASSUME Still' PROVE (\A o, n : ~Shifts(o, n)') /\ \A q, r : Becomes(q, r)' <=> r = q
  OBVIOUS
<1>3. ASSUME NEW o, NEW n PROVE ~Shifts(o, n)'
  BY <1>2 DEF Still, Shifts, Arrives, Leaves, IsFrom
<1> QED
  BY <1>2, <1>3 DEF Becomes

(* A folder is moved out of the tree: its watch and those below stay until
   the thread gives the move up. *)
LEMMA MoveOut ==
    ASSUME Distinct, TreeInv, MoveInv, LiveInv, CoverInv, Quiet,
           NEW d, NEW u, NEW n, NEW c, Moves(d, u, n), MoveEvents(d, u, n, c), Below(d), u = Out
    PROVE  LiveInv' /\ CoverInv'
<1> DEFINE p == Path  q == Path'  w == up'  k == name'
<1>1. /\ TreeInv' /\ IsTree(up, name) /\ p = PathOf(up, name) /\ IsTree(w, k) /\ q = PathOf(w, k)
      /\ Rehangs(up, name, w, k, d, u, n) /\ u \in Places /\ d \in Folder /\ n \in Name /\ d \in Dirs /\ d \in Places
      /\ u \in {Out, Gone}
  BY MovesTree DEF Moves, Dirs, Places
<1>2. p[d] # Lost /\ p[Top] = <<>> /\ \A x \in Dirs : (Below(x) <=> p[x] # Lost) /\ (Below(x)' <=> q[x] # Lost)
  BY <1>1, PathsAre DEF Below
<1>3. PICK old : old = Path[d]
  OBVIOUS
<1> HIDE DEF p, q, w, k
<1>4. /\ up[d] \in Dirs /\ name[d] \in Name /\ p[up[d]] \in PathForm /\ p[up[d]] # Lost
      /\ p[d] = Step(p[up[d]], name[d]) /\ p[d] # <<>> /\ p[d] \in PathForm \cup {Lost}
  BY <1>1, <1>2, PathsAre
<1>5. /\ old \in PathForm /\ old \in Seq(Letter) /\ old # Lost /\ old = Join(p[up[d]], name[d]) /\ IsPrefix(old, old)
  <2>1. name[d] \in Name \cup {<<"f">>} /\ p[up[d]] \in Seq(Letter)
    BY <1>4, PathForms
  <2>2. old \in PathForm /\ old \in Seq(Letter) /\ old # Lost
    BY <1>2, <1>3, <1>4, PathForms DEF p
  <2>3. Join(p[up[d]], name[d]) = Step(p[up[d]], name[d])
    BY <2>1, StepFacts
  <2> QED
    BY <1>3, <1>4, <2>2, <2>3, PrefixOrder DEF p
<1>6. ASSUME NEW x \in Dirs, p[x] # Lost PROVE IF IsPrefix(old, p[x]) THEN q[x] = Lost ELSE q[x] = p[x]
  <2>1. CASE IsPrefix(p[d], p[x])
    <3>1. x # Top
      BY <1>2, <1>4, <1>5, <1>3, <2>1, PrefixOrder DEF p
    <3>2. x \in Folder
      BY <3>1 DEF Dirs
    <3> QED
      BY <1>1, <1>2, <1>3, <1>6, <2>1, <3>2, PathsLost DEF p
  <2>2. CASE ~IsPrefix(p[d], p[x])
    BY <1>1, <1>3, <1>6, <2>2, PathsBeside DEF p
  <2> QED
    BY <2>1, <2>2
<1>7. ASSUME NEW x \in Dirs, p[x] = Lost PROVE q[x] = Lost
  <2>1. x \in Folder
    BY <1>2, <1>7, PlacesDiffer DEF Dirs
  <2> QED
    BY <1>1, <1>2, <1>7, <2>1, NothingFound
<1>8. Vacant(old)'
  BY <1>5, <1>6, <1>7 DEF Vacant, FolderAt, q, Dirs
<1> DEFINE s == Event(up[d], "MOVED_FROM", name[d], TRUE, c)  t == Event(u, "MOVED_TO", n, TRUE, c)
<1>9. Says(s, up[d], "MOVED_FROM", name[d], TRUE, c) /\ Says(t, u, "MOVED_TO", n, TRUE, c)
  BY EventIs
<1>10. queue' = (queue \o s) \o t
  BY DEF MoveEvents
<1> HIDE DEF s, t
<1>11. /\ Waiting = {} /\ Still /\ DOMAIN cookie = {} /\ todo = <<>>
       /\ \A x \in Dirs : Below(x) <=> watch[x] # 0
       /\ \A x \in Dirs : Below(x) => watch[x] \in DOMAIN wdPath /\ wdPath[watch[x]] = Path[x]
       /\ \A x \in DOMAIN wdPath : Held(x)
  BY AtRest DEF Quiet
<1>12. /\ watch' = watch /\ wdPath' = wdPath /\ pathWd' = pathWd /\ cookie' = cookie /\ buf' = buf
       /\ todo' = todo /\ root' = root /\ issued'.wd = issued.wd /\ n \in Name
  BY DEF Moves
<1>13. PICK e1 : s = <<e1>> /\ ToSet(s) = {e1} /\ e1.wd = watch[up[d]] /\ e1.mask = "MOVED_FROM" /\ e1.name = name[d]
                /\ e1.dir /\ e1.cookie = c /\ e1.at = old
  <2>1. watch[up[d]] # 0
    BY <1>2, <1>4, <1>11
  <2> QED
    BY <1>5, <1>9, <2>1 DEF Says, p
<1>14. t = <<>>
  BY <1>9 DEF Says, LiveInv, WatchInv
<1>15. /\ DOMAIN Pending' = {1} /\ Pending'[1] = e1 /\ Waiting' = {e1}
  <2>1. Pending' = s \o t
    BY <1>9, <1>10, <1>12, NextPending DEF Says
  <2>2. Pending' = <<e1>> \o <<>>
    BY <1>13, <1>14, <2>1
  <2>3. DOMAIN Pending' = 1..1 /\ Pending'[1] = e1
    BY <2>2
  <2>4. 1..1 = {1}
    OBVIOUS
  <2> QED
    BY <2>3, <2>4 DEF Waiting
<1>16. /\ Leaves(e1) /\ ~Arrives(e1) /\ IsFrom(e1) /\ ~Dies(e1)
  BY <1>13 DEF Leaves, Arrives, IsFrom, Dies
<1>17. /\ e1.wd \in DOMAIN wdPath /\ wdPath[e1.wd] = Path[up[d]] /\ e1.wd \in 1..issued.wd
  <2>1. Below(up[d])
    BY <1>2, <1>4
  <2> QED
    BY <1>4, <1>11, <1>13, <2>1 DEF LiveInv, WatchInv
<1>18. Still' /\ (\A o, m : ~Shifts(o, m)') /\ (\A x, r : Becomes(x, r)' <=> r = x)
  <2>1. Still'
    BY <1>15, <1>16 DEF Still, Arrives
  <2> QED
    BY <2>1, StillNext
<1>19. WatchInv' /\ DeadInv' /\ WalkInv'
  BY <1>15, <1>16, MovesFrame
<1>20. EventInv'
  BY <1>4, <1>5, <1>12, <1>13, <1>15, <1>16, <1>17 DEF EventInv, EventForm, Dies
<1>21. OrderInv'
  BY <1>15, <1>16 DEF OrderInv, Leaves, Arrives, IsFrom
<1>22. FlightInv'
  BY <1>11, <1>12, <1>15, <1>16, <1>17, <1>18 DEF FlightInv, Leaves, Arrives, IsFrom
<1>23. PlaceInv'
  <2>1. ASSUME NEW x \in Dirs, watch'[x] # 0, Below(x)' PROVE Becomes(wdPath[watch[x]], Path[x])'
    <3>1. p[x] # Lost /\ q[x] = p[x] /\ wdPath[watch[x]] = p[x]
      BY <1>2, <1>6, <1>11, <1>12, <2>1, <1>7 DEF p
    <3> QED
      BY <1>12, <1>18, <3>1 DEF p, q
  <2> QED
    BY <2>1 DEF PlaceInv, Dirs
<1>24. AtInv'
  <2>1. PICK r : r = Path[up[d]]
    OBVIOUS
  <2>2. Placed(e1)'
    BY <1>4, <1>5, <1>12, <1>13, <1>17, <1>18, <2>1 DEF Placed, p
  <2> QED
    BY <1>15, <2>2 DEF AtInv
<1>25. OutInv'
  <2>1. ASSUME NEW x \in Dirs, Strays(x)' PROVE IsPrefix(old, wdPath[watch[x]])
    <3>1. watch[x] # 0 /\ q[x] = Lost
      BY <1>12, <2>1 DEF Strays, Below, q
    <3>2. wdPath[watch[x]] = p[x] /\ p[x] # Lost
      BY <1>2, <1>11, <3>1 DEF p
    <3> QED
      BY <1>6, <3>1, <3>2
  <2>2. Strays(d)' /\ wdPath[watch[d]] = old
    <3>1. watch[d] # 0 /\ wdPath[watch[d]] = old
      BY <1>1, <1>2, <1>3, <1>11
    <3>2. q[d] = Lost
      BY <1>1, <1>2, <1>3, <1>5, <1>6 DEF p
    <3> QED
      BY <1>12, <3>1, <3>2 DEF Strays, Below, q
  <2>3. Leaving(old)'
    BY <1>13, <1>15, <1>16 DEF Leaving, Leaves, IsFrom
  <2>4. Leaving(wdPath[watch[d]])'
    BY <1>12, <2>2, <2>3 DEF Leaving
  <2> QED
    BY <1>1, <1>12, <1>18, <2>1, <2>2, <2>4 DEF OutInv, Dirs
<1>26. CookieInv'
  BY <1>8, <1>11, <1>12, <1>13, <1>15, <1>16 DEF CookieInv, IsFrom
<1>27. CoverInv'
  BY <1>2, <1>7, <1>11, <1>12 DEF CoverInv, Dirs
<1> QED
  BY <1>19, <1>20, <1>21, <1>22, <1>23, <1>24, <1>25, <1>26, <1>27 DEF LiveInv

(* A folder is moved into the tree: what is below it will be found. *)
LEMMA MoveIn ==
    ASSUME Distinct, TreeInv, MoveInv, LiveInv, CoverInv, Quiet,
           NEW d, NEW u, NEW n, NEW c, Moves(d, u, n), MoveEvents(d, u, n, c), ~Below(d), up[d] = Out, u \in Dirs, Below(u)
    PROVE  LiveInv' /\ CoverInv'
<1> DEFINE p == Path  q == Path'  w == up'  k == name'
<1>1. /\ TreeInv' /\ IsTree(up, name) /\ p = PathOf(up, name) /\ IsTree(w, k) /\ q = PathOf(w, k)
      /\ Rehangs(up, name, w, k, d, u, n) /\ u \in Places /\ d \in Folder /\ n \in Name /\ d \in Dirs /\ d \in Places
  BY MovesTree DEF Moves, Dirs, Places
<1>2. p[d] = Lost /\ p[u] # Lost /\ p[Top] = <<>> /\ \A x \in Dirs : (Below(x) <=> p[x] # Lost) /\ (Below(x)' <=> q[x] # Lost)
  BY <1>1, PathsAre DEF Below
<1>3. PICK new : new = Step(Path[u], n)
  OBVIOUS
<1> HIDE DEF p, q, w, k
<1>4. new \in PathForm /\ new = Join(p[u], n) /\ p[u] \in PathForm
  <2>1. p[u] \in PathForm /\ p[u] \in Seq(Letter) /\ n \in Name \cup {<<"f">>}
    <3>1. p[u] \in PathForm \cup {Lost}
      BY <1>1, PathsAre
    <3> QED
      BY <1>1, <1>2, <3>1, PathForms
  <2>2. Step(p[u], n) \in PathForm
    BY <1>1, <2>1, PathForms
  <2>3. Join(p[u], n) = Step(p[u], n)
    BY <2>1, StepFacts
  <2> QED
    BY <1>3, <2>1, <2>2, <2>3 DEF p
<1>5. ASSUME NEW x \in Dirs, p[x] # Lost PROVE q[x] = p[x]
  BY <1>1, <1>2, <1>5, PathsBeside
<1>6. ASSUME NEW x \in Dirs, p[x] = Lost, q[x] # Lost PROVE IsPrefix(new, q[x])
  <2>1. x \in Folder
    BY <1>2, <1>6, PlacesDiffer DEF Dirs
  <2>2. IsPrefix(Step(p[u], n), q[x])
    BY <1>1, <1>2, <1>6, <2>1, PathsFound
  <2> QED
    BY <1>3, <2>2 DEF p
<1> DEFINE s == Event(up[d], "MOVED_FROM", name[d], TRUE, c)  t == Event(u, "MOVED_TO", n, TRUE, c)
<1>9. Says(s, up[d], "MOVED_FROM", name[d], TRUE, c) /\ Says(t, u, "MOVED_TO", n, TRUE, c)
  BY EventIs
<1>10. queue' = (queue \o s) \o t
  BY DEF MoveEvents
<1> HIDE DEF s, t
<1>11. /\ Waiting = {} /\ Still /\ DOMAIN cookie = {} /\ todo = <<>>
       /\ \A x \in Dirs : Below(x) <=> watch[x] # 0
       /\ \A x \in Dirs : Below(x) => watch[x] \in DOMAIN wdPath /\ wdPath[watch[x]] = Path[x]
       /\ \A x \in DOMAIN wdPath : Held(x)
  BY AtRest DEF Quiet
<1>12. /\ watch' = watch /\ wdPath' = wdPath /\ pathWd' = pathWd /\ cookie' = cookie /\ buf' = buf
       /\ todo' = todo /\ root' = root /\ issued'.wd = issued.wd /\ n \in Name
  BY DEF Moves
<1>13. PICK e2 : t = <<e2>> /\ ToSet(t) = {e2} /\ e2.wd = watch[u] /\ e2.mask = "MOVED_TO" /\ e2.name = n
                /\ e2.dir /\ e2.cookie = c /\ e2.at = new
  <2>1. watch[u] # 0
    BY <1>11
  <2> QED
    BY <1>4, <1>9, <2>1 DEF Says, p
<1>14. s = <<>>
  BY <1>9 DEF Says, LiveInv, WatchInv
<1>15. /\ DOMAIN Pending' = {1} /\ Pending'[1] = e2 /\ Waiting' = {e2}
  <2>1. Pending' = s \o t
    BY <1>9, <1>10, <1>12, NextPending DEF Says
  <2>2. Pending' = <<>> \o <<e2>>
    BY <1>13, <1>14, <2>1
  <2>3. DOMAIN Pending' = 1..1 /\ Pending'[1] = e2
    BY <2>2
  <2>4. 1..1 = {1}
    OBVIOUS
  <2> QED
    BY <2>3, <2>4 DEF Waiting
<1>16. /\ ~Leaves(e2) /\ Arrives(e2) /\ ~IsFrom(e2) /\ ~Dies(e2)
  BY <1>13 DEF Leaves, Arrives, IsFrom, Dies
<1>17. /\ e2.wd \in DOMAIN wdPath /\ wdPath[e2.wd] = Path[u] /\ e2.wd \in 1..issued.wd
  BY <1>11, <1>13 DEF LiveInv, WatchInv
<1>18. Still' /\ (\A o, m : ~Shifts(o, m)') /\ (\A x, r : Becomes(x, r)' <=> r = x)
  <2>1. Still'
    BY <1>11, <1>12, <1>15, <1>16 DEF Still, Arrives, Leaves, IsFrom
  <2> QED
    BY <2>1, StillNext
<1>19. WatchInv' /\ DeadInv' /\ WalkInv'
  BY <1>15, <1>16, MovesFrame
<1>20. EventInv'
  BY <1>4, <1>12, <1>13, <1>15, <1>16, <1>17 DEF EventInv, EventForm, Dies
<1>21. OrderInv'
  BY <1>15, <1>16 DEF OrderInv, Leaves, Arrives, IsFrom
<1>22. FlightInv'
  BY <1>11, <1>12, <1>15, <1>16, <1>17, <1>18 DEF FlightInv, Leaves, Arrives, IsFrom
<1>23. PlaceInv'
  <2>1. ASSUME NEW x \in Dirs, watch'[x] # 0, Below(x)' PROVE Becomes(wdPath[watch[x]], Path[x])'
    <3>1. p[x] # Lost /\ q[x] = p[x] /\ wdPath[watch[x]] = p[x]
      BY <1>2, <1>5, <1>11, <1>12, <2>1 DEF p
    <3> QED
      BY <1>12, <1>18, <3>1 DEF p, q
  <2> QED
    BY <2>1 DEF PlaceInv, Dirs
<1>24. AtInv'
  <2>1. PICK r : r = Path[u]
    OBVIOUS
  <2>2. Placed(e2)'
    BY <1>4, <1>12, <1>13, <1>17, <1>18, <2>1 DEF Placed, p
  <2> QED
    BY <1>15, <2>2 DEF AtInv
<1>25. OutInv'
  <2>1. ASSUME NEW x \in Dirs, Strays(x)' PROVE FALSE
    <3>1. watch[x] # 0 /\ q[x] = Lost
      BY <1>12, <2>1 DEF Strays, Below, q
    <3> QED
      BY <1>2, <1>5, <1>11, <3>1
  <2> QED
    BY <2>1 DEF OutInv, Dirs
<1>26. CookieInv'
  BY <1>11, <1>12, <1>15, <1>16 DEF CookieInv, IsFrom
<1>27. CoverInv'
  <2>1. ASSUME NEW x \in Dirs, Below(x)', watch'[x] = 0 PROVE DueEvent(Path[x])'
    <3>1. IsPrefix(e2.at, q[x])
      BY <1>2, <1>6, <1>11, <1>12, <1>13, <2>1
    <3>2. Brings(e2)' /\ e2.wd \in DOMAIN wdPath'
      BY <1>12, <1>16, <1>17, <1>18 DEF Brings, Arrives
    <3> QED
      BY <1>15, <3>1, <3>2 DEF DueEvent, q
  <2> QED
    BY <2>1 DEF CoverInv, Dirs
<1> QED
  BY <1>19, <1>20, <1>21, <1>22, <1>23, <1>24, <1>25, <1>26, <1>27 DEF LiveInv

(* A folder is moved, when the thread is at rest. *)
LEMMA MoveMonitored ==
    ASSUME Distinct, Settled, MoveInv, Monitored, Move
    PROVE  Monitored'
<1>1. Quiet /\ Change("move") /\ Counted(issued.cookie + 1) /\ watch' = watch
  BY DEF Move
<1>2. PICK d \in Folder, u \in Folder \cup {Top, Out}, n \in Name :
        /\ Below(d) \/ (up[d] = Out /\ u # Out)
        /\ u \in {Top, Out} \/ (Below(u) /\ ~IsPrefix(Path[d], Path[u]))
        /\ Free(u, n)
        /\ up' = [up EXCEPT ![d] = u] /\ name' = [name EXCEPT ![d] = n]
        /\ queue' = (queue \o Event(up[d], "MOVED_FROM", name[d], TRUE, issued.cookie + 1))
                          \o Event(u, "MOVED_TO", n, TRUE, issued.cookie + 1)
  BY DEF Move
<1>3. /\ UNCHANGED <<maps, buf, todo, root, quit>> /\ issued'.wd = issued.wd
      /\ (Live' <=> Live) /\ (~quit => Live) /\ (quit' <=> quit)
  BY <1>1, Others
<1>4. Moves(d, u, n) /\ MoveEvents(d, u, n, issued.cookie + 1) /\ TreeInv
  BY <1>1, <1>2, <1>3 DEF Moves, MoveEvents, maps, Monitored
<1>5. TreeInv'
  BY <1>4, MovesTree
<1>6. ASSUME Live PROVE LiveInv' /\ CoverInv'
  <2>1. LiveInv /\ CoverInv
    BY <1>1, <1>6 DEF Monitored, Live, Quiet
  <2>2. CASE u = Out
    BY <1>1, <1>2, <1>4, <2>1, <2>2, MoveOut
  <2>3. CASE u # Out
    <3>1. u \in Dirs /\ Below(u)
      BY <1>2, <1>4, <2>3, StatePaths DEF Dirs
    <3>2. CASE Below(d)
      BY <1>1, <1>4, <2>1, <3>1, <3>2, MoveWithin
    <3>3. CASE ~Below(d)
      BY <1>1, <1>2, <1>4, <2>1, <3>1, <3>3, MoveIn
    <3> QED
      BY <3>2, <3>3
  <2> QED
    BY <2>2, <2>3
<1> QED
  BY <1>3, <1>5, <1>6 DEF Monitored

(* The elements of a set in some order. *)
LEMMA ListOfSet ==
    ASSUME NEW S, IsFiniteSet(S)
    PROVE  SetToSeq(S) \in Seq(S) /\ ToSet(SetToSeq(S)) = S
<1> DEFINE n == Cardinality(S)
<1>1. n \in Nat /\ ExistsBijection(1..n, S)
  BY FS_CardinalityType
<1> HIDE DEF n
<1>2. \E f \in [1..n -> S] : IsInjective(f)
  <2>1. PICK f : f \in Bijection(1..n, S)
    BY <1>1 DEF ExistsBijection
  <2>2. f \in [1..n -> S] /\ IsInjective(f)
    BY <2>1 DEF Bijection, Injection, IsInjective
  <2> QED
    BY <2>2
<1>3. PICK f \in [1..n -> S] : IsInjective(f) /\ f = SetToSeq(S)
  BY <1>2 DEF SetToSeq, n
<1>4. f \in Injection(1..n, S)
  BY <1>3 DEF Injection, IsInjective
<1>5. IsFiniteSet(1..n) /\ Cardinality(1..n) = n
  BY <1>1, FS_Interval
<1>6. f \in Surjection(1..n, S)
  BY <1>4, <1>5, FS_Injection DEF n
<1>7. f \in Seq(S)
  BY <1>1, <1>3
<1>8. ToSet(f) = S
  <2>1. DOMAIN f = 1..n /\ \A y \in S : \E x \in 1..n : f[x] = y
    BY <1>6 DEF Surjection
  <2> QED
    BY <1>3, <2>1 DEF ToSet
<1> QED
  BY <1>3, <1>7, <1>8

(* The elements of one list after another. *)
LEMMA ConcatSet ==
    ASSUME NEW U, NEW s \in Seq(U), NEW t \in Seq(U)
    PROVE  s \o t \in Seq(U) /\ ToSet(s \o t) = ToSet(s) \cup ToSet(t)
<1> DEFINE c == s \o t
<1>1. /\ \A i \in DOMAIN s : i \in DOMAIN c /\ c[i] = s[i]
      /\ \A i \in DOMAIN c : (i \in DOMAIN s /\ c[i] = s[i]) \/ (i - Len(s) \in DOMAIN t /\ c[i] = t[i - Len(s)])
      /\ c \in Seq(U)
  BY ConcatAt
<1>2. ASSUME NEW j \in DOMAIN t PROVE \E i \in DOMAIN c : c[i] = t[j]
  <2>1. /\ Len(s) \in Nat /\ Len(t) \in Nat /\ Len(s \o t) = Len(s) + Len(t)
        /\ Len(s) + j \in 1..Len(s) + Len(t) /\ ~(Len(s) + j <= Len(s)) /\ (Len(s) + j) - Len(s) = j
    BY <1>2, ConcatProperties
  <2>2. (s \o t)[Len(s) + j] = t[(Len(s) + j) - Len(s)]
    BY <2>1, ConcatProperties
  <2>3. Len(s) + j \in DOMAIN (s \o t)
    BY <2>1, ConcatProperties
  <2> QED
    BY <2>1, <2>2, <2>3
<1> HIDE DEF c
<1>3. ToSet(c) = ToSet(s) \cup ToSet(t)
  BY <1>1, <1>2 DEF ToSet
<1> QED
  BY <1>1, <1>3 DEF c

(* What is to be done when the first item is replaced by others. *)
LEMMA TodoNext ==
    ASSUME WalkInv, todo # <<>>, NEW s \in Seq(TodoItem), todo' = s \o Tail(todo), root' = root,
           \A i \in ToSet(s) : IsPrefix(root, i.path)
    PROVE  /\ WalkInv' /\ ToSet(s) \subseteq ToSet(todo')
           /\ \A i \in ToSet(todo) : i = Head(todo) \/ i \in ToSet(todo')
<1>1. root \in PathForm /\ todo \in Seq(TodoItem) /\ \A i \in DOMAIN todo : IsPrefix(root, todo[i].path)
  BY DEF WalkInv
<1>2. /\ Tail(todo) \in Seq(TodoItem)
      /\ \A j \in DOMAIN Tail(todo) : j + 1 \in DOMAIN todo /\ Tail(todo)[j] = todo[j + 1]
  BY <1>1, TailElements
<1>3. todo' \in Seq(TodoItem) /\ ToSet(todo') = ToSet(s) \cup ToSet(Tail(todo))
  BY <1>2, ConcatSet, ZenonT(40)
<1>4. \A i \in ToSet(todo) : i = Head(todo) \/ i \in ToSet(Tail(todo))
  BY <1>1, TailKeeps
<1>5. \A i \in ToSet(Tail(todo)) : IsPrefix(root, i.path)
  BY <1>1, <1>2 DEF ToSet
<1>6. \A j \in DOMAIN todo' : IsPrefix(root, todo'[j].path)
  BY <1>3, <1>5 DEF ToSet
<1> QED
  BY <1>1, <1>3, <1>4, <1>6 DEF WalkInv, TodoItem

(* An item of the walk is due to find the path p. *)
Due(i, p) == IsPrefix(i.path, p) /\ (i.do = "read" => i.path # p)

(* What is due is due by some item. *)
LEMMA DueItem ==
    /\ \A p : DueWalk(p) <=> \E i \in ToSet(todo) : Due(i, p)
    /\ \A p : DueWalk(p)' <=> \E i \in ToSet(todo') : Due(i, p)
  BY DEF DueWalk, ToSet, Due

(* While a walk is under way nothing is moved. *)
LEMMA WalkStill ==
    ASSUME LiveInv, todo # <<>>
    PROVE  Still /\ \A e \in Waiting : ~Leaves(e) /\ ~Arrives(e)
  BY DEF LiveInv, FlightInv, Still

(* A step of the walk that watches nothing. *)
LEMMA WalkLooks ==
    ASSUME MoveInv, LiveInv, todo # <<>>, WalkInv',
           UNCHANGED <<up, name, queue, cookie, buf, watch, issued, wdPath, pathWd>>
    PROVE  LiveInv'
<1>1. Waiting' = Waiting /\ Pending' = Pending /\ Path' = Path /\ cookie' = cookie
  BY TreeSame DEF Waiting, Pending
<1>2. \A r : (Vacant(r)' <=> Vacant(r)) /\ (Below(r)' <=> Below(r))
  BY TreeSame
<1>3. (Still' <=> Still) /\ (\A o, n : Shifts(o, n)' <=> Shifts(o, n)) /\ (\A q, r : Becomes(q, r)' <=> Becomes(q, r))
  <2>1. Waiting' = Waiting \cup {}
    BY <1>1
  <2> QED
    BY <1>1, <2>1, SameShifts
<1>4. Still /\ \A e \in Waiting : ~Leaves(e) /\ ~Arrives(e)
  BY WalkStill
<1>5. WatchInv /\ EventInv /\ OrderInv /\ FlightInv /\ PlaceInv
      /\ AtInv /\ DeadInv /\ OutInv /\ CookieInv
  BY DEF LiveInv
<1>6. WatchInv' /\ EventInv' /\ OrderInv'
  BY <1>1, <1>5 DEF WatchInv, EventInv, EventForm, Dies, OrderInv, Arrives, Leaves, IsFrom
<1>7. FlightInv'
  BY <1>1, <1>3, <1>4, StillBecomes DEF FlightInv, Arrives, Leaves, IsFrom
<1>8. PlaceInv'
  BY <1>1, <1>2, <1>3, <1>5 DEF PlaceInv
<1>9. AtInv'
  BY <1>1, <1>3, <1>5 DEF AtInv, Placed
<1>10. DeadInv'
  BY <1>1, <1>2, <1>5 DEF DeadInv, Dies, Held
<1>11. OutInv'
  BY <1>1, <1>2, <1>3, <1>5 DEF OutInv, Strays, Leaving, Leaves, IsFrom
<1>12. CookieInv'
  BY <1>1, <1>2, <1>5 DEF CookieInv, IsFrom
<1> QED
  BY <1>6, <1>7, <1>8, <1>9, <1>10, <1>11, <1>12 DEF LiveInv

(* No watch but that of the folder has its path. *)
LEMMA OnlyWatch ==
    ASSUME Distinct, TreeInv, LiveInv, Still, \A e \in Waiting : ~Leaves(e),
           NEW d \in Dirs, Below(d), NEW x \in DOMAIN wdPath, wdPath[x] = Path[d]
    PROVE  watch[d] = x
<1>0. WatchInv /\ PlaceInv /\ AtInv /\ DeadInv /\ OutInv /\ CookieInv
  BY DEF LiveInv
<1>1. Path[d] \in PathForm /\ FolderAt(Path[d]) = {d}
  BY StatePaths
<1>2. CASE \E e \in Dirs : watch[e] = x /\ Below(e)
  <2>1. PICK e \in Dirs : watch[e] = x /\ Below(e)
    BY <1>2
  <2>2. watch[e] # 0
    BY <1>0, <2>1 DEF WatchInv
  <2>3. Path[e] = Path[d]
    BY <1>0, <2>1, <2>2, StillBecomes DEF PlaceInv
  <2> QED
    BY <1>1, <2>1, <2>3 DEF FolderAt, Dirs
<1>3. CASE \E e \in Dirs : watch[e] = x /\ ~Below(e)
  <2>1. PICK e \in Dirs : watch[e] = x /\ Strays(e)
    BY <1>0, <1>3 DEF WatchInv, Strays
  <2>2. PICK f \in Dirs : Strays(f) /\ Leaving(wdPath[watch[f]]) /\ IsPrefix(wdPath[watch[f]], Path[d])
    BY <1>0, <2>1 DEF OutInv
  <2>3. wdPath[watch[f]] \in PathForm
    BY <1>0, <2>2 DEF WatchInv, Strays
  <2>4. FolderAt(wdPath[watch[f]]) # {}
    BY <2>2, <2>3, StatePaths
  <2>5. Vacant(wdPath[watch[f]])
    BY <1>0, <2>2 DEF Leaving, CookieInv
  <2> QED
    BY <2>4, <2>5 DEF Vacant
<1>4. CASE ~Held(x)
  <2>1. PICK e \in Waiting : e.wd = x /\ Dies(e)
    BY <1>0, <1>4 DEF DeadInv
  <2>2. Placed(e) /\ e.name = <<>>
    BY <1>0, <2>1 DEF AtInv, LiveInv, EventInv, EventForm
  <2>3. e.at = Path[d]
    BY <2>1, <2>2, StillBecomes DEF Placed, Join
  <2>4. Vacant(e.at)
    BY <1>0, <2>1 DEF DeadInv
  <2> QED
    BY <1>1, <2>3, <2>4 DEF Vacant
<1> QED
  BY <1>2, <1>3, <1>4 DEF Held

(* A folder that the walk has come to is watched. *)
LEMMA WalkWatches ==
    ASSUME Distinct, TreeInv, MoveInv, LiveInv, todo # <<>>, WalkInv', NEW d \in Dirs, Below(d), Watch(d, Path[d]),
           UNCHANGED <<up, name, queue, cookie, buf>>
    PROVE  /\ LiveInv'
           /\ \A x \in Dirs : x # d => watch'[x] = watch[x]
           /\ watch'[d] # 0 /\ DOMAIN wdPath \subseteq DOMAIN wdPath'
<1>1. Waiting' = Waiting /\ Pending' = Pending /\ Path' = Path /\ cookie' = cookie
  BY TreeSame DEF Waiting, Pending
<1>2. \A r : (Vacant(r)' <=> Vacant(r)) /\ (Below(r)' <=> Below(r))
  BY TreeSame
<1>3. Still /\ \A e \in Waiting : ~Leaves(e) /\ ~Arrives(e)
  BY WalkStill
<1>4. /\ Still' /\ (\A o, n : ~Shifts(o, n)') /\ (\A q, r : Becomes(q, r)' <=> r = q)
      /\ \A q, r : Becomes(q, r) <=> r = q
  <2>1. Waiting' = Waiting \cup {}
    BY <1>1
  <2>2. Still'
    BY <1>1, <1>3, <2>1, SameShifts
  <2> QED
    BY <1>3, <2>2, StillNext, StillBecomes
<1>5. WatchInv /\ EventInv /\ OrderInv /\ FlightInv /\ PlaceInv
      /\ AtInv /\ DeadInv /\ OutInv /\ CookieInv
  BY DEF LiveInv
<1>6. Path[d] \in PathForm /\ FolderAt(Path[d]) = {d} /\ (d \in Folder => up[d] # Gone)
  <2>1. Path[d] \in PathForm /\ FolderAt(Path[d]) = {d}
    BY StatePaths
  <2>2. ASSUME d \in Folder PROVE up[d] # Gone
    <3>1. IsTree(up, name) /\ Path = PathOf(up, name)
      BY DEF TreeInv, Path
    <3>2. Path[d] = Lost <=> Path[up[d]] = Lost
      BY <2>2, <3>1, PathsAre
    <3>3. Path[Gone] = Lost
      BY <3>1, PathsAre
    <3> QED
      BY <3>2, <3>3 DEF Below
  <2> QED
    BY <2>1, <2>2
<1>7. PICK p : p = Path[d]
  OBVIOUS
<1> DEFINE w == IF watch[d] = 0 THEN issued.wd + 1 ELSE watch[d]
<1>8. /\ watch' = [watch EXCEPT ![d] = w]
      /\ issued' = IF watch[d] = 0 THEN [issued EXCEPT !.wd = w] ELSE issued
      /\ wdPath' = Put(wdPath, w, p) /\ pathWd' = Put(pathWd, p, w)
  BY <1>7 DEF Watch
<1>9. /\ w \in Nat /\ w # 0 /\ w \in 1..issued'.wd /\ issued.wd \in Nat /\ issued'.wd \in Nat /\ issued.wd <= issued'.wd
      /\ watch[d] = 0 => ~(w <= issued.wd)
  <2>1. issued \in IssuedType /\ watch[d] \in Nat
    BY <1>5 DEF MoveInv, WatchInv
  <2>2. watch[d] # 0 => watch[d] \in 1..issued.wd
    BY <1>5 DEF WatchInv
  <2> QED
    BY <1>8, <2>1, <2>2 DEF IssuedType
<1>10. /\ w \in DOMAIN wdPath => watch[d] = w /\ wdPath[w] = p
       /\ \A x \in Dirs : x # d => watch[x] # w
       /\ \A e \in Waiting : e.wd = w => watch[d] = w
  <2>1. CASE watch[d] = 0
    <3>1. w \notin DOMAIN wdPath /\ \A e \in Waiting : e.wd # w
      BY <1>5, <1>9, <2>1 DEF WatchInv, EventInv, EventForm
    <3>2. \A x \in Dirs : watch[x] # w
      BY <1>5, <1>9, <3>1 DEF WatchInv
    <3> QED
      BY <3>1, <3>2
  <2>2. CASE watch[d] # 0
    BY <1>4, <1>5, <1>7, <2>2 DEF WatchInv, PlaceInv
  <2> QED
    BY <2>1, <2>2
<1>11. \A x \in DOMAIN wdPath : x # w => wdPath[x] # p
  <2>1. ASSUME NEW x \in DOMAIN wdPath, wdPath[x] = p PROVE x = w
    <3>1. watch[d] = x
      BY <1>3, <1>7, <2>1, OnlyWatch
    <3> QED
      BY <1>5, <3>1, <2>1 DEF WatchInv
  <2> QED
    BY <2>1
<1> HIDE DEF w
<1>12. /\ watch' \in [Dirs \cup {Out} -> Nat] /\ watch'[Out] = 0 /\ watch'[d] = w
       /\ \A x \in Dirs : x # d => watch'[x] = watch[x]
  BY <1>5, <1>8, <1>9, PlacesDiffer DEF WatchInv, Dirs
<1>13. /\ DOMAIN wdPath' = DOMAIN wdPath \cup {w} /\ wdPath'[w] = p
       /\ \A x \in DOMAIN wdPath : wdPath'[x] = wdPath[x]
       /\ DOMAIN pathWd' = DOMAIN pathWd \cup {p} /\ pathWd'[p] = w
       /\ \A q \in DOMAIN pathWd : q # p => pathWd'[q] = pathWd[q]
  BY <1>8, <1>10 DEF Put
<1>14. WatchInv'
  <2>1. \A x, y \in Dirs : watch'[x] = watch'[y] /\ watch'[x] # 0 => x = y
    BY <1>5, <1>10, <1>12 DEF WatchInv
  <2>2. \A x \in Dirs : watch'[x] # 0 => watch'[x] \in DOMAIN wdPath'
    BY <1>5, <1>12, <1>13 DEF WatchInv
  <2>3. \A x \in Folder : up'[x] = Gone => watch'[x] = 0
    BY <1>5, <1>6, <1>12 DEF WatchInv, Dirs
  <2>4. ASSUME NEW x \in DOMAIN wdPath'
        PROVE  x \in 1..issued'.wd /\ wdPath'[x] \in PathForm /\ wdPath'[x] \in DOMAIN pathWd' /\ pathWd'[wdPath'[x]] = x
    <3>1. CASE x = w
      BY <1>6, <1>7, <1>9, <1>13, <3>1
    <3>2. CASE x # w
      <4>1. x \in DOMAIN wdPath /\ x \in 1..issued.wd /\ wdPath[x] \in PathForm
            /\ wdPath[x] \in DOMAIN pathWd /\ pathWd[wdPath[x]] = x
        BY <1>5, <1>13, <2>4, <3>2 DEF WatchInv
      <4> QED
        BY <1>9, <1>11, <1>13, <3>2, <4>1
    <3> QED
      BY <3>1, <3>2
  <2>5. DOMAIN pathWd' \subseteq PathForm
    BY <1>5, <1>6, <1>7, <1>13 DEF WatchInv
  <2> QED
    BY <1>12, <2>1, <2>2, <2>3, <2>4, <2>5 DEF WatchInv, Dirs
<1>15. EventInv'
  BY <1>1, <1>5, <1>9 DEF EventInv, EventForm, Dies
<1>16. OrderInv'
  BY <1>1, <1>5 DEF OrderInv, Arrives, Leaves, IsFrom
<1>17. FlightInv'
  BY <1>1, <1>3, <1>4 DEF FlightInv, Arrives, Leaves, IsFrom
<1>18. PlaceInv'
  <2>1. ASSUME NEW x \in Dirs, watch'[x] # 0, Below(x)' PROVE Becomes(wdPath[watch[x]], Path[x])'
    <3>1. wdPath'[watch'[x]] = Path[x]
      <4>1. CASE x = d
        BY <1>7, <1>12, <1>13, <4>1
      <4>2. CASE x # d
        BY <1>2, <1>4, <1>5, <1>12, <1>13, <2>1, <4>2 DEF PlaceInv, WatchInv
      <4> QED
        BY <4>1, <4>2
    <3> QED
      BY <1>1, <1>4, <3>1
  <2> QED
    BY <2>1 DEF PlaceInv, Dirs
<1>19. AtInv'
  <2>1. ASSUME NEW e \in Waiting, e.wd \in DOMAIN wdPath' PROVE Placed(e)'
    <3>1. e.wd \in DOMAIN wdPath
      <4>1. watch[d] = w => w \in DOMAIN wdPath
        BY <1>5, <1>9 DEF WatchInv
      <4> QED
        BY <1>10, <1>13, <2>1, <4>1
    <3>2. PICK q \in PathForm : Becomes(wdPath[e.wd], q) /\ e.at = Join(q, e.name)
      BY <1>5, <2>1, <3>1 DEF AtInv, Placed
    <3>3. wdPath'[e.wd] = q
      BY <1>4, <1>13, <3>1, <3>2
    <3> QED
      BY <1>4, <3>2, <3>3 DEF Placed
  <2> QED
    BY <1>1, <2>1 DEF AtInv
<1>20. DeadInv'
  <2>1. ASSUME NEW x \in DOMAIN wdPath', ~Held(x)' PROVE x \in DOMAIN wdPath /\ ~Held(x)
    <3>1. x # w
      BY <1>12, <2>1 DEF Held
    <3>2. x \in DOMAIN wdPath /\ x # 0
      BY <1>5, <1>13, <2>1, <3>1 DEF WatchInv
    <3>3. \A y \in Dirs : watch'[y] # x
      BY <2>1 DEF Held, Dirs
    <3>4. watch[d] # x
      BY <1>10, <1>12, <3>2, <3>3, <3>1, <1>9 DEF w
    <3> QED
      BY <1>12, <3>2, <3>3, <3>4 DEF Held
  <2>2. ASSUME NEW e \in Waiting, Dies(e) PROVE ~Held(e.wd)'
    <3>1. ~Held(e.wd)
      BY <1>5, <2>2 DEF DeadInv
    <3>2. e.wd # w
      BY <1>10, <3>1 DEF Held
    <3>3. \A y \in Dirs : watch'[y] # e.wd
      BY <1>12, <3>1, <3>2 DEF Held
    <3> QED
      BY <3>3 DEF Held, Dirs
  <2> QED
    BY <1>1, <1>2, <1>5, <2>1, <2>2 DEF DeadInv, Dies
<1>21. OutInv'
  <2>1. \A x \in Dirs : Strays(x)' <=> Strays(x)
    BY <1>2, <1>12 DEF Strays
  <2>2. \A x \in Dirs : Strays(x) => watch'[x] = watch[x] /\ watch[x] \in DOMAIN wdPath /\ wdPath'[watch[x]] = wdPath[watch[x]]
    BY <1>5, <1>12, <1>13 DEF Strays, WatchInv
  <2>3. \A o : Leaving(o) => Leaving(o)'
    BY <1>1 DEF Leaving, Leaves, IsFrom
  <2>4. ASSUME NEW x \in Dirs, Strays(x)'
        PROVE  \E e \in Dirs : Strays(e)' /\ Leaving(wdPath[watch[e]])' /\ IsPrefix(wdPath'[watch'[e]], wdPath'[watch'[x]])
    <3>1. PICK e \in Dirs : Strays(e) /\ Leaving(wdPath[watch[e]]) /\ IsPrefix(wdPath[watch[e]], wdPath[watch[x]])
      BY <1>5, <2>1, <2>4 DEF OutInv
    <3>2. PICK o : o = wdPath[watch[e]]
      OBVIOUS
    <3>3. Leaving(o)' /\ wdPath'[watch'[e]] = o
      BY <2>2, <2>3, <3>1, <3>2
    <3>4. Leaving(wdPath[watch[e]])'
      BY <3>3 DEF Leaving
    <3> QED
      BY <2>1, <2>2, <2>4, <3>1, <3>4
  <2> QED
    BY <1>4, <2>4 DEF OutInv, Dirs
<1>22. CookieInv'
  BY <1>1, <1>2, <1>5 DEF CookieInv, IsFrom
<1>23. LiveInv'
  BY <1>14, <1>15, <1>16, <1>17, <1>18, <1>19, <1>20, <1>21, <1>22 DEF LiveInv
<1> QED
  BY <1>9, <1>12, <1>13, <1>23

(* What is due stays due but for what the first item of the walk stood for. *)
LEMMA WalkCovers ==
    ASSUME LiveInv, CoverInv, todo # <<>>, UNCHANGED <<up, name, queue, cookie, buf>>,
           DOMAIN wdPath \subseteq DOMAIN wdPath',
           \A x \in Dirs : Below(x) /\ watch[x] # 0 => watch'[x] # 0,
           \A i \in ToSet(todo) : i = Head(todo) \/ i \in ToSet(todo'),
           \A x \in Dirs : Below(x) /\ Due(Head(todo), Path[x]) =>
                watch'[x] # 0 \/ \E i \in ToSet(todo') : Due(i, Path[x])
    PROVE  CoverInv'
<1>1. Waiting' = Waiting /\ Path' = Path /\ cookie' = cookie
  BY TreeSame DEF Waiting, Pending
<1>2. \A r : Below(r)' <=> Below(r)
  BY TreeSame
<1>3. (Still' <=> Still) /\ (\A o, n : Shifts(o, n)' <=> Shifts(o, n)) /\ (\A q, r : Becomes(q, r)' <=> Becomes(q, r))
  <2>1. Waiting' = Waiting \cup {}
    BY <1>1
  <2> QED
    BY <1>1, <2>1, SameShifts
<1>4. ASSUME NEW x \in Dirs, Below(x) PROVE watch'[x] # 0 \/ DueWalk(Path[x])' \/ DueEvent(Path[x])'
  <2>1. PICK p : p = Path[x]
    OBVIOUS
  <2>2. watch[x] # 0 \/ DueWalk(p) \/ DueEvent(p)
    BY <1>4, <2>1 DEF CoverInv
  <2>3. CASE DueWalk(p)
    <3>1. PICK i \in ToSet(todo) : Due(i, p)
      BY <2>3, DueItem
    <3>2. watch'[x] # 0 \/ \E j \in ToSet(todo') : Due(j, p)
      BY <1>4, <2>1, <3>1
    <3>3. watch'[x] # 0 \/ DueWalk(p)'
      BY <3>2, DueItem
    <3> QED
      BY <1>1, <2>1, <3>3 DEF DueWalk
  <2>4. CASE DueEvent(p)
    <3>1. DueEvent(p)'
      BY <1>1, <1>3, <2>4 DEF DueEvent, Brings, Arrives
    <3> QED
      BY <1>1, <2>1, <3>1 DEF DueEvent
  <2> QED
    BY <1>4, <2>2, <2>3, <2>4
<1> QED
  BY <1>2, <1>4 DEF CoverInv, Dirs

(* The walk takes a step. *)
LEMMA WalkMonitored ==
    ASSUME Distinct, MoveInv, Monitored, Walk
    PROVE  Monitored'
<1> DEFINE i == Head(todo)  p == Head(todo).path
<1>1. /\ todo # <<>> /\ UNCHANGED <<up, name, queue, cookie, buf, root>>
      /\ \/ /\ FolderAt(p) = {} /\ todo' = Tail(todo)
            /\ UNCHANGED <<watch, issued, wdPath, pathWd, quit>>
         \/ /\ i.do = "visit"
            /\ \E d \in FolderAt(p) :
                 \/ /\ Watch(d, p) /\ UNCHANGED quit
                    /\ todo' = <<[do |-> "read", path |-> p]>> \o Tail(todo)
                 \/ /\ todo' = <<>> /\ quit' = (quit \/ FolderAt(root) # {})
                    /\ UNCHANGED <<watch, issued, wdPath, pathWd>>
         \/ /\ i.do = "read"
            /\ \E d \in FolderAt(p) :
                 todo' = SetToSeq({[do |-> "visit", path |-> Path[e]] : e \in Children(d)}) \o Tail(todo)
            /\ UNCHANGED <<watch, issued, wdPath, pathWd, quit>>
  BY DEF Walk
<1>2. TreeInv /\ TreeInv'
  BY <1>1, TreeSame DEF Monitored
<1>3. IsTree(up, name) /\ Path = PathOf(up, name)
  BY <1>2 DEF TreeInv, Path
<1> SUFFICES ASSUME Live' PROVE LiveInv' /\ (~quit' => CoverInv')
  <2>1. ~quit' => Live'
    BY DEF Live
  <2> QED
    BY <1>2, <2>1 DEF Monitored
<1>4. LiveInv /\ WalkInv /\ (~quit' => CoverInv)
  <2>1. quit => quit'
    BY <1>1
  <2>2. Live /\ (~quit' => ~quit)
    BY <1>1, <2>1 DEF Live
  <2> QED
    BY <2>2 DEF Monitored, LiveInv
<1>5. /\ i \in ToSet(todo) /\ i \in TodoItem /\ IsPrefix(root, p) /\ p \in PathForm /\ root \in PathForm
      /\ Tail(todo) \in Seq(TodoItem) /\ p \in Seq(Letter) /\ root \in Seq(Letter)
  <2>1. todo \in Seq(TodoItem) /\ root \in PathForm /\ \A j \in DOMAIN todo : IsPrefix(root, todo[j].path)
    BY <1>4 DEF WalkInv
  <2>2. 1 \in DOMAIN todo /\ i = todo[1] /\ i \in TodoItem /\ Tail(todo) \in Seq(TodoItem)
    BY <1>1, <2>1, TailElements
  <2>3. IsPrefix(root, p) /\ p \in PathForm
    BY <2>1, <2>2 DEF TodoItem
  <2> QED
    BY <2>1, <2>2, <2>3, PathForms DEF ToSet
<1> HIDE DEF i, p
<1>6. CASE FolderAt(p) = {} /\ todo' = Tail(todo) /\ UNCHANGED <<watch, issued, wdPath, pathWd, quit>>
  <2>1. <<>> \in Seq(TodoItem) /\ todo' = <<>> \o Tail(todo) /\ ToSet(<<>>) = {}
    BY <1>5, <1>6, EmptyBefore DEF ToSet
  <2>2. WalkInv' /\ \A j \in ToSet(todo) : j = i \/ j \in ToSet(todo')
    BY <1>1, <1>4, <2>1, TodoNext DEF i
  <2>3. LiveInv'
    BY <1>1, <1>4, <1>6, <2>2, WalkLooks
  <2>4. ASSUME NEW x \in Dirs, Below(x), Due(i, Path[x]) PROVE FALSE
    BY <1>2, <1>5, <1>6, <2>4, StatePaths DEF Due, i, p
  <2> QED
    BY <1>1, <1>4, <1>6, <2>2, <2>3, <2>4, WalkCovers DEF i
<1>7. ASSUME NEW d \in FolderAt(p), i.do = "visit", Watch(d, p), UNCHANGED quit,
             todo' = <<[do |-> "read", path |-> p]>> \o Tail(todo)
      PROVE  LiveInv' /\ (~quit' => CoverInv')
  <2>1. d \in Dirs /\ Path[d] = p /\ Below(d)
    BY <1>5, <1>7, PathForms DEF FolderAt, Dirs, Below
  <2>2. PICK r : r = [do |-> "read", path |-> p]
    OBVIOUS
  <2>3. <<r>> \in Seq(TodoItem) /\ ToSet(<<r>>) = {r} /\ IsPrefix(root, r.path) /\ todo' = <<r>> \o Tail(todo)
    BY <1>5, <1>7, <2>2 DEF TodoItem, ToSet
  <2>4. WalkInv' /\ r \in ToSet(todo') /\ \A j \in ToSet(todo) : j = i \/ j \in ToSet(todo')
    BY <1>1, <1>4, <2>3, TodoNext DEF i
  <2>5. /\ LiveInv' /\ \A x \in Dirs : x # d => watch'[x] = watch[x]
        /\ watch'[d] # 0 /\ DOMAIN wdPath \subseteq DOMAIN wdPath'
    BY <1>1, <1>2, <1>4, <1>7, <2>1, <2>4, WalkWatches
  <2>6. ASSUME NEW x \in Dirs, Below(x), Due(i, Path[x])
        PROVE  watch'[x] # 0 \/ \E j \in ToSet(todo') : Due(j, Path[x])
    <3>1. CASE x = d
      BY <2>5, <3>1
    <3>2. CASE x # d
      <4>1. Path[x] # p
        BY <1>2, <2>1, <2>6, <3>2, StatePaths DEF FolderAt, Dirs
      <4>2. Due(r, Path[x])
        BY <2>2, <2>6, <4>1 DEF Due, i, p
      <4> QED
        BY <2>4, <4>2
    <3> QED
      BY <3>1, <3>2
  <2> QED
    BY <1>1, <1>4, <2>4, <2>5, <2>6, WalkCovers DEF i
<1>8. ASSUME NEW d \in FolderAt(p), todo' = <<>>, quit' = (quit \/ FolderAt(root) # {}),
             UNCHANGED <<watch, issued, wdPath, pathWd>>
      PROVE  LiveInv' /\ (~quit' => CoverInv')
  <2>1. d \in Dirs /\ Path[d] = p /\ Below(d)
    BY <1>5, <1>8, PathForms DEF FolderAt, Dirs, Below
  <2>2. FolderAt(root) # {}
    BY <1>2, <1>5, <2>1, StatePaths
  <2>3. WalkInv'
    BY <1>1, <1>5, <1>8 DEF WalkInv, TodoItem
  <2> QED
    BY <1>1, <1>4, <1>8, <2>2, <2>3, WalkLooks
<1>9. ASSUME NEW d \in FolderAt(p), i.do = "read",
             todo' = SetToSeq({[do |-> "visit", path |-> Path[e]] : e \in Children(d)}) \o Tail(todo),
             UNCHANGED <<watch, issued, wdPath, pathWd, quit>>
      PROVE  LiveInv' /\ (~quit' => CoverInv')
  <2>1. d \in Dirs /\ Path[d] = p /\ Below(d)
    BY <1>5, <1>9, PathForms DEF FolderAt, Dirs, Below
  <2>2. PICK T : T = {[do |-> "visit", path |-> Path[e]] : e \in Children(d)}
    OBVIOUS
  <2>3. IsFiniteSet(T)
    <3>1. IsFiniteSet(Children(d))
      BY FolderAssumption, FS_Subset DEF Children
    <3> DEFINE f == [e \in Children(d) |-> [do |-> "visit", path |-> Path[e]]]
    <3>2. f \in Surjection(Children(d), T)
      BY <2>2 DEF Surjection
    <3> HIDE DEF f
    <3> QED
      BY <3>1, <3>2, FS_Surjection
  <2>4. ASSUME NEW e \in Children(d)
        PROVE  Path[e] \in PathForm /\ IsPrefix(root, Path[e]) /\ e \in Folder
    <3>1. e \in Folder /\ e \in Places /\ up[e] = d
      BY <2>4 DEF Children, Places
    <3>2. Path[e] # Lost
      BY <1>3, <2>1, <3>1, PathsAre DEF Below
    <3>3. name[e] \in Name /\ Path[e] = Step(p, name[e]) /\ Path[e] \in PathForm \cup {Lost}
      BY <1>3, <2>1, <3>1, <3>2, PathsAre
    <3>4. name[e] \in Name \cup {<<"f">>}
      BY <3>3
    <3>5. IsPrefix(p, Path[e]) /\ Path[e] \in Seq(Letter)
      BY <1>5, <3>3, <3>4, StepFacts
    <3>6. IsPrefix(root, Path[e])
      BY <1>5, <3>5, PrefixOrder
    <3> QED
      BY <3>1, <3>2, <3>3, <3>6
  <2>5. /\ T \subseteq TodoItem
        /\ \A j \in T : IsPrefix(root, j.path)
        /\ \A e \in Children(d) : \E j \in T : j.do = "visit" /\ j.path = Path[e]
    <3>1. ASSUME NEW j \in T PROVE j \in TodoItem /\ IsPrefix(root, j.path)
      <4>1. PICK e \in Children(d) : j = [do |-> "visit", path |-> Path[e]]
        BY <2>2
      <4>2. Path[e] \in PathForm /\ IsPrefix(root, Path[e])
        BY <2>4
      <4>3. j.path = Path[e]
        BY <4>1
      <4> QED
        BY <4>1, <4>2, <4>3 DEF TodoItem
    <3>2. ASSUME NEW e \in Children(d) PROVE \E j \in T : j.do = "visit" /\ j.path = Path[e]
      <4>1. PICK j : j = [do |-> "visit", path |-> Path[e]]
        OBVIOUS
      <4>2. j \in T /\ j.do = "visit" /\ j.path = Path[e]
        BY <2>2, <4>1
      <4> QED
        BY <4>2
    <3> QED
      BY <3>1, <3>2
  <2>6. PICK s : s = SetToSeq(T)
    OBVIOUS
  <2>7. s \in Seq(TodoItem) /\ ToSet(s) = T
    <3>1. s \in Seq(T) /\ ToSet(s) = T
      BY <2>3, <2>6, ListOfSet
    <3> QED
      BY <2>5, <3>1, SeqOfMore
  <2>8. WalkInv' /\ T \subseteq ToSet(todo') /\ \A j \in ToSet(todo) : j = i \/ j \in ToSet(todo')
    <3>1. todo' = s \o Tail(todo)
      BY <1>9, <2>2, <2>6
    <3> QED
      BY <1>1, <1>4, <2>5, <2>7, <3>1, TodoNext DEF i
  <2>9. LiveInv'
    BY <1>1, <1>4, <1>9, <2>8, WalkLooks
  <2>10. ASSUME NEW x \in Dirs, Below(x), Due(i, Path[x])
         PROVE  \E j \in ToSet(todo') : Due(j, Path[x])
    <3>1. IsPrefix(p, Path[x]) /\ p # Path[x]
      BY <1>9, <2>10 DEF Due, p, i
    <3>2. \E c \in Folder : up[c] = d /\ Path[c] # Lost /\ IsPrefix(Path[c], Path[x])
      <4>1. Path[d] # Lost /\ Path[x] # Lost /\ IsPrefix(Path[d], Path[x]) /\ x # d
        BY <2>1, <2>10, <3>1 DEF Below
      <4> QED
        BY <1>3, <2>1, <4>1, PathBetween
    <3>3. PICK c \in Children(d) : IsPrefix(Path[c], Path[x])
      BY <3>2 DEF Children
    <3>4. PICK j \in T : j.do = "visit" /\ j.path = Path[c]
      BY <2>5
    <3> QED
      BY <2>8, <3>3, <3>4 DEF Due
  <2> QED
    BY <1>1, <1>4, <1>9, <2>8, <2>9, <2>10, WalkCovers DEF i
<1> QED
  BY <1>1, <1>6, <1>7, <1>8, <1>9 DEF i, p

(* The events change their queue, or nothing happens. *)
LEMMA Nothing ==
    ASSUME UNCHANGED <<up, name, watch, issued, maps, todo, root>>, Pending' = Pending
    PROVE  (TreeInv => TreeInv') /\ (LiveInv => LiveInv') /\ (CoverInv => CoverInv')
<1>1. Waiting' = Waiting /\ Path' = Path /\ cookie' = cookie /\ wdPath' = wdPath /\ pathWd' = pathWd /\ (TreeInv => TreeInv')
  BY TreeSame DEF Waiting, maps
<1>2. \A r : (Vacant(r)' <=> Vacant(r)) /\ (Below(r)' <=> Below(r))
  BY TreeSame
<1>3. (Still' <=> Still) /\ (\A o, n : Shifts(o, n)' <=> Shifts(o, n)) /\ (\A q, r : Becomes(q, r)' <=> Becomes(q, r))
  <2>1. PICK S : S = {}
    OBVIOUS
  <2>2. Waiting' = Waiting \cup S /\ cookie' = cookie /\ \A e \in S : ~Leaves(e) /\ ~Arrives(e)
    BY <1>1, <2>1
  <2> QED
    BY <2>2, SameShifts, Zenon
<1>4. ASSUME LiveInv PROVE LiveInv'
  <2>1. WatchInv /\ EventInv /\ OrderInv /\ FlightInv /\ PlaceInv
        /\ AtInv /\ DeadInv /\ OutInv /\ CookieInv /\ WalkInv
    BY <1>4 DEF LiveInv
  <2>2. WatchInv' /\ EventInv' /\ OrderInv' /\ WalkInv'
    BY <1>1, <2>1 DEF WatchInv, EventInv, EventForm, Dies, OrderInv, Arrives, Leaves, IsFrom, WalkInv
  <2>3. FlightInv'
    BY <1>1, <1>3, <2>1 DEF FlightInv, Arrives, Leaves, IsFrom
  <2>4. PlaceInv'
    BY <1>1, <1>2, <1>3, <2>1 DEF PlaceInv
  <2>5. AtInv'
    BY <1>1, <1>3, <2>1 DEF AtInv, Placed
  <2>6. DeadInv'
    BY <1>1, <1>2, <2>1 DEF DeadInv, Dies, Held
  <2>7. OutInv'
    BY <1>1, <1>2, <1>3, <2>1 DEF OutInv, Strays, Leaving, Leaves, IsFrom
  <2>8. CookieInv'
    BY <1>1, <1>2, <2>1 DEF CookieInv, IsFrom
  <2> QED
    BY <2>2, <2>3, <2>4, <2>5, <2>6, <2>7, <2>8 DEF LiveInv
<1>5. ASSUME CoverInv PROVE CoverInv'
  BY <1>1, <1>2, <1>3, <1>5 DEF CoverInv, DueWalk, DueEvent, Brings, Arrives
<1> QED
  BY <1>1, <1>4, <1>5

(* The thread reads events. *)
LEMMA ReadMonitored ==
    ASSUME MoveInv, Monitored, Read
    PROVE  Monitored'
<1>1. PICK n \in 1..Len(queue) : buf' = SubSeq(queue, 1, n) /\ queue' = SubSeq(queue, n + 1, Len(queue))
  BY DEF Read
<1>2. buf = <<>> /\ ~quit /\ quit' = quit /\ UNCHANGED <<up, name, watch, issued, maps, todo, root>>
  BY DEF Read, maps
<1>3. PICK S : queue \in Seq(S)
  BY DEF MoveInv
<1>4. SubSeq(queue, 1, n) \o SubSeq(queue, n + 1, Len(queue)) = queue
  BY <1>3
<1>5. <<>> \o queue = queue
  BY <1>3
<1>6. Pending' = Pending
  BY <1>1, <1>2, <1>4, <1>5 DEF Pending
<1> QED
  BY <1>2, <1>6, Nothing DEF Monitored, Live

(* The thread is asked to end, or nothing happens. *)
LEMMA KillMonitored ==
    ASSUME Monitored, Kill \/ UNCHANGED vars
    PROVE  Monitored'
<1>1. UNCHANGED <<up, name, watch, issued, maps, todo, root>> /\ Pending' = Pending /\ buf' = buf /\ (quit => quit')
  BY DEF Kill, vars, kernel, maps, Pending
<1> QED
  BY <1>1, Nothing DEF Monitored, Live

(* The thread ends. *)
LEMMA EndMonitored ==
    ASSUME Monitored, End
    PROVE  Monitored'
<1>1. UNCHANGED <<up, name, buf, quit>> /\ ~Live /\ ~Live' /\ quit'
  BY DEF End, Live
<1> QED
  BY <1>1, TreeSame DEF Monitored

(* The events that are left when the first is processed. *)
LEMMA EventsLeft ==
    ASSUME MoveInv, LiveInv, Process
    PROVE  LET ev == Head(buf)
           IN  /\ ev \in Waiting /\ Waiting' \subseteq Waiting /\ \A e \in Waiting : e = ev \/ e \in Waiting'
               /\ \A e \in Waiting' : ~Leaves(e) /\ (Arrives(e) => Leaves(ev) /\ e.cookie = ev.cookie)
               /\ \A e \in Waiting : Leaves(e) => e = ev
               /\ \A e \in Waiting : Arrives(e) => e = ev \/ (Leaves(ev) /\ e.cookie = ev.cookie)
               /\ OrderInv'
<1> DEFINE ev == Head(buf)
<1>1. PICK S : buf \in Seq(S) /\ queue \in Seq(S)
  BY DEF MoveInv
<1>2. /\ 1 \in DOMAIN Pending /\ Pending[1] = ev
      /\ \A i \in DOMAIN Pending' : i + 1 \in DOMAIN Pending /\ Pending'[i] = Pending[i + 1] /\ i \in Nat /\ i > 0
  BY FirstPending
<1> HIDE DEF ev
<1>3. \A i \in DOMAIN Pending : i = 1 \/ i - 1 \in DOMAIN Pending'
  <2>1. buf # <<>> /\ buf' = Tail(buf) /\ queue' = queue
    BY DEF Process
  <2>2. Tail(buf) \in Seq(S) /\ Len(Tail(buf)) = Len(buf) - 1 /\ Len(buf) \in Nat /\ Len(queue) \in Nat
    BY <1>1, <2>1
  <2>3. DOMAIN (buf \o queue) = 1..Len(buf) + Len(queue) /\ DOMAIN (Tail(buf) \o queue) = 1..Len(Tail(buf)) + Len(queue)
    <3>1. buf \o queue \in Seq(S) /\ Len(buf \o queue) = Len(buf) + Len(queue)
      BY <1>1, ConcatProperties
    <3>2. Tail(buf) \o queue \in Seq(S) /\ Len(Tail(buf) \o queue) = Len(Tail(buf)) + Len(queue)
      BY <1>1, <2>2, ConcatProperties
    <3> QED
      BY <3>1, <3>2
  <2>4. DOMAIN Pending = 1..Len(buf) + Len(queue) /\ DOMAIN Pending' = 1..(Len(buf) - 1) + Len(queue)
    BY <2>1, <2>2, <2>3 DEF Pending
  <2> QED
    BY <2>2, <2>4
<1>4. ASSUME NEW i \in DOMAIN Pending PROVE i = 1 \/ (\E j \in DOMAIN Pending' : i = j + 1 /\ Pending'[j] = Pending[i])
  <2>1. CASE i - 1 \in DOMAIN Pending'
    <3>1. i \in Nat
      BY PendingFirst
    <3>2. (i - 1) + 1 = i
      BY <3>1
    <3> QED
      BY <1>2, <2>1, <3>2
  <2> QED
    BY <1>3, <2>1
<1>5. ev \in Waiting /\ Waiting' \subseteq Waiting
  BY <1>2 DEF Waiting
<1>6. \A e \in Waiting : e = ev \/ e \in Waiting'
  BY <1>2, <1>4 DEF Waiting
<1>7. OrderInv
  BY DEF LiveInv
<1>8. ASSUME NEW i \in DOMAIN Pending'
      PROVE  ~Leaves(Pending'[i]) /\ (Arrives(Pending'[i]) => i = 1 /\ Leaves(ev) /\ Pending'[i].cookie = ev.cookie)
  <2>1. i + 1 \in DOMAIN Pending /\ Pending'[i] = Pending[i + 1] /\ i + 1 # 1 /\ (i + 1 = 2 => i = 1)
    BY <1>2
  <2> QED
    BY <1>2, <1>7, <2>1 DEF OrderInv
<1>9. \A e \in Waiting' : ~Leaves(e) /\ (Arrives(e) => Leaves(ev) /\ e.cookie = ev.cookie)
  BY <1>8 DEF Waiting
<1>10. OrderInv'
  BY <1>8 DEF OrderInv, Leaves, Arrives, IsFrom
<1> QED
  BY <1>5, <1>6, <1>9, <1>10 DEF ev

(* What the processing of an event leaves alone. *)
LEMMA ProcessFrame ==
    ASSUME Process
    PROVE  /\ UNCHANGED <<up, name, queue, issued, quit>> /\ todo = <<>> /\ Path' = Path /\ (TreeInv => TreeInv')
           /\ \A r : (Vacant(r)' <=> Vacant(r)) /\ (Below(r)' <=> Below(r))
<1>1. UNCHANGED <<up, name, queue, issued, quit>> /\ todo = <<>>
  BY DEF Process
<1> QED
  BY <1>1, TreeSame

(* An event is processed and nothing has to be moved, before and after. *)
LEMMA LeftQuiet ==
    ASSUME MoveInv, LiveInv, Process, Still, \A e \in Waiting : ~Leaves(e),
           UNCHANGED <<watch, wdPath, pathWd, cookie>>, WalkInv',
           Dies(Head(buf)) => Head(buf).wd \notin DOMAIN wdPath
    PROVE  LiveInv' /\ Still'
<1> DEFINE ev == Head(buf)
<1>1. /\ UNCHANGED <<up, name, queue, issued, quit>> /\ Path' = Path
      /\ \A r : (Vacant(r)' <=> Vacant(r)) /\ (Below(r)' <=> Below(r))
  BY ProcessFrame
<1>2. /\ ev \in Waiting /\ Waiting' \subseteq Waiting /\ \A e \in Waiting : e = ev \/ e \in Waiting'
      /\ \A e \in Waiting' : ~Leaves(e) /\ ~Arrives(e)
      /\ OrderInv'
  BY EventsLeft
<1> HIDE DEF ev
<1>3. /\ Still' /\ (\A o, n : ~Shifts(o, n)') /\ (\A q, r : Becomes(q, r)' <=> r = q)
      /\ \A q, r : Becomes(q, r) <=> r = q
  <2>1. Still'
    BY <1>2 DEF Still, Arrives
  <2> QED
    BY <2>1, StillNext, StillBecomes
<1>4. WatchInv /\ EventInv /\ OrderInv /\ FlightInv /\ PlaceInv
      /\ AtInv /\ DeadInv /\ OutInv /\ CookieInv
  BY DEF LiveInv
<1>5. WatchInv' /\ EventInv'
  BY <1>1, <1>2, <1>4 DEF WatchInv, EventInv, EventForm, Dies
<1>6. FlightInv'
  BY <1>2, <1>3 DEF FlightInv, Arrives, Leaves, IsFrom
<1>7. PlaceInv'
  BY <1>1, <1>3, <1>4 DEF PlaceInv
<1>8. AtInv'
  BY <1>2, <1>3, <1>4 DEF AtInv, Placed
<1>9. DeadInv'
  <2>1. \A e \in Waiting : Dies(e) /\ e.wd \in DOMAIN wdPath => e \in Waiting'
    BY <1>2 DEF ev
  <2>2. ASSUME NEW w \in DOMAIN wdPath, ~Held(w)' PROVE \E e \in Waiting' : e.wd = w /\ Dies(e)
    BY <1>4, <2>1, <2>2 DEF DeadInv, Held
  <2>3. ASSUME NEW e \in Waiting', Dies(e) PROVE ~Held(e.wd)' /\ Vacant(e.at)'
    BY <1>1, <1>2, <1>4, <2>3 DEF DeadInv, Held
  <2> QED
    BY <2>2, <2>3 DEF DeadInv, Dies
<1>10. OutInv'
  <2>1. \A o : Leaving(o) => Leaving(o)'
    BY DEF Leaving
  <2> QED
    BY <1>1, <1>3, <1>4, <2>1 DEF OutInv, Strays, Leaving
<1>11. CookieInv'
  BY <1>1, <1>2, <1>4 DEF CookieInv, IsFrom
<1> QED
  BY <1>2, <1>3, <1>5, <1>6, <1>7, <1>8, <1>9, <1>10, <1>11 DEF LiveInv

(* What an event brings is due until it is processed, and then it is walked. *)
LEMMA LeftCovers ==
    ASSUME CoverInv, Process,
           \A x \in Dirs : Below(x) /\ watch[x] # 0 => watch'[x] # 0 \/ DueEvent(Path[x])',
           \A e \in Waiting, x \in Dirs : Brings(e) /\ e.wd \in DOMAIN wdPath /\ Below(x) /\ IsPrefix(e.at, Path[x]) =>
                DueWalk(Path[x])' \/ DueEvent(Path[x])'
    PROVE  CoverInv'
<1>1. Path' = Path /\ todo = <<>> /\ \A r : Below(r)' <=> Below(r)
  BY ProcessFrame
<1>2. ASSUME NEW x \in Dirs, Below(x) PROVE watch'[x] # 0 \/ DueWalk(Path[x])' \/ DueEvent(Path[x])'
  <2>1. watch[x] # 0 \/ DueWalk(Path[x]) \/ DueEvent(Path[x])
    BY <1>2 DEF CoverInv
  <2>2. ~DueWalk(Path[x])
    BY <1>1 DEF DueWalk
  <2>3. DueEvent(Path[x]) => DueWalk(Path[x])' \/ DueEvent(Path[x])'
    BY <1>2 DEF DueEvent
  <2> QED
    BY <1>2, <2>1, <2>2, <2>3
<1> QED
  BY <1>1, <1>2 DEF CoverInv, Dirs

(* An event that brings what it says. *)
EventWaits(e) == e \in Waiting /\ Brings(e) /\ e.wd \in DOMAIN wdPath

(* What such an event brings is due. *)
LEMMA EventBrings ==
    ASSUME Path' = Path, NEW e, EventWaits(e)'
    PROVE  \A x : IsPrefix(e.at, Path[x]) => DueEvent(Path[x])'
  BY DEF EventWaits, DueEvent

(* The path that the thread takes for that of an event is that of the event,
   when nothing has to be moved. *)
LEMMA FullPath ==
    ASSUME LiveInv, Still, NEW e \in Waiting, e.wd \in DOMAIN wdPath
    PROVE  Join(wdPath[e.wd], e.name) = e.at
<1>1. Placed(e)
  BY DEF LiveInv, AtInv
<1> QED
  BY <1>1, StillBecomes DEF Placed

(* A walk begins. *)
LEMMA WalkBegins ==
    ASSUME NEW p \in PathForm, WatchDir(p)
    PROVE  WalkInv' /\ \A q : IsPrefix(p, q) => DueWalk(q)'
<1>1. PICK i : i = [do |-> "visit", path |-> p]
  OBVIOUS
<1>2. i \in TodoItem /\ i.path = p /\ i.do = "visit" /\ todo' = <<i>> /\ root' = p
  BY <1>1 DEF TodoItem, WatchDir
<1>3. IsPrefix(p, p)
  BY PathForms, PrefixOrder
<1>4. DOMAIN todo' = {1} /\ todo'[1] = i /\ todo' \in Seq(TodoItem)
  BY <1>2
<1>5. WalkInv'
  BY <1>2, <1>3, <1>4 DEF WalkInv, TodoItem
<1>6. ASSUME NEW q, IsPrefix(p, q) PROVE DueWalk(q)'
  BY <1>2, <1>4, <1>6 DEF DueWalk
<1> QED
  BY <1>5, <1>6

(* An event is processed that changes no map. *)
LEMMA PlainEvent ==
    ASSUME MoveInv, LiveInv, Process, UNCHANGED <<watch, wdPath, pathWd, cookie>>,
           LET ev == Head(buf)
           IN  /\ ~Leaves(ev) /\ (Arrives(ev) => ev.cookie \notin DOMAIN cookie)
               /\ IF ev.wd \in DOMAIN wdPath /\ (ev.mask \in {"CREATE", "ATTRIB", "MOVED_TO"} /\ ev.dir)
                  THEN WatchDir(Join(wdPath[ev.wd], ev.name)) ELSE NoWalk
               /\ Dies(ev) => ev.wd \notin DOMAIN wdPath
    PROVE  LiveInv' /\ (CoverInv => CoverInv')
<1> DEFINE ev == Head(buf)
<1>1. /\ ev \in Waiting /\ Waiting' \subseteq Waiting /\ \A e \in Waiting : e = ev \/ e \in Waiting'
      /\ \A e \in Waiting : ~Leaves(e)
      /\ \A e \in Waiting : Arrives(e) => e = ev
      /\ \A e \in Waiting' : ~Arrives(e)
  BY EventsLeft
<1>2. /\ ~Leaves(ev) /\ (Arrives(ev) => ev.cookie \notin DOMAIN cookie)
      /\ IF ev.wd \in DOMAIN wdPath /\ (ev.mask \in {"CREATE", "ATTRIB", "MOVED_TO"} /\ ev.dir)
         THEN WatchDir(Join(wdPath[ev.wd], ev.name)) ELSE NoWalk
      /\ Dies(ev) => ev.wd \notin DOMAIN wdPath
  OBVIOUS
<1>3. Path' = Path
  BY ProcessFrame
<1> HIDE DEF ev
<1>4. Still
  BY <1>1, <1>2 DEF Still
<1>5. ASSUME ev.wd \in DOMAIN wdPath, ev.mask \in {"CREATE", "ATTRIB", "MOVED_TO"}, ev.dir
      PROVE  WalkInv' /\ \A q : IsPrefix(ev.at, q) => DueWalk(q)'
  <2>1. Join(wdPath[ev.wd], ev.name) = ev.at
    BY <1>1, <1>4, <1>5, FullPath
  <2>2. ev.at \in PathForm
    BY <1>1, <1>5 DEF LiveInv, EventInv, EventForm, Dies
  <2>3. WatchDir(ev.at)
    BY <1>2, <1>5, <2>1
  <2> QED
    BY <2>2, <2>3, WalkBegins
<1>6. WalkInv'
  <2>1. CASE NoWalk
    BY <2>1 DEF NoWalk, LiveInv, WalkInv
  <2> QED
    BY <1>2, <1>5, <2>1
<1>7. LiveInv' /\ Still'
  BY <1>1, <1>2, <1>4, <1>6, LeftQuiet DEF ev
<1>8. ASSUME CoverInv PROVE CoverInv'
  <2>1. ASSUME NEW e \in Waiting, NEW x \in Dirs, Brings(e), e.wd \in DOMAIN wdPath, Below(x), IsPrefix(e.at, Path[x])
        PROVE  DueWalk(Path[x])' \/ DueEvent(Path[x])'
    <3>1. CASE e = ev
      <4>1. ev.mask \in {"CREATE", "ATTRIB", "MOVED_TO"} /\ ev.dir
        BY <1>1, <2>1, <3>1 DEF Brings, Arrives, LiveInv, EventInv, EventForm
      <4>2. PICK q : q = Path[x]
        OBVIOUS
      <4>3. DueWalk(q)'
        BY <1>5, <2>1, <3>1, <4>1, <4>2
      <4> QED
        BY <1>3, <4>2, <4>3 DEF DueWalk
    <3>2. CASE e \in Waiting'
      <4>1. EventWaits(e)'
        BY <1>7, <2>1, <3>2 DEF EventWaits, Brings, Arrives
      <4> QED
        BY <1>3, <2>1, <4>1, EventBrings
    <3> QED
      BY <1>1, <3>1, <3>2
  <2> QED
    BY <1>8, <2>1, LeftCovers
<1> QED
  BY <1>7, <1>8

(* The paths of a move within the tree: the events say where it is, whatever
   is to be moved. *)
LEMMA ShiftedHolder ==
    ASSUME NEW o \in PathForm, NEW n \in PathForm, ~IsPrefix(n, o),
           NEW q \in PathForm, NEW m \in Name \cup {<<"f">>}, Join(Shifted(o, n, q), m) \in {o, n}
    PROVE  ~IsPrefix(o, q) /\ Shifted(o, n, q) = q
<1>1. o \in Seq(Letter) /\ n \in Seq(Letter) /\ q \in Seq(Letter)
  BY PathForms
<1> DEFINE r == Shifted(o, n, q)
<1>2. r \in Seq(Letter) /\ (IsPrefix(o, q) => IsPrefix(n, r)) /\ (~IsPrefix(o, q) => r = q)
  BY <1>1, ShiftedFacts
<1>3. Join(r, m) = Step(r, m) /\ IsPrefix(r, Step(r, m)) /\ ~IsPrefix(Step(r, m), r) /\ Step(r, m) \in Seq(Letter)
  BY <1>2, StepFacts
<1> HIDE DEF r
<1>4. ASSUME IsPrefix(o, q) PROVE FALSE
  <2>1. IsPrefix(n, r)
    BY <1>2, <1>4
  <2>2. Step(r, m) = o \/ Step(r, m) = n
    BY <1>3 DEF r
  <2>3. IsPrefix(n, Step(r, m))
    BY <1>1, <1>2, <1>3, <2>1, PrefixOrder
  <2> QED
    BY <1>3, <2>1, <2>2, <2>3
<1> QED
  BY <1>2, <1>4 DEF r

(* The thread keeps where a move began. *)
LEMMA KeepsFrom ==
    ASSUME MoveInv, TreeInv, LiveInv, Process, IsFrom(Head(buf)), Head(buf).wd \in DOMAIN wdPath,
           cookie' = Put(cookie, Head(buf).cookie, Head(buf).at), UNCHANGED <<watch, wdPath, pathWd, todo, root>>
    PROVE  LiveInv' /\ (CoverInv => CoverInv')
<1> DEFINE ev == Head(buf)
<1>1. /\ ev \in Waiting /\ Waiting' \subseteq Waiting /\ \A e \in Waiting : e = ev \/ e \in Waiting'
      /\ \A e \in Waiting' : ~Leaves(e) /\ (Arrives(e) => Leaves(ev) /\ e.cookie = ev.cookie)
      /\ \A e \in Waiting : Leaves(e) => e = ev
      /\ OrderInv'
  BY EventsLeft
<1>2. /\ UNCHANGED <<up, name, queue, issued, quit>> /\ todo = <<>> /\ Path' = Path
      /\ \A r : (Vacant(r)' <=> Vacant(r)) /\ (Below(r)' <=> Below(r))
  BY ProcessFrame
<1>3. WatchInv /\ EventInv /\ OrderInv /\ FlightInv /\ PlaceInv
      /\ AtInv /\ DeadInv /\ OutInv /\ CookieInv /\ WalkInv
  BY DEF LiveInv
<1>4. ev.cookie \notin DOMAIN cookie
  <2>1. 1 \in DOMAIN Pending /\ Pending[1] = ev
    BY FirstPending
  <2> QED
    BY <2>1 DEF MoveInv, Fresh
<1>5. ~Dies(ev) /\ ~Arrives(ev) /\ IsFrom(ev) /\ (Leaves(ev) <=> ev.dir) /\ ev.wd \in DOMAIN wdPath /\ ev.mask = "MOVED_FROM"
  BY DEF Dies, Arrives, IsFrom, Leaves
<1>6. /\ DOMAIN cookie' = DOMAIN cookie \cup {ev.cookie} /\ cookie'[ev.cookie] = ev.at
      /\ \A c \in DOMAIN cookie : cookie'[c] = cookie[c]
  BY <1>4 DEF Put
<1> HIDE DEF ev
<1>7. \A a \in Waiting : Arrives(a) => a \in Waiting' /\ Leaves(ev) /\ a.cookie = ev.cookie
  BY <1>1, <1>5
<1>8. (\A a \in Waiting : ~Arrives(a)) \/ (Leaves(ev) /\ DOMAIN cookie = {} /\ DOMAIN cookie' = {ev.cookie})
  BY <1>1, <1>3, <1>6, <1>7 DEF FlightInv
<1>9. /\ Still' <=> Still
      /\ \A o, n : Shifts(o, n)' <=> Shifts(o, n)
      /\ \A q, r : Becomes(q, r)' <=> Becomes(q, r)
  <2>1. CASE \A a \in Waiting : ~Arrives(a)
    <3>1. Still /\ Still'
      BY <1>1, <2>1 DEF Still, Arrives
    <3> QED
      BY <3>1, StillNext, StillBecomes
  <2>2. CASE Leaves(ev) /\ DOMAIN cookie = {} /\ DOMAIN cookie' = {ev.cookie}
    <3>1. Still <=> \A a \in Waiting' : ~Arrives(a)
      BY <1>1, <1>5, <2>2 DEF Still
    <3>2. Still' <=> \A a \in Waiting' : ~Arrives(a)
      BY <1>1, <2>2 DEF Still, Leaves, Arrives, IsFrom
    <3>3. ASSUME NEW o, NEW n PROVE Shifts(o, n) <=> o = ev.at /\ \E a \in Waiting' : Arrives(a) /\ n = a.at
      BY <1>1, <1>5, <2>2 DEF Shifts
    <3>4. ASSUME NEW o, NEW n PROVE Shifts(o, n)' <=> o = ev.at /\ \E a \in Waiting' : Arrives(a) /\ n = a.at
      BY <1>1, <1>6, <2>2 DEF Shifts, Leaves, Arrives, IsFrom
    <3>5. \A o, n : Shifts(o, n)' <=> Shifts(o, n)
      BY <3>3, <3>4
    <3> QED
      BY <3>1, <3>2, <3>5 DEF Becomes
  <2> QED
    BY <1>8, <2>1, <2>2
<1>10. WatchInv' /\ EventInv' /\ WalkInv'
  BY <1>1, <1>2, <1>3 DEF WatchInv, EventInv, EventForm, Dies, WalkInv
<1>11. FlightInv'
  <2>1. ASSUME NEW a \in Waiting', Arrives(a)
        PROVE  DOMAIN cookie' \subseteq {a.cookie} /\ todo' = <<>> /\ a.wd \in DOMAIN wdPath'
    BY <1>1, <1>2, <1>3, <1>8, <2>1 DEF FlightInv
  <2> QED
    BY <1>1, <1>3, <1>9, <2>1 DEF FlightInv, Arrives, Leaves, IsFrom
<1>12. PlaceInv'
  BY <1>2, <1>3, <1>9 DEF PlaceInv
<1>13. AtInv'
  BY <1>1, <1>3, <1>9 DEF AtInv, Placed
<1>14. DeadInv'
  <2>1. \A e \in Waiting : Dies(e) => e \in Waiting'
    BY <1>1, <1>5
  <2>2. ASSUME NEW w \in DOMAIN wdPath, ~Held(w)' PROVE \E e \in Waiting' : e.wd = w /\ Dies(e)
    BY <1>3, <2>1, <2>2 DEF DeadInv, Held
  <2>3. ASSUME NEW e \in Waiting', Dies(e) PROVE ~Held(e.wd)' /\ Vacant(e.at)'
    BY <1>1, <1>2, <1>3, <2>3 DEF DeadInv, Held
  <2> QED
    BY <2>2, <2>3 DEF DeadInv, Dies
<1>15. OutInv'
  <2>1. \A o : Leaving(o) => Leaving(o)'
    BY <1>1, <1>6 DEF Leaving
  <2> QED
    BY <1>2, <1>3, <1>9, <2>1, ZenonT(40) DEF OutInv, Strays, Leaving
<1>16. CookieInv'
  <2>1. ASSUME NEW c \in DOMAIN cookie', NEW e \in DOMAIN cookie', cookie'[c] \in PathForm, cookie'[e] \in PathForm
        PROVE  c = e
    <3>1. CASE Leaves(ev)
      <4>1. DOMAIN cookie = {}
        BY <1>1, <1>3, <3>1 DEF FlightInv
      <4> QED
        BY <1>6, <2>1, <4>1
    <3>2. CASE ~Leaves(ev)
      <4>1. ev.at \notin PathForm
        BY <1>1, <1>3, <1>5, <3>2 DEF EventInv, EventForm
      <4>2. c \in DOMAIN cookie /\ e \in DOMAIN cookie
        BY <1>6, <2>1, <4>1
      <4> QED
        BY <1>3, <1>6, <2>1, <4>2 DEF CookieInv
    <3> QED
      BY <3>1, <3>2
  <2>2. ASSUME NEW c \in DOMAIN cookie' PROVE Vacant(cookie[c])'
    <3>1. PICK o : o = cookie'[c]
      OBVIOUS
    <3>2. Vacant(o)
      BY <1>1, <1>3, <1>5, <1>6, <2>2, <3>1 DEF CookieInv
    <3>3. Vacant(o)'
      BY <1>2, <3>2
    <3> QED
      BY <3>1, <3>3 DEF Vacant, FolderAt
  <2>3. \A e \in Waiting' : IsFrom(e) => Vacant(e.at)'
    BY <1>1, <1>2, <1>3 DEF CookieInv
  <2> QED
    BY <2>1, <2>2, <2>3 DEF CookieInv, IsFrom
<1>17. ASSUME CoverInv PROVE CoverInv'
  <2>1. ASSUME NEW e \in Waiting, NEW x \in Dirs, Brings(e), e.wd \in DOMAIN wdPath, Below(x), IsPrefix(e.at, Path[x])
        PROVE  DueEvent(Path[x])'
    <3>1. e \in Waiting' /\ Brings(e)'
      BY <1>1, <1>5, <1>9, <2>1 DEF Brings, Arrives
    <3>2. EventWaits(e)'
      BY <2>1, <3>1 DEF EventWaits
    <3> QED
      BY <1>2, <2>1, <3>2, EventBrings
  <2> QED
    BY <1>17, <2>1, LeftCovers
<1> QED
  BY <1>1, <1>10, <1>11, <1>12, <1>13, <1>14, <1>15, <1>16, <1>17 DEF LiveInv

(* The first event that waits is the first of those that are read. *)
LEMMA HeadWaits ==
    ASSUME MoveInv, buf # <<>>
    PROVE  1 \in DOMAIN Pending /\ Pending[1] = Head(buf) /\ Head(buf) \in Waiting
<1>1. PICK S : buf \in Seq(S) /\ queue \in Seq(S)
  BY DEF MoveInv
<1>2. 1 \in DOMAIN buf /\ Head(buf) = buf[1]
  BY <1>1
<1>3. 1 \in DOMAIN Pending /\ Pending[1] = buf[1]
  BY <1>1, <1>2, ConcatAt DEF Pending
<1> QED
  BY <1>2, <1>3 DEF Waiting

(* The events of a move that is to be done say where the thread has them: what
   is moved is not above them. *)
LEMMA MoveHolder ==
    ASSUME LiveInv, NEW e \in Waiting, Leaves(e) \/ Arrives(e), e.wd \in DOMAIN wdPath,
           NEW o, NEW n, Shifts(o, n), e.at \in {o, n}
    PROVE  ~IsPrefix(o, wdPath[e.wd]) /\ Join(wdPath[e.wd], e.name) = e.at
<1>1. WatchInv /\ EventInv /\ FlightInv /\ AtInv
  BY DEF LiveInv
<1>2. o \in PathForm /\ n \in PathForm /\ ~IsPrefix(n, o)
  BY <1>1 DEF FlightInv, WatchInv
<1>3. e.name \in Name /\ wdPath[e.wd] \in PathForm
  BY <1>1 DEF WatchInv, EventInv, EventForm, Leaves, Arrives, IsFrom, Dies
<1>4. PICK q \in PathForm : Becomes(wdPath[e.wd], q) /\ e.at = Join(q, e.name)
  BY <1>1 DEF AtInv, Placed
<1>5. q = Shifted(o, n, wdPath[e.wd])
  BY <1>4 DEF Becomes
<1>6. e.name \in Name \cup {<<"f">>} /\ Join(Shifted(o, n, wdPath[e.wd]), e.name) \in {o, n}
  BY <1>3, <1>4, <1>5
<1>7. ~IsPrefix(o, wdPath[e.wd]) /\ q = wdPath[e.wd]
  BY <1>2, <1>3, <1>5, <1>6, ShiftedHolder
<1> QED
  BY <1>4, <1>7

(* So the path of such an event is the one that the thread makes of it. *)
LEMMA MovePlace ==
    ASSUME LiveInv, ~Still, NEW e \in Waiting, Leaves(e) \/ Arrives(e), e.wd \in DOMAIN wdPath
    PROVE  Join(wdPath[e.wd], e.name) = e.at
<1>1. FlightInv
  BY DEF LiveInv
<1>2. \E o, n : Shifts(o, n) /\ e.at \in {o, n}
  <2>1. PICK a \in Waiting : Arrives(a) /\ (a.cookie \in DOMAIN cookie \/ \E l \in Waiting : Leaves(l))
    BY DEF Still
  <2>2. CASE Leaves(e)
    BY <2>1, <2>2 DEF Shifts
  <2>3. CASE Arrives(e)
    <3>1. CASE a.cookie \in DOMAIN cookie
      <4>1. a.cookie = e.cookie
        BY <1>1, <2>1, <2>3, <3>1 DEF FlightInv
      <4> QED
        BY <2>3, <3>1, <4>1 DEF Shifts
    <3>2. CASE \E l \in Waiting : Leaves(l)
      BY <2>3, <3>2 DEF Shifts
    <3> QED
      BY <2>1, <3>1, <3>2
  <2> QED
    BY <2>2, <2>3
<1> QED
  BY <1>2, MoveHolder

(* What the thread takes for the path of the event that it processes is the
   path at which it happened. *)
LEMMA HeadPlace ==
    ASSUME MoveInv, LiveInv, buf # <<>>, Head(buf).wd \in DOMAIN wdPath
    PROVE  Join(wdPath[Head(buf).wd], Head(buf).name) = Head(buf).at
<1> DEFINE ev == Head(buf)
<1>1. 1 \in DOMAIN Pending /\ Pending[1] = ev /\ ev \in Waiting
  BY HeadWaits
<1>2. ev.wd \in DOMAIN wdPath
  OBVIOUS
<1> HIDE DEF ev
<1>3. CASE Still
  BY <1>1, <1>2, <1>3, FullPath DEF ev
<1>4. CASE ~Still
  <2>1. PICK i \in DOMAIN Pending : Arrives(Pending[i])
    BY <1>4 DEF Still, Waiting
  <2>2. Leaves(ev) \/ Arrives(ev)
    BY <1>1, <2>1 DEF LiveInv, OrderInv
  <2> QED
    BY <1>1, <1>2, <1>4, <2>2, MovePlace DEF ev
<1> QED
  BY <1>3, <1>4

(* An event of a watch that has gone is dropped, and so are those that only
   are reported; the others begin a walk. *)
LEMMA DropMonitored ==
    ASSUME MoveInv, TreeInv, LiveInv, Process, Head(buf).wd \notin DOMAIN wdPath
    PROVE  LiveInv' /\ (CoverInv => CoverInv')
<1> DEFINE ev == Head(buf)
<1>1. ev \in Waiting
  BY EventsLeft
<1>2. NoWalk /\ UNCHANGED <<watch, wdPath, pathWd, cookie>>
  BY DEF Process, maps
<1> HIDE DEF ev
<1>3. ~Leaves(ev) /\ ~Arrives(ev)
  BY <1>1 DEF ev, LiveInv, FlightInv
<1> QED
  BY <1>2, <1>3, PlainEvent DEF ev

(* Something is created or changed, or has come from elsewhere. *)
LEMMA OtherMonitored ==
    ASSUME MoveInv, TreeInv, LiveInv, Process, Head(buf).wd \in DOMAIN wdPath,
           LET ev == Head(buf)
           IN  /\ ~Dies(ev) /\ ~IsFrom(ev) /\ (Arrives(ev) => ev.cookie \notin DOMAIN cookie)
    PROVE  LiveInv' /\ (CoverInv => CoverInv')
<1> DEFINE ev == Head(buf)
<1>1. ev \in Waiting
  BY EventsLeft
<1>2. ev.wd \in DOMAIN wdPath /\ ~Dies(ev) /\ ~IsFrom(ev) /\ (Arrives(ev) => ev.cookie \notin DOMAIN cookie)
  OBVIOUS
<1> DEFINE full == Join(wdPath[ev.wd], ev.name)
<1>3. CASE ev.mask = "MOVED_TO"
  <2>1. MovedTo(ev, full)
    BY <1>2, <1>3 DEF Process
  <2>2. ev.cookie \notin DOMAIN cookie
    BY <1>2, <1>3 DEF Arrives
  <2> HIDE DEF ev, full
  <2>3. /\ IF ev.dir THEN WatchDir(full) ELSE NoWalk
        /\ UNCHANGED <<watch, wdPath, pathWd, cookie>>
    BY <2>1, <2>2 DEF MovedTo, maps
  <2>4. ~Leaves(ev)
    BY <1>2 DEF Leaves
  <2> QED
    BY <1>2, <1>3, <2>2, <2>3, <2>4, PlainEvent DEF ev, full
<1>4. CASE ev.mask # "MOVED_TO"
  <2>1. OtherEvent(ev, full)
    BY <1>2, <1>4 DEF Process, Dies, IsFrom
  <2> HIDE DEF ev, full
  <2>2. /\ IF ev.mask \in {"CREATE", "ATTRIB"} /\ ev.dir THEN WatchDir(full) ELSE NoWalk
        /\ UNCHANGED <<watch, wdPath, pathWd, cookie>>
    BY <2>1 DEF OtherEvent, maps
  <2>3. IF ev.wd \in DOMAIN wdPath /\ (ev.mask \in {"CREATE", "ATTRIB", "MOVED_TO"} /\ ev.dir)
        THEN WatchDir(full) ELSE NoWalk
    BY <1>2, <1>4, <2>2
  <2>4. ~Leaves(ev) /\ ~Arrives(ev)
    BY <1>2, <1>4 DEF Leaves, Arrives
  <2> QED
    BY <1>2, <2>2, <2>3, <2>4, PlainEvent DEF ev, full
<1> QED
  BY <1>3, <1>4

(* Something leaves a folder. *)
LEMMA FromMonitored ==
    ASSUME MoveInv, TreeInv, LiveInv, Process, IsFrom(Head(buf)), Head(buf).wd \in DOMAIN wdPath
    PROVE  LiveInv' /\ (CoverInv => CoverInv')
<1> DEFINE ev == Head(buf)
           full == Join(wdPath[ev.wd], ev.name)
<1>1. buf # <<>> /\ full = ev.at
  BY HeadPlace DEF Process
<1>2. MovedFrom(ev, full)
  BY DEF Process, IsFrom
<1> HIDE DEF ev, full
<1>3. cookie' = Put(cookie, ev.cookie, ev.at) /\ UNCHANGED <<watch, wdPath, pathWd, todo, root>>
  BY <1>1, <1>2 DEF MovedFrom, NoWalk
<1> QED
  BY <1>3, KeepsFrom DEF ev

(* A folder that the kernel has forgotten is forgotten by the thread. *)
LEMMA DiesMonitored ==
    ASSUME Distinct, MoveInv, TreeInv, LiveInv, Process, Dies(Head(buf)), Head(buf).wd \in DOMAIN wdPath
    PROVE  LiveInv' /\ (CoverInv => CoverInv')
<1> DEFINE ev == Head(buf)
<1>1. /\ ev \in Waiting /\ Waiting' \subseteq Waiting /\ \A e \in Waiting : e = ev \/ e \in Waiting'
      /\ \A e \in Waiting' : ~Leaves(e) /\ (Arrives(e) => Leaves(ev) /\ e.cookie = ev.cookie)
      /\ \A e \in Waiting : Leaves(e) => e = ev
      /\ \A e \in Waiting : Arrives(e) => e = ev \/ (Leaves(ev) /\ e.cookie = ev.cookie)
      /\ OrderInv'
  BY EventsLeft
<1>2. /\ UNCHANGED <<up, name, queue, issued, quit>> /\ todo = <<>> /\ Path' = Path
      /\ \A r : (Vacant(r)' <=> Vacant(r)) /\ (Below(r)' <=> Below(r))
  BY ProcessFrame
<1>3. WatchInv /\ EventInv /\ OrderInv /\ FlightInv /\ PlaceInv
      /\ AtInv /\ DeadInv /\ OutInv /\ CookieInv /\ WalkInv
  BY DEF LiveInv
<1>4. DeleteSelf(ev)
  BY DEF Process, Dies
<1>5. Join(wdPath[ev.wd], ev.name) = ev.at
  BY HeadPlace DEF Process
<1>6. Dies(ev) /\ ~Leaves(ev) /\ ~Arrives(ev) /\ ev.wd \in DOMAIN wdPath
  BY DEF Dies, Leaves, IsFrom, Arrives
<1> HIDE DEF ev
<1>7. PICK w : w = ev.wd
  OBVIOUS
<1>8. /\ w \in DOMAIN wdPath /\ ~Held(w) /\ w # 0 /\ Vacant(wdPath[w]) /\ wdPath[w] \in PathForm
  <2>1. ev.name = <<>>
    BY <1>1, <1>3, <1>6 DEF EventInv, EventForm
  <2>2. wdPath[w] = ev.at
    BY <1>5, <1>7, <2>1 DEF Join
  <2> QED
    BY <1>1, <1>3, <1>6, <1>7, <2>2 DEF DeadInv, WatchInv
<1>9. watch' = watch
  <2>1. watch' = [d \in DOMAIN watch |-> IF watch[d] \in {w} THEN 0 ELSE watch[d]]
    BY <1>4, <1>7 DEF DeleteSelf, Unwatch
  <2>2. \A d \in DOMAIN watch : watch[d] # w
    BY <1>3, <1>8 DEF WatchInv, Held
  <2>3. watch = [d \in DOMAIN watch |-> watch[d]]
    BY <1>3 DEF WatchInv
  <2> QED
    BY <2>1, <2>2, <2>3
<1>10. /\ UNCHANGED <<cookie, todo, root>>
       /\ DOMAIN wdPath' = DOMAIN wdPath \ {w} /\ \A v \in DOMAIN wdPath' : wdPath'[v] = wdPath[v]
       /\ DOMAIN pathWd' \subseteq DOMAIN pathWd
       /\ \A q \in DOMAIN pathWd : q # wdPath[w] => q \in DOMAIN pathWd' /\ pathWd'[q] = pathWd[q]
  BY <1>4, <1>7 DEF DeleteSelf, Without, NoWalk
<1>11. /\ Still /\ Still' /\ (\A o, n : ~Shifts(o, n)') /\ (\A q, r : Becomes(q, r)' <=> r = q)
       /\ \A q, r : Becomes(q, r) <=> r = q
       /\ \A e \in Waiting : ~Leaves(e) /\ ~Arrives(e)
  <2>1. \A e \in Waiting : ~Leaves(e) /\ ~Arrives(e)
    BY <1>1, <1>6
  <2>2. Still /\ Still'
    BY <1>1, <2>1 DEF Still, Arrives
  <2> QED
    BY <2>1, <2>2, StillNext, StillBecomes
<1>12. WatchInv'
  <2>1. ASSUME NEW v \in DOMAIN wdPath'
        PROVE  /\ v \in 1..issued'.wd
               /\ wdPath'[v] \in PathForm /\ wdPath'[v] \in DOMAIN pathWd' /\ pathWd'[wdPath'[v]] = v
    <3>1. v \in DOMAIN wdPath /\ v # w /\ wdPath'[v] = wdPath[v]
      BY <1>10
    <3>2. v \in 1..issued.wd /\ wdPath[v] \in PathForm /\ wdPath[v] \in DOMAIN pathWd /\ pathWd[wdPath[v]] = v
      BY <1>3, <3>1 DEF WatchInv
    <3>3. wdPath[v] # wdPath[w]
      BY <1>3, <1>8, <3>1, <3>2 DEF WatchInv
    <3> QED
      BY <1>2, <1>10, <3>1, <3>2, <3>3
  <2>2. \A d \in Dirs : watch[d] # 0 => watch[d] \in DOMAIN wdPath'
    BY <1>3, <1>8, <1>10 DEF WatchInv, Held
  <2> QED
    BY <1>2, <1>3, <1>9, <1>10, <2>1, <2>2 DEF WatchInv
<1>13. EventInv' /\ WalkInv'
  BY <1>1, <1>2, <1>3, <1>10 DEF EventInv, EventForm, Dies, WalkInv
<1>14. FlightInv'
  BY <1>1, <1>11 DEF FlightInv, Arrives, Leaves, IsFrom
<1>15. PlaceInv'
  <2>1. \A d \in Dirs : watch[d] # 0 => watch[d] \in DOMAIN wdPath'
    BY <1>12, <1>9 DEF WatchInv
  <2> QED
    BY <1>2, <1>3, <1>9, <1>10, <1>11, <2>1 DEF PlaceInv
<1>16. AtInv'
  BY <1>1, <1>3, <1>10, <1>11 DEF AtInv, Placed
<1>17. DeadInv'
  <2>1. ASSUME NEW v \in DOMAIN wdPath', ~Held(v)' PROVE \E e \in Waiting' : e.wd = v /\ Dies(e)
    <3>1. v \in DOMAIN wdPath /\ v # w /\ ~Held(v)
      BY <1>9, <1>10, <2>1 DEF Held
    <3>2. PICK e \in Waiting : e.wd = v /\ Dies(e)
      BY <1>3, <3>1 DEF DeadInv
    <3> QED
      BY <1>1, <1>7, <3>1, <3>2
  <2>2. ASSUME NEW e \in Waiting', Dies(e) PROVE ~Held(e.wd)' /\ Vacant(e.at)'
    BY <1>1, <1>2, <1>3, <1>9, <2>2 DEF DeadInv, Held
  <2> QED
    BY <2>1, <2>2 DEF DeadInv, Dies
<1>18. OutInv'
  <2>1. \A o : Leaving(o) => Leaving(o)'
    BY <1>10, <1>11 DEF Leaving
  <2>2. \A d \in Dirs : (Strays(d)' <=> Strays(d)) /\ (watch[d] # 0 => wdPath'[watch'[d]] = wdPath[watch[d]])
    <3>1. \A d \in Dirs : watch[d] # 0 => watch[d] \in DOMAIN wdPath'
      BY <1>12, <1>9 DEF WatchInv
    <3> QED
      BY <1>2, <1>9, <1>10, <3>1 DEF Strays
  <2>3. ASSUME NEW d \in Dirs, Strays(d)'
        PROVE  \E e \in Dirs : Strays(e)' /\ Leaving(wdPath[watch[e]])' /\ IsPrefix(wdPath'[watch'[e]], wdPath'[watch'[d]])
    <3>1. PICK e \in Dirs : Strays(e) /\ Leaving(wdPath[watch[e]]) /\ IsPrefix(wdPath[watch[e]], wdPath[watch[d]])
      BY <1>3, <2>2, <2>3 DEF OutInv
    <3>2. PICK o : o = wdPath[watch[e]]
      OBVIOUS
    <3>3. Leaving(o)' /\ wdPath'[watch'[e]] = o
      BY <2>1, <2>2, <3>1, <3>2 DEF Strays
    <3>4. Leaving(wdPath[watch[e]])'
      BY <3>3 DEF Leaving
    <3>5. watch[d] # 0
      BY <2>2, <2>3 DEF Strays
    <3> QED
      BY <2>2, <3>1, <3>2, <3>3, <3>4, <3>5
  <2> QED
    BY <1>11, <2>3 DEF OutInv
<1>19. CookieInv'
  BY <1>1, <1>2, <1>3, <1>10 DEF CookieInv, IsFrom
<1>20. ASSUME CoverInv PROVE CoverInv'
  <2>1. ASSUME NEW e \in Waiting, NEW x \in Dirs, Brings(e), e.wd \in DOMAIN wdPath, Below(x), IsPrefix(e.at, Path[x])
        PROVE  DueEvent(Path[x])'
    <3>1. e.mask = "CREATE" /\ e # ev
      BY <1>6, <1>11, <2>1 DEF Brings, Dies
    <3>2. e.name \in Name /\ e.at \in PathForm
      BY <1>3, <3>1 DEF EventInv, EventForm, Dies
    <3>3. CASE e.wd = w
      <4>1. Join(wdPath[w], e.name) = e.at
        BY <1>11, <2>1, <3>3, FullPath
      <4>2. wdPath[w] \in Seq(Letter) /\ e.name \in Name \cup {<<"f">>} /\ e.at \in Seq(Letter)
        BY <1>8, <3>2, PathForms
      <4>3. IsPrefix(wdPath[w], e.at)
        BY <4>1, <4>2, StepFacts
      <4>4. Path[x] \in Seq(Letter)
        BY <2>1, StatePaths
      <4>5. IsPrefix(wdPath[w], Path[x])
        BY <2>1, <4>2, <4>3, <4>4, PrefixOrder
      <4>6. FolderAt(wdPath[w]) # {}
        BY <1>8, <2>1, <4>5, StatePaths
      <4> QED
        BY <1>8, <4>6 DEF Vacant
    <3>4. CASE e.wd # w
      <4>1. EventWaits(e)'
        BY <1>1, <1>10, <2>1, <3>1, <3>4 DEF EventWaits, Brings
      <4> QED
        BY <1>2, <2>1, <4>1, EventBrings
    <3> QED
      BY <3>3, <3>4
  <2>2. \A x \in Dirs : Below(x) /\ watch[x] # 0 => watch'[x] # 0 \/ DueEvent(Path[x])'
    BY <1>9
  <2> QED
    BY <1>20, <2>1, <2>2, LeftCovers
<1> QED
  BY <1>1, <1>12, <1>13, <1>14, <1>15, <1>16, <1>17, <1>18, <1>19, <1>20 DEF LiveInv

(* Every path that begins with the old one begins with the new one, in both
   maps, when nothing is at the new one. *)
LEMMA Renamed ==
    ASSUME Distinct, WatchInv, NEW o \in PathForm, NEW n \in PathForm,
           \A w \in DOMAIN wdPath : ~IsPrefix(n, wdPath[w]), RenameDir(o, n)
    PROVE  /\ watch' = watch /\ DOMAIN wdPath' = DOMAIN wdPath
           /\ \A w \in DOMAIN wdPath : wdPath'[w] = Shifted(o, n, wdPath[w])
           /\ \A w \in DOMAIN wdPath : wdPath'[w] \in DOMAIN pathWd' /\ pathWd'[wdPath'[w]] = w
           /\ DOMAIN pathWd' \subseteq PathForm
<1> DEFINE W == Affected(o)
           To(w) == n \o SubSeq(wdPath[w], Len(o) + 1, Len(wdPath[w]))
           fresh == {To(w) : w \in W}
           keep == DOMAIN pathWd \ {wdPath[w] : w \in W}
<1>1. /\ wdPath' = [w \in DOMAIN wdPath |-> IF w \in W THEN To(w) ELSE wdPath[w]]
      /\ pathWd' = [p \in fresh \cup keep |-> IF p \in fresh THEN CHOOSE w \in W : To(w) = p ELSE pathWd[p]]
      /\ watch' = watch
  BY DEF RenameDir
<1>2. W = {w \in DOMAIN wdPath : IsPrefix(o, wdPath[w])}
  BY DEF Affected
<1>3. \A w \in DOMAIN wdPath : /\ w \in W => Shifted(o, n, wdPath[w]) = To(w)
                               /\ w \notin W => Shifted(o, n, wdPath[w]) = wdPath[w]
  BY <1>2 DEF Shifted
<1>4. /\ fresh = {To(w) : w \in W} /\ keep = DOMAIN pathWd \ {wdPath[w] : w \in W}
      /\ DOMAIN pathWd' = fresh \cup keep
      /\ \A p \in fresh : pathWd'[p] = CHOOSE w \in W : To(w) = p
      /\ \A p \in keep : p \notin fresh => pathWd'[p] = pathWd[p]
  BY <1>1
<1>5. /\ \A w \in DOMAIN wdPath : wdPath[w] \in PathForm /\ wdPath[w] \in DOMAIN pathWd /\ pathWd[wdPath[w]] = w
      /\ DOMAIN pathWd \subseteq PathForm
  BY DEF WatchInv
<1> HIDE DEF W, To, keep, fresh
<1>6. DOMAIN wdPath' = DOMAIN wdPath /\ \A w \in DOMAIN wdPath : wdPath'[w] = Shifted(o, n, wdPath[w])
  BY <1>1, <1>3
<1>7. \A w \in DOMAIN wdPath : Shifted(o, n, wdPath[w]) \in PathForm
  BY <1>5, ShiftedForm
<1>8. W \subseteq DOMAIN wdPath
  BY <1>2
<1>9. ASSUME NEW w \in W PROVE To(w) \in fresh /\ pathWd'[To(w)] = w /\ IsPrefix(n, To(w)) /\ To(w) \in PathForm
  <2>1. ASSUME NEW v \in W, To(v) = To(w) PROVE v = w
    <3>1. v \in DOMAIN wdPath /\ w \in DOMAIN wdPath /\ IsPrefix(o, wdPath[v]) /\ IsPrefix(o, wdPath[w])
      BY <1>2
    <3>2. Shifted(o, n, wdPath[v]) = Shifted(o, n, wdPath[w])
      BY <1>3, <2>1, <3>1
    <3>3. o \in Seq(Letter) /\ n \in Seq(Letter) /\ wdPath[v] \in Seq(Letter) /\ wdPath[w] \in Seq(Letter)
      BY <1>5, <3>1, PathForms
    <3>4. wdPath[v] = wdPath[w]
      BY <3>1, <3>2, <3>3, ShiftedFacts
    <3> QED
      BY <1>5, <3>1, <3>4
  <2>2. To(w) \in fresh
    BY <1>4
  <2>3. pathWd'[To(w)] = w
    <3>1. PICK p : p = To(w)
      OBVIOUS
    <3>2. pathWd'[p] = CHOOSE v \in W : To(v) = p
      BY <1>4, <2>2, <3>1
    <3>3. \A v \in W : To(v) = p <=> v = w
      BY <2>1, <3>1
    <3> QED
      BY <3>1, <3>2, <3>3
  <2>4. w \in DOMAIN wdPath /\ IsPrefix(o, wdPath[w])
    BY <1>2
  <2>5. o \in Seq(Letter) /\ n \in Seq(Letter) /\ wdPath[w] \in Seq(Letter)
    BY <1>5, <2>4, PathForms
  <2>6. IsPrefix(n, Shifted(o, n, wdPath[w]))
    BY <2>4, <2>5, ShiftedFacts
  <2> QED
    BY <1>3, <1>7, <2>2, <2>3, <2>4, <2>6
<1>10. ASSUME NEW w \in DOMAIN wdPath PROVE wdPath'[w] \in DOMAIN pathWd' /\ pathWd'[wdPath'[w]] = w
  <2>1. CASE w \in W
    <3>1. wdPath'[w] = To(w)
      BY <1>3, <1>6, <2>1
    <3> QED
      BY <1>4, <1>9, <2>1, <3>1
  <2>2. CASE w \notin W
    <3>1. wdPath'[w] = wdPath[w]
      BY <1>3, <1>6, <2>2
    <3>2. wdPath[w] \notin fresh
      BY <1>4, <1>9
    <3>3. wdPath[w] \in keep /\ pathWd[wdPath[w]] = w
      BY <1>4, <1>5, <1>8, <2>2
    <3> QED
      BY <1>4, <3>1, <3>2, <3>3
  <2> QED
    BY <2>1, <2>2
<1>11. DOMAIN pathWd' \subseteq PathForm
  <2>1. \A p \in fresh : p \in PathForm
    BY <1>4, <1>9
  <2> QED
    BY <1>4, <1>5, <2>1
<1> QED
  BY <1>1, <1>6, <1>10, <1>11

(* A folder arrives where it has been moved to. *)
LEMMA ToMonitored ==
    ASSUME Distinct, MoveInv, TreeInv, LiveInv, Process, Arrives(Head(buf)), Head(buf).wd \in DOMAIN wdPath,
           Head(buf).cookie \in DOMAIN cookie
    PROVE  LiveInv' /\ (CoverInv => CoverInv')
<1> DEFINE ev == Head(buf)
           full == Join(wdPath[ev.wd], ev.name)
<1>1. /\ ev \in Waiting /\ Waiting' \subseteq Waiting /\ \A e \in Waiting : e = ev \/ e \in Waiting'
      /\ \A e \in Waiting' : ~Leaves(e) /\ (Arrives(e) => Leaves(ev) /\ e.cookie = ev.cookie)
      /\ \A e \in Waiting : Leaves(e) => e = ev
      /\ \A e \in Waiting : Arrives(e) => e = ev \/ (Leaves(ev) /\ e.cookie = ev.cookie)
      /\ OrderInv'
  BY EventsLeft
<1>2. /\ UNCHANGED <<up, name, queue, issued, quit>> /\ todo = <<>> /\ Path' = Path
      /\ \A r : (Vacant(r)' <=> Vacant(r)) /\ (Below(r)' <=> Below(r))
  BY ProcessFrame
<1>3. WatchInv /\ EventInv /\ OrderInv /\ FlightInv /\ PlaceInv
      /\ AtInv /\ DeadInv /\ OutInv /\ CookieInv /\ WalkInv
  BY DEF LiveInv
<1>4. MovedTo(ev, full)
  BY DEF Process, Arrives
<1>5. full = ev.at
  BY HeadPlace DEF Process
<1>6. Arrives(ev) /\ ~Dies(ev) /\ ~Leaves(ev) /\ ev.cookie \in DOMAIN cookie
  BY DEF Dies, Leaves, IsFrom, Arrives
<1> HIDE DEF ev, full
<1>7. PICK o, n : o = cookie[ev.cookie] /\ n = ev.at
  OBVIOUS
<1>8. DOMAIN cookie = {ev.cookie} /\ Shifts(o, n)
  BY <1>1, <1>3, <1>6, <1>7 DEF FlightInv, Shifts
<1>9. o \in DOMAIN pathWd /\ n \in PathForm /\ ~IsPrefix(n, o) /\ o \in PathForm
      /\ \A w \in DOMAIN wdPath : ~IsPrefix(n, wdPath[w])
  BY <1>3, <1>8 DEF FlightInv, WatchInv
<1>10. /\ RenameDir(o, n) /\ cookie' = Without(cookie, {ev.cookie}) /\ UNCHANGED <<todo, root>>
  BY <1>4, <1>5, <1>6, <1>7, <1>9 DEF MovedTo, NoWalk
<1>11. DOMAIN cookie' = {}
  BY <1>8, <1>10 DEF Without
<1>12. /\ watch' = watch /\ DOMAIN wdPath' = DOMAIN wdPath
       /\ \A w \in DOMAIN wdPath : wdPath'[w] = Shifted(o, n, wdPath[w])
       /\ \A w \in DOMAIN wdPath : wdPath'[w] \in DOMAIN pathWd' /\ pathWd'[wdPath'[w]] = w
       /\ DOMAIN pathWd' \subseteq PathForm
  BY <1>3, <1>9, <1>10, Renamed
<1>13. ~Still /\ Still' /\ \A e \in Waiting' : ~Leaves(e) /\ ~Arrives(e)
  BY <1>1, <1>6 DEF Still, Arrives
<1>14. (\A p, q : ~Shifts(p, q)') /\ (\A q, r : Becomes(q, r)' <=> r = q)
  BY <1>13, StillNext
<1>15. \A q, r : Becomes(q, r) => r = Shifted(o, n, q)
  BY <1>8 DEF Becomes
<1>16. WatchInv'
  <2>1. \A w \in DOMAIN wdPath : wdPath'[w] \in PathForm
    BY <1>3, <1>9, <1>12, ShiftedForm DEF WatchInv
  <2> QED
    BY <1>2, <1>3, <1>12, <2>1 DEF WatchInv
<1>17. EventInv' /\ WalkInv'
  BY <1>1, <1>2, <1>3, <1>10 DEF EventInv, EventForm, Dies, WalkInv
<1>18. FlightInv'
  BY <1>13, <1>14 DEF FlightInv, Arrives, Leaves, IsFrom
<1>19. PlaceInv'
  <2>1. \A d \in Dirs : watch[d] # 0 => watch[d] \in DOMAIN wdPath
    BY <1>3 DEF WatchInv
  <2> QED
    BY <1>2, <1>3, <1>12, <1>14, <1>15, <2>1 DEF PlaceInv
<1>20. AtInv'
  BY <1>1, <1>3, <1>12, <1>14, <1>15 DEF AtInv, Placed
<1>21. DeadInv'
  <2>1. \A e \in Waiting : Dies(e) => e \in Waiting'
    BY <1>1, <1>6
  <2>2. ASSUME NEW w \in DOMAIN wdPath', ~Held(w)' PROVE \E e \in Waiting' : e.wd = w /\ Dies(e)
    BY <1>3, <1>12, <2>1, <2>2 DEF DeadInv, Held
  <2>3. ASSUME NEW e \in Waiting', Dies(e) PROVE ~Held(e.wd)' /\ Vacant(e.at)'
    BY <1>1, <1>2, <1>3, <1>12, <2>3 DEF DeadInv, Held
  <2> QED
    BY <2>2, <2>3 DEF DeadInv, Dies
<1>22. OutInv'
  <2>1. \A d \in Dirs : ~Strays(d)
    BY <1>3, <1>13 DEF OutInv
  <2>2. \A d \in Dirs : ~Strays(d)'
    BY <1>2, <1>12, <2>1 DEF Strays
  <2> QED
    BY <2>2 DEF OutInv
<1>23. CookieInv'
  BY <1>1, <1>2, <1>3, <1>11 DEF CookieInv, IsFrom
<1>24. ASSUME CoverInv PROVE CoverInv'
  <2>1. ASSUME NEW e \in Waiting, NEW x \in Dirs, Brings(e), e.wd \in DOMAIN wdPath, Below(x), IsPrefix(e.at, Path[x])
        PROVE  DueEvent(Path[x])'
    <3>1. e.mask = "CREATE" /\ e # ev
      BY <1>6, <1>13, <2>1 DEF Brings, Arrives
    <3>2. EventWaits(e)'
      BY <1>1, <1>12, <2>1, <3>1 DEF EventWaits, Brings
    <3> QED
      BY <1>2, <2>1, <3>2, EventBrings
  <2>2. \A x \in Dirs : Below(x) /\ watch[x] # 0 => watch'[x] # 0 \/ DueEvent(Path[x])'
    BY <1>12
  <2> QED
    BY <1>24, <2>1, <2>2, LeftCovers
<1> QED
  BY <1>1, <1>16, <1>17, <1>18, <1>19, <1>20, <1>21, <1>22, <1>23, <1>24 DEF LiveInv

(* An event is processed. *)
LEMMA ProcessMonitored ==
    ASSUME Distinct, MoveInv, Monitored, Process
    PROVE  Monitored'
<1>1. buf # <<>> /\ Live /\ LiveInv /\ TreeInv /\ quit' = quit
  BY DEF Process, Live, Monitored
<1>2. TreeInv'
  BY <1>1, ProcessFrame
<1>3. LiveInv' /\ (CoverInv => CoverInv')
  <2>1. CASE Head(buf).wd \notin DOMAIN wdPath
    BY <1>1, <2>1, DropMonitored
  <2>2. CASE Head(buf).wd \in DOMAIN wdPath
    <3>1. CASE Dies(Head(buf))
      BY <1>1, <2>2, <3>1, DiesMonitored
    <3>2. CASE IsFrom(Head(buf))
      BY <1>1, <2>2, <3>2, FromMonitored
    <3>3. CASE Arrives(Head(buf)) /\ Head(buf).cookie \in DOMAIN cookie
      BY <1>1, <2>2, <3>3, ToMonitored
    <3> QED
      BY <1>1, <2>2, <3>1, <3>2, <3>3, OtherMonitored
  <2> QED
    BY <2>1, <2>2
<1> QED
  BY <1>1, <1>2, <1>3 DEF Monitored

(* What is given up, and what of it is left. *)
LEMMA GivenUp ==
    ASSUME WatchInv, NEW o, UnwatchDir(o)
    PROVE  /\ \A d \in DOMAIN watch : watch'[d] = IF watch[d] \in Affected(o) THEN 0 ELSE watch[d]
           /\ DOMAIN wdPath' = DOMAIN wdPath \ Affected(o)
           /\ \A w \in DOMAIN wdPath' : wdPath'[w] = wdPath[w] /\ ~IsPrefix(o, wdPath[w])
           /\ \A w \in DOMAIN wdPath : ~IsPrefix(o, wdPath[w]) => w \in DOMAIN wdPath'
           /\ issued'.wd = issued.wd /\ up' = up => WatchInv'
<1> DEFINE W == Affected(o)
<1>1. /\ W = {w \in DOMAIN wdPath : IsPrefix(o, wdPath[w])}
      /\ watch' = [d \in DOMAIN watch |-> IF watch[d] \in W THEN 0 ELSE watch[d]]
      /\ DOMAIN wdPath' = DOMAIN wdPath \ W /\ \A w \in DOMAIN wdPath' : wdPath'[w] = wdPath[w]
      /\ DOMAIN pathWd' = DOMAIN pathWd \ {wdPath[w] : w \in W} /\ \A p \in DOMAIN pathWd' : pathWd'[p] = pathWd[p]
  BY DEF UnwatchDir, Unwatch, Affected, Without
<1>2. \A w \in W : w # 0
  BY <1>1 DEF WatchInv
<1> HIDE DEF W
<1>3. ASSUME issued'.wd = issued.wd, up' = up PROVE WatchInv'
  <2>1. watch' \in [Dirs \cup {Out} -> Nat] /\ watch'[Out] = 0 /\ \A d \in Dirs : watch'[d] # 0 => watch'[d] = watch[d] /\ watch[d] \notin W
    BY <1>1 DEF WatchInv
  <2>2. \A d \in Dirs : watch'[d] # 0 => watch'[d] \in DOMAIN wdPath'
    BY <1>1, <2>1 DEF WatchInv
  <2>3. ASSUME NEW w \in DOMAIN wdPath' PROVE wdPath'[w] \in DOMAIN pathWd' /\ pathWd'[wdPath'[w]] = w
    <3>1. w \in DOMAIN wdPath /\ w \notin W /\ wdPath'[w] = wdPath[w]
      BY <1>1
    <3>2. \A v \in W : v \in DOMAIN wdPath /\ wdPath[v] # wdPath[w]
      BY <1>1, <3>1 DEF WatchInv
    <3> QED
      BY <1>1, <3>1, <3>2 DEF WatchInv
  <2>4. /\ \A d, e \in Dirs : watch'[d] = watch'[e] /\ watch'[d] # 0 => d = e
        /\ \A d \in Folder : up'[d] = Gone => watch'[d] = 0
    BY <1>3, <2>1 DEF WatchInv, Dirs
  <2>5. ASSUME NEW w \in DOMAIN wdPath' PROVE w \in 1..issued'.wd /\ wdPath'[w] \in PathForm
    BY <1>1, <1>3 DEF WatchInv
  <2>6. DOMAIN pathWd' \subseteq PathForm
    BY <1>1 DEF WatchInv
  <2> QED
    BY <2>1, <2>2, <2>3, <2>4, <2>5, <2>6 DEF WatchInv
<1> QED
  BY <1>1, <1>3 DEF W

(* What a step of giving up starts from. *)
LEMMA ExpireFrame ==
    ASSUME MoveInv, LiveInv, NEW c \in DOMAIN cookie, Expire(c)
    PROVE  /\ UNCHANGED <<up, name, queue, issued, buf, todo, root, quit>> /\ todo = <<>> /\ Waiting' = Waiting
           /\ Path' = Path /\ (TreeInv => TreeInv') /\ \A r : (Vacant(r)' <=> Vacant(r)) /\ (Below(r)' <=> Below(r))
           /\ DOMAIN cookie' = DOMAIN cookie \ {c} /\ \A e \in DOMAIN cookie' : cookie'[e] = cookie[e]
           /\ \A e \in Waiting : ~Leaves(e) /\ (Arrives(e) => e.cookie = c /\ DOMAIN cookie = {c})
           /\ Still' /\ (Still => \A e \in Waiting : ~Arrives(e))
           /\ EventInv' /\ OrderInv' /\ WalkInv' /\ CookieInv'
<1>1. UNCHANGED <<up, name, queue, issued, buf, todo, root, quit>> /\ todo = <<>> /\ cookie' = Without(cookie, {c})
  BY DEF Expire
<1>2. Pending' = Pending /\ Waiting' = Waiting
  BY <1>1 DEF Pending, Waiting
<1>3. DOMAIN cookie' = DOMAIN cookie \ {c} /\ \A e \in DOMAIN cookie' : cookie'[e] = cookie[e]
  BY <1>1 DEF Without
<1>4. /\ Path' = Path /\ (TreeInv => TreeInv')
      /\ \A r : (Vacant(r)' <=> Vacant(r)) /\ (Below(r)' <=> Below(r))
  BY <1>1, TreeSame
<1>5. EventInv /\ OrderInv /\ FlightInv /\ WalkInv /\ CookieInv
  BY DEF LiveInv
<1>6. \A e \in Waiting : ~Leaves(e) /\ (Arrives(e) => e.cookie = c /\ DOMAIN cookie = {c})
  BY <1>5 DEF FlightInv
<1>7. Still' /\ (Still => \A e \in Waiting : ~Arrives(e))
  BY <1>2, <1>3, <1>6 DEF Still, Leaves, Arrives, IsFrom
<1>8. EventInv' /\ WalkInv'
  BY <1>1, <1>2, <1>5 DEF EventInv, EventForm, Dies, WalkInv
<1>9. OrderInv'
  BY <1>2, <1>5 DEF OrderInv, Leaves, Arrives, IsFrom
<1>10. CookieInv'
  <2>1. \A e \in DOMAIN cookie' : e \in DOMAIN cookie /\ cookie'[e] = cookie[e]
    BY <1>3
  <2>2. ASSUME NEW e \in DOMAIN cookie' PROVE Vacant(cookie[e])'
    <3>1. PICK p : p = cookie'[e]
      OBVIOUS
    <3>2. Vacant(p)'
      BY <1>4, <1>5, <2>1, <3>1 DEF CookieInv
    <3> QED
      BY <3>1, <3>2 DEF Vacant, FolderAt
  <2> QED
    BY <1>2, <1>4, <1>5, <2>1, <2>2 DEF CookieInv, IsFrom
<1> QED
  BY <1>1, <1>2, <1>3, <1>4, <1>6, <1>7, <1>8, <1>9, <1>10

(* What a watch that is left has for its path needs no move any more. *)
LEMMA Unmoved ==
    ASSUME MoveInv, LiveInv, NEW c \in DOMAIN cookie, Expire(c), NEW q, ~IsPrefix(cookie[c], q) \/ Still
    PROVE  \A r : Becomes(q, r) => r = q
<1>1. CASE Still
  BY <1>1 DEF Becomes
<1>2. CASE ~Still
  <2>1. PICK a \in Waiting : Arrives(a)
    BY <1>2 DEF Still
  <2>2. a.cookie = c
    BY <2>1, ExpireFrame
  <2>3. Shifts(cookie[c], a.at)
    BY <2>1, <2>2 DEF Shifts
  <2> QED
    BY <1>2, <2>3 DEF Becomes, Shifted
<1> QED
  BY <1>1, <1>2

(* What was not watched is given up: nothing but the move is forgotten. *)
LEMMA ExpireKeeps ==
    ASSUME MoveInv, TreeInv, LiveInv, CoverInv, NEW c \in DOMAIN cookie, Expire(c), cookie[c] \notin DOMAIN pathWd
    PROVE  LiveInv' /\ CoverInv'
<1>1. /\ UNCHANGED <<up, name, queue, issued, buf, todo, root, quit>> /\ Waiting' = Waiting /\ Path' = Path
      /\ \A r : (Vacant(r)' <=> Vacant(r)) /\ (Below(r)' <=> Below(r))
      /\ DOMAIN cookie' = DOMAIN cookie \ {c} /\ \A e \in DOMAIN cookie' : cookie'[e] = cookie[e]
      /\ \A e \in Waiting : ~Leaves(e) /\ (Arrives(e) => e.cookie = c /\ DOMAIN cookie = {c})
      /\ Still'
      /\ EventInv' /\ OrderInv' /\ WalkInv' /\ CookieInv'
  BY ExpireFrame
<1>2. UNCHANGED <<watch, wdPath, pathWd>>
  BY DEF Expire
<1>3. WatchInv /\ FlightInv /\ PlaceInv /\ AtInv /\ DeadInv /\ OutInv
  BY DEF LiveInv
<1>4. \A e \in Waiting : ~Arrives(e)
  <2>1. ASSUME NEW e \in Waiting, Arrives(e) PROVE FALSE
    <3>1. Shifts(cookie[c], e.at)
      BY <1>1, <2>1 DEF Shifts
    <3> QED
      BY <1>3, <3>1 DEF FlightInv
  <2> QED
    BY <2>1
<1>5. Still
  BY <1>4 DEF Still
<1>6. /\ (\A o, n : ~Shifts(o, n)') /\ (\A q, r : Becomes(q, r)' <=> r = q)
      /\ \A q, r : Becomes(q, r) <=> r = q
  BY <1>1, <1>5, StillNext, StillBecomes
<1>7. WatchInv'
  BY <1>1, <1>2, <1>3 DEF WatchInv
<1>8. FlightInv'
  BY <1>1, <1>4, <1>6 DEF FlightInv, Leaves, Arrives, IsFrom
<1>9. PlaceInv' /\ AtInv'
  BY <1>1, <1>2, <1>3, <1>6 DEF PlaceInv, AtInv, Placed
<1>10. DeadInv'
  BY <1>1, <1>2, <1>3 DEF DeadInv, Held, Dies
<1>11. OutInv'
  <2>1. ASSUME NEW o \in DOMAIN pathWd, Leaving(o) PROVE Leaving(o)'
    <3>1. PICK e \in DOMAIN cookie : cookie[e] = o
      BY <1>1, <2>1 DEF Leaving
    <3>2. e # c
      BY <3>1
    <3> QED
      BY <1>1, <3>1, <3>2 DEF Leaving
  <2>2. \A d \in Dirs : Strays(d)' <=> Strays(d)
    BY <1>1, <1>2 DEF Strays
  <2>3. \A d \in Dirs : Strays(d) => wdPath[watch[d]] \in DOMAIN pathWd
    BY <1>3 DEF WatchInv, Strays
  <2>4. ASSUME NEW d \in Dirs, Strays(d)'
        PROVE  \E e \in Dirs : Strays(e)' /\ Leaving(wdPath[watch[e]])' /\ IsPrefix(wdPath'[watch'[e]], wdPath'[watch'[d]])
    <3>1. PICK e \in Dirs : Strays(e) /\ Leaving(wdPath[watch[e]]) /\ IsPrefix(wdPath[watch[e]], wdPath[watch[d]])
      BY <1>3, <2>2, <2>4 DEF OutInv
    <3>2. PICK o : o = wdPath[watch[e]]
      OBVIOUS
    <3>3. Leaving(o)' /\ wdPath'[watch'[e]] = o
      BY <1>2, <2>1, <2>3, <3>1, <3>2
    <3>4. Leaving(wdPath[watch[e]])'
      BY <3>3 DEF Leaving
    <3> QED
      BY <1>2, <2>2, <3>1, <3>4
  <2> QED
    BY <1>1, <2>4 DEF OutInv
<1>12. CoverInv'
  <2>1. \A p : (DueWalk(p) => DueWalk(p)') /\ (DueEvent(p) => DueEvent(p)')
    BY <1>1, <1>2, <1>5, DueStays
  <2>2. ASSUME NEW d \in Dirs, Below(d) PROVE watch'[d] # 0 \/ DueWalk(Path[d])' \/ DueEvent(Path[d])'
    <3>1. PICK p : p = Path[d]
      OBVIOUS
    <3>2. watch[d] # 0 \/ DueWalk(p)' \/ DueEvent(p)'
      BY <2>1, <2>2, <3>1 DEF CoverInv
    <3>3. DueWalk(p)' => DueWalk(Path[d])'
      BY <1>1, <3>1 DEF DueWalk
    <3>4. DueEvent(p)' => DueEvent(Path[d])'
      BY <1>1, <3>1 DEF DueEvent
    <3> QED
      BY <1>2, <3>2, <3>3, <3>4
  <2> QED
    BY <1>1, <2>2 DEF CoverInv, Dirs
<1> QED
  BY <1>1, <1>7, <1>8, <1>9, <1>10, <1>11, <1>12 DEF LiveInv

(* What was watched and went away is not watched any more; what arrives after
   it has been given up is walked as a folder that is new. *)
LEMMA ExpireGives ==
    ASSUME Distinct, MoveInv, TreeInv, LiveInv, CoverInv, NEW c \in DOMAIN cookie, Expire(c), cookie[c] \in DOMAIN pathWd
    PROVE  LiveInv' /\ CoverInv'
<1>1. /\ UNCHANGED <<up, name, queue, issued, buf, todo, root, quit>> /\ todo = <<>> /\ Waiting' = Waiting /\ Path' = Path
      /\ \A r : (Vacant(r)' <=> Vacant(r)) /\ (Below(r)' <=> Below(r))
      /\ DOMAIN cookie' = DOMAIN cookie \ {c} /\ \A e \in DOMAIN cookie' : cookie'[e] = cookie[e]
      /\ \A e \in Waiting : ~Leaves(e) /\ (Arrives(e) => e.cookie = c /\ DOMAIN cookie = {c})
      /\ Still' /\ (Still => \A e \in Waiting : ~Arrives(e))
      /\ EventInv' /\ OrderInv' /\ WalkInv' /\ CookieInv'
  BY ExpireFrame
<1>2. PICK o : o = cookie[c]
  OBVIOUS
<1>3. WatchInv /\ EventInv /\ FlightInv /\ PlaceInv /\ AtInv /\ DeadInv /\ OutInv /\ CookieInv
  BY DEF LiveInv
<1>4. o \in PathForm /\ o \in Seq(Letter) /\ Vacant(o)
  BY <1>2, <1>3, PathForms DEF WatchInv, CookieInv
<1>5. UnwatchDir(o)
  BY <1>2 DEF Expire
<1>6. /\ \A d \in DOMAIN watch : watch'[d] = IF watch[d] \in Affected(o) THEN 0 ELSE watch[d]
      /\ DOMAIN wdPath' = DOMAIN wdPath \ Affected(o)
      /\ \A w \in DOMAIN wdPath' : wdPath'[w] = wdPath[w] /\ ~IsPrefix(o, wdPath[w])
      /\ \A w \in DOMAIN wdPath : ~IsPrefix(o, wdPath[w]) => w \in DOMAIN wdPath'
      /\ WatchInv'
  BY <1>1, <1>3, <1>5, GivenUp
<1>7. \A d \in Dirs : d \in DOMAIN watch
  BY <1>3 DEF WatchInv
<1>8. \A d \in Dirs : watch'[d] # 0 => watch'[d] = watch[d] /\ watch[d] \in DOMAIN wdPath'
  BY <1>6, <1>7 DEF WatchInv
<1>9. \A q : ~IsPrefix(o, q) \/ Still => \A r : Becomes(q, r) => r = q
  BY <1>2, Unmoved
<1>10. (\A p, q : ~Shifts(p, q)') /\ (\A q, r : Becomes(q, r)' <=> r = q)
  BY <1>1, StillNext
<1>11. ASSUME NEW a \in Waiting, Arrives(a)
       PROVE  ~Still /\ Shifts(o, a.at) /\ a.wd \in DOMAIN wdPath'
  <2>1. ~Still /\ Shifts(o, a.at)
    BY <1>1, <1>2, <1>11 DEF Shifts
  <2>2. a.wd \in DOMAIN wdPath
    BY <1>3, <1>11 DEF FlightInv
  <2>3. ~IsPrefix(o, wdPath[a.wd])
    BY <1>11, <2>1, <2>2, MoveHolder
  <2> QED
    BY <1>6, <2>1, <2>2, <2>3
<1>12. FlightInv'
  BY <1>1, <1>10, <1>11 DEF FlightInv, Leaves, Arrives, IsFrom
<1>13. PlaceInv'
  <2>1. ASSUME NEW d \in Dirs, watch'[d] # 0, Below(d) PROVE Path[d] = wdPath'[watch'[d]]
    BY <1>3, <1>6, <1>8, <1>9, <2>1 DEF PlaceInv
  <2> QED
    BY <1>1, <1>10, <2>1 DEF PlaceInv
<1>14. AtInv'
  <2>1. ASSUME NEW e \in Waiting, e.wd \in DOMAIN wdPath' PROVE \E q \in PathForm : q = wdPath'[e.wd] /\ e.at = Join(q, e.name)
    <3>1. e.wd \in DOMAIN wdPath
      BY <1>6, <2>1
    <3>2. PICK q \in PathForm : Becomes(wdPath[e.wd], q) /\ e.at = Join(q, e.name)
      BY <1>3, <3>1 DEF AtInv, Placed
    <3> QED
      BY <1>6, <1>9, <2>1, <3>2
  <2> QED
    BY <1>1, <1>10, <2>1 DEF AtInv, Placed
<1>15. DeadInv'
  <2>1. ASSUME NEW w \in DOMAIN wdPath', ~Held(w)' PROVE ~Held(w)
    <3>1. \A d \in Dirs : watch[d] = w => watch'[d] = w
      BY <1>6, <1>7
    <3> QED
      BY <2>1, <3>1 DEF Held
  <2>2. ASSUME NEW e \in Waiting, Dies(e) PROVE ~Held(e.wd)' /\ Vacant(e.at)'
    <3>1. e.wd # 0 /\ ~Held(e.wd)
      BY <1>3, <2>2 DEF EventInv, EventForm, DeadInv
    <3>2. ~Held(e.wd)'
      BY <1>8, <3>1 DEF Held
    <3> QED
      BY <1>1, <1>3, <2>2, <3>2 DEF DeadInv
  <2> QED
    BY <1>1, <1>3, <1>6, <2>1, <2>2 DEF DeadInv, Dies
<1>16. OutInv'
  <2>1. ASSUME NEW d \in Dirs, Strays(d)' PROVE FALSE
    <3>1. Strays(d) /\ watch[d] \in DOMAIN wdPath'
      BY <1>1, <1>8, <2>1 DEF Strays
    <3>2. PICK e \in Dirs : Strays(e) /\ Leaving(wdPath[watch[e]]) /\ IsPrefix(wdPath[watch[e]], wdPath[watch[d]])
      BY <1>3, <3>1 DEF OutInv
    <3>3. wdPath[watch[e]] \in PathForm
      BY <1>3, <3>2 DEF Strays, WatchInv
    <3>4. PICK x \in DOMAIN cookie : cookie[x] = wdPath[watch[e]]
      BY <1>1, <3>2 DEF Leaving
    <3>5. x = c
      BY <1>2, <1>3, <1>4, <3>3, <3>4 DEF CookieInv
    <3> QED
      BY <1>2, <1>6, <3>1, <3>2, <3>4, <3>5
  <2> QED
    BY <2>1 DEF OutInv
<1>17. ASSUME NEW d \in Dirs, Below(d) PROVE watch'[d] # 0 \/ DueEvent(Path[d])'
  <2>1. Path[d] \in Seq(Letter) /\ ~IsPrefix(o, Path[d])
    BY <1>4, <1>17, StatePaths DEF Vacant
  <2>2. ASSUME NEW n, NEW a \in Waiting, Arrives(a), a.at = n, IsPrefix(n, Path[d]) PROVE DueEvent(Path[d])'
    <3>1. EventWaits(a)'
      BY <1>1, <1>11, <2>2 DEF EventWaits, Brings, Arrives
    <3> QED
      BY <1>1, <2>2, <3>1, EventBrings
  <2>3. CASE watch[d] # 0
    <3>1. CASE watch[d] \notin Affected(o)
      BY <1>6, <1>7, <2>3, <3>1
    <3>2. CASE watch[d] \in Affected(o)
      <4>1. watch[d] \in DOMAIN wdPath /\ IsPrefix(o, wdPath[watch[d]]) /\ wdPath[watch[d]] \in Seq(Letter)
        BY <1>3, <3>2, PathForms DEF Affected, WatchInv
      <4>2. Becomes(wdPath[watch[d]], Path[d])
        BY <1>3, <1>17, <2>3 DEF PlaceInv
      <4>3. ~Still
        BY <2>1, <4>1, <4>2 DEF Becomes
      <4>4. PICK a \in Waiting : Arrives(a)
        BY <4>3 DEF Still
      <4>5. Shifts(o, a.at) /\ a.at \in Seq(Letter)
        BY <1>3, <1>11, <4>4, PathForms DEF FlightInv
      <4>6. Path[d] = Shifted(o, a.at, wdPath[watch[d]])
        BY <4>2, <4>5 DEF Becomes
      <4>7. IsPrefix(a.at, Path[d])
        <5>1. PICK p, n \in Seq(Letter) : p = wdPath[watch[d]] /\ n = a.at
          BY <4>1, <4>5
        <5>2. IsPrefix(o, p) => IsPrefix(n, Shifted(o, n, p))
          BY <1>4, ShiftedFacts
        <5> QED
          BY <4>1, <4>6, <5>1, <5>2
      <4> QED
        BY <2>2, <4>4, <4>7
    <3> QED
      BY <3>1, <3>2
  <2>4. ASSUME NEW e \in Waiting, Brings(e), e.wd \in DOMAIN wdPath, IsPrefix(e.at, Path[d]) PROVE DueEvent(Path[d])'
    <3>1. e.mask = "CREATE"
      BY <1>11, <2>4 DEF Brings
    <3>2. e.name \in Name \cup {<<"f">>} /\ e.at \in Seq(Letter) /\ wdPath[e.wd] \in Seq(Letter)
      BY <1>3, <2>4, <3>1, PathForms DEF EventInv, EventForm, Dies, WatchInv
    <3>3. CASE e.wd \in DOMAIN wdPath'
      <4>1. EventWaits(e)'
        BY <1>1, <3>1, <3>3 DEF EventWaits, Brings
      <4> QED
        BY <1>1, <2>4, <4>1, EventBrings
    <3>4. CASE e.wd \notin DOMAIN wdPath'
      <4>1. IsPrefix(o, wdPath[e.wd])
        BY <1>6, <2>4, <3>4
      <4>2. PICK q \in PathForm : Becomes(wdPath[e.wd], q) /\ e.at = Join(q, e.name)
        BY <1>3, <2>4 DEF AtInv, Placed
      <4>3. q \in Seq(Letter) /\ IsPrefix(q, e.at)
        <5>1. q \in Seq(Letter)
          BY <4>2, PathForms
        <5>2. PICK m \in Name \cup {<<"f">>} : m = e.name
          BY <3>2
        <5>3. Join(q, m) = Step(q, m) /\ IsPrefix(q, Step(q, m))
          BY <5>1, StepFacts
        <5> QED
          BY <4>2, <5>1, <5>2, <5>3
      <4>4. IsPrefix(q, Path[d])
        BY <2>1, <2>4, <3>2, <4>3, PrefixOrder
      <4>5. CASE Still
        <5>1. q = wdPath[e.wd]
          BY <4>2, <4>5 DEF Becomes
        <5> QED
          BY <1>4, <2>1, <4>1, <4>3, <4>4, <5>1, PrefixOrder
      <4>6. CASE ~Still
        <5>1. PICK a \in Waiting : Arrives(a)
          BY <4>6 DEF Still
        <5>2. Shifts(o, a.at) /\ a.at \in Seq(Letter)
          BY <1>3, <1>11, <5>1, PathForms DEF FlightInv
        <5>3. q = Shifted(o, a.at, wdPath[e.wd])
          BY <4>2, <5>2 DEF Becomes
        <5>4. IsPrefix(a.at, q)
          <6>1. PICK p, n \in Seq(Letter) : p = wdPath[e.wd] /\ n = a.at
            BY <3>2, <5>2
          <6>2. IsPrefix(o, p) => IsPrefix(n, Shifted(o, n, p))
            BY <1>4, ShiftedFacts
          <6> QED
            BY <4>1, <5>3, <6>1, <6>2
        <5>5. IsPrefix(a.at, Path[d])
          BY <2>1, <4>3, <4>4, <5>2, <5>4, PrefixOrder
        <5> QED
          BY <2>2, <5>1, <5>5
      <4> QED
        BY <4>5, <4>6
    <3> QED
      BY <3>3, <3>4
  <2>5. ~DueWalk(Path[d])
    BY <1>1 DEF DueWalk
  <2>6. watch[d] # 0 \/ DueEvent(Path[d])
    BY <1>17, <2>5 DEF CoverInv
  <2>7. CASE DueEvent(Path[d])
    BY <2>4, <2>7 DEF DueEvent
  <2> QED
    BY <2>3, <2>6, <2>7
<1>18. CoverInv'
  BY <1>1, <1>17 DEF CoverInv, Dirs
<1> QED
  BY <1>1, <1>6, <1>12, <1>13, <1>14, <1>15, <1>16, <1>18 DEF LiveInv

(* A move is given up. *)
LEMMA ExpireMonitored ==
    ASSUME Distinct, MoveInv, Monitored, NEW c \in DOMAIN cookie, Expire(c)
    PROVE  Monitored'
<1>1. ~quit /\ LiveInv /\ TreeInv /\ CoverInv
  BY DEF Expire, Live, Monitored
<1>2. TreeInv'
  BY <1>1, ExpireFrame
<1>3. LiveInv' /\ CoverInv'
  BY <1>1, ExpireKeeps, ExpireGives
<1> QED
  BY <1>2, <1>3 DEF Monitored

(* Nothing is watched at first, and the walk has the top folder to do. *)
LEMMA InitMonitored ==
    ASSUME Init
    PROVE  Monitored
<1> USE DEF Init
<1>1. TreeInv
  <2>1. \A S \in SUBSET Folder : S # {} => \E d \in S : up[d] \notin S
    BY PlacesDiffer
  <2> QED
    BY <2>1, PlacesDiffer DEF TreeInv, IsTree, Places
<1>2. PICK i : i = [do |-> "visit", path |-> <<>>]
  OBVIOUS
<1>3. todo = <<i>> /\ i.do = "visit" /\ i.path = <<>> /\ i \in TodoItem
  BY <1>2, PathForms DEF TodoItem
<1>4. DOMAIN todo = {1} /\ todo[1] = i /\ todo \in Seq(TodoItem)
  BY <1>3
<1>5. Waiting = {} /\ DOMAIN Pending = {}
  BY DEF Waiting, Pending
<1>6. DOMAIN wdPath = {} /\ DOMAIN pathWd = {} /\ DOMAIN cookie = {} /\ \A d \in Dirs \cup {Out} : watch[d] = 0
  BY DEF Dirs
<1>7. WatchInv
  BY <1>6 DEF WatchInv, Dirs
<1>8. Still /\ \A o, n : ~Shifts(o, n)
  BY <1>5 DEF Still, Shifts
<1>9. EventInv /\ OrderInv /\ FlightInv /\ AtInv
  BY <1>5, <1>8 DEF EventInv, OrderInv, FlightInv, AtInv
<1>10. PlaceInv /\ DeadInv /\ OutInv /\ CookieInv
  BY <1>5, <1>6 DEF PlaceInv, DeadInv, OutInv, Strays, CookieInv
<1>11. WalkInv
  BY <1>3, <1>4, PathForms, PrefixOrder DEF WalkInv
<1>12. CoverInv
  <2>1. ASSUME NEW d \in Dirs PROVE DueWalk(Path[d])
    <3>1. Path[d] \in PathForm \cup {Lost}
      BY <1>1, PathsAre DEF TreeInv, Path, Dirs, Places
    <3>2. Path[d] \in Seq(Letter)
      BY <3>1, PathForms, PlacesDiffer
    <3> QED
      BY <1>3, <1>4, <3>2, PrefixOrder DEF DueWalk
  <2> QED
    BY <2>1 DEF CoverInv
<1> QED
  BY <1>1, <1>7, <1>9, <1>10, <1>11, <1>12 DEF Monitored, LiveInv

(* Every step keeps it. *)
LEMMA NextMonitored ==
    ASSUME Distinct, Settled, MoveInv, Monitored, [Next]_vars
    PROVE  Monitored'
<1>1. CASE Mkdir \/ Rmdir \/ MoveFile \/ Attrib \/ Move
  BY <1>1, MkdirMonitored, RmdirMonitored, MoveFileMonitored, AttribMonitored, MoveMonitored
<1>2. CASE Walk \/ Read \/ Process \/ End
  BY <1>2, WalkMonitored, ReadMonitored, ProcessMonitored, EndMonitored
<1>3. ASSUME NEW c \in DOMAIN cookie, Expire(c) PROVE Monitored'
  BY <1>3, ExpireMonitored
<1>4. CASE Kill \/ UNCHANGED vars
  BY <1>4, KillMonitored
<1> QED
  BY <1>1, <1>2, <1>3, <1>4 DEF Next, Thread

(* What the maps say when everything is processed, and what is reported of an
   event while there is one. *)
LEMMA MonitoredRight ==
    ASSUME Distinct, MoveInv, Monitored
    PROVE  WatchesRight /\ PathsTrue
<1>1. ASSUME Quiet, ~quit
      PROVE  LET D == {d \in Folder \cup {Top} : Below(d)} IN
               /\ \A d \in D : watch[d] \in DOMAIN wdPath /\ wdPath[watch[d]] = Path[d]
               /\ \A w \in DOMAIN wdPath : \E d \in D : watch[d] = w
               /\ \A d \in D : Path[d] \in DOMAIN pathWd /\ pathWd[Path[d]] = watch[d]
  <2>1. LiveInv /\ CoverInv /\ WatchInv
    BY <1>1 DEF Monitored, Live, LiveInv
  <2>2. /\ \A d \in Dirs : Below(d) <=> watch[d] # 0
        /\ \A d \in Dirs : Below(d) => watch[d] \in DOMAIN wdPath /\ wdPath[watch[d]] = Path[d]
        /\ \A w \in DOMAIN wdPath : Held(w)
    BY <1>1, <2>1, AtRest
  <2>3. \A w \in DOMAIN wdPath : w # 0 /\ wdPath[w] \in DOMAIN pathWd /\ pathWd[wdPath[w]] = w
    BY <2>1 DEF WatchInv
  <2> QED
    BY <2>2, <2>3 DEF Dirs, Held
<1>2. ASSUME buf # <<>>, Head(buf).wd \in DOMAIN wdPath
      PROVE  Join(wdPath[Head(buf).wd], Head(buf).name) = Head(buf).at
  BY <1>2, HeadPlace DEF Monitored, Live
<1> QED
  BY <1>1, <1>2 DEF WatchesRight, PathsTrue

(* Others wait for the monitor, and no name begins another: what fam_unwatchDir
   and fam_renameDir take for granted, which compare paths as strings, and
   fam_processEv, which walks a folder where the event was. *)
Calm == Settled /\ Distinct

(* fam_runThread keeps the invariant, for any tree, any changes of it and any
   limit of watches, however the events are split over the reads. *)
THEOREM MonitorHolds == ASSUME Calm PROVE Spec => [](MoveInv /\ Monitored)
<1>1. Init => Monitored
  BY InitMonitored
<1>2. MoveInv /\ Monitored /\ [Next]_vars => Monitored'
  BY NextMonitored DEF Calm
<1> QED
  BY <1>1, <1>2, MoveInvHolds, PTL DEF Spec

(* Once the thread has processed everything, the folders of the tree and no
   other are watched, each under its own path in both maps of famCtx. *)
THEOREM WatchesRightHolds == ASSUME Calm PROVE Spec => []WatchesRight
<1>1. MoveInv /\ Monitored => WatchesRight
  BY MonitoredRight DEF Calm
<1> QED
  BY <1>1, MonitorHolds, PTL

(* fam_processEv reports the path at which an event happened, however late it
   is processed. *)
THEOREM PathsTrueHolds == ASSUME Calm PROVE Spec => []PathsTrue
<1>1. MoveInv /\ Monitored => PathsTrue
  BY MonitoredRight DEF Calm
<1> QED
  BY <1>1, MonitorHolds, PTL
=============================================================================
