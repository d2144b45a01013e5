--------------------------- MODULE SequenceLemmas ---------------------------
(***************************************************************************)
(* What InsertAt and RemoveAt do to a sequence: its length, its elements,  *)
(* the set of them, and that none occurs twice.                            *)
(***************************************************************************)
EXTENDS Sequences, Integers, SequencesExt, SequenceTheorems, TLAPS

(* Where the elements are after an insertion. *)
LEMMA InsertAtProperties ==
    ASSUME NEW S, NEW s \in Seq(S), NEW n \in 0..Len(s), NEW e \in S
    PROVE  /\ InsertAt(s, n + 1, e) \in Seq(S)
           /\ Len(InsertAt(s, n + 1, e)) = Len(s) + 1
           /\ \A j \in 1..(Len(s) + 1) :
                InsertAt(s, n + 1, e)[j] = IF j <= n THEN s[j]
                                           ELSE IF j = n + 1 THEN e ELSE s[j - 1]
<1> DEFINE a == SubSeq(s, 1, n)
           b == SubSeq(s, n + 1, Len(s))
<1>0. Len(s) \in Nat /\ n \in Int /\ \A i \in 1..Len(s) : s[i] \in S
  BY LenProperties, ElementOfSeq
<1>1. /\ a \in Seq(S) /\ Len(a) = n
      /\ \A j \in 1..n : a[j] = s[j]
  <2>1. \A i \in 1..n : s[i] \in S
    BY <1>0
  <2> QED
    BY <1>0, <2>1, SubSeqProperties
<1>2. /\ b \in Seq(S) /\ Len(b) = Len(s) - n
      /\ \A j \in 1..(Len(s) - n) : b[j] = s[n + j]
  <2>1. \A i \in (n + 1)..Len(s) : s[i] \in S
    BY <1>0
  <2>2. /\ b \in Seq(S)
        /\ Len(b) = IF n + 1 <= Len(s) THEN Len(s) - (n + 1) + 1 ELSE 0
        /\ \A i \in 1..(Len(s) - (n + 1) + 1) : b[i] = s[(n + 1) + i - 1]
    BY <1>0, <2>1, SubSeqProperties
  <2> QED
    BY <1>0, <2>2
<1>3. <<e>> \in Seq(S) /\ Len(<<e>>) = 1 /\ <<e>>[1] = e
  OBVIOUS
<1>4. /\ a \o <<e>> \in Seq(S)
      /\ Len(a \o <<e>>) = n + 1
      /\ \A j \in 1..(n + 1) : (a \o <<e>>)[j] = IF j <= n THEN s[j] ELSE e
  <2> HIDE DEF a
  <2> QED BY <1>0, <1>1, <1>3, ConcatProperties
<1>5. InsertAt(s, n + 1, e) = (a \o <<e>>) \o b
  <2>1. (n + 1) - 1 = n
    BY <1>0
  <2> QED
    BY <2>1, Zenon DEF InsertAt
<1> HIDE DEF a, b
<1>6. /\ (a \o <<e>>) \o b \in Seq(S)
      /\ Len((a \o <<e>>) \o b) = Len(s) + 1
      /\ \A j \in 1..(Len(s) + 1) :
            ((a \o <<e>>) \o b)[j] = IF j <= n + 1 THEN (a \o <<e>>)[j] ELSE b[j - (n + 1)]
  <2> DEFINE c == a \o <<e>>
  <2>1. c \in Seq(S) /\ Len(c) = n + 1
    BY <1>4
  <2> HIDE DEF c
  <2>2. /\ c \o b \in Seq(S)
        /\ Len(c \o b) = Len(c) + Len(b)
        /\ \A j \in 1..(Len(c) + Len(b)) : (c \o b)[j] = IF j <= Len(c) THEN c[j] ELSE b[j - Len(c)]
    BY <1>2, <2>1, ConcatProperties
  <2>3. /\ c \o b \in Seq(S)
        /\ Len(c \o b) = Len(s) + 1
        /\ \A j \in 1..(Len(s) + 1) : (c \o b)[j] = IF j <= n + 1 THEN c[j] ELSE b[j - (n + 1)]
    BY <1>0, <1>2, <2>1, <2>2
  <2> QED
    BY <2>3 DEF c
<1> DEFINE d == InsertAt(s, n + 1, e)
<1> SUFFICES ASSUME NEW j \in 1..(Len(s) + 1)
             PROVE  d[j] = IF j <= n THEN s[j] ELSE IF j = n + 1 THEN e ELSE s[j - 1]
  BY <1>5, <1>6
<1>7. d[j] = IF j <= n + 1 THEN (a \o <<e>>)[j] ELSE b[j - (n + 1)]
  BY <1>5, <1>6
<1> HIDE DEF d
<1>8. CASE j <= n
  <2>1. j <= n + 1 /\ j \in 1..(n + 1)
    BY <1>0, <1>8
  <2>2. (a \o <<e>>)[j] = s[j]
    BY <2>1, <1>4, <1>8
  <2> QED
    BY <1>7, <1>8, <2>1, <2>2
<1>9. CASE j = n + 1
  <2>1. (a \o <<e>>)[j] = e
    BY <1>0, <1>4, <1>9
  <2>2. j <= n + 1 /\ ~(j <= n)
    BY <1>0, <1>9
  <2> QED
    BY <1>7, <1>9, <2>1, <2>2
<1>10. CASE j > n + 1
  <2>1. j - (n + 1) \in 1..(Len(s) - n) /\ n + (j - (n + 1)) = j - 1
    BY <1>0, <1>10
  <2>2. b[j - (n + 1)] = s[j - 1]
    BY <1>2, <2>1
  <2>3. ~(j <= n + 1) /\ ~(j <= n) /\ j # n + 1
    BY <1>0, <1>10
  <2> QED
    BY <1>7, <2>2, <2>3
<1> QED
  BY <1>0, <1>8, <1>9, <1>10

(* Where the elements are after a removal. *)
LEMMA RemoveAtProperties ==
    ASSUME NEW S, NEW s \in Seq(S), NEW n \in 1..Len(s)
    PROVE  /\ RemoveAt(s, n) \in Seq(S)
           /\ Len(RemoveAt(s, n)) = Len(s) - 1
           /\ \A j \in 1..(Len(s) - 1) :
                RemoveAt(s, n)[j] = IF j < n THEN s[j] ELSE s[j + 1]
<1> DEFINE a == SubSeq(s, 1, n - 1)
           b == SubSeq(s, n + 1, Len(s))
<1>0. Len(s) \in Nat /\ n \in Int /\ \A i \in 1..Len(s) : s[i] \in S
  BY LenProperties, ElementOfSeq
<1>1. /\ a \in Seq(S) /\ Len(a) = n - 1
      /\ \A j \in 1..(n - 1) : a[j] = s[j]
  <2>1. \A i \in 1..(n - 1) : s[i] \in S
    BY <1>0
  <2> QED
    BY <1>0, <2>1, SubSeqProperties
<1>2. /\ b \in Seq(S) /\ Len(b) = Len(s) - n
      /\ \A j \in 1..(Len(s) - n) : b[j] = s[n + j]
  <2>1. \A i \in (n + 1)..Len(s) : s[i] \in S
    BY <1>0
  <2>2. /\ b \in Seq(S)
        /\ Len(b) = IF n + 1 <= Len(s) THEN Len(s) - (n + 1) + 1 ELSE 0
        /\ \A i \in 1..(Len(s) - (n + 1) + 1) : b[i] = s[(n + 1) + i - 1]
    BY <1>0, <2>1, SubSeqProperties
  <2> QED
    BY <1>0, <2>2
<1>3. RemoveAt(s, n) = a \o b
  BY DEF RemoveAt
<1> HIDE DEF a, b
<1>4. /\ a \o b \in Seq(S)
      /\ Len(a \o b) = Len(s) - 1
      /\ \A j \in 1..(Len(s) - 1) : (a \o b)[j] = IF j <= n - 1 THEN a[j] ELSE b[j - (n - 1)]
  BY <1>0, <1>1, <1>2, ConcatProperties
<1> DEFINE d == RemoveAt(s, n)
<1>5. /\ d \in Seq(S) /\ Len(d) = Len(s) - 1
      /\ \A j \in 1..(Len(s) - 1) : d[j] = IF j <= n - 1 THEN a[j] ELSE b[j - (n - 1)]
  BY <1>3, <1>4
<1> HIDE DEF d
<1>6. ASSUME NEW j \in 1..(Len(s) - 1)
      PROVE  d[j] = IF j < n THEN s[j] ELSE s[j + 1]
  <2>1. CASE j < n
    <3>1. j <= n - 1 /\ j \in 1..(n - 1)
      BY <1>0, <2>1
    <3> QED
      BY <1>1, <1>5, <2>1, <3>1
  <2>2. CASE ~(j < n)
    <3>1. ~(j <= n - 1) /\ j - (n - 1) \in 1..(Len(s) - n) /\ n + (j - (n - 1)) = j + 1
      BY <1>0, <2>2
    <3>2. b[j - (n - 1)] = s[j + 1]
      BY <1>2, <3>1
    <3> QED
      BY <1>5, <2>2, <3>1, <3>2
  <2> QED
    BY <2>1, <2>2
<1> QED
  BY <1>5, <1>6 DEF d

(* An element inserted that was not there: it is there now, once.          *)
LEMMA InsertAtSet ==
    ASSUME NEW S, NEW s \in Seq(S), NEW n \in 0..Len(s), NEW e \in S
    PROVE  /\ ToSet(InsertAt(s, n + 1, e)) = ToSet(s) \cup {e}
           /\ IsInjective(s) /\ e \notin ToSet(s) => IsInjective(InsertAt(s, n + 1, e))
<1> DEFINE d == InsertAt(s, n + 1, e)
<1>1. /\ d \in Seq(S) /\ Len(d) = Len(s) + 1
      /\ \A j \in 1..(Len(s) + 1) :
            d[j] = IF j <= n THEN s[j] ELSE IF j = n + 1 THEN e ELSE s[j - 1]
  BY InsertAtProperties
<1>2. Len(s) \in Nat /\ n \in Int /\ DOMAIN s = 1..Len(s)
  BY LenProperties
<1>3. DOMAIN d = 1..(Len(s) + 1)
  BY <1>1, LenProperties
<1> HIDE DEF d
<1>4. /\ \A j \in 1..n : d[j] = s[j] /\ j \in DOMAIN s
      /\ d[n + 1] = e
      /\ \A j \in (n + 2)..(Len(s) + 1) : d[j] = s[j - 1] /\ j - 1 \in DOMAIN s
  <2>1. ASSUME NEW j \in 1..n PROVE d[j] = s[j] /\ j \in DOMAIN s
    <3>1. j \in 1..(Len(s) + 1) /\ j <= n /\ j \in DOMAIN s
      BY <1>2
    <3> QED
      BY <3>1, <1>1
  <2>2. d[n + 1] = e
    <3>1. n + 1 \in 1..(Len(s) + 1) /\ ~(n + 1 <= n)
      BY <1>2
    <3> QED
      BY <3>1, <1>1
  <2>3. ASSUME NEW j \in (n + 2)..(Len(s) + 1) PROVE d[j] = s[j - 1] /\ j - 1 \in DOMAIN s
    <3>1. j \in 1..(Len(s) + 1) /\ ~(j <= n) /\ j # n + 1 /\ j - 1 \in DOMAIN s
      BY <1>2
    <3> QED
      BY <3>1, <1>1
  <2> QED
    BY <2>1, <2>2, <2>3
<1>5. \A j \in DOMAIN d : j \in 1..n \/ j = n + 1 \/ j \in (n + 2)..(Len(s) + 1)
  BY <1>2, <1>3
<1>6. ToSet(d) = ToSet(s) \cup {e}
  <2>1. ASSUME NEW j \in DOMAIN d PROVE d[j] \in ToSet(s) \cup {e}
    BY <1>4, <1>5 DEF ToSet
  <2>2. ASSUME NEW i \in DOMAIN s PROVE \E j \in DOMAIN d : d[j] = s[i]
    <3>1. CASE i <= n
      <4>1. i \in 1..n /\ i \in DOMAIN d
        BY <1>2, <1>3, <3>1
      <4> QED
        BY <1>4, <4>1
    <3>2. CASE i > n
      <4>1. i + 1 \in (n + 2)..(Len(s) + 1) /\ i + 1 \in DOMAIN d /\ (i + 1) - 1 = i
        BY <1>2, <1>3, <3>2
      <4>2. d[i + 1] = s[(i + 1) - 1]
        BY <1>4, <4>1
      <4> QED
        BY <4>1, <4>2
    <3> QED
      BY <1>2, <3>1, <3>2
  <2>3. n + 1 \in DOMAIN d
    BY <1>2, <1>3
  <2> QED
    BY <1>4, <2>1, <2>2, <2>3 DEF ToSet
<1>7. ASSUME IsInjective(s), e \notin ToSet(s) PROVE IsInjective(d)
  <2> SUFFICES ASSUME NEW i \in DOMAIN d, NEW j \in DOMAIN d, d[i] = d[j]
               PROVE  i = j
    BY DEF IsInjective
  <2>1. \A k \in DOMAIN s : s[k] # e
    BY <1>7 DEF ToSet
  <2>2. \A k, l \in DOMAIN s : s[k] = s[l] => k = l
    BY <1>7 DEF IsInjective
  <2>3. CASE i = n + 1 \/ j = n + 1
    BY <1>4, <1>5, <2>1, <2>3
  <2>4. CASE i \in 1..n /\ j \in 1..n
    BY <1>4, <2>2, <2>4
  <2>5. CASE i \in 1..n /\ j \in (n + 2)..(Len(s) + 1)
    <3>1. i = j - 1
      BY <1>4, <2>2, <2>5
    <3> QED
      BY <1>2, <2>5, <3>1
  <2>6. CASE j \in 1..n /\ i \in (n + 2)..(Len(s) + 1)
    <3>1. j = i - 1
      BY <1>4, <2>2, <2>6
    <3> QED
      BY <1>2, <2>6, <3>1
  <2>7. CASE i \in (n + 2)..(Len(s) + 1) /\ j \in (n + 2)..(Len(s) + 1)
    <3>1. i - 1 = j - 1
      BY <1>4, <2>2, <2>7
    <3> QED
      BY <1>2, <2>7, <3>1
  <2> QED
    BY <1>5, <2>3, <2>4, <2>5, <2>6, <2>7
<1> QED
  BY <1>6, <1>7 DEF d

(* An element removed from a sequence in which none occurs twice is gone.  *)
LEMMA RemoveAtSet ==
    ASSUME NEW S, NEW s \in Seq(S), NEW n \in 1..Len(s), IsInjective(s)
    PROVE  /\ ToSet(RemoveAt(s, n)) = ToSet(s) \ {s[n]}
           /\ IsInjective(RemoveAt(s, n))
<1> DEFINE d == RemoveAt(s, n)
<1>1. /\ d \in Seq(S) /\ Len(d) = Len(s) - 1
      /\ \A j \in 1..(Len(s) - 1) : d[j] = IF j < n THEN s[j] ELSE s[j + 1]
  BY RemoveAtProperties
<1>2. Len(s) \in Nat /\ n \in Int /\ DOMAIN s = 1..Len(s)
  BY LenProperties
<1>3. DOMAIN d = 1..(Len(s) - 1)
  BY <1>1, LenProperties
<1>4. \A k, l \in DOMAIN s : s[k] = s[l] => k = l
  BY DEF IsInjective
<1> HIDE DEF d
<1> DEFINE src(j) == IF j < n THEN j ELSE j + 1
<1>5. \A j \in DOMAIN d : src(j) \in DOMAIN s /\ src(j) # n /\ d[j] = s[src(j)]
  <2> TAKE j \in DOMAIN d
  <2>1. CASE j < n
    BY <1>1, <1>2, <1>3, <2>1
  <2>2. CASE ~(j < n)
    <3>1. j + 1 \in DOMAIN s /\ j + 1 # n
      BY <1>2, <1>3, <2>2
    <3>2. d[j] = s[j + 1]
      BY <1>1, <1>3, <2>2
    <3> QED
      BY <2>2, <3>1, <3>2
  <2> QED
    BY <2>1, <2>2
<1>6. \A i \in DOMAIN s : i # n => \E j \in DOMAIN d : src(j) = i
  <2> SUFFICES ASSUME NEW i \in DOMAIN s, i # n
               PROVE  \E j \in DOMAIN d : src(j) = i
    OBVIOUS
  <2>1. CASE i < n
    <3>1. i \in DOMAIN d
      BY <1>2, <1>3, <2>1
    <3> QED
      BY <2>1, <3>1
  <2>2. CASE i > n
    <3>1. i - 1 \in DOMAIN d /\ ~(i - 1 < n) /\ (i - 1) + 1 = i
      BY <1>2, <1>3, <2>2
    <3> QED
      BY <3>1
  <2> QED
    BY <1>2, <2>1, <2>2
<1>7. \A i, j \in DOMAIN d : src(i) = src(j) => i = j
  BY <1>2, <1>3
<1> HIDE DEF src
<1>8. ToSet(d) = ToSet(s) \ {s[n]}
  <2>1. n \in DOMAIN s
    BY <1>2
  <2>2. ASSUME NEW j \in DOMAIN d PROVE d[j] \in ToSet(s) \ {s[n]}
    BY <1>4, <1>5, <2>1 DEF ToSet
  <2>3. ASSUME NEW i \in DOMAIN s, s[i] # s[n] PROVE \E j \in DOMAIN d : d[j] = s[i]
    BY <1>5, <1>6, <2>3
  <2> QED
    BY <2>2, <2>3 DEF ToSet
<1>9. IsInjective(d)
  BY <1>4, <1>5, <1>7 DEF IsInjective
<1> QED
  BY <1>8, <1>9 DEF d

(* Appending is inserting behind the last element.                         *)
LEMMA AppendSet ==
    ASSUME NEW S, NEW s \in Seq(S), NEW e \in S
    PROVE  /\ Append(s, e) \in Seq(S)
           /\ ToSet(Append(s, e)) = ToSet(s) \cup {e}
           /\ IsInjective(s) /\ e \notin ToSet(s) => IsInjective(Append(s, e))
<1> DEFINE d == Append(s, e)
<1>1. /\ d \in Seq(S) /\ Len(d) = Len(s) + 1
      /\ \A i \in 1..Len(s) : d[i] = s[i]
      /\ d[Len(s) + 1] = e
  BY AppendProperties
<1>2. Len(s) \in Nat /\ DOMAIN s = 1..Len(s) /\ DOMAIN d = 1..(Len(s) + 1)
  BY <1>1, LenProperties
<1> HIDE DEF d
<1>3. \A j \in DOMAIN d : (j \in DOMAIN s /\ d[j] = s[j]) \/ (j = Len(s) + 1 /\ d[j] = e)
  BY <1>1, <1>2
<1>4. DOMAIN s \subseteq DOMAIN d /\ Len(s) + 1 \in DOMAIN d
  BY <1>2
<1>5. ToSet(d) = ToSet(s) \cup {e}
  <2>1. ASSUME NEW i \in DOMAIN s PROVE d[i] = s[i] /\ i \in DOMAIN d
    BY <1>1, <1>2, <1>4
  <2> QED
    BY <1>1, <1>3, <1>4, <2>1 DEF ToSet
<1>6. ASSUME IsInjective(s), e \notin ToSet(s) PROVE IsInjective(d)
  <2>1. \A k \in DOMAIN s : s[k] # e
    BY <1>6 DEF ToSet
  <2>2. \A k, l \in DOMAIN s : s[k] = s[l] => k = l
    BY <1>6 DEF IsInjective
  <2> QED
    BY <1>3, <2>1, <2>2 DEF IsInjective
<1> QED
  BY <1>1, <1>5, <1>6 DEF d

(* The first element removed, which may be written Tail.                   *)
LEMMA RemoveAtOne ==
    ASSUME NEW S, NEW s \in Seq(S), Len(s) # 0
    PROVE  RemoveAt(s, 1) = Tail(s)
<1>1. 1 \in 1..Len(s) /\ Len(s) \in Nat /\ s # <<>>
  BY LenProperties
<1>2. /\ RemoveAt(s, 1) \in Seq(S) /\ Len(RemoveAt(s, 1)) = Len(s) - 1
      /\ \A j \in 1..(Len(s) - 1) : RemoveAt(s, 1)[j] = IF j < 1 THEN s[j] ELSE s[j + 1]
  BY <1>1, RemoveAtProperties
<1>3. /\ Tail(s) \in Seq(S) /\ Len(Tail(s)) = Len(s) - 1
      /\ \A j \in 1..Len(Tail(s)) : Tail(s)[j] = s[j + 1]
  BY <1>1, HeadTailProperties
<1>4. ASSUME NEW j \in 1..(Len(s) - 1) PROVE RemoveAt(s, 1)[j] = Tail(s)[j]
  <2>1. ~(j < 1)
    BY <1>1
  <2> QED
    BY <1>2, <1>3, <2>1
<1> QED
  BY <1>2, <1>3, <1>4, SeqEqual

(* What stands elsewhere than at the place removed is still there.         *)
LEMMA RemoveAtKeeps ==
    ASSUME NEW S, NEW s \in Seq(S), NEW n \in 1..Len(s), NEW e \in ToSet(s), e # s[n]
    PROVE  e \in ToSet(RemoveAt(s, n))
<1> DEFINE d == RemoveAt(s, n)
<1>1. /\ d \in Seq(S) /\ Len(d) = Len(s) - 1
      /\ \A j \in 1..(Len(s) - 1) : d[j] = IF j < n THEN s[j] ELSE s[j + 1]
  BY RemoveAtProperties
<1>2. Len(s) \in Nat /\ n \in Int /\ DOMAIN s = 1..Len(s)
  BY LenProperties
<1>3. DOMAIN d = 1..(Len(s) - 1)
  BY <1>1, LenProperties
<1> HIDE DEF d
<1>4. PICK i \in DOMAIN s : s[i] = e
  BY DEF ToSet
<1>5. i # n
  BY <1>4
<1>6. CASE i < n
  <2>1. i \in DOMAIN d /\ d[i] = s[i]
    BY <1>1, <1>2, <1>3, <1>6
  <2> QED
    BY <1>4, <2>1 DEF ToSet, d
<1>7. CASE i > n
  <2>1. i - 1 \in DOMAIN d /\ ~(i - 1 < n) /\ (i - 1) + 1 = i
    BY <1>2, <1>3, <1>7
  <2>2. d[i - 1] = s[i]
    BY <1>1, <1>3, <2>1
  <2> QED
    BY <1>4, <2>1, <2>2 DEF ToSet, d
<1> QED
  BY <1>2, <1>5, <1>6, <1>7

(* Where the elements are when one more is appended.                       *)
LEMMA AppendElements ==
    ASSUME NEW S, NEW s \in Seq(S), NEW e \in S
    PROVE  /\ Append(s, e) \in Seq(S)
           /\ Len(s) + 1 \in Nat
           /\ DOMAIN Append(s, e) = DOMAIN s \cup {Len(s) + 1}
           /\ \A j \in DOMAIN s : Append(s, e)[j] = s[j] /\ j \in Nat /\ j < Len(s) + 1
           /\ Append(s, e)[Len(s) + 1] = e
<1> DEFINE d == Append(s, e)
<1>1. /\ d \in Seq(S) /\ Len(d) = Len(s) + 1
      /\ \A i \in 1..Len(s) : d[i] = s[i]
      /\ d[Len(s) + 1] = e
  BY AppendProperties
<1>2. Len(s) \in Nat /\ DOMAIN s = 1..Len(s) /\ DOMAIN d = 1..(Len(s) + 1)
  BY <1>1, LenProperties
<1> HIDE DEF d
<1>3. DOMAIN d = DOMAIN s \cup {Len(s) + 1}
  BY <1>2
<1> QED
  BY <1>1, <1>2, <1>3 DEF d

(* Where the elements are when the first is taken away.                    *)
LEMMA TailElements ==
    ASSUME NEW S, NEW s \in Seq(S), s # <<>>
    PROVE  /\ Tail(s) \in Seq(S)
           /\ 1 \in DOMAIN s /\ Head(s) = s[1] /\ Head(s) \in S
           /\ \A j \in DOMAIN Tail(s) : /\ j \in Nat /\ j + 1 \in DOMAIN s /\ j + 1 > 1
                                       /\ Tail(s)[j] = s[j + 1]
           /\ \A i \in DOMAIN s : i = 1 \/ (i - 1 \in DOMAIN Tail(s) /\ Tail(s)[i - 1] = s[i])
<1> DEFINE d == Tail(s)
<1>1. /\ d \in Seq(S) /\ Len(d) = Len(s) - 1
      /\ \A j \in 1..Len(d) : d[j] = s[j + 1]
      /\ Head(s) = s[1]
  BY HeadTailProperties
<1>2. Len(s) \in Nat /\ DOMAIN s = 1..Len(s) /\ Len(s) # 0
  BY LenProperties, EmptySeq
<1>3. DOMAIN d = 1..(Len(s) - 1)
  BY <1>1, LenProperties
<1> HIDE DEF d
<1>4. 1 \in DOMAIN s /\ s[1] \in S
  BY <1>2, ElementOfSeq
<1>5. ASSUME NEW j \in DOMAIN d
      PROVE  j \in Nat /\ j + 1 \in DOMAIN s /\ j + 1 > 1 /\ d[j] = s[j + 1]
  BY <1>1, <1>2, <1>3
<1>6. ASSUME NEW i \in DOMAIN s, i # 1 PROVE i - 1 \in DOMAIN d /\ d[i - 1] = s[i]
  <2>1. i - 1 \in DOMAIN d /\ (i - 1) + 1 = i
    BY <1>2, <1>3, <1>6
  <2> QED
    BY <1>5, <2>1
<1> QED
  BY <1>1, <1>4, <1>5, <1>6 DEF d

(* An element other than the first is in the tail.                         *)
LEMMA TailKeeps ==
    ASSUME NEW S, NEW s \in Seq(S), s # <<>>, NEW e \in ToSet(s), e # Head(s)
    PROVE  e \in ToSet(Tail(s))
<1>1. PICK i \in DOMAIN s : s[i] = e
  BY DEF ToSet
<1>2. i # 1
  BY <1>1, TailElements
<1>3. i - 1 \in DOMAIN Tail(s) /\ Tail(s)[i - 1] = s[i]
  BY <1>2, TailElements
<1> QED
  BY <1>1, <1>3 DEF ToSet

(* Every element of a sequence over a set is in it.                        *)
LEMMA ElementIn ==
    ASSUME NEW S, NEW s \in Seq(S), NEW i \in DOMAIN s
    PROVE  s[i] \in S
BY LenProperties, ElementOfSeq
=============================================================================
