----------------------------- MODULE HashMapProofs -----------------------------
(***************************************************************************)
(* The hash table of map.c keeps every entry in the bucket of its hash,    *)
(* however often it is doubled, owns the values of its entries, and        *)
(* implements the dictionary.                                              *)
(***************************************************************************)
EXTENDS HashMap, SequenceLemmas, FiniteSetTheorems, WellFoundedInduction, TLAPS

(***************************************************************************)
(* Induction over the natural numbers, for a set in place of a predicate.  *)
(***************************************************************************)

(* Less-than on the natural numbers, as a set of pairs, is well founded. *)
LEMMA LessIsWellFounded == IsWellFoundedOn({p \in Nat \X Nat : p[1] < p[2]}, Nat)
<1> DEFINE R == {p \in Nat \X Nat : p[1] < p[2]}
<1>1. R \cap (Nat \X Nat) \subseteq OpToRel(<, Nat)
  BY DEF OpToRel
<1> QED
  BY <1>1, NatLessThanWellFounded, IsWellFoundedOnSubrelation

(* A set of natural numbers that is not empty has a least member. *)
LEMMA LeastMember ==
    ASSUME NEW S \in SUBSET Nat, S # {}
    PROVE  \E x \in S : \A y \in S : x <= y
<1> DEFINE R == {p \in Nat \X Nat : p[1] < p[2]}
<1>1. PICK x \in S : \A y \in S : ~(<<y, x>> \in R)
  <2> HIDE DEF R
  <2>1. IsWellFoundedOn(R, Nat)
    BY LessIsWellFounded DEF R
  <2> QED
    BY <2>1, WFMin
<1>2. \A y \in S : x <= y
  <2> TAKE y \in S
  <2>1. <<y, x>> \in Nat \X Nat /\ ~(<<y, x>> \in R)
    BY <1>1
  <2>2. ~(y < x)
    BY <2>1
  <2> QED
    BY <2>2
<1> QED
  BY <1>2

(* What FiniteSetsExt!Min is for. *)
LEMMA MinIsLeast ==
    ASSUME NEW S \in SUBSET Nat, S # {}
    PROVE  Min(S) \in S /\ \A y \in S : Min(S) <= y
BY LeastMember DEF Min

(* A set that has 0, and with each number the next one, has them all. *)
LEMMA NatSetInduction ==
    ASSUME NEW S, 0 \in S, \A n \in Nat : n \in S => n + 1 \in S
    PROVE  Nat \subseteq S
<1> DEFINE T == Nat \ S
<1> SUFFICES ASSUME T # {} PROVE FALSE
  OBVIOUS
<1>1. PICK x \in T : \A y \in T : x <= y
  <2> T \in SUBSET Nat
    OBVIOUS
  <2> HIDE DEF T
  <2> QED
    BY LeastMember
<1>2. x # 0 /\ x \in Nat
  OBVIOUS
<1>3. x - 1 \in Nat /\ ~(x <= x - 1) /\ (x - 1) + 1 = x
  BY <1>2
<1>4. x - 1 \in S
  BY <1>1, <1>3
<1> QED
  BY <1>3, <1>4
-----------------------------------------------------------------------------
(***************************************************************************)
(* A table, whatever map it belongs to.                                    *)
(***************************************************************************)

(* The entries of a table; Entries are those of the map's. *)
Contents(tbl) == {tbl[p[1]][p[2]] : p \in Places(tbl)}
KeysOf(tbl) == {e.key : e \in Contents(tbl)}

(* Every entry has the hash of its key and is in the bucket of that hash. *)
RightBucket(tbl) ==
    \A b \in DOMAIN tbl : \A i \in DOMAIN tbl[b] :
        tbl[b][i].hash = Hash[tbl[b][i].key] /\ b = (tbl[b][i].hash % Len(tbl)) + 1

(* A bucket has no key twice. *)
OnceEach(tbl) ==
    \A b \in DOMAIN tbl : \A i, j \in DOMAIN tbl[b] : tbl[b][i].key = tbl[b][j].key => i = j

WellFiled(tbl) == tbl \in Seq(Seq(kv)) /\ tbl # <<>> /\ RightBucket(tbl) /\ OnceEach(tbl)

(* A table is a sequence, not empty, of sequences of entries. *)
LEMMA TableShape ==
    ASSUME NEW tbl \in Seq(Seq(kv)), tbl # <<>>
    PROVE  /\ Len(tbl) \in Nat \ {0} /\ DOMAIN tbl = 1..Len(tbl)
           /\ \A b \in DOMAIN tbl : /\ tbl[b] \in Seq(kv)
                                    /\ Len(tbl[b]) \in Nat /\ DOMAIN tbl[b] = 1..Len(tbl[b])
                                    /\ \A i \in DOMAIN tbl[b] : tbl[b][i] \in kv
<1>1. Len(tbl) \in Nat \ {0} /\ DOMAIN tbl = 1..Len(tbl)
  BY LenProperties, EmptySeq
<1>2. ASSUME NEW b \in DOMAIN tbl
      PROVE  /\ tbl[b] \in Seq(kv)
             /\ Len(tbl[b]) \in Nat /\ DOMAIN tbl[b] = 1..Len(tbl[b])
             /\ \A i \in DOMAIN tbl[b] : tbl[b][i] \in kv
  <2>1. tbl[b] \in Seq(kv)
    BY ElementIn
  <2>2. \A i \in DOMAIN tbl[b] : tbl[b][i] \in kv
    <3> TAKE i \in DOMAIN tbl[b]
    <3> QED
      BY <2>1, ElementIn
  <2> QED
    BY <2>1, <2>2, LenProperties
<1> QED
  BY <1>1, <1>2

(* Where the places of a table are. *)
LEMMA PlacesAre ==
    ASSUME NEW tbl
    PROVE  \A p : p \in Places(tbl) <=> \E b \in DOMAIN tbl : \E i \in DOMAIN tbl[b] : p = <<b, i>>
<1>1. \A b, p : p \in {b} \X DOMAIN tbl[b] <=> \E i \in DOMAIN tbl[b] : p = <<b, i>>
  OBVIOUS
<1>2. \A p : p \in Places(tbl) <=> \E b \in DOMAIN tbl : p \in {b} \X DOMAIN tbl[b]
  BY Zenon DEF Places
<1> QED
  BY <1>1, <1>2

(* What the entries of a table are. *)
LEMMA ContentsAre ==
    ASSUME NEW tbl
    PROVE  \A e : e \in Contents(tbl) <=> \E b \in DOMAIN tbl : \E i \in DOMAIN tbl[b] : e = tbl[b][i]
<1> TAKE e
<1>1. ASSUME e \in Contents(tbl)
      PROVE  \E b \in DOMAIN tbl : \E i \in DOMAIN tbl[b] : e = tbl[b][i]
  <2>1. PICK p \in Places(tbl) : e = tbl[p[1]][p[2]]
    BY <1>1 DEF Contents
  <2>2. PICK b \in DOMAIN tbl : \E i \in DOMAIN tbl[b] : p = <<b, i>>
    BY PlacesAre
  <2>3. PICK i \in DOMAIN tbl[b] : p = <<b, i>>
    BY <2>2
  <2> QED
    BY <2>1, <2>3
<1>2. ASSUME NEW b \in DOMAIN tbl, NEW i \in DOMAIN tbl[b], e = tbl[b][i]
      PROVE  e \in Contents(tbl)
  <2>1. <<b, i>> \in Places(tbl)
    BY PlacesAre
  <2>2. e = tbl[<<b, i>>[1]][<<b, i>>[2]]
    BY <1>2
  <2> QED
    BY <2>1, <2>2 DEF Contents
<1> QED
  BY <1>1, <1>2

(* An entry of a table that is well filed: it is a kv, filed by its key. *)
LEMMA ContentsFiled ==
    ASSUME NEW tbl, WellFiled(tbl), NEW e \in Contents(tbl)
    PROVE  /\ e \in kv /\ e.hash = Hash[e.key]
           /\ (Hash[e.key] % Len(tbl)) + 1 \in DOMAIN tbl
           /\ \E i \in DOMAIN tbl[(Hash[e.key] % Len(tbl)) + 1] : e = tbl[(Hash[e.key] % Len(tbl)) + 1][i]
<1>1. PICK b \in DOMAIN tbl : \E i \in DOMAIN tbl[b] : e = tbl[b][i]
  BY ContentsAre
<1>2. PICK i \in DOMAIN tbl[b] : e = tbl[b][i]
  BY <1>1
<1>3. e \in kv
  BY <1>2, TableShape DEF WellFiled
<1>4. e.hash = Hash[e.key] /\ b = (e.hash % Len(tbl)) + 1
  BY <1>2 DEF WellFiled, RightBucket
<1> QED
  BY <1>2, <1>3, <1>4

(* A key is at one place only. *)
LEMMA OnePlace ==
    ASSUME NEW tbl, WellFiled(tbl), NEW p \in Places(tbl), NEW q \in Places(tbl),
           tbl[p[1]][p[2]].key = tbl[q[1]][q[2]].key
    PROVE  p = q
<1>1. PICK b \in DOMAIN tbl : \E i \in DOMAIN tbl[b] : p = <<b, i>>
  BY PlacesAre
<1>2. PICK i \in DOMAIN tbl[b] : p = <<b, i>>
  BY <1>1
<1>3. PICK c \in DOMAIN tbl : \E j \in DOMAIN tbl[c] : q = <<c, j>>
  BY PlacesAre
<1>4. PICK j \in DOMAIN tbl[c] : q = <<c, j>>
  BY <1>3
<1>5. tbl[b][i].key = tbl[c][j].key
  BY <1>2, <1>4
<1>6. b = c
  <2>1. tbl[b][i].hash = Hash[tbl[b][i].key] /\ b = (tbl[b][i].hash % Len(tbl)) + 1
    BY DEF WellFiled, RightBucket
  <2>2. tbl[c][j].hash = Hash[tbl[c][j].key] /\ c = (tbl[c][j].hash % Len(tbl)) + 1
    BY DEF WellFiled, RightBucket
  <2> QED
    BY <1>5, <2>1, <2>2
<1> QED
  BY <1>2, <1>4, <1>5, <1>6 DEF WellFiled, OnceEach

(* A key names one entry only. *)
LEMMA OneEntry ==
    ASSUME NEW tbl, WellFiled(tbl), NEW d \in Contents(tbl), NEW e \in Contents(tbl), d.key = e.key
    PROVE  d = e
<1>1. PICK p \in Places(tbl) : d = tbl[p[1]][p[2]]
  BY DEF Contents
<1>2. PICK q \in Places(tbl) : e = tbl[q[1]][q[2]]
  BY DEF Contents
<1>3. tbl[p[1]][p[2]].key = tbl[q[1]][q[2]].key
  BY <1>1, <1>2
<1> QED
  BY <1>1, <1>2, <1>3, OnePlace

(* A table with another list in one bucket. *)
LEMMA BucketChange ==
    ASSUME NEW tbl \in Seq(Seq(kv)), tbl # <<>>, NEW b \in DOMAIN tbl, NEW s \in Seq(kv)
    PROVE  /\ [tbl EXCEPT ![b] = s] \in Seq(Seq(kv)) /\ [tbl EXCEPT ![b] = s] # <<>>
           /\ Len([tbl EXCEPT ![b] = s]) = Len(tbl)
           /\ DOMAIN [tbl EXCEPT ![b] = s] = DOMAIN tbl
           /\ [tbl EXCEPT ![b] = s][b] = s
           /\ \A c \in DOMAIN tbl : c # b => [tbl EXCEPT ![b] = s][c] = tbl[c]
<1> DEFINE new == [tbl EXCEPT ![b] = s]
<1>1. Len(tbl) \in Nat \ {0} /\ DOMAIN tbl = 1..Len(tbl)
  BY TableShape
<1>2. new \in Seq(Seq(kv))
  BY ExceptSeq
<1>3. Len(new) = Len(tbl) /\ DOMAIN new = DOMAIN tbl
  BY ExceptSeq
<1>4. new[b] = s /\ \A c \in DOMAIN tbl : c # b => new[c] = tbl[c]
  OBVIOUS
<1>5. new # <<>>
  <2> HIDE DEF new
  <2> QED
    BY <1>1, <1>2, <1>3, EmptySeq
<1> QED
  BY <1>2, <1>3, <1>4, <1>5

(* Prefixing an element. *)
LEMMA ConsElements ==
    ASSUME NEW S, NEW s \in Seq(S), NEW e \in S
    PROVE  /\ <<e>> \o s \in Seq(S) /\ Len(<<e>> \o s) = Len(s) + 1
           /\ DOMAIN (<<e>> \o s) = 1..(Len(s) + 1)
           /\ (<<e>> \o s)[1] = e
           /\ \A i \in DOMAIN s : i + 1 \in DOMAIN (<<e>> \o s) /\ (<<e>> \o s)[i + 1] = s[i]
           /\ \A j \in DOMAIN (<<e>> \o s) : j # 1 => j - 1 \in DOMAIN s /\ (<<e>> \o s)[j] = s[j - 1]
<1> DEFINE d == <<e>> \o s
<1>1. <<e>> \in Seq(S) /\ Len(<<e>>) = 1 /\ <<e>>[1] = e
  OBVIOUS
<1>2. Len(s) \in Nat /\ DOMAIN s = 1..Len(s)
  BY LenProperties
<1>3. /\ d \in Seq(S) /\ Len(d) = Len(s) + 1
      /\ \A i \in 1..(Len(s) + 1) : d[i] = IF i <= 1 THEN <<e>>[i] ELSE s[i - 1]
  BY <1>1, <1>2, ConcatProperties
<1>4. DOMAIN d = 1..(Len(s) + 1)
  BY <1>3, LenProperties
<1> HIDE DEF d
<1>5. d[1] = e
  BY <1>1, <1>2, <1>3
<1>6. \A i \in DOMAIN s : i + 1 \in DOMAIN d /\ d[i + 1] = s[i]
  <2> TAKE i \in DOMAIN s
  <2>1. i + 1 \in 1..(Len(s) + 1) /\ ~(i + 1 <= 1) /\ (i + 1) - 1 = i
    BY <1>2
  <2> QED
    BY <2>1, <1>3, <1>4
<1>7. \A j \in DOMAIN d : j # 1 => j - 1 \in DOMAIN s /\ d[j] = s[j - 1]
  <2> TAKE j \in DOMAIN d
  <2> HAVE j # 1
  <2>1. j \in 1..(Len(s) + 1) /\ ~(j <= 1) /\ j - 1 \in 1..Len(s)
    BY <1>2, <1>4
  <2> QED
    BY <2>1, <1>2, <1>3
<1> QED
  BY <1>3, <1>4, <1>5, <1>6, <1>7 DEF d

(* An entry with a new key is put in front of its bucket. *)
LEMMA PutFirstFiles ==
    ASSUME NEW tbl, WellFiled(tbl), NEW e \in kv, e.hash = Hash[e.key], e.key \notin KeysOf(tbl)
    PROVE  /\ WellFiled(PutFirst(tbl, e)) /\ Len(PutFirst(tbl, e)) = Len(tbl)
           /\ Contents(PutFirst(tbl, e)) = Contents(tbl) \cup {e}
<1> DEFINE new == PutFirst(tbl, e)
           b == (e.hash % Len(tbl)) + 1
           s == <<e>> \o tbl[b]
<1>1. /\ tbl \in Seq(Seq(kv)) /\ tbl # <<>>
      /\ Len(tbl) \in Nat \ {0} /\ DOMAIN tbl = 1..Len(tbl)
      /\ \A c \in DOMAIN tbl : tbl[c] \in Seq(kv)
  BY TableShape DEF WellFiled
<1>2. b \in DOMAIN tbl
  <2>1. e.hash \in Nat
    BY DEF kv
  <2> QED
    BY <1>1, <2>1
<1>3. new = [tbl EXCEPT ![b] = s]
  BY DEF PutFirst
<1>4. tbl[b] \in Seq(kv)
  BY <1>1, <1>2
<1>5. /\ s \in Seq(kv) /\ s[1] = e /\ 1 \in DOMAIN s
      /\ \A i \in DOMAIN tbl[b] : i + 1 \in DOMAIN s /\ s[i + 1] = tbl[b][i]
      /\ \A j \in DOMAIN s : j # 1 => j - 1 \in DOMAIN tbl[b] /\ s[j] = tbl[b][j - 1]
      /\ \A j \in DOMAIN s : j \in Nat
  <2>1. Len(tbl[b]) \in Nat
    BY <1>4, LenProperties
  <2> HIDE DEF b
  <2> QED
    BY <1>4, <2>1, ConsElements
<1> HIDE DEF s, b
<1>6. /\ new \in Seq(Seq(kv)) /\ new # <<>> /\ Len(new) = Len(tbl) /\ DOMAIN new = DOMAIN tbl
      /\ new[b] = s /\ \A c \in DOMAIN tbl : c # b => new[c] = tbl[c]
  <2>1. tbl \in Seq(Seq(kv)) /\ tbl # <<>> /\ b \in DOMAIN tbl /\ s \in Seq(kv)
    BY <1>1, <1>2, <1>5
  <2> HIDE DEF new
  <2> QED
    BY <2>1, <1>3, BucketChange, Zenon
<1> HIDE DEF new
<1>7. \A c \in DOMAIN tbl : \A i \in DOMAIN tbl[c] : tbl[c][i] \in Contents(tbl) /\ tbl[c][i].key # e.key
  BY ContentsAre DEF KeysOf
<1>8. RightBucket(new)
  <2> SUFFICES ASSUME NEW c \in DOMAIN new, NEW i \in DOMAIN new[c]
               PROVE  new[c][i].hash = Hash[new[c][i].key] /\ c = (new[c][i].hash % Len(new)) + 1
    BY DEF RightBucket
  <2>1. CASE c # b
    BY <2>1, <1>6 DEF WellFiled, RightBucket
  <2>2. CASE c = b /\ i = 1
    BY <2>2, <1>5, <1>6 DEF b
  <2>3. CASE c = b /\ i # 1
    <3>1. i - 1 \in DOMAIN tbl[b] /\ new[c][i] = tbl[b][i - 1]
      BY <2>3, <1>5, <1>6
    <3> QED
      BY <2>3, <3>1, <1>2, <1>6 DEF WellFiled, RightBucket
  <2> QED
    BY <2>1, <2>2, <2>3
<1>9. OnceEach(new)
  <2> SUFFICES ASSUME NEW c \in DOMAIN new, NEW i \in DOMAIN new[c], NEW j \in DOMAIN new[c],
                      new[c][i].key = new[c][j].key
               PROVE  i = j
    BY DEF OnceEach
  <2>1. CASE c # b
    BY <2>1, <1>6 DEF WellFiled, OnceEach
  <2>2. CASE c = b
    <3>1. CASE i = 1 \/ j = 1
      BY <2>2, <3>1, <1>2, <1>5, <1>6, <1>7
    <3>2. CASE i # 1 /\ j # 1
      <4>1. /\ i - 1 \in DOMAIN tbl[b] /\ new[c][i] = tbl[b][i - 1]
            /\ j - 1 \in DOMAIN tbl[b] /\ new[c][j] = tbl[b][j - 1]
        BY <2>2, <3>2, <1>5, <1>6
      <4>2. i - 1 = j - 1
        BY <4>1, <1>2 DEF WellFiled, OnceEach
      <4>3. i \in Nat /\ j \in Nat
        BY <2>2, <1>5, <1>6
      <4> QED
        BY <4>2, <4>3
    <3> QED
      BY <3>1, <3>2
  <2> QED
    BY <2>1, <2>2
<1>10. Contents(new) \subseteq Contents(tbl) \cup {e}
  <2> SUFFICES ASSUME NEW d \in Contents(new) PROVE d \in Contents(tbl) \cup {e}
    OBVIOUS
  <2>1. PICK c \in DOMAIN new : \E i \in DOMAIN new[c] : d = new[c][i]
    BY ContentsAre
  <2>2. PICK i \in DOMAIN new[c] : d = new[c][i]
    BY <2>1
  <2>3. CASE c # b
    BY <2>2, <2>3, <1>6, <1>7
  <2>4. CASE c = b /\ i = 1
    BY <2>2, <2>4, <1>5, <1>6
  <2>5. CASE c = b /\ i # 1
    BY <2>2, <2>5, <1>2, <1>5, <1>6, <1>7
  <2> QED
    BY <2>3, <2>4, <2>5
<1>11. Contents(tbl) \cup {e} \subseteq Contents(new)
  <2>1. \A c \in DOMAIN new : \A i \in DOMAIN new[c] : new[c][i] \in Contents(new)
    BY ContentsAre
  <2>2. e \in Contents(new)
    BY <2>1, <1>2, <1>5, <1>6
  <2>3. ASSUME NEW d \in Contents(tbl) PROVE d \in Contents(new)
    <3>1. PICK c \in DOMAIN tbl : \E i \in DOMAIN tbl[c] : d = tbl[c][i]
      BY ContentsAre
    <3>2. PICK i \in DOMAIN tbl[c] : d = tbl[c][i]
      BY <3>1
    <3>3. CASE c # b
      BY <3>2, <3>3, <2>1, <1>6
    <3>4. CASE c = b
      <4>1. i + 1 \in DOMAIN new[b] /\ new[b][i + 1] = d
        BY <3>2, <3>4, <1>5, <1>6
      <4> QED
        BY <4>1, <2>1, <1>2, <1>6
    <3> QED
      BY <3>3, <3>4
  <2> QED
    BY <2>2, <2>3
<1> QED
  BY <1>6, <1>8, <1>9, <1>10, <1>11 DEF WellFiled, new

(* A table without one entry, and with one that has another value. *)
TakeOut(tbl, b, n) == [tbl EXCEPT ![b] = RemoveAt(tbl[b], n)]
WithValue(tbl, b, n, v) == [tbl EXCEPT ![b][n].value = v]

(* An entry is taken out of its bucket. *)
LEMMA TakeOutFiles ==
    ASSUME NEW tbl, WellFiled(tbl), NEW b \in DOMAIN tbl, NEW n \in DOMAIN tbl[b]
    PROVE  /\ WellFiled(TakeOut(tbl, b, n)) /\ Len(TakeOut(tbl, b, n)) = Len(tbl)
           /\ Contents(TakeOut(tbl, b, n)) = Contents(tbl) \ {tbl[b][n]}
<1> DEFINE s == tbl[b]
           d == RemoveAt(s, n)
           new == [tbl EXCEPT ![b] = d]
<1>1. /\ tbl \in Seq(Seq(kv)) /\ tbl # <<>> /\ s \in Seq(kv)
      /\ Len(s) \in Nat /\ DOMAIN s = 1..Len(s) /\ n \in 1..Len(s)
  BY TableShape DEF WellFiled
<1>2. /\ d \in Seq(kv) /\ Len(d) = Len(s) - 1
      /\ \A j \in 1..(Len(s) - 1) : d[j] = IF j < n THEN s[j] ELSE s[j + 1]
  <2> HIDE DEF s
  <2> QED
    BY <1>1, RemoveAtProperties
<1>3. DOMAIN d = 1..(Len(s) - 1)
  BY <1>2, LenProperties
<1> HIDE DEF d
<1>4. /\ new \in Seq(Seq(kv)) /\ new # <<>> /\ Len(new) = Len(tbl) /\ DOMAIN new = DOMAIN tbl
      /\ new[b] = d /\ \A c \in DOMAIN tbl : c # b => new[c] = tbl[c]
  <2>1. tbl \in Seq(Seq(kv)) /\ tbl # <<>> /\ b \in DOMAIN tbl /\ d \in Seq(kv)
    BY <1>1, <1>2
  <2>2. new = [tbl EXCEPT ![b] = d]
    OBVIOUS
  <2> HIDE DEF new, s
  <2> QED
    BY <2>1, <2>2, BucketChange
<1> HIDE DEF new
<1>5. \A j \in DOMAIN d : \E i \in DOMAIN s : /\ i # n /\ d[j] = s[i]
                                             /\ i = IF j < n THEN j ELSE j + 1
  <2> TAKE j \in DOMAIN d
  <2> DEFINE i == IF j < n THEN j ELSE j + 1
  <2>1. i \in DOMAIN s /\ i # n
    BY <1>1, <1>3
  <2>2. d[j] = s[i]
    BY <1>2, <1>3
  <2> QED
    BY <2>1, <2>2
<1>6. \A i \in DOMAIN s : i # n => \E j \in DOMAIN d : d[j] = s[i]
  <2> TAKE i \in DOMAIN s
  <2> HAVE i # n
  <2> DEFINE j == IF i < n THEN i ELSE i - 1
  <2>1. j \in DOMAIN d
    BY <1>1, <1>3
  <2>2. d[j] = s[i]
    BY <2>1, <1>1, <1>2, <1>3
  <2> QED
    BY <2>1, <2>2
<1>7. RightBucket(new)
  <2> SUFFICES ASSUME NEW c \in DOMAIN new, NEW j \in DOMAIN new[c]
               PROVE  new[c][j].hash = Hash[new[c][j].key] /\ c = (new[c][j].hash % Len(new)) + 1
    BY DEF RightBucket
  <2>1. PICK i \in DOMAIN tbl[c] : new[c][j] = tbl[c][i]
    BY <1>4, <1>5
  <2> QED
    BY <2>1, <1>4 DEF WellFiled, RightBucket
<1>8. OnceEach(new)
  <2> SUFFICES ASSUME NEW c \in DOMAIN new, NEW i \in DOMAIN new[c], NEW j \in DOMAIN new[c],
                      new[c][i].key = new[c][j].key
               PROVE  i = j
    BY DEF OnceEach
  <2>1. CASE c # b
    BY <2>1, <1>4 DEF WellFiled, OnceEach
  <2>2. CASE c = b
    <3>1. i \in DOMAIN d /\ j \in DOMAIN d /\ d[i].key = d[j].key
      BY <2>2, <1>4
    <3>2. PICK x \in DOMAIN s : d[i] = s[x] /\ x = IF i < n THEN i ELSE i + 1
      BY <3>1, <1>5
    <3>3. PICK y \in DOMAIN s : d[j] = s[y] /\ y = IF j < n THEN j ELSE j + 1
      BY <3>1, <1>5
    <3>4. x = y
      BY <3>1, <3>2, <3>3 DEF WellFiled, OnceEach
    <3> QED
      BY <3>1, <3>2, <3>3, <3>4, <1>1, <1>3
  <2> QED
    BY <2>1, <2>2
<1>9. Contents(new) = Contents(tbl) \ {tbl[b][n]}
  <2>1. ASSUME NEW e \in Contents(new) PROVE e \in Contents(tbl) /\ e # tbl[b][n]
    <3>1. PICK c \in DOMAIN new : \E j \in DOMAIN new[c] : e = new[c][j]
      BY ContentsAre
    <3>2. PICK j \in DOMAIN new[c] : e = new[c][j]
      BY <3>1
    <3>3. PICK i \in DOMAIN tbl[c] : e = tbl[c][i] /\ (c = b => i # n)
      BY <3>2, <1>4, <1>5
    <3>4. e \in Contents(tbl)
      BY <3>3, <1>4, ContentsAre
    <3>5. CASE c = b
      <4>1. tbl[b][i].key = tbl[b][n].key => i = n
        BY <3>3, <3>5 DEF WellFiled, OnceEach
      <4> QED
        BY <4>1, <3>3, <3>4, <3>5
    <3>6. CASE c # b
      <4>1. c = (tbl[c][i].hash % Len(tbl)) + 1
        BY <1>4, <3>3 DEF WellFiled, RightBucket
      <4>2. b = (tbl[b][n].hash % Len(tbl)) + 1
        BY DEF WellFiled, RightBucket
      <4> HIDE DEF s
      <4> QED
        BY <4>1, <4>2, <3>3, <3>4, <3>6
    <3> QED
      BY <3>4, <3>5, <3>6
  <2>2. ASSUME NEW e \in Contents(tbl), e # tbl[b][n] PROVE e \in Contents(new)
    <3>1. PICK c \in DOMAIN tbl : \E i \in DOMAIN tbl[c] : e = tbl[c][i]
      BY ContentsAre
    <3>2. PICK i \in DOMAIN tbl[c] : e = tbl[c][i]
      BY <3>1
    <3>3. PICK j \in DOMAIN new[c] : e = new[c][j]
      BY <2>2, <3>2, <1>4, <1>6
    <3> QED
      BY <3>3, <1>4, ContentsAre
  <2> QED
    BY <2>1, <2>2
<1>10. WellFiled(new)
  BY <1>4, <1>7, <1>8 DEF WellFiled
<1>11. TakeOut(tbl, b, n) = new
  BY DEF TakeOut, new, d
<1> QED
  BY <1>4, <1>9, <1>10, <1>11

(* An entry is taken out of its bucket: the last place of the bucket goes. *)
LEMMA TakeOutPlaces ==
    ASSUME NEW tbl, WellFiled(tbl), NEW b \in DOMAIN tbl, NEW n \in DOMAIN tbl[b]
    PROVE  /\ <<b, Len(tbl[b])>> \in Places(tbl)
           /\ Places(TakeOut(tbl, b, n)) = Places(tbl) \ {<<b, Len(tbl[b])>>}
<1> DEFINE s == tbl[b]
           d == RemoveAt(s, n)
           new == [tbl EXCEPT ![b] = d]
<1>1. /\ tbl \in Seq(Seq(kv)) /\ tbl # <<>> /\ s \in Seq(kv)
      /\ Len(s) \in Nat /\ DOMAIN s = 1..Len(s) /\ n \in 1..Len(s)
  BY TableShape DEF WellFiled
<1>2. /\ d \in Seq(kv) /\ Len(d) = Len(s) - 1
      /\ \A j \in 1..(Len(s) - 1) : d[j] = IF j < n THEN s[j] ELSE s[j + 1]
  <2> HIDE DEF s
  <2> QED
    BY <1>1, RemoveAtProperties
<1>3. DOMAIN d = 1..(Len(s) - 1)
  BY <1>2, LenProperties
<1> HIDE DEF d
<1>4. /\ new \in Seq(Seq(kv)) /\ new # <<>> /\ Len(new) = Len(tbl) /\ DOMAIN new = DOMAIN tbl
      /\ new[b] = d /\ \A c \in DOMAIN tbl : c # b => new[c] = tbl[c]
  <2>1. tbl \in Seq(Seq(kv)) /\ tbl # <<>> /\ b \in DOMAIN tbl /\ d \in Seq(kv)
    BY <1>1, <1>2
  <2>2. new = [tbl EXCEPT ![b] = d]
    OBVIOUS
  <2> HIDE DEF new, s
  <2> QED
    BY <2>1, <2>2, BucketChange
<1> HIDE DEF new
<1>5. <<b, Len(s)>> \in Places(tbl)
  <2>1. Len(s) \in DOMAIN s
    BY <1>1
  <2> QED
    BY <2>1, PlacesAre
<1>6. Places(new) = Places(tbl) \ {<<b, Len(s)>>}
  <2>1. ASSUME NEW p \in Places(new) PROVE p \in Places(tbl) /\ p # <<b, Len(s)>>
    <3>1. PICK c \in DOMAIN new : \E i \in DOMAIN new[c] : p = <<c, i>>
      BY PlacesAre
    <3>2. PICK i \in DOMAIN new[c] : p = <<c, i>>
      BY <3>1
    <3>3. i \in DOMAIN tbl[c] /\ (c = b => i # Len(s))
      BY <1>1, <1>3, <1>4
    <3> QED
      BY <3>2, <3>3, <1>4, PlacesAre
  <2>2. ASSUME NEW p \in Places(tbl), p # <<b, Len(s)>> PROVE p \in Places(new)
    <3>1. PICK c \in DOMAIN tbl : \E i \in DOMAIN tbl[c] : p = <<c, i>>
      BY PlacesAre
    <3>2. PICK i \in DOMAIN tbl[c] : p = <<c, i>>
      BY <3>1
    <3>3. i \in DOMAIN new[c]
      BY <2>2, <3>2, <1>1, <1>3, <1>4
    <3> QED
      BY <3>2, <3>3, <1>4, PlacesAre
  <2> QED
    BY <2>1, <2>2
<1>7. TakeOut(tbl, b, n) = new
  BY DEF TakeOut, new, d
<1> QED
  BY <1>5, <1>6, <1>7

(* An entry gets another value. *)
LEMMA ReplaceFiles ==
    ASSUME NEW tbl, WellFiled(tbl), NEW b \in DOMAIN tbl, NEW n \in DOMAIN tbl[b], NEW v \in Val
    PROVE  LET new == WithValue(tbl, b, n, v)
           IN  /\ WellFiled(new) /\ Len(new) = Len(tbl)
               /\ Contents(new) = (Contents(tbl) \ {tbl[b][n]}) \cup {[tbl[b][n] EXCEPT !.value = v]}
<1> DEFINE s == tbl[b]
           e == [s[n] EXCEPT !.value = v]
           d == [s EXCEPT ![n] = e]
           new == [tbl EXCEPT ![b] = d]
<1>1. /\ tbl \in Seq(Seq(kv)) /\ tbl # <<>> /\ s \in Seq(kv) /\ s[n] \in kv
      /\ Len(s) \in Nat /\ DOMAIN s = 1..Len(s) /\ n \in 1..Len(s)
  BY TableShape DEF WellFiled
<1>2. e \in kv /\ e.key = s[n].key /\ e.hash = s[n].hash
  BY <1>1 DEF kv
<1> HIDE DEF e
<1>3. d \in Seq(kv) /\ Len(d) = Len(s)
  <2> HIDE DEF s
  <2> QED
    BY <1>1, <1>2, ExceptSeq
<1>4. DOMAIN d = DOMAIN s /\ d[n] = e /\ \A i \in DOMAIN s : i # n => d[i] = s[i]
  BY <1>1
<1> HIDE DEF d
<1>6. /\ new \in Seq(Seq(kv)) /\ new # <<>> /\ Len(new) = Len(tbl) /\ DOMAIN new = DOMAIN tbl
      /\ new[b] = d /\ \A c \in DOMAIN tbl : c # b => new[c] = tbl[c]
  <2>1. tbl \in Seq(Seq(kv)) /\ tbl # <<>> /\ b \in DOMAIN tbl /\ d \in Seq(kv)
    BY <1>1, <1>3
  <2>2. new = [tbl EXCEPT ![b] = d]
    OBVIOUS
  <2> HIDE DEF new, s
  <2> QED
    BY <2>1, <2>2, BucketChange
<1> HIDE DEF new
<1>7. \A c \in DOMAIN tbl : /\ DOMAIN new[c] = DOMAIN tbl[c]
                            /\ \A i \in DOMAIN tbl[c] : /\ new[c][i].key = tbl[c][i].key
                                                        /\ new[c][i].hash = tbl[c][i].hash
  BY <1>2, <1>4, <1>6
<1>8. RightBucket(new)
  <2> SUFFICES ASSUME NEW c \in DOMAIN new, NEW i \in DOMAIN new[c]
               PROVE  new[c][i].hash = Hash[new[c][i].key] /\ c = (new[c][i].hash % Len(new)) + 1
    BY DEF RightBucket
  <2>1. /\ c \in DOMAIN tbl /\ i \in DOMAIN tbl[c]
        /\ new[c][i].key = tbl[c][i].key /\ new[c][i].hash = tbl[c][i].hash
    BY <1>6, <1>7
  <2>2. tbl[c][i].hash = Hash[tbl[c][i].key] /\ c = (tbl[c][i].hash % Len(tbl)) + 1
    BY <2>1 DEF WellFiled, RightBucket
  <2> QED
    BY <2>1, <2>2, <1>6
<1>9. OnceEach(new)
  <2> SUFFICES ASSUME NEW c \in DOMAIN new, NEW i \in DOMAIN new[c], NEW j \in DOMAIN new[c],
                      new[c][i].key = new[c][j].key
               PROVE  i = j
    BY DEF OnceEach
  <2>1. c \in DOMAIN tbl /\ i \in DOMAIN tbl[c] /\ j \in DOMAIN tbl[c] /\ tbl[c][i].key = tbl[c][j].key
    BY <1>6, <1>7
  <2> QED
    BY <2>1 DEF WellFiled, OnceEach
<1>10. ASSUME NEW x \in Contents(new) PROVE (x \in Contents(tbl) /\ x # s[n]) \/ x = e
  <2>1. PICK c \in DOMAIN new : \E i \in DOMAIN new[c] : x = new[c][i]
    BY ContentsAre
  <2>2. PICK i \in DOMAIN new[c] : x = new[c][i]
    BY <2>1
  <2>3. CASE c = b /\ i = n
    BY <2>2, <2>3, <1>4, <1>6
  <2>4. CASE c = b /\ i # n
    <3>1. i \in DOMAIN s /\ x = s[i]
      BY <2>2, <2>4, <1>4, <1>6
    <3>2. x # s[n]
      BY <3>1, <2>4 DEF WellFiled, OnceEach
    <3>3. x \in Contents(tbl)
      BY <3>1, ContentsAre
    <3> QED
      BY <3>2, <3>3
  <2>5. CASE c # b
    <3>1. c \in DOMAIN tbl /\ i \in DOMAIN tbl[c] /\ x = tbl[c][i]
      BY <2>2, <2>5, <1>6
    <3>2. c = (tbl[c][i].hash % Len(tbl)) + 1 /\ b = (s[n].hash % Len(tbl)) + 1
      BY <3>1 DEF WellFiled, RightBucket
    <3>3. x # s[n]
      BY <3>1, <3>2, <2>5
    <3>4. x \in Contents(tbl)
      BY <3>1, ContentsAre
    <3> QED
      BY <3>3, <3>4
  <2> QED
    BY <2>3, <2>4, <2>5
<1>11. ASSUME NEW x, (x \in Contents(tbl) /\ x # s[n]) \/ x = e PROVE x \in Contents(new)
  <2>1. CASE x = e
    <3>1. b \in DOMAIN new /\ n \in DOMAIN new[b] /\ x = new[b][n]
      BY <2>1, <1>4, <1>6
    <3> QED
      BY <3>1, ContentsAre
  <2>2. CASE x \in Contents(tbl) /\ x # s[n]
    <3>1. PICK c \in DOMAIN tbl : \E i \in DOMAIN tbl[c] : x = tbl[c][i]
      BY <2>2, ContentsAre
    <3>2. PICK i \in DOMAIN tbl[c] : x = tbl[c][i]
      BY <3>1
    <3>3. c \in DOMAIN new /\ i \in DOMAIN new[c] /\ x = new[c][i]
      BY <2>2, <3>2, <1>4, <1>6
    <3> QED
      BY <3>3, ContentsAre
  <2> QED
    BY <1>11, <2>1, <2>2
<1>12. Contents(new) = (Contents(tbl) \ {s[n]}) \cup {e}
  BY <1>10, <1>11
<1>13. WellFiled(new)
  BY <1>6, <1>8, <1>9 DEF WellFiled
<1>14. WithValue(tbl, b, n, v) = new
  BY DEF WithValue, new, d, e
<1> QED
  BY <1>6, <1>12, <1>13, <1>14 DEF e

(* A table of empty buckets. *)
LEMMA BucketsEmpty ==
    ASSUME NEW n \in Nat \ {0}
    PROVE  WellFiled(Buckets(n)) /\ Len(Buckets(n)) = n /\ Contents(Buckets(n)) = {}
<1> DEFINE new == Buckets(n)
<1>1. new \in [1..n -> Seq(kv)]
  BY DEF Buckets
<1>2. new \in Seq(Seq(kv)) /\ Len(new) = n /\ DOMAIN new = 1..n
  <2> HIDE DEF new
  <2>1. new \in Seq(Seq(kv))
    BY <1>1, SeqDef
  <2> QED
    BY <1>1, <2>1, LenProperties
<1>3. \A b \in DOMAIN new : DOMAIN new[b] = {}
  BY <1>2 DEF Buckets
<1> HIDE DEF new
<1>4. new # <<>>
  BY <1>2, EmptySeq
<1>5. RightBucket(new) /\ OnceEach(new)
  BY <1>3 DEF RightBucket, OnceEach
<1>6. Contents(new) = {}
  BY <1>3, ContentsAre
<1> QED
  BY <1>2, <1>4, <1>5, <1>6 DEF WellFiled, new

(* The places of a table are finitely many, as many as its keys. *)
LEMMA PlacesFinite ==
    ASSUME NEW tbl, WellFiled(tbl)
    PROVE  /\ IsFiniteSet(Places(tbl)) /\ Cardinality(Places(tbl)) \in Nat
           /\ IsFiniteSet(KeysOf(tbl)) /\ Cardinality(KeysOf(tbl)) = Cardinality(Places(tbl))
<1>1. IsFiniteSet(Places(tbl))
  <2> DEFINE f == [b \in DOMAIN tbl |-> {b} \X DOMAIN tbl[b]]
             S == {{b} \X DOMAIN tbl[b] : b \in DOMAIN tbl}
  <2>1. /\ Len(tbl) \in Nat /\ DOMAIN tbl = 1..Len(tbl)
        /\ \A b \in DOMAIN tbl : Len(tbl[b]) \in Nat /\ DOMAIN tbl[b] = 1..Len(tbl[b])
    BY TableShape DEF WellFiled
  <2>2. f \in Surjection(DOMAIN tbl, S)
    BY DEF Surjection
  <2>3. IsFiniteSet(DOMAIN tbl)
    BY <2>1, FS_Interval
  <2>4. IsFiniteSet(S)
    <3> HIDE DEF f, S
    <3> QED
      BY <2>2, <2>3, FS_Surjection
  <2>5. \A T \in S : IsFiniteSet(T)
    <3> SUFFICES ASSUME NEW b \in DOMAIN tbl PROVE IsFiniteSet({b} \X DOMAIN tbl[b])
      OBVIOUS
    <3>1. IsFiniteSet({b})
      BY FS_Singleton, Zenon
    <3>2. Len(tbl[b]) \in Int /\ DOMAIN tbl[b] = 1..Len(tbl[b])
      BY <2>1
    <3>3. IsFiniteSet(1..Len(tbl[b]))
      BY <3>2, FS_Interval
    <3> QED
      BY <3>1, <3>2, <3>3, FS_Product
  <2>6. IsFiniteSet(UNION S)
    <3> HIDE DEF S
    <3> QED
      BY <2>4, <2>5, FS_UNION
  <2> QED
    BY <2>6 DEF Places
<1>2. Cardinality(Places(tbl)) \in Nat
  BY <1>1, FS_CardinalityType
<1> DEFINE P == Places(tbl)
           g == [p \in P |-> tbl[p[1]][p[2]].key]
<1>3. \A k : k \in KeysOf(tbl) <=> \E p \in P : k = tbl[p[1]][p[2]].key
  BY DEF KeysOf, Contents
<1>4. \A p, q \in P : tbl[p[1]][p[2]].key = tbl[q[1]][q[2]].key => p = q
  BY OnePlace
<1> HIDE DEF P
<1>5. g \in Surjection(P, KeysOf(tbl)) /\ g \in Injection(P, KeysOf(tbl))
  <2>1. g \in [P -> KeysOf(tbl)]
    BY <1>3
  <2>2. \A k \in KeysOf(tbl) : \E p \in P : g[p] = k
    BY <1>3
  <2>3. \A p, q \in P : g[p] = g[q] => p = q
    BY <1>4
  <2> HIDE DEF g
  <2>4. g \in Surjection(P, KeysOf(tbl))
    BY <2>1, <2>2 DEF Surjection
  <2>5. g \in Injection(P, KeysOf(tbl))
    BY <2>1, <2>3 DEF Injection, IsInjective
  <2> QED
    BY <2>4, <2>5
<1>6. IsFiniteSet(P)
  BY <1>1 DEF P
<1>7. IsFiniteSet(KeysOf(tbl)) /\ Cardinality(KeysOf(tbl)) = Cardinality(P)
  <2> HIDE DEF g
  <2> QED
    BY <1>5, <1>6, FS_Surjection
<1> QED
  BY <1>1, <1>2, <1>7 DEF P

(* Find, for a table that need not be the map's. *)
FindIn(tbl, k) == SelectInSeq(tbl[(Hash[k] % Len(tbl)) + 1], LAMBDA e : e.key = k)

(* A bucket is searched for exactly the keys of the table. *)
LEMMA FindsKeys ==
    ASSUME NEW tbl, WellFiled(tbl), NEW k \in Key
    PROVE  LET b == (Hash[k] % Len(tbl)) + 1
               n == FindIn(tbl, k)
           IN  /\ b \in DOMAIN tbl
               /\ n # 0 <=> k \in KeysOf(tbl)
               /\ n # 0 => n \in DOMAIN tbl[b] /\ tbl[b][n] \in Contents(tbl) /\ tbl[b][n].key = k
<1> DEFINE b == (Hash[k] % Len(tbl)) + 1
           n == FindIn(tbl, k)
           I == {i \in 1..Len(tbl[b]) : tbl[b][i].key = k}
<1>1. /\ Len(tbl) \in Nat \ {0} /\ DOMAIN tbl = 1..Len(tbl)
      /\ \A c \in DOMAIN tbl : Len(tbl[c]) \in Nat /\ DOMAIN tbl[c] = 1..Len(tbl[c])
  BY TableShape DEF WellFiled
<1>2. b \in DOMAIN tbl
  <2>1. Hash[k] \in Nat
    BY HashMapAssumption
  <2> QED
    BY <1>1, <2>1
<1>3. n = IF I # {} THEN Min(I) ELSE 0
  BY DEF FindIn, SelectInSeq
<1>4. I \in SUBSET Nat /\ 0 \notin I /\ I \subseteq DOMAIN tbl[b]
  BY <1>1, <1>2
<1>5. I # {} => n \in I
  <2> HIDE DEF n, I
  <2> QED
    BY <1>3, <1>4, MinIsLeast
<1>6. ASSUME NEW i \in I
      PROVE  i \in DOMAIN tbl[b] /\ tbl[b][i] \in Contents(tbl) /\ tbl[b][i].key = k
  BY <1>1, <1>2, ContentsAre
<1>7. k \in KeysOf(tbl) => I # {}
  <2> HAVE k \in KeysOf(tbl)
  <2>1. PICK e \in Contents(tbl) : e.key = k
    BY DEF KeysOf
  <2>2. PICK i \in DOMAIN tbl[b] : e = tbl[b][i]
    BY <2>1, ContentsFiled
  <2>3. i \in I
    BY <2>1, <2>2, <1>1, <1>2
  <2> QED
    BY <2>3
<1>8. I # {} => k \in KeysOf(tbl)
  BY <1>6 DEF KeysOf
<1> HIDE DEF I, n
<1>9. n # 0 <=> I # {}
  BY <1>3, <1>4, <1>5
<1> QED
  BY <1>2, <1>5, <1>6, <1>7, <1>8, <1>9 DEF n

(* The first entry of the first bucket that has one moves to the new table. *)
LEMMA MoveOneFiles ==
    ASSUME NEW from, NEW to, WellFiled(from), WellFiled(to), KeysOf(from) \cap KeysOf(to) = {},
           Cardinality(Places(from)) # 0
    PROVE  LET m == MoveOne(from, to)
           IN  /\ WellFiled(m.from) /\ WellFiled(m.to) /\ KeysOf(m.from) \cap KeysOf(m.to) = {}
               /\ Len(m.to) = Len(to)
               /\ Contents(m.from) \cup Contents(m.to) = Contents(from) \cup Contents(to)
               /\ Cardinality(Places(m.from)) = Cardinality(Places(from)) - 1
<1> DEFINE X == {x \in DOMAIN from : from[x] # <<>>}
           b == Min(X)
           e == from[b][1]
           rest == [from EXCEPT ![b] = Tail(from[b])]
<1>1. /\ Len(from) \in Nat /\ DOMAIN from = 1..Len(from)
      /\ \A c \in DOMAIN from : /\ from[c] \in Seq(kv)
                                /\ Len(from[c]) \in Nat /\ DOMAIN from[c] = 1..Len(from[c])
  BY TableShape DEF WellFiled
<1>2. X # {}
  <2>1. Places(from) # {}
    BY FS_EmptySet
  <2>2. PICK p \in Places(from) : TRUE
    BY <2>1
  <2>3. PICK c \in DOMAIN from : \E i \in DOMAIN from[c] : p = <<c, i>>
    BY PlacesAre
  <2>4. from[c] # <<>>
    BY <2>3
  <2> QED
    BY <2>4
<1>3. b \in DOMAIN from /\ from[b] # <<>>
  <2>1. X \in SUBSET Nat
    BY <1>1
  <2>2. b \in X
    <3> HIDE DEF X
    <3> QED
      BY <2>1, <1>2, MinIsLeast
  <2> QED
    BY <2>2
<1> HIDE DEF b
<1>4. from[b] \in Seq(kv) /\ 1 \in DOMAIN from[b] /\ Len(from[b]) # 0
  BY <1>1, <1>3, EmptySeq
<1>5. Tail(from[b]) = RemoveAt(from[b], 1) /\ Head(from[b]) = e
  <2>1. Tail(from[b]) = RemoveAt(from[b], 1)
    BY <1>4, RemoveAtOne
  <2>2. Head(from[b]) = e
    BY <1>3, <1>4, TailElements
  <2> QED
    BY <2>1, <2>2
<1>6. MoveOne(from, to) = [from |-> rest, to |-> PutFirst(to, e)]
  BY <1>5 DEF MoveOne, b
<1>7. /\ WellFiled(rest) /\ Contents(rest) = Contents(from) \ {e}
      /\ <<b, Len(from[b])>> \in Places(from)
      /\ Places(rest) = Places(from) \ {<<b, Len(from[b])>>}
  <2>1. rest = TakeOut(from, b, 1)
    BY <1>5 DEF TakeOut
  <2>2. b \in DOMAIN from /\ 1 \in DOMAIN from[b]
    BY <1>3, <1>4
  <2> HIDE DEF rest
  <2> QED
    BY <2>1, <2>2, TakeOutFiles, TakeOutPlaces
<1> HIDE DEF rest
<1>8. Cardinality(Places(rest)) = Cardinality(Places(from)) - 1
  <2>1. IsFiniteSet(Places(from))
    BY PlacesFinite
  <2> QED
    BY <2>1, <1>7, FS_RemoveElement
<1>9. e \in Contents(from)
  BY <1>3, <1>4, ContentsAre
<1>10. e \in kv /\ e.hash = Hash[e.key] /\ e.key \in KeysOf(from)
  BY <1>9, ContentsFiled DEF KeysOf
<1>11. e.key \notin KeysOf(to)
  BY <1>10
<1> HIDE DEF e
<1>12. /\ WellFiled(PutFirst(to, e)) /\ Len(PutFirst(to, e)) = Len(to)
       /\ Contents(PutFirst(to, e)) = Contents(to) \cup {e}
  BY <1>10, <1>11, PutFirstFiles
<1>13. KeysOf(rest) \cap KeysOf(PutFirst(to, e)) = {}
  <2>1. ASSUME NEW k \in KeysOf(rest) PROVE k \in KeysOf(from) /\ k # e.key
    <3>1. PICK d \in Contents(rest) : d.key = k
      BY DEF KeysOf
    <3>2. d \in Contents(from) /\ d # e
      BY <1>7
    <3>3. d.key # e.key
      BY <3>2, <1>9, OneEntry
    <3> QED
      BY <3>1, <3>2, <3>3 DEF KeysOf
  <2>2. ASSUME NEW k \in KeysOf(PutFirst(to, e)) PROVE k \in KeysOf(to) \/ k = e.key
    BY <1>12 DEF KeysOf
  <2> QED
    BY <2>1, <2>2
<1>14. Contents(rest) \cup Contents(PutFirst(to, e)) = Contents(from) \cup Contents(to)
  BY <1>7, <1>9, <1>12
<1>15. MoveOne(from, to).from = rest /\ MoveOne(from, to).to = PutFirst(to, e)
  BY <1>6
<1> QED
  BY <1>7, <1>8, <1>12, <1>13, <1>14, <1>15

(* f says, for every number of moves up to n, where the entries of tbl are after so many. *)
Moving(tbl, f, n) ==
    f = [i \in 0..n |-> IF i = 0 THEN [from |-> tbl, to |-> Buckets(2 * Len(tbl))]
                                 ELSE MoveOne(f[i - 1].from, f[i - 1].to)]

(* However many moves there are to be, there is such a function. *)
LEMMA MovingExists ==
    ASSUME NEW tbl, NEW n \in Nat
    PROVE  \E f : Moving(tbl, f, n)
<1> DEFINE S == {m \in Nat : \E f : Moving(tbl, f, m)}
<1>1. 0 \in S
  <2> DEFINE f == [i \in 0..0 |-> [from |-> tbl, to |-> Buckets(2 * Len(tbl))]]
  <2>1. Moving(tbl, f, 0)
    BY DEF Moving
  <2> QED
    BY <2>1
<1>2. ASSUME NEW m \in Nat, m \in S PROVE m + 1 \in S
  <2>1. PICK f : Moving(tbl, f, m)
    BY <1>2
  <2> DEFINE g == [i \in 0..(m + 1) |-> IF i <= m THEN f[i] ELSE MoveOne(f[m].from, f[m].to)]
  <2>2. \A i \in 0..(m + 1) : g[i] = IF i = 0 THEN [from |-> tbl, to |-> Buckets(2 * Len(tbl))]
                                             ELSE MoveOne(g[i - 1].from, g[i - 1].to)
    <3> TAKE i \in 0..(m + 1)
    <3>1. \A j \in 0..m : f[j] = IF j = 0 THEN [from |-> tbl, to |-> Buckets(2 * Len(tbl))]
                                        ELSE MoveOne(f[j - 1].from, f[j - 1].to)
      BY <2>1 DEF Moving
    <3>2. \A j \in 0..m : g[j] = f[j]
      OBVIOUS
    <3>3. g[m + 1] = MoveOne(f[m].from, f[m].to)
      OBVIOUS
    <3> HIDE DEF g
    <3>4. CASE i = m + 1
      <4>1. i - 1 = m /\ i # 0 /\ g[i - 1] = f[m]
        BY <3>2, <3>4
      <4> QED
        BY <3>3, <3>4, <4>1
    <3>5. CASE i = 0
      BY <3>1, <3>2, <3>5
    <3>6. CASE i \in 1..m
      <4>1. i \in 0..m /\ i - 1 \in 0..m /\ i # 0
        BY <3>6
      <4>2. g[i] = f[i] /\ g[i - 1] = f[i - 1]
        BY <3>2, <4>1
      <4> QED
        BY <3>1, <4>1, <4>2
    <3> QED
      BY <3>4, <3>5, <3>6
  <2>3. g = [i \in 0..(m + 1) |-> g[i]]
    OBVIOUS
  <2> HIDE DEF g
  <2>4. Moving(tbl, g, m + 1)
    BY <2>2, <2>3 DEF Moving
  <2> QED
    BY <2>4
<1>3. Nat \subseteq S
  <2> HIDE DEF S
  <2> QED
    BY <1>1, <1>2, NatSetInduction
<1> QED
  BY <1>3

(* While entries move, each is in one of the two tables, in the bucket of its hash. *)
LEMMA MovingFiles ==
    ASSUME NEW tbl, WellFiled(tbl), NEW f, Moving(tbl, f, Cardinality(Places(tbl)))
    PROVE  LET done == f[Cardinality(Places(tbl))]
           IN  /\ WellFiled(done.to) /\ Len(done.to) = 2 * Len(tbl)
               /\ Contents(done.to) = Contents(tbl)
<1> DEFINE count == Cardinality(Places(tbl))
           Good(m, n) == /\ WellFiled(m.from) /\ WellFiled(m.to)
                         /\ KeysOf(m.from) \cap KeysOf(m.to) = {}
                         /\ Len(m.to) = 2 * Len(tbl)
                         /\ Contents(m.from) \cup Contents(m.to) = Contents(tbl)
                         /\ Cardinality(Places(m.from)) = count - n
           S == {n \in Nat : n <= count => Good(f[n], n)}
<1>1. count \in Nat
  BY PlacesFinite
<1> HIDE DEF count
<1>2. \A i \in 0..count : f[i] = IF i = 0 THEN [from |-> tbl, to |-> Buckets(2 * Len(tbl))]
                                        ELSE MoveOne(f[i - 1].from, f[i - 1].to)
  BY DEF Moving, count
<1>3. 0 \in S
  <2>1. f[0].from = tbl /\ f[0].to = Buckets(2 * Len(tbl))
    BY <1>1, <1>2
  <2>2. Len(tbl) \in Nat \ {0}
    BY TableShape DEF WellFiled
  <2>3. 2 * Len(tbl) \in Nat \ {0}
    BY <2>2
  <2>4. /\ WellFiled(Buckets(2 * Len(tbl))) /\ Len(Buckets(2 * Len(tbl))) = 2 * Len(tbl)
        /\ Contents(Buckets(2 * Len(tbl))) = {}
    BY <2>3, BucketsEmpty
  <2>5. KeysOf(Buckets(2 * Len(tbl))) = {}
    BY <2>4 DEF KeysOf
  <2>6. Cardinality(Places(tbl)) = count - 0
    BY <1>1 DEF count
  <2> QED
    BY <2>1, <2>4, <2>5, <2>6
<1>4. ASSUME NEW n \in Nat, n \in S PROVE n + 1 \in S
  <2> SUFFICES ASSUME n + 1 <= count PROVE Good(f[n + 1], n + 1)
    OBVIOUS
  <2>1. n + 1 \in 0..count /\ n + 1 # 0 /\ (n + 1) - 1 = n /\ n <= count
    BY <1>1
  <2>2. f[n + 1] = MoveOne(f[n].from, f[n].to)
    BY <1>2, <2>1
  <2>3. Good(f[n], n)
    BY <1>4, <2>1
  <2>4. Cardinality(Places(f[n].from)) # 0
    BY <2>1, <2>3, <1>1
  <2> DEFINE m == MoveOne(f[n].from, f[n].to)
  <2>5. /\ WellFiled(m.from) /\ WellFiled(m.to) /\ KeysOf(m.from) \cap KeysOf(m.to) = {}
        /\ Len(m.to) = Len(f[n].to)
        /\ Contents(m.from) \cup Contents(m.to) = Contents(f[n].from) \cup Contents(f[n].to)
        /\ Cardinality(Places(m.from)) = Cardinality(Places(f[n].from)) - 1
    BY <2>3, <2>4, MoveOneFiles
  <2> HIDE DEF m
  <2>6. Good(m, n + 1)
    BY <2>3, <2>5, <1>1
  <2> QED
    BY <2>2, <2>6 DEF m
<1>5. Nat \subseteq S
  <2> HIDE DEF S
  <2> QED
    BY <1>3, <1>4, NatSetInduction
<1>6. Good(f[count], count)
  <2>1. count \in S
    BY <1>1, <1>5
  <2>2. count <= count => Good(f[count], count)
    <3> HIDE DEF Good
    <3> QED
      BY <2>1
  <2> QED
    BY <2>2, <1>1
<1>7. Contents(f[count].from) = {}
  <2>1. Cardinality(Places(f[count].from)) = 0 /\ IsFiniteSet(Places(f[count].from))
    BY <1>1, <1>6, PlacesFinite
  <2>2. Places(f[count].from) = {}
    BY <2>1, FS_EmptySet
  <2> QED
    BY <2>2 DEF Contents
<1> QED
  BY <1>6, <1>7 DEF count

(* Doubling a table keeps its entries, each in the bucket of its hash. *)
LEMMA RemapFiles ==
    ASSUME NEW tbl, WellFiled(tbl)
    PROVE  /\ WellFiled(Remap(tbl)) /\ Len(Remap(tbl)) = 2 * Len(tbl)
           /\ Contents(Remap(tbl)) = Contents(tbl)
<1> DEFINE count == Cardinality(Places(tbl))
           f == CHOOSE g : Moving(tbl, g, count)
<1>1. Remap(tbl) = f[count].to
  BY DEF Remap, Moving
<1>2. count \in Nat
  BY PlacesFinite
<1>3. \E g : Moving(tbl, g, count)
  BY <1>2, MovingExists
<1>4. Moving(tbl, f, count)
  BY <1>3
<1> HIDE DEF f
<1> QED
  BY <1>1, <1>4, MovingFiles

-----------------------------------------------------------------------------
(***************************************************************************)
(* The inductive invariant.                                                *)
(***************************************************************************)

(* A value is in one entry at most, and the map owns those that are in one. *)
OwnsValues(tbl, own) ==
    /\ \A d, e \in Contents(tbl) : d.value = e.value => d = e
    /\ \A v \in Val : own[v] = "map" <=> \E e \in Contents(tbl) : e.value = v

Owning == IF life = "freed" THEN \A v \in Val : owner[v] # "map" ELSE OwnsValues(table, owner)

(* The bucket that is walked is the one of the element to visit next. *)
Walking(tbl, it) ==
    it.active /\ it.elmt \in KeysOf(tbl) => it.bucket = (Hash[it.elmt] % Len(tbl)) + 1

(* The last call has given a value away. *)
GivenAway == answer[1] = "remove" /\ Len(answer) = 3
Giving == GivenAway => answer[3] \in Val /\ owner[answer[3]] = "caller"

Inv ==
    /\ TypeOK /\ WellFiled(table)
    /\ size = Cardinality(KeysOf(table))
    /\ Owning /\ Walking(table, iter) /\ Giving

(* The types of what is neither the table nor its count. *)
OtherTypes(it, own, lf, p, n) ==
    /\ it \in [active : BOOLEAN, bucket : 0..n, elmt : Key \cup {None}]
    /\ own \in [Val -> {"nobody", "map", "caller"}]
    /\ lf \in {"open", "quit", "freed"}
    /\ p \in [Thread -> {"idle", "begun", "undefined"}]

(* What there is to show of a step. *)
LEMMA InvAfter ==
    ASSUME OtherTypes(iter', owner', life', pc', Len(table')),
           WellFiled(table'), size' = Cardinality(KeysOf(table')),
           IF life' = "freed" THEN \A v \in Val : owner'[v] # "map" ELSE OwnsValues(table', owner'),
           Walking(table', iter'),
           answer'[1] = "remove" /\ Len(answer') = 3 => answer'[3] \in Val /\ owner'[answer'[3]] = "caller"
    PROVE  Inv'
<1>1. size' \in Nat
  BY PlacesFinite
<1>2. TypeOK'
  BY <1>1 DEF TypeOK, OtherTypes, WellFiled
<1>3. Owning' /\ Giving'
  BY DEF Owning, Giving, GivenAway
<1> QED
  BY <1>2, <1>3 DEF Inv

(* The map's search, as that of its table. *)
LEMMA FindIsFindIn ==
    ASSUME Inv, NEW k \in Key
    PROVE  /\ Bucket(k) = (Hash[k] % Len(table)) + 1 /\ Bucket(k) \in DOMAIN table
           /\ Find(k) # 0 <=> k \in KeysOf(table)
           /\ Find(k) # 0 => /\ Find(k) \in DOMAIN table[Bucket(k)]
                             /\ At(k) = table[Bucket(k)][Find(k)]
                             /\ At(k) \in Contents(table) /\ At(k).key = k
<1>1. WellFiled(table)
  BY DEF Inv
<1>2. Bucket(k) = (Hash[k] % Len(table)) + 1
  BY DEF Bucket
<1>3. Find(k) = FindIn(table, k)
  BY DEF Find, FindIn, Bucket
<1> QED
  BY <1>1, <1>2, <1>3, FindsKeys DEF At

(* A call that changes neither the table nor who owns what. *)
LEMMA ReadingKeeps ==
    ASSUME Inv, NEW t \in Thread, NEW ret, Call(t, ret), ret[1] # "remove" \/ Len(ret) # 3,
           UNCHANGED <<table, size, owner>>,
           iter' \in [active : BOOLEAN, bucket : 0..Len(table), elmt : Key \cup {None}],
           Walking(table, iter')
    PROVE  Inv'
<1>1. OtherTypes(iter', owner', life', pc', Len(table'))
  BY DEF Inv, TypeOK, Call, OtherTypes
<1>2. WellFiled(table') /\ size' = Cardinality(KeysOf(table')) /\ Walking(table', iter')
  BY DEF Inv
<1>3. IF life' = "freed" THEN \A v \in Val : owner'[v] # "map" ELSE OwnsValues(table', owner')
  BY DEF Inv, Call, Owning
<1>4. ~(answer'[1] = "remove" /\ Len(answer') = 3)
  BY DEF Call
<1> QED
  BY <1>1, <1>2, <1>3, <1>4, InvAfter

(* A call that changes the table ends the iteration. *)
LEMMA ChangingKeeps ==
    ASSUME Inv, NEW t \in Thread, NEW ret, Call(t, ret),
           ret[1] = "remove" /\ Len(ret) = 3 => ret[3] \in Val /\ owner'[ret[3]] = "caller",
           WellFiled(table'), size' = Cardinality(KeysOf(table')), Len(table') >= Len(table),
           owner' \in [Val -> {"nobody", "map", "caller"}], OwnsValues(table', owner'),
           iter' = [iter EXCEPT !.active = FALSE]
    PROVE  Inv'
<1>1. OtherTypes(iter', owner', life', pc', Len(table'))
  <2>1. Len(table) \in Nat /\ Len(table') \in Nat
    BY TableShape DEF Inv, WellFiled
  <2>2. iter' \in [active : BOOLEAN, bucket : 0..Len(table'), elmt : Key \cup {None}]
    <3>1. iter \in [active : BOOLEAN, bucket : 0..Len(table), elmt : Key \cup {None}]
      BY DEF Inv, TypeOK
    <3>2. 0..Len(table) \subseteq 0..Len(table')
      BY <2>1
    <3> QED
      BY <3>1, <3>2
  <2> QED
    BY <2>2 DEF Inv, TypeOK, Call, OtherTypes
<1>2. Walking(table', iter')
  BY DEF Inv, TypeOK, Walking
<1>3. IF life' = "freed" THEN \A v \in Val : owner'[v] # "map" ELSE OwnsValues(table', owner')
  BY DEF Call
<1>4. answer'[1] = "remove" /\ Len(answer') = 3 => answer'[3] \in Val /\ owner'[answer'[3]] = "caller"
  BY DEF Call
<1> QED
  BY <1>1, <1>2, <1>3, <1>4, InvAfter

(* ruMapPut on a key that is there: the value that was there is handed back. *)
LEMMA OfferKeeps ==
    ASSUME Inv, NEW t \in Thread, NEW k \in Key, NEW v \in Val, owner[v] # "map", Find(k) # 0,
           Call(t, <<"put", "exists", At(k).value>>), owner' = [owner EXCEPT ![v] = "caller"],
           UNCHANGED <<table, size>>, iter' = [iter EXCEPT !.active = FALSE]
    PROVE  Inv'
<1> DEFINE ret == <<"put", "exists", At(k).value>>
<1>1. ~(ret[1] = "remove" /\ Len(ret) = 3) /\ Call(t, ret)
  OBVIOUS
<1>2. /\ WellFiled(table) /\ size = Cardinality(KeysOf(table))
      /\ owner \in [Val -> {"nobody", "map", "caller"}] /\ OwnsValues(table, owner)
  BY DEF Inv, Owning, TypeOK, Call
<1>3. owner' \in [Val -> {"nobody", "map", "caller"}] /\ OwnsValues(table, owner')
  BY <1>2 DEF OwnsValues
<1>4. /\ WellFiled(table') /\ size' = Cardinality(KeysOf(table')) /\ Len(table') >= Len(table)
      /\ OwnsValues(table', owner')
  <2>1. Len(table) \in Nat
    BY <1>2, TableShape DEF WellFiled
  <2> QED
    BY <1>2, <1>3, <2>1
<1> HIDE DEF ret
<1> QED
  BY <1>1, <1>3, <1>4, ChangingKeeps

(* A value goes into an entry; the one that was there is freed. *)
LEMMA ReplaceKeeps ==
    ASSUME Inv, NEW t \in Thread, NEW k \in Key, NEW v \in Val, owner[v] # "map", Find(k) # 0,
           Call(t, <<"put", "ok">>), Replace(k, v), UNCHANGED size,
           iter' = [iter EXCEPT !.active = FALSE]
    PROVE  /\ Inv'
           /\ Contents(table') = (Contents(table) \ {At(k)}) \cup {[At(k) EXCEPT !.value = v]}
<1> DEFINE ret == <<"put", "ok">>
           o == At(k)
           e == [o EXCEPT !.value = v]
<1>1. ~(ret[1] = "remove" /\ Len(ret) = 3) /\ Call(t, ret)
  OBVIOUS
<1>2. /\ WellFiled(table) /\ size = Cardinality(KeysOf(table))
      /\ owner \in [Val -> {"nobody", "map", "caller"}] /\ OwnsValues(table, owner)
  BY DEF Inv, Owning, TypeOK, Call
<1>3. /\ Bucket(k) \in DOMAIN table /\ Find(k) \in DOMAIN table[Bucket(k)]
      /\ o = table[Bucket(k)][Find(k)] /\ o \in Contents(table) /\ o.key = k
  BY FindIsFindIn
<1>4. table' = WithValue(table, Bucket(k), Find(k), v)
  BY DEF Replace, WithValue
<1>5. owner' = [owner EXCEPT ![o.value] = "nobody", ![v] = "map"]
  BY DEF Replace
<1> HIDE DEF o
<1>6. /\ WellFiled(table') /\ Len(table') = Len(table)
      /\ Contents(table') = (Contents(table) \ {o}) \cup {e}
  BY <1>2, <1>3, <1>4, ReplaceFiles
<1>7. o \in kv /\ o.value \in Val /\ owner[o.value] = "map" /\ o.value # v
  <2>1. o \in kv
    BY <1>2, <1>3, ContentsFiled
  <2>2. o.value \in Val
    BY <2>1 DEF kv
  <2> QED
    BY <2>1, <2>2, <1>2, <1>3 DEF OwnsValues
<1>8. e.key = o.key /\ e.value = v
  BY <1>7 DEF kv
<1> HIDE DEF e
<1>9. KeysOf(table') = KeysOf(table)
  BY <1>3, <1>6, <1>8 DEF KeysOf
<1>10. owner' \in [Val -> {"nobody", "map", "caller"}]
  BY <1>2, <1>5
<1>11. OwnsValues(table', owner')
  <2>1. \A d \in Contents(table) : d.value \in Val /\ owner[d.value] = "map"
    <3> TAKE d \in Contents(table)
    <3>1. d \in kv
      BY <1>2, ContentsFiled
    <3>2. d.value \in Val
      BY <3>1 DEF kv
    <3> QED
      BY <3>2, <1>2 DEF OwnsValues
  <2>2. \A d \in Contents(table) : d.value # v
    BY <2>1
  <2>3. \A c, d \in Contents(table') : c.value = d.value => c = d
    BY <2>2, <1>2, <1>6, <1>8 DEF OwnsValues
  <2>4. ASSUME NEW w \in Val
        PROVE  owner'[w] = "map" <=> \E d \in Contents(table') : d.value = w
    <3>1. CASE w = v
      BY <3>1, <1>2, <1>5, <1>6, <1>8
    <3>2. CASE w = o.value
      BY <3>2, <1>2, <1>3, <1>5, <1>6, <1>7, <1>8 DEF OwnsValues
    <3>3. CASE w # v /\ w # o.value
      <4>1. owner'[w] = owner[w]
        BY <3>3, <1>2, <1>5
      <4> QED
        BY <3>3, <4>1, <1>2, <1>3, <1>6, <1>8 DEF OwnsValues
    <3> QED
      BY <3>1, <3>2, <3>3
  <2> QED
    BY <2>3, <2>4 DEF OwnsValues
<1>12. size' = Cardinality(KeysOf(table')) /\ Len(table') >= Len(table)
  <2>1. Len(table) \in Nat
    BY <1>2, TableShape DEF WellFiled
  <2> QED
    BY <2>1, <1>2, <1>6, <1>9
<1> HIDE DEF ret
<1>13. Inv'
  BY <1>1, <1>6, <1>10, <1>11, <1>12, ChangingKeeps
<1> QED
  BY <1>6, <1>13 DEF e, o

(* An entry comes into the map, which may then be doubled. *)
LEMMA InsertKeeps ==
    ASSUME Inv, NEW t \in Thread, NEW k \in Key, NEW v \in Val, owner[v] # "map", Find(k) = 0,
           Call(t, <<"put", "ok">>), Insert(k, v), size' = size + 1,
           iter' = [iter EXCEPT !.active = FALSE]
    PROVE  /\ Inv'
           /\ Contents(table') = Contents(table) \cup {[key |-> k, hash |-> Hash[k], value |-> v]}
<1> DEFINE ret == <<"put", "ok">>
           e == [key |-> k, hash |-> Hash[k], value |-> v]
           new == PutFirst(table, e)
<1>1. ~(ret[1] = "remove" /\ Len(ret) = 3) /\ Call(t, ret)
  OBVIOUS
<1>2. /\ WellFiled(table) /\ size = Cardinality(KeysOf(table))
      /\ owner \in [Val -> {"nobody", "map", "caller"}] /\ OwnsValues(table, owner)
  BY DEF Inv, Owning, TypeOK, Call
<1>3. k \notin KeysOf(table)
  BY FindIsFindIn
<1>4. e \in kv /\ e.hash = Hash[e.key] /\ e.key = k /\ e.value = v
  BY HashMapAssumption DEF kv
<1>5. /\ table' = Remap(new) \/ table' = new
      /\ owner' = [owner EXCEPT ![v] = "map"]
  BY DEF Insert
<1> HIDE DEF e
<1>6. WellFiled(new) /\ Len(new) = Len(table) /\ Contents(new) = Contents(table) \cup {e}
  BY <1>2, <1>3, <1>4, PutFirstFiles
<1> HIDE DEF new
<1>7. Len(table) \in Nat
  BY <1>2, TableShape DEF WellFiled
<1>8. /\ WellFiled(table') /\ Len(table') >= Len(table)
      /\ Contents(table') = Contents(table) \cup {e}
  <2>1. CASE table' = new
    BY <2>1, <1>6, <1>7
  <2>2. CASE table' = Remap(new)
    BY <2>2, <1>6, <1>7, RemapFiles
  <2> QED
    BY <2>1, <2>2, <1>5
<1>9. KeysOf(table') = KeysOf(table) \cup {k}
  BY <1>4, <1>8 DEF KeysOf
<1>10. size' = Cardinality(KeysOf(table'))
  <2>1. IsFiniteSet(KeysOf(table))
    BY <1>2, PlacesFinite
  <2> QED
    BY <2>1, <1>2, <1>3, <1>9, FS_AddElement
<1>11. owner' \in [Val -> {"nobody", "map", "caller"}]
  BY <1>2, <1>5
<1>12. OwnsValues(table', owner')
  <2>1. \A d \in Contents(table) : d.value # v
    BY <1>2 DEF OwnsValues
  <2>2. \A c, d \in Contents(table') : c.value = d.value => c = d
    BY <2>1, <1>2, <1>4, <1>8 DEF OwnsValues
  <2>3. ASSUME NEW w \in Val
        PROVE  owner'[w] = "map" <=> \E d \in Contents(table') : d.value = w
    <3>1. CASE w = v
      BY <3>1, <1>2, <1>4, <1>5, <1>8
    <3>2. CASE w # v
      <4>1. owner'[w] = owner[w]
        BY <3>2, <1>2, <1>5
      <4> QED
        BY <3>2, <4>1, <1>2, <1>4, <1>8 DEF OwnsValues
    <3> QED
      BY <3>1, <3>2
  <2> QED
    BY <2>2, <2>3 DEF OwnsValues
<1> HIDE DEF ret
<1>13. Inv'
  BY <1>1, <1>8, <1>10, <1>11, <1>12, ChangingKeeps
<1> QED
  BY <1>8, <1>13 DEF e

(* An entry leaves the map, which frees its value or gives it away. *)
LEMMA RemoveKeeps ==
    ASSUME Inv, NEW t \in Thread, NEW k \in Key, NEW moving \in BOOLEAN, Find(k) # 0,
           MapRemove(t, k, moving)
    PROVE  Inv' /\ Contents(table') = Contents(table) \ {At(k)}
<1> DEFINE o == At(k)
           ret == IF moving THEN <<"remove", "ok", o.value>> ELSE <<"remove", "ok">>
<1>1. /\ Call(t, ret) /\ size' = size - 1
      /\ iter' = [iter EXCEPT !.active = FALSE]
      /\ owner' = [owner EXCEPT ![o.value] = IF moving THEN "caller" ELSE "nobody"]
      /\ table' = TakeOut(table, Bucket(k), Find(k))
  BY DEF MapRemove, TakeOut
<1>2. ret[1] = "remove" /\ Len(ret) = 3 => moving /\ ret[3] = o.value
  OBVIOUS
<1> HIDE DEF ret
<1>3. /\ WellFiled(table) /\ size = Cardinality(KeysOf(table))
      /\ owner \in [Val -> {"nobody", "map", "caller"}] /\ OwnsValues(table, owner)
  BY <1>1 DEF Inv, Owning, TypeOK, Call
<1>4. /\ Bucket(k) \in DOMAIN table /\ Find(k) \in DOMAIN table[Bucket(k)]
      /\ o = table[Bucket(k)][Find(k)] /\ o \in Contents(table) /\ o.key = k
  BY FindIsFindIn
<1> HIDE DEF o
<1>5. WellFiled(table') /\ Len(table') = Len(table) /\ Contents(table') = Contents(table) \ {o}
  <2>1. table' = TakeOut(table, Bucket(k), Find(k)) /\ WellFiled(table)
    BY <1>1, <1>3
  <2> QED
    BY <2>1, <1>4, TakeOutFiles
<1>6. o \in kv /\ o.value \in Val
  <2>1. o \in kv
    BY <1>3, <1>4, ContentsFiled
  <2> QED
    BY <2>1 DEF kv
<1>7. KeysOf(table') = KeysOf(table) \ {k} /\ k \in KeysOf(table)
  <2>1. \A d \in Contents(table) : d.key = k => d = o
    BY <1>3, <1>4, OneEntry
  <2> QED
    BY <2>1, <1>4, <1>5 DEF KeysOf
<1>8. size' = Cardinality(KeysOf(table'))
  <2>1. IsFiniteSet(KeysOf(table))
    BY <1>3, PlacesFinite
  <2> QED
    BY <2>1, <1>1, <1>3, <1>7, FS_RemoveElement
<1>9. owner' \in [Val -> {"nobody", "map", "caller"}]
  BY <1>1, <1>3
<1>10. OwnsValues(table', owner')
  <2>1. \A c, d \in Contents(table') : c.value = d.value => c = d
    BY <1>3, <1>5 DEF OwnsValues
  <2>2. ASSUME NEW w \in Val
        PROVE  owner'[w] = "map" <=> \E d \in Contents(table') : d.value = w
    <3>1. CASE w = o.value
      <4>1. owner'[w] # "map"
        BY <3>1, <1>1, <1>3
      <4> QED
        BY <3>1, <4>1, <1>3, <1>4, <1>5 DEF OwnsValues
    <3>2. CASE w # o.value
      <4>1. owner'[w] = owner[w]
        BY <3>2, <1>1, <1>3
      <4> QED
        BY <3>2, <4>1, <1>3, <1>5 DEF OwnsValues
    <3> QED
      BY <3>1, <3>2
  <2> QED
    BY <2>1, <2>2 DEF OwnsValues
<1>11. ret[1] = "remove" /\ Len(ret) = 3 => ret[3] \in Val /\ owner'[ret[3]] = "caller"
  BY <1>1, <1>2, <1>3, <1>6
<1>12. Len(table') >= Len(table)
  BY <1>3, <1>5, TableShape DEF WellFiled
<1>13. Inv'
  BY <1>1, <1>5, <1>8, <1>9, <1>10, <1>11, <1>12, ChangingKeeps
<1> QED
  BY <1>5, <1>13 DEF o

(* The key at a place is found there. *)
LEMMA FindsPlace ==
    ASSUME NEW tbl, WellFiled(tbl), NEW b \in DOMAIN tbl, NEW n \in DOMAIN tbl[b]
    PROVE  /\ tbl[b][n].key \in KeysOf(tbl) /\ tbl[b][n].key \in Key
           /\ b = (Hash[tbl[b][n].key] % Len(tbl)) + 1
           /\ FindIn(tbl, tbl[b][n].key) = n
<1> DEFINE k == tbl[b][n].key
<1>1. tbl[b][n] \in Contents(tbl) /\ tbl[b][n] \in kv
  BY ContentsAre, TableShape DEF WellFiled
<1>2. k \in KeysOf(tbl) /\ k \in Key
  BY <1>1 DEF KeysOf, kv
<1>3. b = (Hash[k] % Len(tbl)) + 1
  BY DEF WellFiled, RightBucket
<1> HIDE DEF k
<1>4. FindIn(tbl, k) \in DOMAIN tbl[b] /\ tbl[b][FindIn(tbl, k)].key = k
  BY <1>2, <1>3, FindsKeys
<1>5. FindIn(tbl, k) = n
  BY <1>4 DEF k, WellFiled, OnceEach
<1> QED
  BY <1>2, <1>3, <1>5 DEF k

(* What the iterator i may stand on. *)
Standing(i) ==
    /\ i \in [active : BOOLEAN, bucket : 0..Len(table), elmt : Key \cup {None}]
    /\ i.active
    /\ i.elmt # None => i.elmt \in KeysOf(table) /\ i.bucket = (Hash[i.elmt] % Len(table)) + 1

(* ruMapFirstSet starts at nothing; ruMapNextSet goes on where the iterator is. *)
LEMMA StartStands == Inv => Standing(Start)
<1>1. WellFiled(table) => Len(table) \in Nat
  BY TableShape DEF WellFiled
<1> QED
  BY <1>1 DEF Inv, Standing, Start

(* So does the iterator as long as its element is not gone. *)
LEMMA IteratorStands == Inv /\ iter.active /\ ~Dangling => Standing(iter)
<1> SUFFICES ASSUME Inv, iter.active, ~Dangling PROVE Standing(iter)
  OBVIOUS
<1>1. iter \in [active : BOOLEAN, bucket : 0..Len(table), elmt : Key \cup {None}]
  BY DEF Inv, TypeOK
<1>2. ASSUME iter.elmt # None
      PROVE  iter.elmt \in KeysOf(table) /\ iter.bucket = (Hash[iter.elmt] % Len(table)) + 1
  <2>1. iter.elmt \in Key /\ Find(iter.elmt) # 0
    BY <1>1, <1>2 DEF Dangling
  <2>2. iter.elmt \in KeysOf(table)
    BY <2>1, FindIsFindIn
  <2> QED
    BY <2>2 DEF Inv, Walking
<1> QED
  BY <1>1, <1>2 DEF Standing

(* The next element: the iterator's, or the first of the first bucket after
   the iterator's that has one, or none. *)
LEMMA ElementIs ==
    ASSUME Inv, NEW i, Standing(i)
    PROVE  \/ /\ Element(i).key = None /\ Element(i).bucket = Len(table) /\ i.elmt = None
              /\ \A b \in DOMAIN table : b > i.bucket => table[b] = <<>>
           \/ /\ Element(i).key \in KeysOf(table) /\ Element(i).key \in Key
              /\ Element(i).bucket \in DOMAIN table
              /\ Element(i).bucket = (Hash[Element(i).key] % Len(table)) + 1
              /\ \/ i.elmt = Element(i).key /\ i.bucket = Element(i).bucket
                 \/ /\ i.elmt = None /\ Element(i).bucket > i.bucket
                    /\ FindIn(table, Element(i).key) = 1
                    /\ \A b \in DOMAIN table : i.bucket < b /\ b < Element(i).bucket => table[b] = <<>>
<1> DEFINE rest == {b \in i.bucket + 1..Len(table) : table[b] # <<>>}
           b == CHOOSE x \in rest : \A y \in rest : x <= y
<1>1. /\ WellFiled(table) /\ Len(table) \in Nat \ {0} /\ DOMAIN table = 1..Len(table)
      /\ \A c \in DOMAIN table : /\ table[c] \in Seq(kv)
                                 /\ Len(table[c]) \in Nat /\ DOMAIN table[c] = 1..Len(table[c])
  BY TableShape DEF Inv, WellFiled
<1>2. i.bucket \in Nat
  BY DEF Standing
<1>3. CASE i.elmt # None
  <2>1. Element(i) = [key |-> i.elmt, bucket |-> i.bucket]
    BY <1>3 DEF Element
  <2>2. i.elmt \in Key
    BY <1>3 DEF Standing
  <2>3. (Hash[i.elmt] % Len(table)) + 1 \in DOMAIN table
    BY <1>1, <2>2, FindsKeys
  <2> QED
    BY <1>3, <2>1, <2>2, <2>3 DEF Standing
<1>4. CASE i.elmt = None /\ rest = {}
  <2>1. Element(i) = [key |-> None, bucket |-> Len(table)]
    BY <1>4 DEF Element
  <2>2. \A c \in DOMAIN table : c > i.bucket => table[c] = <<>>
    BY <1>1, <1>2, <1>4
  <2> QED
    BY <1>4, <2>1, <2>2
<1>5. CASE i.elmt = None /\ rest # {}
  <2>1. Element(i) = [key |-> table[b][1].key, bucket |-> b]
    BY <1>5 DEF Element
  <2>2. b \in rest /\ \A y \in rest : b <= y
    <3>1. rest \in SUBSET Nat
      BY <1>1, <1>2
    <3> HIDE DEF rest
    <3> QED
      BY <1>5, <3>1, LeastMember
  <2> HIDE DEF b
  <2>3. b \in DOMAIN table /\ b > i.bucket /\ table[b] # <<>>
    BY <1>1, <1>2, <2>2
  <2>4. \A c \in DOMAIN table : i.bucket < c /\ c < b => table[c] = <<>>
    <3> TAKE c \in DOMAIN table
    <3> HAVE i.bucket < c /\ c < b
    <3>1. c \in i.bucket + 1..Len(table) /\ b \in Nat /\ c \notin rest
      BY <1>1, <1>2, <2>2, <2>3
    <3> QED
      BY <3>1
  <2>5. 1 \in DOMAIN table[b]
    BY <1>1, <2>3, EmptySeq
  <2>6. /\ table[b][1].key \in KeysOf(table) /\ table[b][1].key \in Key
        /\ b = (Hash[table[b][1].key] % Len(table)) + 1
        /\ FindIn(table, table[b][1].key) = 1
    BY <1>1, <2>3, <2>5, FindsPlace
  <2> HIDE DEF rest
  <2> QED
    BY <1>5, <2>1, <2>3, <2>4, <2>6
<1> QED
  BY <1>3, <1>4, <1>5

(* The element after that of a key: the next one of its bucket, or none. *)
LEMMA AfterIs ==
    ASSUME Inv, NEW k \in KeysOf(table), k \in Key
    PROVE  LET b == (Hash[k] % Len(table)) + 1
           IN  /\ FindIn(table, k) \in DOMAIN table[b]
               /\ \/ After(k) = None /\ FindIn(table, k) = Len(table[b])
                  \/ /\ After(k) \in KeysOf(table) /\ After(k) \in Key
                     /\ b = (Hash[After(k)] % Len(table)) + 1
                     /\ FindIn(table, After(k)) = FindIn(table, k) + 1
<1> DEFINE b == (Hash[k] % Len(table)) + 1
           n == FindIn(table, k)
<1>1. WellFiled(table)
  BY DEF Inv
<1>2. Find(k) = n /\ Bucket(k) = b
  BY DEF Find, FindIn, Bucket
<1>3. b \in DOMAIN table /\ n # 0 /\ n \in DOMAIN table[b]
  BY <1>1, FindsKeys
<1>4. Len(table[b]) \in Nat /\ DOMAIN table[b] = 1..Len(table[b])
  BY <1>1, <1>3, TableShape DEF WellFiled
<1> HIDE DEF b, n
<1>5. CASE n < Len(table[b])
  <2>1. After(k) = table[b][n + 1].key
    BY <1>2, <1>5 DEF After
  <2>2. n + 1 \in DOMAIN table[b]
    BY <1>3, <1>4, <1>5
  <2>3. /\ table[b][n + 1].key \in KeysOf(table) /\ table[b][n + 1].key \in Key
        /\ b = (Hash[table[b][n + 1].key] % Len(table)) + 1
        /\ FindIn(table, table[b][n + 1].key) = n + 1
    BY <1>1, <1>3, <2>2, FindsPlace
  <2> QED
    BY <1>3, <2>1, <2>3 DEF b, n
<1>6. CASE ~(n < Len(table[b]))
  <2>1. n = Len(table[b])
    BY <1>3, <1>4, <1>6
  <2>2. After(k) = None
    BY <1>2, <1>6 DEF After
  <2> QED
    BY <1>3, <2>1, <2>2 DEF b, n
<1> QED
  BY <1>5, <1>6

(* A step of the iterator. *)
LEMMA VisitKeeps ==
    ASSUME Inv, NEW t \in Thread, NEW i, Standing(i), MapNextSet(t, i)
    PROVE  Inv'
<1> DEFINE e == Element(i)
<1>1. /\ UNCHANGED <<table, size, owner>> /\ i.active
      /\ i \in [active : BOOLEAN, bucket : 0..Len(table), elmt : Key \cup {None}]
  BY DEF MapNextSet, Standing
<1>2. Len(table) \in Nat \ {0} /\ DOMAIN table = 1..Len(table) /\ None \notin Key
  BY TableShape, HashMapAssumption DEF Inv, WellFiled
<1>3. CASE e.key = None
  <2>1. e.bucket = Len(table) /\ i.elmt = None
    BY <1>2, <1>3, ElementIs
  <2>2. Call(t, <<"iter", "end">>) /\ iter' = [i EXCEPT !.bucket = e.bucket]
    BY <1>1, <1>3 DEF MapNextSet
  <2>3. iter'.elmt = None /\ iter' \in [active : BOOLEAN, bucket : 0..Len(table), elmt : Key \cup {None}]
    BY <2>1, <2>2, <1>1, <1>2
  <2>4. None \notin KeysOf(table)
    <3>1. \A d \in Contents(table) : d \in kv
      BY ContentsFiled DEF Inv
    <3> QED
      BY <3>1, <1>2 DEF KeysOf, kv
  <2>5. Walking(table, iter')
    BY <2>3, <2>4 DEF Walking
  <2> DEFINE ret == <<"iter", "end">>
  <2>6. Call(t, ret) /\ (ret[1] # "remove" \/ Len(ret) # 3)
    BY <2>2
  <2> HIDE DEF ret
  <2> QED
    BY <2>3, <2>5, <2>6, <1>1, ReadingKeeps
<1>4. CASE e.key # None
  <2>1. /\ e.key \in KeysOf(table) /\ e.key \in Key /\ e.bucket \in DOMAIN table
        /\ e.bucket = (Hash[e.key] % Len(table)) + 1
    BY <1>4, ElementIs
  <2> DEFINE ret == <<"iter", "ok", e.key, At(e.key).value>>
  <2>2. Call(t, ret) /\ iter' = [i EXCEPT !.bucket = e.bucket, !.elmt = After(e.key)]
    BY <1>1, <1>4 DEF MapNextSet
  <2>3. ret[1] # "remove" \/ Len(ret) # 3
    OBVIOUS
  <2> HIDE DEF ret, e
  <2>4. /\ After(e.key) \in Key \cup {None}
        /\ After(e.key) \in KeysOf(table) => e.bucket = (Hash[After(e.key)] % Len(table)) + 1
    <3>1. \A d \in Contents(table) : d \in kv
      BY ContentsFiled DEF Inv
    <3>2. None \notin KeysOf(table)
      BY <3>1, <1>2 DEF KeysOf, kv
    <3> QED
      BY <3>2, <2>1, AfterIs
  <2>5. /\ iter'.bucket = e.bucket /\ iter'.elmt = After(e.key)
        /\ iter' \in [active : BOOLEAN, bucket : 0..Len(table), elmt : Key \cup {None}]
    <3>1. e.bucket \in 0..Len(table) /\ After(e.key) \in Key \cup {None}
      BY <2>1, <2>4, <1>2
    <3>2. iter' = [i EXCEPT !.bucket = e.bucket, !.elmt = After(e.key)]
      BY <2>2
    <3>3. i \in [active : BOOLEAN, bucket : 0..Len(table), elmt : Key \cup {None}]
      BY <1>1
    <3> QED
      BY <3>1, <3>2, <3>3
  <2>6. Walking(table, iter')
    BY <2>4, <2>5 DEF Walking
  <2> QED
    BY <2>2, <2>3, <2>5, <2>6, <1>1, ReadingKeeps
<1> QED
  BY <1>3, <1>4

(* A call that only reads. *)
LEMMA LookingKeeps ==
    ASSUME Inv, NEW t \in Thread, NEW ret, Call(t, ret), ret[1] # "remove" \/ Len(ret) # 3,
           UNCHANGED <<table, size, iter, owner>>
    PROVE  Inv'
<1>1. /\ iter' \in [active : BOOLEAN, bucket : 0..Len(table), elmt : Key \cup {None}]
      /\ Walking(table, iter')
  BY DEF Inv, TypeOK
<1> QED
  BY <1>1, ReadingKeeps

(* ruMapKeyList leaves the iterator behind the last bucket. *)
LEMMA KeyListKeeps ==
    ASSUME Inv, NEW t \in Thread, KeyList(t)
    PROVE  Inv'
<1> DEFINE ret == <<"keys", {e.key : e \in Entries}>>
<1>1. /\ Call(t, ret) /\ UNCHANGED <<table, size, owner>> /\ (ret[1] # "remove" \/ Len(ret) # 3)
      /\ iter' = [active |-> TRUE, bucket |-> Len(table), elmt |-> None]
  BY DEF KeyList, Start
<1> HIDE DEF ret
<1>2. Len(table) \in Nat
  BY TableShape DEF Inv, WellFiled
<1>3. None \notin KeysOf(table)
  <2>1. \A d \in Contents(table) : d \in kv
    BY ContentsFiled DEF Inv
  <2> QED
    BY <2>1, HashMapAssumption DEF KeysOf, kv
<1>4. /\ iter' \in [active : BOOLEAN, bucket : 0..Len(table), elmt : Key \cup {None}]
      /\ Walking(table, iter')
  BY <1>1, <1>2, <1>3 DEF Walking
<1> QED
  BY <1>1, <1>4, ReadingKeeps

(* What freeing all entries does to the owners. *)
LEMMA FreeingFrees ==
    ASSUME Inv
    PROVE  /\ Freeing \in [Val -> {"nobody", "map", "caller"}]
           /\ \A v \in Val : Freeing[v] # "map" /\ (owner[v] = "caller" => Freeing[v] = "caller")
BY DEF Inv, TypeOK, Freeing

(* The map is emptied, and its count falls by what it had. *)
LEMMA RemoveAllKeeps ==
    ASSUME Inv, NEW t \in Thread, RemoveAll(t)
    PROVE  Inv' /\ Contents(table') = {} /\ Len(table') = Len(table)
<1> DEFINE ret == <<"clear">>
<1>1. /\ Call(t, ret) /\ ret[1] # "remove"
      /\ table' = Buckets(Len(table)) /\ size' = size - Cardinality(Places(table))
      /\ owner' = Freeing /\ iter' = iter
  BY DEF RemoveAll
<1> HIDE DEF ret
<1>2. WellFiled(table) /\ size = Cardinality(KeysOf(table)) /\ Len(table) \in Nat \ {0}
  BY TableShape DEF Inv, WellFiled
<1>3. WellFiled(table') /\ Len(table') = Len(table) /\ Contents(table') = {}
  BY <1>1, <1>2, BucketsEmpty
<1>4. KeysOf(table') = {}
  BY <1>3 DEF KeysOf
<1>5. size' = Cardinality(KeysOf(table'))
  <2>1. size' = 0
    BY <1>1, <1>2, PlacesFinite
  <2> QED
    BY <2>1, <1>4, FS_EmptySet
<1>6. OtherTypes(iter', owner', life', pc', Len(table'))
  BY <1>1, <1>3, FreeingFrees DEF Inv, TypeOK, Call, OtherTypes
<1>7. IF life' = "freed" THEN \A v \in Val : owner'[v] # "map" ELSE OwnsValues(table', owner')
  BY <1>1, <1>3, FreeingFrees DEF OwnsValues
<1>8. Walking(table', iter')
  BY <1>4 DEF Walking
<1>9. ~(answer'[1] = "remove" /\ Len(answer') = 3)
  BY <1>1 DEF Call
<1>10. Inv'
  BY <1>3, <1>5, <1>6, <1>7, <1>8, <1>9, InvAfter
<1> QED
  BY <1>3, <1>10

(* A step that is no call. *)
LEMMA OthersKeep ==
    ASSUME Inv,
           \/ \E t \in Thread : Begin(t) \/ Abort(t) \/ HasNothing(t) \/ Undefined(t)
           \/ Quit \/ Free
           \/ UNCHANGED vars
    PROVE  Inv'
<1>1. WellFiled(table) /\ size = Cardinality(KeysOf(table)) /\ Walking(table, iter)
  BY DEF Inv
<1>2. UNCHANGED <<table, size, iter>>
  BY DEF Begin, Abort, HasNothing, TurnedAway, Undefined, Quit, Free, vars
<1>3. \/ owner' = owner /\ life' # "freed"
      \/ owner' = Freeing /\ life' = "freed"
      \/ UNCHANGED <<owner, life>>
  <2>1. CASE \E t \in Thread : Begin(t) \/ Abort(t) \/ HasNothing(t) \/ Undefined(t)
    BY <2>1 DEF Begin, Abort, HasNothing, TurnedAway, Undefined
  <2>2. CASE Quit
    BY <2>2 DEF Quit
  <2>3. CASE Free
    BY <2>3 DEF Free
  <2>4. CASE UNCHANGED vars
    BY <2>4 DEF vars
  <2> QED
    BY <2>1, <2>2, <2>3, <2>4
<1>4. answer' = answer \/ answer' = <<"abort">> \/ answer' = <<"has", FALSE>>
  BY DEF Begin, Abort, HasNothing, TurnedAway, Undefined, Quit, Free, vars
<1>5. pc' \in [Thread -> {"idle", "begun", "undefined"}] /\ life' \in {"open", "quit", "freed"}
  BY DEF Begin, Abort, HasNothing, TurnedAway, Undefined, Quit, Free, vars, Inv, TypeOK
<1>6. life = "freed" => life' = "freed"
  BY DEF Begin, Abort, HasNothing, TurnedAway, Undefined, Quit, Free, vars
<1>7. OtherTypes(iter', owner', life', pc', Len(table'))
  BY <1>2, <1>3, <1>5, FreeingFrees DEF Inv, TypeOK, OtherTypes
<1>8. IF life' = "freed" THEN \A v \in Val : owner'[v] # "map" ELSE OwnsValues(table', owner')
  BY <1>2, <1>3, <1>6, FreeingFrees DEF Inv, Owning
<1>9. answer'[1] = "remove" /\ Len(answer') = 3 => answer'[3] \in Val /\ owner'[answer'[3]] = "caller"
  <2>1. CASE answer' = <<"abort">>
    BY <2>1
  <2>2. CASE answer' = answer
    BY <1>3, <2>2, FreeingFrees DEF Inv, Giving, GivenAway
  <2>3. CASE answer' = <<"has", FALSE>>
    BY <2>3
  <2> QED
    BY <1>4, <2>1, <2>2, <2>3
<1>10. WellFiled(table') /\ size' = Cardinality(KeysOf(table')) /\ Walking(table', iter')
  BY <1>1, <1>2
<1> QED
  BY <1>7, <1>8, <1>9, <1>10, InvAfter

(* What ruMapPut does, by whether the key is there and the old value is asked for. *)
LEMMA PutIs ==
    ASSUME NEW t, NEW k, NEW v, NEW where \in BOOLEAN, MapPut(t, k, v, where)
    PROVE  /\ owner[v] # "map" /\ iter' = [iter EXCEPT !.active = FALSE]
           /\ \/ /\ Find(k) # 0 /\ Call(t, <<"put", "exists", At(k).value>>)
                 /\ owner' = [owner EXCEPT ![v] = "caller"] /\ UNCHANGED <<table, size>>
              \/ Find(k) # 0 /\ Call(t, <<"put", "ok">>) /\ Replace(k, v) /\ UNCHANGED size
              \/ Find(k) = 0 /\ Call(t, <<"put", "ok">>) /\ Insert(k, v) /\ size' = size + 1
<1>1. CASE Find(k) # 0 /\ where
  BY <1>1 DEF MapPut
<1>2. CASE Find(k) # 0 /\ ~where
  BY <1>2 DEF MapPut
<1>3. CASE Find(k) = 0
  BY <1>3 DEF MapPut
<1> QED
  BY <1>1, <1>2, <1>3

(* A new map. *)
LEMMA InvInit == Init => Inv
<1> SUFFICES ASSUME Init PROVE Inv
  OBVIOUS
<1>1. table = Buckets(FirstSize) /\ FirstSize \in Nat \ {0} /\ None \notin Key
  BY HashMapAssumption DEF Init
<1>2. WellFiled(table) /\ Contents(table) = {} /\ Len(table) = FirstSize
  BY <1>1, BucketsEmpty
<1>3. KeysOf(table) = {}
  BY <1>2 DEF KeysOf
<1>4. size = Cardinality(KeysOf(table))
  BY <1>3, FS_EmptySet DEF Init
<1>5. TypeOK
  BY <1>1, <1>2 DEF Init, TypeOK, WellFiled
<1>6. Owning /\ Walking(table, iter)
  BY <1>2, <1>3 DEF Init, Owning, OwnsValues, Walking
<1>7. Giving
  BY DEF Init, Giving, GivenAway
<1> QED
  BY <1>2, <1>4, <1>5, <1>6, <1>7 DEF Inv

(* Each step keeps the invariant. *)
LEMMA InvStep == Inv /\ [Next]_vars => Inv'
<1> SUFFICES ASSUME Inv, [Next]_vars PROVE Inv'
  OBVIOUS
<1>1. CASE \E t \in Thread : Begin(t) \/ Abort(t) \/ HasNothing(t) \/ Undefined(t)
  BY <1>1, OthersKeep
<1>2. CASE Quit \/ Free \/ UNCHANGED vars
  BY <1>2, OthersKeep
<1>3. ASSUME NEW t \in Thread, MapSize(t) PROVE Inv'
  <2> DEFINE ret == <<"size", size>>
  <2>1. Call(t, ret) /\ UNCHANGED <<table, size, iter, owner>> /\ ret[1] # "remove"
    BY <1>3 DEF MapSize
  <2> HIDE DEF ret
  <2> QED
    BY <2>1, LookingKeeps
<1>4. ASSUME NEW t \in Thread, FirstSet(t) PROVE Inv'
  <2>1. Standing(Start) /\ MapNextSet(t, Start)
    BY <1>4, StartStands DEF FirstSet
  <2> QED
    BY <2>1, VisitKeeps
<1>5. ASSUME NEW t \in Thread, NextSet(t) PROVE Inv'
  <2>1. CASE iter.active
    <3>1. Standing(iter) /\ MapNextSet(t, iter)
      BY <1>5, <2>1, IteratorStands DEF NextSet
    <3> QED
      BY <3>1, VisitKeeps
  <2>2. CASE ~iter.active
    <3> DEFINE ret == <<"iter", "state">>
    <3>1. Call(t, ret) /\ UNCHANGED <<table, size, iter, owner>> /\ ret[1] # "remove"
      BY <1>5, <2>2 DEF NextSet, MapNextSet
    <3> HIDE DEF ret
    <3> QED
      BY <3>1, LookingKeeps
  <2> QED
    BY <2>1, <2>2
<1>6. ASSUME NEW t \in Thread, KeyList(t) \/ RemoveAll(t) PROVE Inv'
  BY <1>6, KeyListKeeps, RemoveAllKeeps
<1>7. ASSUME NEW t \in Thread, NEW k \in Key, GetValue(t, k) PROVE Inv'
  <2> DEFINE ret == IF Find(k) # 0 THEN <<"get", "ok", At(k).value>> ELSE <<"get", "none">>
  <2>1. Call(t, ret) /\ UNCHANGED <<table, size, iter, owner>> /\ ret[1] # "remove"
    BY <1>7 DEF GetValue
  <2> HIDE DEF ret
  <2> QED
    BY <2>1, LookingKeeps
<1>8. ASSUME NEW t \in Thread, NEW k \in Key, HasKey(t, k) PROVE Inv'
  <2> DEFINE ret == <<"has", Find(k) # 0>>
  <2>1. Call(t, ret) /\ UNCHANGED <<table, size, iter, owner>> /\ ret[1] # "remove"
    BY <1>8 DEF HasKey
  <2> HIDE DEF ret
  <2> QED
    BY <2>1, LookingKeeps
<1>9. ASSUME NEW t \in Thread, NEW k \in Key, NEW moving \in BOOLEAN, MapRemove(t, k, moving) PROVE Inv'
  <2>1. CASE Find(k) # 0
    BY <1>9, <2>1, RemoveKeeps
  <2>2. CASE Find(k) = 0
    <3> DEFINE ret == <<"remove", "none">>
    <3>1. /\ Call(t, ret) /\ UNCHANGED <<table, size, owner>> /\ Len(ret) # 3
          /\ iter' = [iter EXCEPT !.active = FALSE]
      BY <1>9, <2>2 DEF MapRemove
    <3> HIDE DEF ret
    <3>2. /\ iter' \in [active : BOOLEAN, bucket : 0..Len(table), elmt : Key \cup {None}]
          /\ Walking(table, iter')
      BY <3>1 DEF Inv, TypeOK, Walking
    <3> QED
      BY <3>1, <3>2, ReadingKeeps
  <2> QED
    BY <2>1, <2>2
<1>10. ASSUME NEW t \in Thread, NEW k \in Key, NEW v \in Val, NEW where \in BOOLEAN, MapPut(t, k, v, where)
       PROVE  Inv'
  <2>1. /\ owner[v] # "map" /\ iter' = [iter EXCEPT !.active = FALSE]
        /\ \/ /\ Find(k) # 0 /\ Call(t, <<"put", "exists", At(k).value>>)
              /\ owner' = [owner EXCEPT ![v] = "caller"] /\ UNCHANGED <<table, size>>
           \/ Find(k) # 0 /\ Call(t, <<"put", "ok">>) /\ Replace(k, v) /\ UNCHANGED size
           \/ Find(k) = 0 /\ Call(t, <<"put", "ok">>) /\ Insert(k, v) /\ size' = size + 1
    BY <1>10, PutIs
  <2>2. CASE /\ Find(k) # 0 /\ Call(t, <<"put", "exists", At(k).value>>)
             /\ owner' = [owner EXCEPT ![v] = "caller"] /\ UNCHANGED <<table, size>>
    BY <2>1, <2>2, OfferKeeps
  <2>3. CASE Find(k) # 0 /\ Call(t, <<"put", "ok">>) /\ Replace(k, v) /\ UNCHANGED size
    BY <2>1, <2>3, ReplaceKeeps
  <2>4. CASE Find(k) = 0 /\ Call(t, <<"put", "ok">>) /\ Insert(k, v) /\ size' = size + 1
    BY <2>1, <2>4, InsertKeeps
  <2> QED
    BY <2>1, <2>2, <2>3, <2>4
<1> QED
  BY <1>1, <1>2, <1>3, <1>4, <1>5, <1>6, <1>7, <1>8, <1>9, <1>10 DEF Next

(* It holds of all states. *)
LEMMA InvHolds == Spec => []Inv
<1>1. Init => Inv
  BY InvInit
<1>2. Inv /\ [Next]_vars => Inv'
  BY InvStep
<1> QED
  BY <1>1, <1>2, PTL DEF Spec

(* The table is a sequence of buckets of entries, the iterator stays on one
   of them or behind the last, and no value has two kinds of owner. *)
THEOREM TypeCorrect == Spec => []TypeOK
<1>1. Inv => TypeOK
  BY DEF Inv
<1> QED
  BY <1>1, InvHolds, PTL

(* What a search relies on, and what ruMapSize answers from. *)
KeysFiled == WellFiled(table) /\ size = Cardinality(KeysOf(table))

(* However often ruMapPut has the table doubled, each key is in the bucket of
   its hash, once, and the count is that of the keys. *)
THEOREM KeysFiledHolds == Spec => []KeysFiled
<1>1. Inv => KeysFiled
  BY DEF Inv, KeysFiled
<1> QED
  BY <1>1, InvHolds, PTL

(* What OwnsValues says of the entries, said of their places. *)
LEMMA InvOwns == Inv => ValuesOwned
<1> SUFFICES ASSUME Inv PROVE ValuesOwned
  OBVIOUS
<1>1. ASSUME NEW v \in Val, life # "freed"
      PROVE  Cardinality({p \in Places(table) : table[p[1]][p[2]].value = v})
               = IF owner[v] = "map" THEN 1 ELSE 0
  <2> DEFINE P == {p \in Places(table) : table[p[1]][p[2]].value = v}
  <2>1. \A p \in Places(table) : table[p[1]][p[2]] \in Contents(table)
    BY DEF Contents
  <2>2. \A e \in Contents(table) : \E p \in Places(table) : e = table[p[1]][p[2]]
    BY DEF Contents
  <2>3. WellFiled(table) /\ OwnsValues(table, owner)
    BY <1>1 DEF Inv, Owning
  <2>4. CASE owner[v] = "map"
    <3>1. PICK e \in Contents(table) : e.value = v
      BY <2>3, <2>4 DEF OwnsValues
    <3>2. PICK p \in Places(table) : e = table[p[1]][p[2]]
      BY <2>2
    <3>3. \A q \in P : q = p
      <4> TAKE q \in P
      <4>1. table[q[1]][q[2]] = e
        BY <2>1, <2>3, <3>1 DEF OwnsValues
      <4> QED
        BY <4>1, <3>2, <2>3, OnePlace
    <3>4. P = {p}
      BY <3>1, <3>2, <3>3
    <3> HIDE DEF P
    <3>5. Cardinality(P) = 1
      BY <3>4, FS_Singleton, Zenon
    <3> QED
      BY <2>4, <3>5 DEF P
  <2>5. CASE owner[v] # "map"
    <3>1. P = {}
      BY <2>1, <2>3, <2>5 DEF OwnsValues
    <3> HIDE DEF P
    <3> QED
      BY <2>5, <3>1, FS_EmptySet DEF P
  <2> QED
    BY <2>4, <2>5
<1>2. life = "freed" => \A v \in Val : owner[v] # "map"
  BY DEF Inv, Owning
<1>3. answer[1] = "remove" /\ Len(answer) = 3 => owner[answer[3]] # "nobody"
  BY DEF Inv, Giving, GivenAway
<1> QED
  BY <1>1, <1>2, <1>3 DEF ValuesOwned

(* The map owns the values of its entries, each once, and no others; one it
   has moved out to a caller is the caller's; a freed map owns none. *)
THEOREM ValuesOwnedHolds == Spec => []ValuesOwned
<1>1. Inv => ValuesOwned
  BY InvOwns
<1> QED
  BY <1>1, InvHolds, PTL

-----------------------------------------------------------------------------
(***************************************************************************)
(* The map implements the dictionary.                                      *)
(***************************************************************************)

(* The function that a table stands for. *)
DictOf(tbl) == [k \in KeysOf(tbl) |-> (CHOOSE e \in Contents(tbl) : e.key = k).value]

(* The keys that an iterator has still to visit: those of its element and of
   the elements after it in its bucket, and those of the later buckets. *)
TodoOf(tbl, it) ==
    LET b == (Hash[it.elmt] % Len(tbl)) + 1
        here == IF it.elmt = None THEN {} ELSE {tbl[b][i].key : i \in FindIn(tbl, it.elmt)..Len(tbl[b])}
    IN  here \cup UNION {{e.key : e \in ToSet(tbl[c])} : c \in it.bucket + 1..Len(tbl)}

TodoNow(tbl, it) == IF it.active /\ (it.elmt = None \/ it.elmt \in KeysOf(tbl)) THEN TodoOf(tbl, it) ELSE {}

(* A function with the keys of a table, and for each the value of its entry. *)
LEMMA DictIs ==
    ASSUME NEW tbl, WellFiled(tbl), NEW f, f = [k \in KeysOf(tbl) |-> f[k]],
           \A e \in Contents(tbl) : f[e.key] = e.value
    PROVE  f = DictOf(tbl)
<1>1. ASSUME NEW k \in KeysOf(tbl) PROVE f[k] = (CHOOSE e \in Contents(tbl) : e.key = k).value
  <2>1. PICK e \in Contents(tbl) : e.key = k
    BY DEF KeysOf
  <2> DEFINE d == CHOOSE x \in Contents(tbl) : x.key = k
  <2>2. d \in Contents(tbl) /\ d.key = k
    BY <2>1
  <2> HIDE DEF d
  <2> QED
    BY <2>2 DEF d
<1> QED
  BY <1>1 DEF DictOf

(* The function at the key of an entry. *)
LEMMA DictAt ==
    ASSUME NEW tbl, WellFiled(tbl), NEW e \in Contents(tbl)
    PROVE  e.key \in DOMAIN DictOf(tbl) /\ DictOf(tbl)[e.key] = e.value
<1> DEFINE d == CHOOSE x \in Contents(tbl) : x.key = e.key
<1>1. d \in Contents(tbl) /\ d.key = e.key
  OBVIOUS
<1>2. e.key \in KeysOf(tbl)
  BY DEF KeysOf
<1>3. DictOf(tbl)[e.key] = d.value
  BY <1>2 DEF DictOf
<1> HIDE DEF d
<1>4. d = e
  BY <1>1, OneEntry
<1> QED
  BY <1>2, <1>3, <1>4 DEF DictOf

(* It has the keys of the table. *)
LEMMA DictDomain == \A tbl : DOMAIN DictOf(tbl) = KeysOf(tbl)
BY DEF DictOf

(* An empty table stands for the empty function. *)
LEMMA DictEmpty == ASSUME NEW tbl, Contents(tbl) = {} PROVE DictOf(tbl) = <<>>
<1>1. KeysOf(tbl) = {}
  BY DEF KeysOf
<1> QED
  BY <1>1 DEF DictOf

(* Of the keys of a table an iterator has to visit those from its place on. *)
LEMMA TodoPlaces ==
    ASSUME NEW tbl, WellFiled(tbl), NEW it, it.bucket \in Nat,
           it.elmt # None => /\ it.elmt \in KeysOf(tbl) /\ it.elmt \in Key
                             /\ it.bucket = (Hash[it.elmt] % Len(tbl)) + 1
    PROVE  /\ TodoOf(tbl, it) \subseteq KeysOf(tbl)
           /\ \A c \in DOMAIN tbl : \A n \in DOMAIN tbl[c] :
                tbl[c][n].key \in TodoOf(tbl, it)
                  <=> \/ c > it.bucket
                      \/ it.elmt # None /\ c = it.bucket /\ n >= FindIn(tbl, it.elmt)
<1> DEFINE b == (Hash[it.elmt] % Len(tbl)) + 1
           here == IF it.elmt = None THEN {} ELSE {tbl[b][i].key : i \in FindIn(tbl, it.elmt)..Len(tbl[b])}
           later == UNION {{e.key : e \in ToSet(tbl[c])} : c \in it.bucket + 1..Len(tbl)}
<1>1. /\ Len(tbl) \in Nat /\ DOMAIN tbl = 1..Len(tbl)
      /\ \A c \in DOMAIN tbl : Len(tbl[c]) \in Nat /\ DOMAIN tbl[c] = 1..Len(tbl[c])
  BY TableShape DEF WellFiled
<1>2. TodoOf(tbl, it) = here \cup later
  BY DEF TodoOf
<1>3. it.elmt # None => b = it.bucket /\ b \in DOMAIN tbl /\ FindIn(tbl, it.elmt) \in DOMAIN tbl[b]
  BY FindsKeys
<1>4. \A k : k \in here <=> /\ it.elmt # None
                            /\ \E i \in DOMAIN tbl[b] : i >= FindIn(tbl, it.elmt) /\ k = tbl[b][i].key
  <2> TAKE k
  <2>1. CASE it.elmt = None
    BY <2>1
  <2>2. CASE it.elmt # None
    <3> HIDE DEF b
    <3>1. \A i : i \in FindIn(tbl, it.elmt)..Len(tbl[b]) <=> i \in DOMAIN tbl[b] /\ i >= FindIn(tbl, it.elmt)
      BY <1>1, <1>3, <2>2
    <3> QED
      BY <2>2, <3>1
  <2> QED
    BY <2>1, <2>2
<1>5. \A k : k \in later <=> \E c \in DOMAIN tbl : c > it.bucket /\ \E i \in DOMAIN tbl[c] : k = tbl[c][i].key
  <2> TAKE k
  <2>1. \A c : c \in it.bucket + 1..Len(tbl) <=> c \in DOMAIN tbl /\ c > it.bucket
    BY <1>1
  <2>2. k \in later <=> \E c \in it.bucket + 1..Len(tbl) : k \in {e.key : e \in ToSet(tbl[c])}
    OBVIOUS
  <2>3. \A c : k \in {e.key : e \in ToSet(tbl[c])} <=> \E i \in DOMAIN tbl[c] : k = tbl[c][i].key
    BY DEF ToSet
  <2> HIDE DEF later
  <2> QED
    BY <2>1, <2>2, <2>3
<1> HIDE DEF here, later
<1>6. \A c \in DOMAIN tbl : \A n \in DOMAIN tbl[c] :
        /\ tbl[c][n].key \in KeysOf(tbl)
        /\ c = (Hash[tbl[c][n].key] % Len(tbl)) + 1 /\ FindIn(tbl, tbl[c][n].key) = n
  BY FindsPlace
<1> HIDE DEF b
<1>7. TodoOf(tbl, it) \subseteq KeysOf(tbl)
  BY <1>2, <1>3, <1>4, <1>5, <1>6
<1>8. ASSUME NEW c \in DOMAIN tbl, NEW n \in DOMAIN tbl[c]
      PROVE  tbl[c][n].key \in TodoOf(tbl, it)
               <=> \/ c > it.bucket
                   \/ it.elmt # None /\ c = it.bucket /\ n >= FindIn(tbl, it.elmt)
  <2>1. \A d \in DOMAIN tbl : \A i \in DOMAIN tbl[d] : tbl[c][n].key = tbl[d][i].key => d = c /\ i = n
    <3> TAKE d \in DOMAIN tbl
    <3> TAKE i \in DOMAIN tbl[d]
    <3> HAVE tbl[c][n].key = tbl[d][i].key
    <3>1. c = (Hash[tbl[c][n].key] % Len(tbl)) + 1 /\ FindIn(tbl, tbl[c][n].key) = n
      BY <1>6
    <3>2. d = (Hash[tbl[d][i].key] % Len(tbl)) + 1 /\ FindIn(tbl, tbl[d][i].key) = i
      BY <1>6
    <3> QED
      BY <3>1, <3>2
  <2>2. tbl[c][n].key \in here <=> it.elmt # None /\ c = b /\ n >= FindIn(tbl, it.elmt)
    BY <1>3, <1>4, <2>1
  <2>3. tbl[c][n].key \in later <=> c > it.bucket
    BY <1>5, <2>1
  <2> QED
    BY <1>2, <1>3, <2>2, <2>3
<1> QED
  BY <1>7, <1>8

(* What the mapping reads of the map. *)
LEMMA MappingNow ==
    Inv => /\ Kept = DictOf(table) /\ Todo = TodoNow(table, iter)
           /\ \A k \in Key : /\ Find(k) # 0 <=> k \in DOMAIN DictOf(table)
                             /\ Find(k) # 0 => At(k).value = DictOf(table)[k]
<1> SUFFICES ASSUME Inv
             PROVE  /\ Kept = DictOf(table) /\ Todo = TodoNow(table, iter)
                    /\ \A k \in Key : /\ Find(k) # 0 <=> k \in DOMAIN DictOf(table)
                                      /\ Find(k) # 0 => At(k).value = DictOf(table)[k]
  OBVIOUS
<1>1. WellFiled(table) /\ iter.elmt \in Key \cup {None} /\ iter.active \in BOOLEAN
  BY DEF Inv, TypeOK
<1>2. \A k \in Key : /\ Find(k) # 0 <=> k \in KeysOf(table)
                     /\ Find(k) # 0 => At(k) \in Contents(table) /\ At(k).key = k
  BY FindIsFindIn
<1>3. KeysOf(table) \subseteq Key
  <2>1. \A e \in Contents(table) : e \in kv
    BY <1>1, ContentsFiled
  <2> QED
    BY <2>1 DEF KeysOf, kv
<1>4. \A k \in Key : /\ Find(k) # 0 <=> k \in DOMAIN DictOf(table)
                     /\ Find(k) # 0 => At(k).value = DictOf(table)[k]
  <2> TAKE k \in Key
  <2>1. Find(k) # 0 <=> k \in DOMAIN DictOf(table)
    BY <1>2, DictDomain
  <2>2. ASSUME Find(k) # 0 PROVE At(k).value = DictOf(table)[k]
    <3>1. At(k) \in Contents(table) /\ At(k).key = k
      BY <1>2, <2>2
    <3> QED
      BY <1>1, <3>1, DictAt
  <2> QED
    BY <2>1, <2>2
<1>5. Kept = DictOf(table)
  <2>1. {x \in Key : Find(x) # 0} = KeysOf(table)
    BY <1>2, <1>3
  <2>2. Kept = [k \in KeysOf(table) |-> At(k).value]
    BY <2>1 DEF Kept
  <2>3. DictOf(table) = [k \in KeysOf(table) |-> DictOf(table)[k]]
    BY DEF DictOf
  <2>4. \A k \in KeysOf(table) : At(k).value = DictOf(table)[k]
    BY <1>2, <1>3, <1>4
  <2> QED
    BY <2>2, <2>3, <2>4
<1>6. Todo = TodoNow(table, iter)
  <2>1. Dangling <=> iter.active /\ iter.elmt # None /\ iter.elmt \notin KeysOf(table)
    BY <1>1, <1>2 DEF Dangling
  <2>2. CASE iter.active /\ (iter.elmt = None \/ iter.elmt \in KeysOf(table))
    <3>1. ~Dangling
      BY <2>1, <2>2
    <3>2. Bucket(iter.elmt) = (Hash[iter.elmt] % Len(table)) + 1 /\ Find(iter.elmt) = FindIn(table, iter.elmt)
      BY DEF Bucket, Find, FindIn
    <3> QED
      BY <2>2, <3>1, <3>2 DEF Todo, TodoNow, TodoOf
  <2>3. CASE ~(iter.active /\ (iter.elmt = None \/ iter.elmt \in KeysOf(table)))
    <3>1. ~iter.active \/ Dangling
      BY <2>1, <2>3
    <3> QED
      BY <2>3, <3>1 DEF Todo, TodoNow
  <2> QED
    BY <2>2, <2>3
<1> QED
  BY <1>4, <1>5, <1>6

(* The mapping is that of the table and the iterator, in each state. *)
Mapped == Kept = DictOf(table) /\ Todo = TodoNow(table, iter)

(* The same after a step. *)
LEMMA MappingNext == Inv' => Kept' = DictOf(table') /\ Todo' = TodoNow(table', iter')
<1>1. Inv => Mapped
  BY MappingNow DEF Mapped
<1>2. Inv' => Mapped'
  BY <1>1, PTL
<1> QED
  BY <1>2 DEF Mapped

(* A function that has got a value for a key, and one that has lost a key. *)
Gaining(f, k, v) == [j \in DOMAIN f \cup {k} |-> IF j = k THEN v ELSE f[j]]
Losing(f, k) == [j \in DOMAIN f \ {k} |-> f[j]]

(* A table that has got the entry e, in the place of the one with its key
   where there was one, stands for a function that has got its value. *)
LEMMA DictPut ==
    ASSUME NEW tbl, NEW new, NEW e, WellFiled(tbl), WellFiled(new),
           \A d : d \in Contents(new) <=> d = e \/ (d \in Contents(tbl) /\ d.key # e.key)
    PROVE  DictOf(new) = Gaining(DictOf(tbl), e.key, e.value)
<1> DEFINE f == [j \in DOMAIN DictOf(tbl) \cup {e.key} |-> IF j = e.key THEN e.value ELSE DictOf(tbl)[j]]
<1>1. KeysOf(new) = KeysOf(tbl) \cup {e.key}
  BY DEF KeysOf
<1>2. f = [k \in KeysOf(new) |-> f[k]]
  BY <1>1, DictDomain
<1>3. ASSUME NEW d \in Contents(new) PROVE f[d.key] = d.value
  <2>1. CASE d = e
    BY <2>1
  <2>2. CASE d \in Contents(tbl) /\ d.key # e.key
    BY <2>2, DictAt
  <2> QED
    BY <2>1, <2>2
<1> HIDE DEF f
<1>4. f = DictOf(new)
  BY <1>2, <1>3, DictIs
<1> QED
  BY <1>4 DEF f, Gaining

(* A table that an entry has left stands for a function without its key. *)
LEMMA DictDrop ==
    ASSUME NEW tbl, NEW new, NEW e, WellFiled(tbl), WellFiled(new), e \in Contents(tbl),
           Contents(new) = Contents(tbl) \ {e}
    PROVE  DictOf(new) = Losing(DictOf(tbl), e.key)
<1> DEFINE f == [j \in DOMAIN DictOf(tbl) \ {e.key} |-> DictOf(tbl)[j]]
<1>1. \A d \in Contents(tbl) : d # e => d.key # e.key
  BY OneEntry
<1>2. KeysOf(new) = KeysOf(tbl) \ {e.key}
  BY <1>1 DEF KeysOf
<1>3. f = [k \in KeysOf(new) |-> f[k]]
  BY <1>2, DictDomain
<1>4. ASSUME NEW d \in Contents(new) PROVE f[d.key] = d.value
  BY <1>1, DictAt
<1> HIDE DEF f
<1>5. f = DictOf(new)
  BY <1>3, <1>4, DictIs
<1> QED
  BY <1>5 DEF f, Losing

(* A change ends the iteration. *)
LEMMA EndedTodo ==
    ASSUME Inv, Inv', iter' = [iter EXCEPT !.active = FALSE]
    PROVE  (iter.active)' = FALSE /\ Todo' = {}
<1>1. (iter.active)' = FALSE
  BY DEF Inv, TypeOK
<1> QED
  BY <1>1, MappingNext DEF TodoNow

(* ruMapPut on a key that is there, asked for the value that is there. *)
LEMMA OfferIs ==
    ASSUME Inv, Inv', NEW t \in Thread, NEW k \in Key, Find(k) # 0,
           Call(t, <<"put", "exists", At(k).value>>),
           UNCHANGED <<table, size>>, iter' = [iter EXCEPT !.active = FALSE]
    PROVE  Dict!Offer(k)
<1>1. Kept = DictOf(table) /\ k \in DOMAIN Kept /\ At(k).value = Kept[k]
  BY MappingNow
<1>2. Kept' = Kept
  BY <1>1, MappingNext
<1>3. (iter.active)' = FALSE /\ Todo' = {}
  BY EndedTodo
<1>4. answer' = <<"put", "exists", At(k).value>> /\ life' = life
  BY DEF Call
<1> QED
  BY <1>1, <1>2, <1>3, <1>4 DEF Dict!Offer, Dict!Holds, Dict!Change

(* ruMapPut otherwise. *)
LEMMA ReplacingPuts ==
    ASSUME Inv, Inv', NEW t \in Thread, NEW k \in Key, NEW v \in Val, owner[v] # "map", Find(k) # 0,
           Call(t, <<"put", "ok">>), Replace(k, v), UNCHANGED size, iter' = [iter EXCEPT !.active = FALSE]
    PROVE  Dict!Put(k, v)
<1> DEFINE e == [At(k) EXCEPT !.value = v]
<1>1. WellFiled(table) /\ WellFiled(table')
  BY DEF Inv
<1>2. At(k) \in Contents(table) /\ At(k).key = k /\ At(k) \in kv
  BY <1>1, FindIsFindIn, ContentsFiled
<1>3. e.key = k /\ e.value = v
  BY <1>2 DEF kv
<1>4. Contents(table') = (Contents(table) \ {At(k)}) \cup {e}
  BY ReplaceKeeps
<1> HIDE DEF e
<1>5. \A d \in Contents(table) : d # At(k) <=> d.key # k
  BY <1>1, <1>2, OneEntry
<1>6. \A d : d \in Contents(table') <=> d = e \/ (d \in Contents(table) /\ d.key # e.key)
  BY <1>3, <1>4, <1>5
<1>7. DictOf(table') = Gaining(DictOf(table), e.key, e.value)
  BY <1>1, <1>6, DictPut
<1>8. Kept' = Dict!With(k, v)
  BY <1>3, <1>7, MappingNow, MappingNext DEF Dict!With, Gaining
<1>9. (iter.active)' = FALSE /\ Todo' = {}
  BY EndedTodo
<1>10. answer' = <<"put", "ok">> /\ life' = life
  BY DEF Call
<1> QED
  BY <1>8, <1>9, <1>10 DEF Dict!Put, Dict!Change

(* ruMapPut on a key that is not there; the table may have been doubled. *)
LEMMA InsertingPuts ==
    ASSUME Inv, Inv', NEW t \in Thread, NEW k \in Key, NEW v \in Val, owner[v] # "map", Find(k) = 0,
           Call(t, <<"put", "ok">>), Insert(k, v), size' = size + 1, iter' = [iter EXCEPT !.active = FALSE]
    PROVE  Dict!Put(k, v)
<1> DEFINE e == [key |-> k, hash |-> Hash[k], value |-> v]
<1>1. WellFiled(table) /\ WellFiled(table')
  BY DEF Inv
<1>2. k \notin KeysOf(table)
  BY FindIsFindIn
<1>3. e.key = k /\ e.value = v
  OBVIOUS
<1>4. Contents(table') = Contents(table) \cup {e}
  BY InsertKeeps
<1> HIDE DEF e
<1>5. \A d \in Contents(table) : d.key # k
  BY <1>2 DEF KeysOf
<1>6. \A d : d \in Contents(table') <=> d = e \/ (d \in Contents(table) /\ d.key # e.key)
  BY <1>3, <1>4, <1>5
<1>7. DictOf(table') = Gaining(DictOf(table), e.key, e.value)
  BY <1>1, <1>6, DictPut
<1>8. Kept' = Dict!With(k, v)
  BY <1>3, <1>7, MappingNow, MappingNext DEF Dict!With, Gaining
<1>9. (iter.active)' = FALSE /\ Todo' = {}
  BY EndedTodo
<1>10. answer' = <<"put", "ok">> /\ life' = life
  BY DEF Call
<1> QED
  BY <1>8, <1>9, <1>10 DEF Dict!Put, Dict!Change

(* ruMapRemove, of a key that is there and of one that is not. *)
LEMMA RemoveIs ==
    ASSUME Inv, Inv', NEW t \in Thread, NEW k \in Key, NEW moving \in BOOLEAN, MapRemove(t, k, moving)
    PROVE  Dict!Remove(k)
<1>1. (iter.active)' = FALSE /\ Todo' = {}
  BY EndedTodo DEF MapRemove
<1>2. /\ Kept = DictOf(table) /\ Kept' = DictOf(table')
      /\ Find(k) # 0 <=> k \in DOMAIN Kept
      /\ Find(k) # 0 => At(k).value = Kept[k]
  BY MappingNow, MappingNext
<1>3. CASE Find(k) # 0
  <2>1. /\ answer' = IF moving THEN <<"remove", "ok", At(k).value>> ELSE <<"remove", "ok">>
        /\ life' = life
    BY <1>3 DEF MapRemove, Call
  <2>2. Contents(table') = Contents(table) \ {At(k)}
    BY <1>3, RemoveKeeps
  <2>3. At(k) \in Contents(table) /\ At(k).key = k /\ WellFiled(table) /\ WellFiled(table')
    BY <1>3, FindIsFindIn DEF Inv
  <2>4. DictOf(table') = Losing(DictOf(table), At(k).key)
    BY <2>2, <2>3, DictDrop
  <2>5. Kept' = Dict!Drop(k)
    BY <2>3, <2>4, <1>2 DEF Dict!Drop, Losing
  <2>6. answer' \in {<<"remove", "ok">>, <<"remove", "ok", Kept[k]>>}
    BY <2>1, <1>2, <1>3
  <2> QED
    BY <2>1, <2>5, <2>6, <1>1, <1>2, <1>3 DEF Dict!Remove, Dict!Holds, Dict!Change
<1>4. CASE Find(k) = 0
  <2>1. answer' = <<"remove", "none">> /\ life' = life /\ table' = table
    BY <1>4 DEF MapRemove, Call
  <2> QED
    BY <2>1, <1>1, <1>2, <1>4 DEF Dict!Remove, Dict!Holds, Dict!Change
<1> QED
  BY <1>3, <1>4

(* The keys of the table are those at its places. *)
LEMMA KeysAtPlaces ==
    ASSUME NEW tbl, NEW k \in KeysOf(tbl)
    PROVE  \E c \in DOMAIN tbl : \E n \in DOMAIN tbl[c] : k = tbl[c][n].key
<1>1. PICK e \in Contents(tbl) : e.key = k
  BY DEF KeysOf
<1>2. PICK c \in DOMAIN tbl : \E n \in DOMAIN tbl[c] : e = tbl[c][n]
  BY ContentsAre
<1> QED
  BY <1>1, <1>2

(* An iterator that stands behind all entries has none to visit. *)
LEMMA NoneLeft ==
    ASSUME NEW tbl, WellFiled(tbl), NEW it, it.bucket \in Nat, it.elmt = None,
           \A c \in DOMAIN tbl : c > it.bucket => tbl[c] = <<>>
    PROVE  TodoOf(tbl, it) = {}
<1>1. /\ TodoOf(tbl, it) \subseteq KeysOf(tbl)
      /\ \A c \in DOMAIN tbl : \A n \in DOMAIN tbl[c] :
           tbl[c][n].key \in TodoOf(tbl, it) <=> c > it.bucket
  BY TodoPlaces
<1>2. \A c \in DOMAIN tbl : c > it.bucket => DOMAIN tbl[c] = {}
  OBVIOUS
<1>3. ASSUME NEW k \in TodoOf(tbl, it) PROVE FALSE
  <2>1. PICK c \in DOMAIN tbl : \E n \in DOMAIN tbl[c] : k = tbl[c][n].key
    BY <1>1, KeysAtPlaces
  <2>2. PICK n \in DOMAIN tbl[c] : k = tbl[c][n].key
    BY <2>1
  <2> QED
    BY <2>2, <1>1, <1>2
<1> QED
  BY <1>3

(* What an iterator that stands on the map has to visit, and where. *)
LEMMA StandingTodo ==
    ASSUME Inv, NEW i, Standing(i)
    PROVE  /\ TodoOf(table, i) \subseteq KeysOf(table)
           /\ \A c \in DOMAIN table : \A n \in DOMAIN table[c] :
                table[c][n].key \in TodoOf(table, i)
                  <=> \/ c > i.bucket
                      \/ i.elmt # None /\ c = i.bucket /\ n >= FindIn(table, i.elmt)
<1>1. WellFiled(table) /\ None \notin KeysOf(table)
  <2>1. \A d \in Contents(table) : d \in kv
    BY ContentsFiled DEF Inv
  <2> QED
    BY <2>1, HashMapAssumption DEF KeysOf, kv, Inv
<1>2. /\ i.bucket \in Nat
      /\ i.elmt # None => /\ i.elmt \in KeysOf(table) /\ i.elmt \in Key
                          /\ i.bucket = (Hash[i.elmt] % Len(table)) + 1
  <2>1. Len(table) \in Nat
    BY <1>1, TableShape DEF WellFiled
  <2> QED
    BY <2>1 DEF Standing
<1> QED
  BY <1>1, <1>2, TodoPlaces

(* From the place of the next element on, all entries are still to visit. *)
LEMMA TodoFromElement ==
    ASSUME Inv, NEW i, Standing(i), Element(i).key # None
    PROVE  \A c \in DOMAIN table : \A n \in DOMAIN table[c] :
             table[c][n].key \in TodoOf(table, i)
               <=> \/ c > Element(i).bucket
                   \/ c = Element(i).bucket /\ n >= FindIn(table, Element(i).key)
<1> DEFINE e == Element(i)
<1>1. TAKE c \in DOMAIN table
<1>2. TAKE n \in DOMAIN table[c]
<1>3. table[c][n].key \in TodoOf(table, i)
        <=> \/ c > i.bucket
            \/ i.elmt # None /\ c = i.bucket /\ n >= FindIn(table, i.elmt)
  BY StandingTodo
<1>4. /\ Len(table) \in Nat /\ DOMAIN table = 1..Len(table)
      /\ Len(table[c]) \in Nat /\ DOMAIN table[c] = 1..Len(table[c])
      /\ i.bucket \in Nat
  BY TableShape DEF Inv, WellFiled, Standing
<1>5. /\ e.bucket \in DOMAIN table
      /\ \/ i.elmt = e.key /\ i.bucket = e.bucket
         \/ /\ i.elmt = None /\ e.bucket > i.bucket
            /\ FindIn(table, e.key) = 1
            /\ \A b \in DOMAIN table : i.bucket < b /\ b < e.bucket => table[b] = <<>>
  BY ElementIs
<1>6. CASE i.elmt = e.key /\ i.bucket = e.bucket
  BY <1>3, <1>6
<1>7. CASE /\ i.elmt = None /\ e.bucket > i.bucket
           /\ FindIn(table, e.key) = 1
           /\ \A b \in DOMAIN table : i.bucket < b /\ b < e.bucket => table[b] = <<>>
  <2>1. ~(i.bucket < c /\ c < e.bucket)
    BY <1>4, <1>7
  <2>2. n >= 1
    BY <1>4
  <2> HIDE DEF e
  <2>3. c > i.bucket <=> c > e.bucket \/ (c = e.bucket /\ n >= 1)
    BY <1>4, <1>5, <1>7, <2>1, <2>2
  <2> QED
    BY <1>3, <1>7, <2>3 DEF e
<1> QED
  BY <1>5, <1>6, <1>7

(* An iterator behind a key has those to visit that come after it. *)
LEMMA TodoAfter ==
    ASSUME Inv, NEW k \in KeysOf(table), k \in Key, NEW it,
           it.elmt = After(k), it.bucket = (Hash[k] % Len(table)) + 1
    PROVE  /\ it.bucket \in DOMAIN table
           /\ it.elmt # None => it.elmt \in KeysOf(table)
           /\ TodoOf(table, it) \subseteq KeysOf(table)
           /\ \A c \in DOMAIN table : \A n \in DOMAIN table[c] :
                table[c][n].key \in TodoOf(table, it)
                  <=> c > it.bucket \/ (c = it.bucket /\ n > FindIn(table, k))
<1> DEFINE b == (Hash[k] % Len(table)) + 1
           m == FindIn(table, k)
<1>1. WellFiled(table) /\ b \in DOMAIN table /\ m \in DOMAIN table[b]
  BY FindsKeys DEF Inv
<1>2. /\ Len(table) \in Nat /\ DOMAIN table = 1..Len(table)
      /\ \A c \in DOMAIN table : Len(table[c]) \in Nat /\ DOMAIN table[c] = 1..Len(table[c])
  BY <1>1, TableShape DEF WellFiled
<1>3. \/ it.elmt = None /\ m = Len(table[b])
      \/ /\ it.elmt \in KeysOf(table) /\ it.elmt \in Key
         /\ b = (Hash[it.elmt] % Len(table)) + 1
         /\ FindIn(table, it.elmt) = m + 1
  BY AfterIs
<1>4. it.bucket = b /\ it.bucket \in Nat
  BY <1>1, <1>2
<1> HIDE DEF b, m
<1>5. None \notin KeysOf(table)
  <2>1. \A d \in Contents(table) : d \in kv
    BY <1>1, ContentsFiled
  <2> QED
    BY <2>1, HashMapAssumption DEF KeysOf, kv
<1>6. /\ TodoOf(table, it) \subseteq KeysOf(table)
      /\ \A c \in DOMAIN table : \A n \in DOMAIN table[c] :
           table[c][n].key \in TodoOf(table, it)
             <=> \/ c > it.bucket
                 \/ it.elmt # None /\ c = it.bucket /\ n >= FindIn(table, it.elmt)
  BY <1>1, <1>3, <1>4, TodoPlaces
<1>7. ASSUME NEW c \in DOMAIN table, NEW n \in DOMAIN table[c]
      PROVE  table[c][n].key \in TodoOf(table, it) <=> c > b \/ (c = b /\ n > m)
  <2>1. n \in Nat /\ m \in Nat /\ (c = b => n <= Len(table[b]))
    BY <1>1, <1>2
  <2>2. CASE it.elmt = None /\ m = Len(table[b])
    BY <1>4, <1>6, <2>1, <2>2
  <2>3. CASE it.elmt \in KeysOf(table) /\ FindIn(table, it.elmt) = m + 1
    BY <1>4, <1>5, <1>6, <2>1, <2>3
  <2> QED
    BY <1>3, <2>2, <2>3
<1> QED
  BY <1>1, <1>3, <1>4, <1>6, <1>7 DEF m

(* A step of the iterator visits an entry that it has not visited, and
   only that one is visited by it. *)
LEMMA VisitIs ==
    ASSUME Inv, Inv', NEW t \in Thread, NEW i, Standing(i), MapNextSet(t, i)
    PROVE  Dict!Visit(TodoOf(table, i))
<1> DEFINE e == Element(i)
           from == TodoOf(table, i)
<1>1. /\ table' = table /\ i.active
      /\ i \in [active : BOOLEAN, bucket : 0..Len(table), elmt : Key \cup {None}]
  BY DEF MapNextSet, Standing
<1>2. /\ WellFiled(table) /\ Len(table) \in Nat \ {0} /\ DOMAIN table = 1..Len(table)
      /\ \A c \in DOMAIN table : DOMAIN table[c] = 1..Len(table[c])
  BY TableShape DEF Inv, WellFiled
<1>3. Kept' = Kept /\ Todo' = TodoNow(table, iter')
  BY <1>1, MappingNow, MappingNext
<1>4. CASE e.key = None
  <2>1. /\ e.bucket = Len(table) /\ i.elmt = None
        /\ \A c \in DOMAIN table : c > i.bucket => table[c] = <<>>
    <3>1. None \notin Key
      BY HashMapAssumption
    <3> QED
      BY <1>4, <3>1, ElementIs
  <2>2. Call(t, <<"iter", "end">>) /\ iter' = [i EXCEPT !.bucket = e.bucket]
    BY <1>1, <1>4 DEF MapNextSet
  <2>3. iter'.active = TRUE /\ iter'.bucket = Len(table) /\ iter'.elmt = None
    BY <2>1, <2>2, <1>1
  <2>4. from = {}
    <3>1. i.bucket \in Nat
      BY <1>1, <1>2
    <3> QED
      BY <2>1, <3>1, <1>2, NoneLeft
  <2>5. TodoOf(table, iter') = {}
    <3>1. \A c \in DOMAIN table : ~(c > Len(table))
      BY <1>2
    <3> QED
      BY <2>3, <3>1, <1>2, NoneLeft
  <2>6. Todo' = {}
    BY <2>5, <1>3 DEF TodoNow
  <2>7. (iter.active)' = TRUE /\ answer' = <<"iter", "end">> /\ life' = life
    BY <2>2, <2>3 DEF Call
  <2> QED
    BY <2>4, <2>6, <2>7, <1>3 DEF Dict!Visit
<1>5. CASE e.key # None
  <2>1. e.key \in KeysOf(table) /\ e.key \in Key /\ e.bucket = (Hash[e.key] % Len(table)) + 1
    BY <1>5, ElementIs
  <2>2. Call(t, <<"iter", "ok", e.key, At(e.key).value>>)
        /\ iter' = [i EXCEPT !.bucket = e.bucket, !.elmt = After(e.key)]
    BY <1>1, <1>5 DEF MapNextSet
  <2>3. \A c \in DOMAIN table : \A n \in DOMAIN table[c] :
          table[c][n].key \in from
            <=> c > e.bucket \/ (c = e.bucket /\ n >= FindIn(table, e.key))
    BY <1>5, TodoFromElement
  <2> HIDE DEF e
  <2>4. iter'.active = TRUE /\ iter'.bucket = e.bucket /\ iter'.elmt = After(e.key)
    BY <2>2, <1>1
  <2>5. /\ e.bucket \in DOMAIN table
        /\ iter'.elmt # None => iter'.elmt \in KeysOf(table)
        /\ TodoOf(table, iter') \subseteq KeysOf(table)
        /\ \A c \in DOMAIN table : \A n \in DOMAIN table[c] :
             table[c][n].key \in TodoOf(table, iter')
               <=> c > e.bucket \/ (c = e.bucket /\ n > FindIn(table, e.key))
    <3> DEFINE it == iter'
    <3>1. it.elmt = After(e.key) /\ it.bucket = (Hash[e.key] % Len(table)) + 1 /\ it.bucket = e.bucket
      BY <2>1, <2>4
    <3> HIDE DEF it
    <3>2. /\ it.bucket \in DOMAIN table
          /\ it.elmt # None => it.elmt \in KeysOf(table)
          /\ TodoOf(table, it) \subseteq KeysOf(table)
          /\ \A c \in DOMAIN table : \A n \in DOMAIN table[c] :
               table[c][n].key \in TodoOf(table, it)
                 <=> c > it.bucket \/ (c = it.bucket /\ n > FindIn(table, e.key))
      BY <2>1, <3>1, TodoAfter
    <3> QED
      BY <3>1, <3>2 DEF it
  <2>6. Todo' = TodoOf(table, iter')
    BY <2>4, <2>5, <1>3 DEF TodoNow
  <2>7. FindIn(table, e.key) \in DOMAIN table[e.bucket] /\ table[e.bucket][FindIn(table, e.key)].key = e.key
    BY <2>1, <1>2, FindsKeys
  <2>8. e.key \in from /\ from \subseteq KeysOf(table)
    BY <2>3, <2>5, <2>7, <1>2, StandingTodo
  <2>9. \A k \in KeysOf(table) : k \in TodoOf(table, iter') <=> k \in from /\ k # e.key
    <3> TAKE k \in KeysOf(table)
    <3>1. PICK c \in DOMAIN table : \E n \in DOMAIN table[c] : k = table[c][n].key
      BY KeysAtPlaces
    <3>2. PICK n \in DOMAIN table[c] : k = table[c][n].key
      BY <3>1
    <3>3. k = e.key <=> c = e.bucket /\ n = FindIn(table, e.key)
      BY <3>2, <2>1, <2>7, <1>2, FindsPlace
    <3>4. n \in 1..Len(table[c]) /\ (c = e.bucket => FindIn(table, e.key) \in 1..Len(table[c]))
      BY <2>7, <1>2
    <3>5. c = e.bucket => (n > FindIn(table, e.key) <=> n >= FindIn(table, e.key) /\ n # FindIn(table, e.key))
      BY <3>4
    <3>6. c > e.bucket => c # e.bucket
      BY <2>5, <1>2
    <3> QED
      BY <3>2, <3>3, <3>5, <3>6, <2>3, <2>5
  <2>10. Todo' = from \ {e.key}
    BY <2>5, <2>6, <2>8, <2>9
  <2>11. At(e.key).value = Kept[e.key]
    BY <2>1, FindIsFindIn, MappingNow
  <2>12. /\ answer' = <<"iter", "ok", e.key, Kept[e.key]>> /\ (iter.active)' = TRUE /\ life' = life
    BY <2>2, <2>4, <2>11 DEF Call
  <2> HIDE DEF from
  <2>13. \E k \in from : answer' = <<"iter", "ok", k, Kept[k]>> /\ Todo' = from \ {k}
    BY <2>8, <2>10, <2>12
  <2> QED
    BY <2>12, <2>13, <1>3 DEF Dict!Visit, from
<1> QED
  BY <1>4, <1>5

(* ruMapFirstSet sees all keys. *)
LEMMA StartSeesAll == ASSUME Inv PROVE TodoOf(table, Start) = DOMAIN Kept
<1>1. /\ WellFiled(table) /\ Start.bucket = 0 /\ Start.elmt = None
      /\ DOMAIN Kept = KeysOf(table) /\ DOMAIN table = 1..Len(table) /\ Len(table) \in Nat
  BY MappingNow, DictDomain, TableShape DEF Inv, WellFiled, Start
<1>2. /\ TodoOf(table, Start) \subseteq KeysOf(table)
      /\ \A c \in DOMAIN table : \A n \in DOMAIN table[c] :
           table[c][n].key \in TodoOf(table, Start) <=> c > 0
  BY <1>1, TodoPlaces
<1>3. ASSUME NEW k \in KeysOf(table) PROVE k \in TodoOf(table, Start)
  <2>1. PICK c \in DOMAIN table : \E n \in DOMAIN table[c] : k = table[c][n].key
    BY KeysAtPlaces
  <2>2. c > 0
    BY <1>1
  <2> QED
    BY <2>1, <2>2, <1>2
<1> QED
  BY <1>1, <1>2, <1>3

(* ruMapFirstSet and ruMapNextSet. *)
LEMMA FirstIs ==
    ASSUME Inv, Inv', NEW t \in Thread, FirstSet(t)
    PROVE  Dict!First
<1>1. Dict!Visit(TodoOf(table, Start))
  BY StartStands, VisitIs DEF FirstSet
<1> QED
  BY <1>1, StartSeesAll DEF Dict!First

(* ruMapNextSet goes on, or has no iteration to go on with. *)
LEMMA FollowingIs ==
    ASSUME Inv, Inv', NEW t \in Thread, NextSet(t)
    PROVE  Dict!Following \/ Dict!NotIterating
<1>1. ~Dangling /\ MapNextSet(t, iter)
  BY DEF NextSet
<1>2. CASE iter.active
  <2>1. Standing(iter)
    BY <1>1, <1>2, IteratorStands
  <2>2. Dict!Visit(TodoOf(table, iter))
    BY <1>1, <2>1, VisitIs
  <2>3. Todo = TodoOf(table, iter)
    BY <1>2, <2>1, MappingNow DEF Standing, TodoNow
  <2> QED
    BY <1>2, <2>2, <2>3 DEF Dict!Following
<1>3. CASE ~iter.active
  <2>1. answer' = <<"iter", "state">> /\ life' = life /\ table' = table /\ iter' = iter
    BY <1>1, <1>3 DEF MapNextSet, Call
  <2>2. Kept' = Kept /\ Todo' = Todo
    BY <2>1, MappingNow, MappingNext
  <2> QED
    BY <1>3, <2>1, <2>2 DEF Dict!NotIterating, Dict!Read
<1> QED
  BY <1>2, <1>3

(* ruMapKeyList leaves nothing to visit. *)
LEMMA KeysIs ==
    ASSUME Inv, Inv', NEW t \in Thread, KeyList(t)
    PROVE  Dict!Keys
<1>1. /\ table' = table /\ life' = life /\ answer' = <<"keys", {e.key : e \in Entries}>>
      /\ iter' = [active |-> TRUE, bucket |-> Len(table), elmt |-> None]
  BY DEF KeyList, Call, Start
<1>2. Kept' = Kept /\ Todo' = TodoNow(table, iter') /\ DOMAIN Kept = KeysOf(table)
  BY <1>1, MappingNow, MappingNext, DictDomain
<1>3. Entries = Contents(table)
  BY DEF Entries, Contents
<1>4. answer' = <<"keys", DOMAIN Kept>>
  BY <1>1, <1>2, <1>3 DEF KeysOf
<1>5. TodoOf(table, iter') = {}
  <2>1. WellFiled(table) /\ DOMAIN table = 1..Len(table) /\ Len(table) \in Nat
    BY TableShape DEF Inv, WellFiled
  <2>2. \A c \in DOMAIN table : ~(c > Len(table))
    BY <2>1
  <2>3. iter'.bucket = Len(table) /\ iter'.elmt = None
    BY <1>1
  <2> QED
    BY <2>1, <2>2, <2>3, NoneLeft
<1>6. Todo' = {}
  BY <1>2, <1>5 DEF TodoNow
<1>7. (iter.active)' = TRUE
  BY <1>1
<1> QED
  BY <1>1, <1>2, <1>4, <1>6, <1>7 DEF Dict!Keys

(* ruMapRemoveAll leaves nothing to visit, but lets the iteration stay on. *)
LEMMA ClearIs ==
    ASSUME Inv, Inv', NEW t \in Thread, RemoveAll(t)
    PROVE  Dict!Clear
<1>1. answer' = <<"clear">> /\ life' = life /\ iter' = iter
  BY DEF RemoveAll, Call
<1>2. Contents(table') = {} /\ Len(table') = Len(table) /\ WellFiled(table') /\ WellFiled(table)
  BY RemoveAllKeeps DEF Inv
<1>3. Kept' = <<>>
  BY <1>2, MappingNext, DictEmpty
<1>4. KeysOf(table') = {}
  BY <1>2 DEF KeysOf
<1>5. TodoNow(table', iter) = {}
  <2>1. CASE iter.active /\ iter.elmt = None
    <3>1. iter.bucket \in Nat
      BY <1>2, TableShape DEF Inv, TypeOK, WellFiled
    <3>2. TodoOf(table', iter) \subseteq KeysOf(table')
      BY <1>2, <2>1, <3>1, TodoPlaces
    <3> QED
      BY <3>2, <1>4 DEF TodoNow
  <2>2. CASE ~(iter.active /\ iter.elmt = None)
    BY <2>2, <1>4 DEF TodoNow
  <2> QED
    BY <2>1, <2>2
<1>6. Todo' = {}
  BY <1>1, <1>5, MappingNext
<1> QED
  BY <1>1, <1>3, <1>6 DEF Dict!Clear

(* The calls that only look: a key's value, whether it is there, the count. *)
LEMMA LookIs ==
    ASSUME Inv, Inv', NEW t \in Thread
    PROVE  /\ MapSize(t) => Dict!Size
           /\ \A k \in Key : /\ GetValue(t, k) => Dict!Get(k)
                             /\ HasKey(t, k) => Dict!Has(k)
<1>1. ASSUME UNCHANGED <<table, iter, life>> PROVE Dict!Read
  <2>1. Kept' = Kept /\ Todo' = Todo
    BY <1>1, MappingNow, MappingNext
  <2> QED
    BY <1>1, <2>1 DEF Dict!Read
<1>2. ASSUME MapSize(t) PROVE Dict!Size
  <2>1. answer' = <<"size", size>> /\ UNCHANGED <<table, iter, life>>
    BY <1>2 DEF MapSize, Call
  <2>2. size = Cardinality(DOMAIN Kept)
    BY MappingNow, DictDomain DEF Inv
  <2>3. Dict!Read
    BY <2>1, <1>1
  <2>4. answer' = <<"size", Cardinality(DOMAIN Kept)>>
    BY <2>1, <2>2
  <2>5. Dict!Cardinality(DOMAIN Kept) = Cardinality(DOMAIN Kept)
    BY DEF Dict!Cardinality, Cardinality
  <2> QED
    BY <2>3, <2>4, <2>5, Zenon DEF Dict!Size
<1>3. ASSUME NEW k \in Key, GetValue(t, k) PROVE Dict!Get(k)
  <2>1. /\ answer' = IF Find(k) # 0 THEN <<"get", "ok", At(k).value>> ELSE <<"get", "none">>
        /\ UNCHANGED <<table, iter, life>>
    BY <1>3 DEF GetValue, Call
  <2>2. /\ Find(k) # 0 <=> k \in DOMAIN Kept
        /\ Find(k) # 0 => At(k).value = Kept[k]
    BY MappingNow
  <2> QED
    BY <2>1, <2>2, <1>1 DEF Dict!Get, Dict!Holds
<1>4. ASSUME NEW k \in Key, HasKey(t, k) PROVE Dict!Has(k)
  <2>1. answer' = <<"has", Find(k) # 0>> /\ UNCHANGED <<table, iter, life>>
    BY <1>4 DEF HasKey, Call
  <2>2. (Find(k) # 0) = (k \in DOMAIN Kept)
    BY MappingNow
  <2> QED
    BY <2>1, <2>2, <1>1, Zenon DEF Dict!Has, Dict!Holds
<1> QED
  BY <1>2, <1>3, <1>4

(* A step that is no call: the map is closed, a call is turned away, or nothing
   that the dictionary speaks of changes. *)
LEMMA OthersAre ==
    ASSUME Inv, Inv',
           \/ \E t \in Thread : Begin(t) \/ Abort(t) \/ HasNothing(t) \/ Undefined(t)
           \/ Quit \/ Free
           \/ UNCHANGED vars
    PROVE  Dict!Close \/ Dict!Refuse \/ Dict!Deny \/ UNCHANGED Dict!dictVars
<1>1. table' = table /\ iter' = iter
  BY DEF Begin, Abort, HasNothing, TurnedAway, Undefined, Quit, Free, vars
<1>2. Kept' = Kept /\ Todo' = Todo
  BY <1>1, MappingNow, MappingNext
<1>3. CASE (\E t \in Thread : Begin(t) \/ Undefined(t)) \/ Free \/ UNCHANGED vars
  <2>1. (life = "open")' = (life = "open") /\ answer' = answer
    BY <1>3 DEF Begin, Undefined, Free, vars
  <2> QED
    BY <1>1, <1>2, <2>1 DEF Dict!dictVars
<1>4. CASE \E t \in Thread : Abort(t)
  <2>1. life # "open" /\ life' = life /\ answer' = <<"abort">>
    BY <1>4 DEF Abort, TurnedAway
  <2> QED
    BY <1>1, <1>2, <2>1 DEF Dict!Refuse, Dict!Read
<1>5. CASE \E t \in Thread : HasNothing(t)
  <2>1. life # "open" /\ life' = life /\ answer' = <<"has", FALSE>>
    BY <1>5 DEF HasNothing, TurnedAway
  <2> QED
    BY <1>1, <1>2, <2>1 DEF Dict!Deny, Dict!Read
<1>6. CASE Quit
  <2>1. life' = "quit" /\ answer' = answer
    BY <1>6 DEF Quit
  <2> QED
    BY <1>1, <1>2, <2>1 DEF Dict!Close
<1> QED
  BY <1>3, <1>4, <1>5, <1>6

(* A new map is an empty dictionary. *)
LEMMA DictStart == Init => Dict!DictInit
<1> SUFFICES ASSUME Init PROVE Dict!DictInit
  OBVIOUS
<1>1. Inv /\ table = Buckets(FirstSize) /\ FirstSize \in Nat \ {0}
  BY InvInit, HashMapAssumption DEF Init
<1>2. Contents(table) = {}
  BY <1>1, BucketsEmpty
<1>3. Kept = <<>>
  BY <1>1, <1>2, MappingNow, DictEmpty
<1>4. iter.active = FALSE /\ life = "open" /\ answer = <<"none">>
  BY DEF Init
<1>5. Todo = {}
  BY <1>4 DEF Todo
<1> QED
  BY <1>3, <1>4, <1>5 DEF Dict!DictInit

(* Each step of the map is one of the dictionary, or changes nothing of it. *)
LEMMA DictStep == Inv /\ Inv' /\ [Next]_vars => [Dict!DictNext]_(Dict!dictVars)
<1> SUFFICES ASSUME Inv, Inv', [Next]_vars PROVE Dict!DictNext \/ UNCHANGED Dict!dictVars
  OBVIOUS
<1>1. CASE \/ \E t \in Thread : Begin(t) \/ Abort(t) \/ HasNothing(t) \/ Undefined(t)
           \/ Quit \/ Free
           \/ UNCHANGED vars
  BY <1>1, OthersAre DEF Dict!DictNext
<1>2. ASSUME NEW t \in Thread, MapSize(t) PROVE Dict!DictNext
  BY <1>2, LookIs DEF Dict!DictNext
<1>3. ASSUME NEW t \in Thread, FirstSet(t) PROVE Dict!DictNext
  BY <1>3, FirstIs DEF Dict!DictNext
<1>4. ASSUME NEW t \in Thread, NextSet(t) PROVE Dict!DictNext
  BY <1>4, FollowingIs DEF Dict!DictNext
<1>5. ASSUME NEW t \in Thread, KeyList(t) PROVE Dict!DictNext
  BY <1>5, KeysIs DEF Dict!DictNext
<1>6. ASSUME NEW t \in Thread, RemoveAll(t) PROVE Dict!DictNext
  BY <1>6, ClearIs DEF Dict!DictNext
<1>7. ASSUME NEW t \in Thread, NEW k \in Key, GetValue(t, k) \/ HasKey(t, k) PROVE Dict!DictNext
  BY <1>7, LookIs DEF Dict!DictNext
<1>8. ASSUME NEW t \in Thread, NEW k \in Key, NEW moving \in BOOLEAN, MapRemove(t, k, moving)
      PROVE  Dict!DictNext
  BY <1>8, RemoveIs DEF Dict!DictNext
<1>9. ASSUME NEW t \in Thread, NEW k \in Key, NEW v \in Val, NEW where \in BOOLEAN, MapPut(t, k, v, where)
      PROVE  Dict!DictNext
  <2>1. Dict!Offer(k) \/ Dict!Put(k, v)
    <3>1. /\ owner[v] # "map" /\ iter' = [iter EXCEPT !.active = FALSE]
          /\ \/ /\ Find(k) # 0 /\ Call(t, <<"put", "exists", At(k).value>>)
                /\ owner' = [owner EXCEPT ![v] = "caller"] /\ UNCHANGED <<table, size>>
             \/ Find(k) # 0 /\ Call(t, <<"put", "ok">>) /\ Replace(k, v) /\ UNCHANGED size
             \/ Find(k) = 0 /\ Call(t, <<"put", "ok">>) /\ Insert(k, v) /\ size' = size + 1
      BY <1>9, PutIs
    <3> QED
      BY <3>1, OfferIs, ReplacingPuts, InsertingPuts
  <2> QED
    BY <2>1 DEF Dict!DictNext
<1> QED
  BY <1>1, <1>2, <1>3, <1>4, <1>5, <1>6, <1>7, <1>8, <1>9 DEF Next

(* map.h: the map is a function from keys to values, whatever its hashes and
   sizes, however often it is doubled and however many threads call it; an
   iteration visits each entry once and a change ends it.  A quitting map
   refuses every call but ruMapHasKey, which denies (see Dictionary). *)
THEOREM RefinesDictHolds == Spec => RefinesDict
<1>1. Init => Dict!DictInit
  BY DictStart
<1>2. Inv /\ Inv' /\ [Next]_vars => [Dict!DictNext]_(Dict!dictVars)
  BY DictStep
<1> QED
  BY <1>1, <1>2, InvHolds, PTL DEF Spec, RefinesDict, Dict!DictSpec
=============================================================================
