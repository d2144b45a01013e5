------------------------------- MODULE Values -------------------------------
(***************************************************************************)
(* The types of lib/types.c, which say how a list or a map keeps a value   *)
(* (in), gives it back (out), compares, matches and hashes it; and the     *)
(* operations of lib/list.c that look at a whole list and take no turns    *)
(* with other threads.  A number is kept in the bits of a pointer, but an  *)
(* int64, which is kept on the heap.                                       *)
(***************************************************************************)
EXTENDS Strings, FiniteSets, Bitwise

\* The bits below the sign, fewer than the code's so that TLC can go through
\* all of them; a pointer, a long and an int64 have PtrBits.
PtrBits == 4
Numbers(bits) == (-(2^bits))..(2^bits - 1)
Cast(p, bits) == Wrapped(p % 2^(bits + 1), bits)
Unsigned(n) == n % 2^(PtrBits + 1)
Order(a, b) == IF a = b THEN 0 ELSE IF a > b THEN 1 ELSE -1
Texts == UNION {[1..n -> {97, 98, 99}] : n \in 0..2}

\* 28 bits of hash: the four bits pushed out come back in bits 4 to 7.
ruStrHash(s) ==
  FoldLeft(LAMBDA val, c :
             LET shifted == (val % 2^24) * 16 + c
                 top == (val \div 2^24 + shifted \div 2^28) % 16
             IN (shifted % 2^28) ^^ (top * 16),
           0, s)

\* A type is its functions: in and out of what is kept, and a key's hash and
\* match with a kept one as it is given; comp compares kept ones.  It frees
\* what is kept or does not, and clones what is put in or keeps that itself.
typeSpec(in, out, hash, match, comp, clones, frees) ==
  [in |-> in, out |-> out, hash |-> hash, match |-> match, comp |-> comp,
   clones |-> clones, frees |-> frees]

Ptrs == Numbers(PtrBits)
Itself(S) == [v \in S |-> v]
Hashed(S) == [k \in S |-> Unsigned(k)]
Ordered(Out) == [p, q \in Ptrs |-> Order(Out[p], Out[q])]

IntSpec(bits, heaped) ==
  LET Out == [p \in Ptrs |-> Cast(p, bits)]
  IN typeSpec(Itself(Numbers(bits)), Out, Hashed(Numbers(bits)),
              [k \in Numbers(bits), p \in Ptrs |-> k = Out[p]], Ordered(Out), heaped, heaped)
int64Spec == IntSpec(PtrBits, TRUE)
longSpec == IntSpec(PtrBits, FALSE)
int32Spec == IntSpec(3, FALSE)
int16Spec == IntSpec(2, FALSE)
int8Spec == IntSpec(1, FALSE)
boolSpec ==
  LET In == [b \in BOOLEAN |-> IF b THEN 1 ELSE 0]
      Out == [p \in Ptrs |-> p # 0]
  IN typeSpec(In, Out, In, [k \in BOOLEAN, p \in Ptrs |-> k = Out[p]],
              Ordered([p \in Ptrs |-> In[Out[p]]]), FALSE, FALSE)
\* A pointer is kept as it is, and the caller's function frees it.
ruTypePtr(frees) ==
  typeSpec(Itself(Ptrs), Itself(Ptrs), Hashed(Ptrs), [k, p \in Ptrs |-> k = p],
           Ordered(Itself(Ptrs)), FALSE, frees)
strSpec(clones, frees) ==
  typeSpec(Itself(Texts), Itself(Texts), [s \in Texts |-> ruStrHash(s)],
           [k, p \in Texts |-> ruStrCmp(k, p) = 0], [p, q \in Texts |-> ruStrCmp(p, q)], clones, frees)
Types ==
  [int64 |-> int64Spec, long |-> longSpec, int32 |-> int32Spec, int16 |-> int16Spec,
   int8 |-> int8Spec, bool |-> boolSpec, ptr |-> ruTypePtr(FALSE), ptrOwn |-> ruTypePtr(TRUE),
   strRef |-> strSpec(FALSE, FALSE), strDup |-> strSpec(TRUE, TRUE), strFree |-> strSpec(FALSE, TRUE)]

---------------------------------------------------------------------------
(* Lists: the type and the data kept, in order                             *)

ListNewType(t) == [t |-> t, data |-> << >>]
ruListAppend(l, v) == [l EXCEPT !.data = Append(@, Types[l.t].in[v])]

\* The place of an index, which counts from the end when negative; 0 if none.
ListIndex(l, index) ==
  LET n == Len(l.data)
  IN IF index < 0 THEN IF -index > n THEN 0 ELSE n + 1 + index
     ELSE IF index >= n THEN 0 ELSE index + 1

ruListIdxDataTo(l, index) ==
  LET i == ListIndex(l, index)
  IN IF i = 0 THEN [ret |-> RUE_INVALID_PARAMETER, out |-> << >>]
     ELSE [ret |-> RUE_OK, out |-> <<Types[l.t].out[l.data[i]]>>]

\* An iterator is a place: 0 at the head, NoElmt once it is past the tail.
NoElmt == -1
ruListHead == 0
ruListTail(l) == Len(l.data)
ruListElmtIsHead(at) == at = 0
ruListElmtIsTail(l, at) == at = Len(l.data)
ruListNextElmt(l, at) == IF at < Len(l.data) THEN at + 1 ELSE NoElmt
ruListNextDataTo(l, at) ==
  LET next == ruListNextElmt(l, at)
  IN [at |-> next, out |-> IF next = NoElmt THEN << >> ELSE <<Types[l.t].out[l.data[next]]>>]

RECURSIVE Iterated(_, _)
Iterated(l, at) ==
  LET r == ruListNextDataTo(l, at)
  IN IF r.at = NoElmt THEN << >> ELSE r.out \o Iterated(l, r.at)

ruListJoin(l, delim) ==
  FoldLeft(LAMBDA s, i : s \o (IF i = 1 THEN << >> ELSE delim) \o l.data[i], << >>,
           [i \in DOMAIN l.data |-> i])

\* A stable sort; a type that compares nothing is refused.
ruListSort(l) ==
  IF l.t = "ptrFree" THEN [ret |-> RUE_PARAMETER_NOT_SET, l |-> l]
  ELSE LET Before(i, j) == LET c == Types[l.t].comp[l.data[i], l.data[j]] IN c < 0 \/ (c = 0 /\ i < j)
           Rank(i) == Cardinality({j \in DOMAIN l.data : Before(j, i)}) + 1
       IN [ret |-> RUE_OK,
           l |-> [l EXCEPT !.data = [r \in DOMAIN l.data |->
                    l.data[CHOOSE i \in DOMAIN l.data : Rank(i) = r]]]]
===========================================================================
