------------------------------ MODULE Strings ------------------------------
(***************************************************************************)
(* The functions on C strings of lib/string.c.  A string is the sequence   *)
(* of its bytes without the terminator, a byte its code; a pointer into a  *)
(* string is an index, 0 where the code has NULL.  Where the code returns  *)
(* either its argument or a copy the value is the same and so is the model.*)
(* The variants that ignore case compare the strings in lower case.  NULL  *)
(* arguments, which each function rejects, are left out.                   *)
(***************************************************************************)
EXTENDS Integers, Sequences, SequencesExt

RUE_OK == 0
RUE_GENERAL == 99
RUE_PARAMETER_NOT_SET == 64
RUE_INVALID_PARAMETER == 77
RUE_OVERFLOW == 96
RUE_FILE_EXISTS == 324
RUE_FILE_NOT_FOUND == 60
RUE_WRONG_PARAMETER_LENGTH == 71

Blanks == {32, 10, 13, 9}            \* what the parsers skip
IsSpace(c) == c = 32 \/ c \in 9..13  \* isspace
Digit == 48..57
Upper == 65..90
Lower == 97..122

At(s, i) == IF i \in DOMAIN s THEN s[i] ELSE 0
Slice(s, a, b) == SubSeq(s, a, IF b < Len(s) THEN b ELSE Len(s))
From(s, i) == Slice(s, i, Len(s))
LeastOf(S) == CHOOSE i \in S : \A j \in S : i <= j
MostOf(S) == CHOOSE i \in S : \A j \in S : j <= i
\* The first place from i on whose byte is not in S; one past the end if none.
SkipSet(s, i, S) ==
  LeastOf({j \in i..(Len(s) + 1) : j = Len(s) + 1 \/ s[j] \notin S})

---------------------------------------------------------------------------
(* Case and comparison                                                     *)

ruAsciiCharToLower(c) == IF c \in Upper THEN c + 32 ELSE c
ruAsciiCharToUpper(c) == IF c \in Lower THEN c - 32 ELSE c
caseThis(s, len, up) ==
  LET t == IF len = 0 THEN s ELSE Slice(s, 1, len)
  IN [i \in DOMAIN t |-> IF up THEN ruAsciiCharToUpper(t[i]) ELSE ruAsciiCharToLower(t[i])]
ruAsciiToLower(s) == caseThis(s, 0, FALSE)

RECURSIVE StrCmpFrom(_, _, _)
StrCmpFrom(s, t, i) ==
  CASE At(s, i) < At(t, i) -> -1
    [] At(s, i) > At(t, i) -> 1
    [] OTHER -> IF i > Len(s) THEN 0 ELSE StrCmpFrom(s, t, i + 1)
ruStrCmp(s, t) == StrCmpFrom(s, t, 1)
ruStrCaseCmp(s, t) == StrCmpFrom(ruAsciiToLower(s), ruAsciiToLower(t), 1)

ruStrEmpty(s) == \A i \in DOMAIN s : IsSpace(s[i])
ruStrStartsWith(s, prefix) == Slice(s, 1, Len(prefix)) = prefix
ruStrCaseStartsWith(s, prefix) == ruStrStartsWith(ruAsciiToLower(s), ruAsciiToLower(prefix))
ruStrEndsWith(s, suffix) ==
  Len(s) >= Len(suffix) /\ From(s, Len(s) - Len(suffix) + 1) = suffix
ruStrCaseEndsWith(s, suffix) == ruStrEndsWith(ruAsciiToLower(s), ruAsciiToLower(suffix))

---------------------------------------------------------------------------
(* Searching and splitting                                                 *)

\* len bounds the haystack where it is positive and shorter.
Hay(s, len) == IF len > 0 THEN Slice(s, 1, len) ELSE s
Places(s, needle, len) ==
  {i \in 1..(Len(Hay(s, len)) - Len(needle) + 1) : ruStrStartsWith(From(s, i), needle)}

ruStrStrLen(s, needle, len) ==
  IF needle = << >> THEN 1
  ELSE IF Places(s, needle, len) = {} THEN 0 ELSE LeastOf(Places(s, needle, len))
ruStrCaseStrLen(s, needle, len) == ruStrStrLen(ruAsciiToLower(s), ruAsciiToLower(needle), len)
ruLastSubStrLen(s, needle, len) ==
  IF needle = << >> THEN 1
  ELSE IF Places(s, needle, len) = {} THEN 0 ELSE MostOf(Places(s, needle, len))
ruStrNEquals(s, len, t) == len = 0 \/ ruStrStrLen(s, t, len) = 1

\* strstr looks past the length given: a delimiter that straddles it leaves a
\* last piece of negative length, which is all that follows.
RECURSIVE SplitFrom(_, _, _, _, _)
SplitFrom(s, i, past, delim, cnt) ==
  LET hit == i - 1 + ruStrStrLen(From(s, i), delim, 0)
  IN IF hit >= i /\ hit < past /\ cnt # 1
     THEN <<SubSeq(s, i, hit - 1)>> \o SplitFrom(s, hit + Len(delim), past, delim, cnt - 1)
     ELSE <<IF i > past THEN From(s, i) ELSE SubSeq(s, i, past - 1)>>
\* maxCnt below 1 sets no limit.
ruStrNSplit(s, inlen, delim, maxCnt) ==
  IF inlen = 0 \/ delim = << >> THEN << >>
  ELSE SplitFrom(s, 1, inlen + 1, delim, IF maxCnt < 1 THEN 0 ELSE maxCnt)

\* An empty search string, which the code never gets past, is not asked for.
RECURSIVE ruStrReplace(_, _, _)
ruStrReplace(s, search, replace) ==
  IF s = << >> THEN << >>
  ELSE IF ruStrStartsWith(s, search)
       THEN replace \o ruStrReplace(From(s, Len(search) + 1), search, replace)
       ELSE <<s[1]>> \o ruStrReplace(Tail(s), search, replace)

ruStrByteReplace(s, search, replace) ==
  [i \in DOMAIN s |-> IF s[i] = search THEN replace ELSE s[i]]

---------------------------------------------------------------------------
(* Stripping and trimming                                                  *)

Spaces == {32} \cup 9..13

\* unwanted is a set of bytes; Spaces stands for a NULL argument.
ruStrStrip(s, unwanted) == SelectSeq(s, LAMBDA c : c \notin unwanted)

\* Each end stops at the other: one byte is left of a string of unwanted ones.
ruStrTrim(s, unwanted, atStart, atEnd) ==
  LET keep == {i \in DOMAIN s : s[i] \notin unwanted}
      last == IF atEnd THEN MostOf(keep \cup {1}) ELSE Len(s)
      first == IF atStart THEN LeastOf({i \in keep : i <= last} \cup {last}) ELSE 1
  IN IF s = << >> THEN s ELSE SubSeq(s, first, last)

\* Mutant: the last byte is left out.
ruStrTrimBounds_Short(s, start, len) ==
  LET keep == {i \in start..(start + len - 1) : ~IsSpace(s[i])}
  IN IF keep = {} THEN [start |-> 0, len |-> 0]
     ELSE [start |-> LeastOf(keep), len |-> MostOf(keep) - LeastOf(keep)]

\* The part of s from place start, len bytes long, without blanks around it:
\* its place and its length.
ruStrTrimBounds(s, start, len) ==
  LET keep == {i \in start..(start + len - 1) : ~IsSpace(s[i])}
  IN IF keep = {} THEN [start |-> 0, len |-> 0]
     ELSE [start |-> LeastOf(keep), len |-> MostOf(keep) - LeastOf(keep) + 1]

ruStrFindKeyVal(s, delim) ==
  LET at == ruStrStrLen(s, delim, Len(s))
      v == at + Len(delim)
      none == [start |-> 0, len |-> 0]
  IN CASE s = << >> -> [found |-> FALSE, key |-> none, val |-> none]
       [] s # << >> /\ at = 0 ->
            [found |-> FALSE, key |-> ruStrTrimBounds(s, 1, Len(s)), val |-> none]
       [] OTHER -> [found |-> TRUE, key |-> ruStrTrimBounds(s, 1, at - 1),
                    val |-> ruStrTrimBounds(s, v, Len(s) + 1 - v)]

---------------------------------------------------------------------------
(* Numbers and Booleans                                                    *)

DigitValue(c) ==
  CASE c \in Digit -> c - 48 [] c \in Upper -> c - 55 [] c \in Lower -> c - 87 [] OTHER -> 99

\* The digits from place i on, up to one that overflows.  The positive side
\* is given the limit that belongs to the negative one.
RECURSIVE ScanDigits(_, _, _, _, _, _)
ScanDigits(s, i, num, base, maxInt, negative) ==
  LET d == DigitValue(At(s, i))
      cutlim == (maxInt % base) + (IF negative THEN 0 ELSE 1)
  IN CASE d >= base -> [end |-> i, num |-> num, overflow |-> FALSE]
       [] d < base /\ (num > maxInt \div base \/ (num = maxInt \div base /\ d > cutlim)) ->
            [end |-> i, num |-> num, overflow |-> TRUE]
       [] OTHER -> ScanDigits(s, i + 1, num * base + d, base, maxInt, negative)

\* The bits of an int64_t below its sign: 63 in the code, fewer where TLC counts.
IntBits == 20

\* What the digits r from place start on give; where there are none, the 0
\* of a 0x before them is the number.
Parsed(s, start, negative, r) ==
  IF r.end # start
  THEN [ret |-> IF r.overflow THEN RUE_OVERFLOW ELSE RUE_OK, end |-> r.end,
        out |-> IF negative THEN -r.num ELSE r.num]
  ELSE [ret |-> RUE_OK, out |-> 0,
        end |-> IF start >= 3 /\ At(s, start - 1) \in {120, 88} /\ At(s, start - 2) = 48
                THEN start - 1 ELSE 1]
ParseDigits(s, start, negative, bits, base) ==
  Parsed(s, start, negative, ScanDigits(s, start, 0, base, 2^bits - 1, negative))
\* The number behind the sign; base 0 is told from its beginning.
Unsign(s, num, negative, bits, base) ==
  LET zero == At(s, num) = 48
  IN IF zero /\ base \in {0, 16} /\ At(s, num + 1) \in {120, 88}
     THEN ParseDigits(s, num + 2, negative, bits, 16)
     ELSE ParseDigits(s, num, negative, bits, IF base # 0 THEN base ELSE IF zero THEN 8 ELSE 10)

\* out, the return code and endptr of a signed integer of bits + 1 bits.
parseInteger(s, bits, base) ==
  LET ws == SkipSet(s, 1, Blanks)
      signed == At(s, ws) \in {45, 43}
  IN IF At(s, ws) = 0 THEN [ret |-> RUE_OK, out |-> 0, end |-> 1]
     ELSE Unsign(s, IF signed THEN ws + 1 ELSE ws, At(s, ws) = 45, bits, base)

\* The cast of the result to the type the caller asked for.
Wrapped(n, bits) == ((n + 2^bits) % 2^(bits + 1)) - 2^bits
ruStrParseInt(s, bits, base) ==
  [parseInteger(s, bits, base) EXCEPT !.out = Wrapped(@, bits)]
\* Mutant: what follows the number is not looked at.
ruIsInt64_Prefix(s, bits) ==
  LET Told(r) == r.ret = RUE_OK /\ r.end # 1 IN Told(parseInteger(s, bits, 10))

ruIsInt64(s, bits) ==
  LET Told(r) == r.ret = RUE_OK /\ r.end # 1 /\ At(s, r.end) = 0
  IN Told(parseInteger(s, bits, 10))

True == <<116, 114, 117, 101>>
False == <<102, 97, 108, 115, 101>>

\* A truth value that ends before place past, with the blanks that end s.
Truth(s, past, out) ==
  LET trail == SkipSet(s, past, Blanks)
  IN [ret |-> RUE_OK, end |-> IF At(s, trail) = 0 THEN trail ELSE past, out |-> out]
TruthAt(s, cur, zeros) ==
  CASE ruStrCaseStartsWith(From(s, cur), False) -> Truth(s, cur + 5, FALSE)
    [] ruStrCaseStartsWith(From(s, cur), True) -> Truth(s, cur + 4, TRUE)
    [] At(s, cur) \in {48, 49} -> IF At(s, zeros) = 49 THEN Truth(s, zeros + 1, TRUE)
                                  ELSE Truth(s, zeros, FALSE)
    [] OTHER -> [ret |-> RUE_INVALID_PARAMETER, end |-> 1, out |-> FALSE]
ruStrParseBool(s) ==
  LET cur == SkipSet(s, 1, Blanks) IN TruthAt(s, cur, SkipSet(s, cur, {48}))
ruIsBool(s) ==
  LET Told(r) == r.ret = RUE_OK /\ r.end # 1 /\ At(s, r.end) = 0 IN Told(ruStrParseBool(s))

---------------------------------------------------------------------------
(* The growing buffer: its text and the size of its memory                 *)

ruStringNewn(s, size) ==
  LET text == Slice(s, 1, size)
  IN [text |-> text, len |-> IF size <= Len(text) THEN Len(text) + 1 ELSE size]

maybeAdd(str, ilen) ==
  LET need == Len(str.text) + ilen + 1
  IN IF str.len < need THEN [str EXCEPT !.len = 2 * need] ELSE str

ruStringAppendn(str, s) == [maybeAdd(str, Len(s)) EXCEPT !.text = @ \o s]
ruStringReset(str) == [str EXCEPT !.text = << >>]
\* A suffix longer than the text but not than the memory reads before it.
ruStringEndsWith(str, suffix) ==
  str.len >= Len(suffix) /\ ruStrEndsWith(str.text, suffix)

isUnReserved(c) == c \in Digit \cup Upper \cup Lower \cup {45, 46, 95, 126}
HexDigit(n) == IF n < 10 THEN 48 + n ELSE 87 + n
UriEncoded(c) ==
  IF isUnReserved(c) THEN <<c>> ELSE <<37, HexDigit(c \div 16), HexDigit(c % 16)>>
ruStringAppendUriEncoded(str, s) ==
  FoldLeft(LAMBDA b, c : ruStringAppendn(b, UriEncoded(c)), str, s)
===========================================================================
