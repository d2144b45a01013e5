------------------------------ MODULE Unicode ------------------------------
(***************************************************************************)
(* The conversions of lib/icu.cpp and the regular expressions of           *)
(* lib/regex.c.  What ICU itself does is not this library's: the tables of *)
(* cases and of normal forms and the search for a pattern are stand-ins    *)
(* with the cases the callers distinguish.  A C string is the sequence of  *)
(* its characters here, a text of UTF-16 that of its units.                *)
(***************************************************************************)
EXTENDS Strings, FiniteSets

NoString == <<-1>>
NoGroups == <<NoString>>

---------------------------------------------------------------------------
(* ICU.  It tells a result that does not fit (overflow) from one that fits *)
(* without its terminator (a warning).                                     *)

Units(c) ==
  IF c < 65536 THEN <<c>>
  ELSE <<55296 + (c - 65536) \div 1024, 56320 + ((c - 65536) % 1024)>>
Bytes(c) == IF c < 128 THEN 1 ELSE IF c < 2048 THEN 2 ELSE IF c < 65536 THEN 3 ELSE 4
ToUnits(s) == FlattenSeq([i \in DOMAIN s |-> Units(s[i])])
RECURSIVE FromUnits(_)
FromUnits(u) ==
  IF u = << >> THEN << >>
  ELSE IF u[1] \in 55296..56319 /\ Len(u) > 1
       THEN <<65536 + (u[1] - 55296) * 1024 + u[2] - 56320>> \o FromUnits(From(u, 3))
       ELSE <<u[1]>> \o FromUnits(Tail(u))
ByteLen(s) == FoldLeft(LAMBDA n, c : n + Bytes(c), 0, s)

Cased(c, isUpper) ==
  CASE isUpper /\ c \in Lower -> <<c - 32>>
    [] isUpper /\ c = 223 -> <<83, 83>>     \* sharp s
    [] isUpper /\ c = 329 -> <<700, 78>>    \* n preceded by an apostrophe
    [] ~isUpper /\ c \in Upper -> <<c + 32>>
    [] OTHER -> <<c>>
Cases(s, isUpper) == FlattenSeq([i \in DOMAIN s |-> Cased(s[i], isUpper)])
\* An a with a diaeresis, in one character or in two.
Decomposed(s) == FlattenSeq([i \in DOMAIN s |-> IF s[i] = 228 THEN <<97, 776>> ELSE <<s[i]>>])
RECURSIVE Composed(_)
Composed(s) ==
  IF s = << >> THEN << >>
  ELSE IF Len(s) > 1 /\ s[1] = 97 /\ s[2] = 776 THEN <<228>> \o Composed(From(s, 3))
  ELSE <<s[1]>> \o Composed(Tail(s))

Fit(needed, capacity) ==
  IF needed > capacity THEN "overflow" ELSE IF needed = capacity THEN "warning" ELSE "ok"

---------------------------------------------------------------------------
(* lib/icu.cpp                                                             *)

convToUni(s) == IF s = NoString THEN NoString ELSE ToUnits(s)
\* bytelen below 0 is up to the terminator; a terminator at the end is left out.
\* With no byte the unit before the text decides, whatever it is: the result
\* is then empty or all of the text.
convToStr(u, bytelen) ==
  LET n == bytelen \div 2
  IN CASE bytelen < 0 -> {FromUnits(u)}
       [] bytelen \in {0, 1} -> {<< >>, FromUnits(u)}
       [] OTHER -> {FromUnits(Slice(u, 1, IF At(u, n) = 0 THEN n - 1 ELSE n))}

\* The second buffer has room for slen units whatever is needed.
uniSwitchCase(u, isUpper) ==
  LET out == ToUnits(Cases(FromUnits(u), isUpper))
  IN [out |-> out, overrun |-> Fit(Len(out), Len(u) + 1) # "ok"]

\* A result as long as the first buffer has no terminator.
utf8SwitchCase(s, isUpper) ==
  LET out == Cases(s, isUpper)
  IN [out |-> out, unterminated |-> Fit(ByteLen(out), ByteLen(s) + 1) = "warning"]

ruStrToUtf16(s) == convToUni(s)
ruStrFromUtf16(u) == CHOOSE s \in convToStr(u, -1) : TRUE
ruStrFromNUtf16(u, bytelen) == convToStr(u, bytelen)

Nfc == 1
Nfd == 2
ToLower == 1
ToUpper == 2
\* An empty text needs no room, which is taken for a failure.
ruUtf8CaseNormalize(s, normMode, caseMode) ==
  LET fails == [out |-> NoString, overrun |-> FALSE]
      normal == CASE normMode = Nfc -> Composed(s) [] normMode = Nfd -> Decomposed(s) [] OTHER -> s
      cased == uniSwitchCase(ToUnits(normal), caseMode = ToUpper)
  IN CASE s = NoString \/ normMode \notin {0, Nfc, Nfd} \/ (normMode # 0 /\ s = << >>) -> fails
       [] s # NoString /\ normMode \in {0, Nfc, Nfd} /\ (normMode = 0 \/ s # << >>) ->
            IF caseMode = 0 THEN [fails EXCEPT !.out = normal]
            ELSE IF caseMode \in {ToLower, ToUpper}
                 THEN [out |-> FromUnits(cased.out), overrun |-> cased.overrun]
                 ELSE fails
ruStrFromNfd(s) == ruUtf8CaseNormalize(s, Nfc, 0)
ruStrToNfd(s) == ruUtf8CaseNormalize(s, Nfd, 0)

---------------------------------------------------------------------------
(* lib/regex.c.  A pattern is some characters and, in a group, some that   *)
(* may follow: lit(opt)?                                                   *)

\* The groups of the match at place i, the whole match first.
Groups(re, s, i) ==
  LET more == re.opt # << >> /\ ruStrStartsWith(From(s, i + Len(re.lit)), re.opt)
  IN <<IF more THEN re.lit \o re.opt ELSE re.lit>> \o
     IF re.opt = << >> THEN << >> ELSE IF more THEN <<re.opt>> ELSE << << >> >>
uregex_find(re, s) ==
  LET at == {i \in 1..(Len(s) + 1) : ruStrStartsWith(From(s, i), re.lit)}
  IN IF at = {} THEN << >> ELSE Groups(re, s, LeastOf(at))
uregex_matches(re, s) ==
  IF ruStrStartsWith(s, re.lit) /\ Groups(re, s, 1)[1] = s THEN Groups(re, s, 1) ELSE << >>
RECURSIVE uregex_replaceAll(_, _, _)
uregex_replaceAll(re, s, with) ==
  IF s = << >> THEN << >>
  ELSE IF ruStrStartsWith(s, re.lit)
       THEN with \o uregex_replaceAll(re, From(s, Len(Groups(re, s, 1)[1]) + 1), with)
       ELSE <<s[1]>> \o uregex_replaceAll(re, Tail(s), with)

\* A call's result, the locks it took and the releases it made.
Answer(ret, out, locks, unlocks) == [ret |-> ret, out |-> out, locks |-> locks, unlocks |-> unlocks]

ruRegexNew(lit, opt) ==
  IF lit \o opt = << >> THEN [ret |-> RUE_INVALID_PARAMETER, re |-> NoString]
  ELSE [ret |-> RUE_OK, re |-> [lit |-> lit, opt |-> opt]]

\* fault is the use of the NULL buffer that a replacement to nothing leaves.
ruRegexReplace(re, s, with) ==
  LET out == uregex_replaceAll(re, s, with)
  IN CASE NoString \in {s, with} -> [fault |-> FALSE, r |-> Answer(RUE_PARAMETER_NOT_SET, NoString, 0, 0)]
       [] s = << >> /\ with # NoString -> [fault |-> FALSE, r |-> Answer(RUE_OK, << >>, 0, 0)]
       [] OTHER -> [fault |-> out = << >>, r |-> Answer(RUE_OK, out, 1, 1)]

\* The groups up to one that is empty, which is an error.
ruRegexSearch(re, s, fully) ==
  LET groups == IF fully THEN uregex_matches(re, s) ELSE uregex_find(re, s)
  IN IF s = NoString THEN [does |-> FALSE, wanted |-> Answer(RUE_PARAMETER_NOT_SET, << >>, 0, 0)]
     ELSE [does |-> groups # << >>,
           wanted |-> Answer(IF << >> \in {groups[i] : i \in DOMAIN groups} THEN RUE_GENERAL ELSE RUE_OK,
                             groups, 1, 1)]
ruRegexMatch(re, s) == ruRegexSearch(re, s, TRUE).does
ruRegexFind(re, s) == ruRegexSearch(re, s, FALSE).does
FoundGroups(r) ==
  IF r.does /\ r.wanted.ret = RUE_OK THEN r.wanted ELSE [r.wanted EXCEPT !.out = NoGroups]
ruRegexMatchGroups(re, s) == FoundGroups(ruRegexSearch(re, s, TRUE))
ruRegexFindGroups(re, s) == FoundGroups(ruRegexSearch(re, s, FALSE))
===========================================================================
