------------------------------- MODULE MCText -------------------------------
(***************************************************************************)
(* The functions of the library that keep no state between calls, checked  *)
(* against what they promise.  A behaviour grows a text letter by letter;  *)
(* its kind says what the text stands for: characters, calls, tags.        *)
(* The modules under check are instances, for some of their names are the  *)
(* same.                                                                   *)
(***************************************************************************)
EXTENDS Values, Ini, Paths, Calls
C == INSTANCE Cleaner
H == INSTANCE Html
J == INSTANCE Json
U == INSTANCE Unicode

VARIABLES kind, text
vars == <<kind, text>>

\* The letters of each kind, and how long its texts become.
Letters ==
  [clean |-> {97, 98, 99, 120}, number |-> {32, 45, 48, 49, 55, 120}, version |-> {48, 49, 50, 46},
   words |-> {97, 66, 47, 32}, list |-> {0, 1, 2}, ini |-> {10, 32, 91, 93, 61, 59, 97},
   key |-> {7, 97, 32, 46, 42, 95, 228}, markup |-> {38, 60, 32, 35, 59, 10}, html |-> 1..7, json |-> 1..10,
   regex |-> {97, 98}, unicode |-> {97, 65, 223, 228, 776, 329, 128512}, call |-> {49, 97, 98, 99}]
Longest ==
  [clean |-> 6, number |-> 4, version |-> 6, words |-> 5, list |-> 4, ini |-> 5, key |-> 5,
   markup |-> 5, html |-> 5, json |-> 5, regex |-> 5, unicode |-> 3, call |-> 4]

Init == kind \in DOMAIN Letters /\ text = << >>
Next ==
  /\ Len(text) < Longest[kind]
  /\ \E c \in Letters[kind] : text' = Append(text, c)
  /\ UNCHANGED kind
Spec == Init /\ [][Next]_vars

Join(pieces, delim) ==
  FoldLeft(LAMBDA s, i : s \o (IF i = 1 THEN << >> ELSE delim) \o pieces[i], << >>,
           [i \in DOMAIN pieces |-> i])

---------------------------------------------------------------------------
(* The cleaner                                                             *)

EntrySets ==
  LET e(i, o) == <<i, o>>
  IN { <<e(<<97, 98>>, <<49>>), e(<<98, 99>>, <<50>>)>>, <<e(<<97, 98>>, <<98, 97>>)>>,
       <<e(<<97, 98>>, <<49>>), e(<<97, 98, 99>>, << >>)>>, <<e(<<97, 98, 99>>, <<49>>), e(<<120>>, <<120, 120>>)>>,
       <<e(<<97, 98, 99>>, <<49>>), e(<<120, 98>>, <<50>>)>> }
Loaded(chunk, entries) ==
  FoldLeft(LAMBDA c, e : C!ruCleanAdd(c, e[1], e[2]), C!ruCleanNew(chunk), entries)

Passed(c, wanted) == c.out = wanted /\ c.ms = 0 /\ c.next = 0 /\ c.error = RUE_OK
\* A buffer no longer than the longest entry: a match of that length that fills
\* it ends the stream, as one at the start of the text does.
StopsEarly(c) ==
  LET Upto(n) == Passed(C!ruCleanIo(c, text, C!Always), C!Cleaned(c.tree, text, c.longest, n))
  IN /\ \E n \in 0..Len(text) : Upto(n)
     /\ (\E e \in C!Entries(c.tree) : Len(e) = c.longest /\ IsPrefix(e, text)) => Upto(1)
\* The pass with a writer that fails at the call after so many.
FailsRight(c, wanted, writes) ==
  LET p == C!ruCleanToWriter(c, text, 0, writes)
  IN IF p.error = RUE_OK THEN writes # 0 /\ p.out = wanted
     ELSE /\ p.error = C!RUE_CANT_WRITE
          /\ IsPrefix(p.out, wanted)
          /\ text # << >> => C!ruCleanToString(p, text, 0).ret = C!RUE_CANT_WRITE
CleansRight(c) ==
  LET wanted == C!Cleaned(c.tree, text, 0, 0)
  IN /\ C!NoRestart(c.tree) =>
          /\ Passed(C!ruCleanToWriter(c, text, 0, C!Always), wanted)
          /\ \A writes \in 0..2 : FailsRight(c, wanted, writes)
     /\ C!NoRestart(c.tree) /\ C!Whole(c.tree, text) =>
          IF c.chunk > c.longest THEN Passed(C!ruCleanIo(c, text, C!Always), wanted)
          ELSE StopsEarly(c)
     /\ text # << >> /\ (\A e \in C!Entries(c.tree) : ~IsPrefix(e, text)) =>
          C!DumpEntry(C!ruCleanRemove(C!ruCleanAdd(c, text, <<1>>), text).tree)
            = C!DumpEntry(c.tree)

\* Cleaning (ruCleanToWriter, ruCleanIo) replaces, from the left, the longest
\* entry that starts at each place and leaves the rest alone, where a failed
\* partial match hides no entry, and ends with no pointer into the text.  Read
\* through a buffer it does the same wherever the reads cut a text of whole
\* entries, if the buffer is longer than every entry.  In one just as long as
\* the longest entry a match that fills it ends the stream, and the rest is lost
\* (cleaner.c:329-334, 388-391), though cleaner.h:117-119 has the buffer grow to
\* that size and no more.  A writer that fails ends the pass with RUE_CANT_WRITE
\* and has the beginning of the cleaned text; the cleaner never works again.  An
\* entry added and removed again leaves the tree as it was when no entry is a
\* beginning of it.
CleanFaithful ==
  kind = "clean" =>
    \A entries \in EntrySets : \A chunk \in 1..4 : CleansRight(Loaded(chunk, entries))

---------------------------------------------------------------------------
(* Numbers                                                                 *)

\* A number as C reads one: its digits from first up to stop, and its value.
Numeral(s, base) ==
  LET ws == SkipSet(s, 1, Blanks)
      num == IF At(s, ws) \in {45, 43} THEN ws + 1 ELSE ws
      hex == base \in {0, 16} /\ At(s, num) = 48 /\ At(s, num + 1) = 120
      base2 == CASE base # 0 -> base [] hex -> 16 [] OTHER -> IF At(s, num) = 48 THEN 8 ELSE 10
      Digits(first, b) == Cardinality({i \in first..Len(s) : \A j \in first..i : DigitValue(s[j]) < b})
      Size(first, n, b) == FoldLeft(LAMBDA sum, c : sum * b + DigitValue(c), 0, SubSeq(s, first, first + n - 1))
      Is(first, n, b) == [isOne |-> n > 0, stop |-> first + n,
                          value |-> (IF At(s, ws) = 45 THEN -1 ELSE 1) * Size(first, n, b)]
      Scan(first, b) == Is(first, Digits(first, b), b)
  IN Scan(IF hex THEN num + 2 ELSE num, base2)

\* parseInteger gives the value a number has, and stops where its digits do,
\* for every value in range, and an overflow for every one out of it; only for
\* 2^bits of either sign, whose limits it mixes up, nothing is said.  ruIsInt64
\* tells just those texts that are a number and nothing more.
IntegersExact(s, bits) ==
  LET Exact(base, r, n) ==
       /\ n.isOne /\ n.value \in (1 - 2^bits)..(2^bits - 1) =>
            r = [ret |-> RUE_OK, end |-> n.stop, out |-> n.value]
       /\ n.isOne /\ n.value \notin (-(2^bits))..(2^bits) => r.ret = RUE_OVERFLOW
       /\ ~n.isOne => r.ret = RUE_OK /\ r.out = 0
       /\ base = 10 /\ n.value \notin {2^bits, -(2^bits)} =>
            (ruIsInt64(s, bits) <=> n.isOne /\ n.stop > Len(s) /\ n.value \in (1 - 2^bits)..(2^bits - 1))
  IN \A base \in {0, 10, 16} : Exact(base, ruStrParseInt(s, bits, base), Numeral(s, base))

\* The words and the numbers 0 and 1 are truth values, with blanks around them.
BoolsExact(s) ==
  LET Number(n, is, r) ==
        /\ n.isOne /\ n.value \in {0, 1} /\ n.stop > Len(s) /\ s[SkipSet(s, 1, Blanks)] \in Digit =>
             is /\ (r.out <=> n.value = 1)
        /\ is => n.isOne /\ n.value \in {0, 1}
      Word(word, t) == ruIsBool(t) /\ (ruStrParseBool(t).out <=> ruStrCaseCmp(word, True) = 0)
  IN /\ \A word \in {True, False, caseThis(True, 0, TRUE)} :
          (\A i \in DOMAIN s : s[i] \in Blanks) => Word(word, s \o word \o s)
     /\ Number(Numeral(s, 10), ruIsBool(s), ruStrParseBool(s))

\* ruVersionComp orders versions by their numbers, one after the other, and a
\* version before one that goes on.
VersionsOrdered(s) ==
  LET Values(pieces) == [k \in DOMAIN pieces |-> Numeral(<<48>> \o pieces[k], 10).value]
      Nums(v) == IF v = << >> THEN <<0>> ELSE Values(ruStrNSplit(v, Len(v), <<46>>, 0))
      Differ(x, y) == {k \in DOMAIN x : k \notin DOMAIN y \/ x[k] # y[k]}
      Compared(x, y, differ) ==
        IF differ = {} THEN IF Len(x) = Len(y) THEN 0 ELSE -1
        ELSE IF LeastOf(differ) > Len(y) \/ x[LeastOf(differ)] > y[LeastOf(differ)] THEN 1 ELSE -1
      Comp(x, y) == Compared(x, y, Differ(x, y))
  IN \A i \in 0..Len(s) :
       ruVersionComp(SubSeq(s, 1, i), From(s, i + 1)) = Comp(Nums(SubSeq(s, 1, i)), Nums(From(s, i + 1)))

\* Every type gives back what was put in, matches a key with just the values
\* equal to it and orders them; numbers of it never share a hash.
TypesAgree ==
  \A t \in DOMAIN Types : LET T == Types[t] IN
    /\ T.clones => T.frees
    /\ \A v, w \in DOMAIN T.in :
         LET p == T.in[v]
             q == T.in[w]
         IN /\ T.out[p] = v
            /\ T.match[v, q] <=> v = w
            /\ T.comp[p, q] = 0 <=> v = w
            /\ T.comp[p, q] = -T.comp[q, p]
            /\ T.hash[v] = T.hash[w] => v = w \/ t \in {"strRef", "strDup", "strFree"}
            /\ T.match[T.out[q], p] <=> T.comp[q, p] = 0

NumbersExact ==
  /\ kind = "number" => IntegersExact(text, 4) /\ BoolsExact(text)
  /\ kind = "version" => VersionsOrdered(text)
  /\ kind = "number" /\ text = << >> => TypesAgree
  /\ kind = "words" => ruStrHash(Join(<<text, text, text>>, <<255>>)) < 2^28

---------------------------------------------------------------------------
(* Strings, paths and lists                                                *)

Delims == {<<47>>, <<47, 47>>, <<97, 32>>}

\* The pieces of a split, joined again, are the text, however many are asked
\* for; replacing is splitting and joining with something else.
SplitsRejoin(s) ==
  \A d \in Delims : \A max \in 0..3 :
    LET pieces == ruStrNSplit(s, Len(s), d, max)
    IN /\ Join(pieces, d) = s
       /\ max > 0 => Len(pieces) <= max
       /\ max = 0 => \A p \in {pieces[i] : i \in DOMAIN pieces} : ruStrStrLen(p, d, 0) = 0
       /\ max = 0 => ruStrReplace(s, d, <<33>>) = Join(pieces, <<33>>)
       /\ (ruStrStrLen(s, d, 0) = 0) <=> (ruLastSubStrLen(s, d, 0) = 0)
       /\ ruStrStrLen(s, d, 0) <= ruLastSubStrLen(s, d, 0)
       /\ ruStrStartsWith(s, d) <=> ruStrStrLen(s, d, 0) = 1
       /\ s # << >> => (ruStrNEquals(s, Len(s), d) <=> ruStrStartsWith(s, d))
       /\ ruStrEndsWith(s, d) /\ Len(s) >= Len(d) <=>
            ruLastSubStrLen(s, d, 0) = Len(s) - Len(d) + 1 /\ Len(s) >= Len(d)

\* The parts of "key = value" are the first piece and the rest, without the
\* blanks around them, which trimming takes off too.
KeyAndValue(s) ==
  \A d \in Delims :
    LET kv == ruStrFindKeyVal(s, d)
        pieces == ruStrNSplit(s, Len(s), d, 2)
        Part(b) == IF b.len = 0 THEN << >> ELSE SubSeq(s, b.start, b.start + b.len - 1)
        Trimmed(p) == IF ruStrEmpty(p) THEN << >> ELSE ruStrTrim(p, Spaces, TRUE, TRUE)
    IN s # << >> =>
         /\ kv.found <=> Len(pieces) = 2
         /\ Part(kv.key) = Trimmed(pieces[1])
         /\ kv.found => Part(kv.val) = Trimmed(pieces[2])

\* Case makes no difference to the comparisons that ignore it, and a buffer
\* that a text is added to byte by byte holds it with room for its end; what is
\* percent encoded in it has unreserved bytes only and decodes to the text.
RECURSIVE UriDecoded(_)
UriDecoded(s) ==
  IF s = << >> THEN << >>
  ELSE IF s[1] = 37 THEN <<16 * DigitValue(s[2]) + DigitValue(s[3])>> \o UriDecoded(From(s, 4))
  ELSE <<s[1]>> \o UriDecoded(Tail(s))
CaseAndBuffers(s) ==
  LET up == caseThis(s, 0, TRUE)
      buf == FoldLeft(LAMBDA b, c : ruStringAppendn(b, <<c>>), ruStringNewn(<<97>>, 1), s)
      uri == ruStringAppendUriEncoded(ruStringReset(buf), s)
  IN /\ ruStrCaseCmp(s, up) = 0
     /\ ruStrCmp(s, up) = 0 <=> s = up
     /\ ruStrCaseStartsWith(s, Slice(up, 1, 2)) /\ ruStrCaseEndsWith(s, From(up, 2))
     /\ \A d \in Delims : (ruStrCaseStrLen(up, d, 0) = 0) <=> (ruStrCaseStrLen(s, d, 0) = 0)
     /\ buf.text = <<97>> \o s /\ buf.len > Len(buf.text)
     /\ \A i \in 1..(Len(s) + 1) : ruStringEndsWith(buf, From(s, i)) /\ ~ruStringEndsWith(buf, From(s, i) \o <<33>>)
     /\ UriDecoded(uri.text) = s /\ uri.len > Len(uri.text)
     /\ \A i \in DOMAIN uri.text : isUnReserved(uri.text[i]) \/ uri.text[i] = 37
     /\ Len(ruStrStrip(s, {32})) + Cardinality({i \in DOMAIN s : s[i] = 32}) = Len(s)
     /\ ruStrByteReplace(ruStrByteReplace(s, 97, 1), 1, 97) = s

\* A path is its folder and its name again; joining pieces that have no slash
\* gives a path that splits into them; a folder is made with all its parents.
PathsRejoin(s) ==
  LET dir == ruDirName(s)
      pieces == ruStrNSplit(s, Len(s), <<Slash>>, 0)
      whole == \A i \in DOMAIN pieces : pieces[i] # << >>
      ext == ruFileExtension(s)
      made == ruMkdir({}, {}, <<Slash>> \o s, TRUE)
      Parents == {<<Slash>> \o Join(SubSeq(pieces, 1, k), <<Slash>>) : k \in DOMAIN pieces}
  IN /\ dir = NoPath => ruBaseName(s) = s
     /\ dir # NoPath => s = dir \o <<Slash>> \o ruBaseName(s)
     /\ dir # NoPath /\ ~ruStrEndsWith(dir, <<Slash>>) => pathJoin(dir, ruBaseName(s)) = s
     /\ ext # NoPath => ruStrEndsWith(ruBaseName(s), <<46>> \o ext) /\ Len(ext) + 1 < Len(ruBaseName(s))
     /\ s # << >> /\ whole =>
          /\ pathMultiJoin(pieces) = s
          /\ pathMultiJoin([i \in DOMAIN pieces |->
                 (IF i > 1 THEN <<Slash>> ELSE << >>) \o pieces[i] \o <<Slash>>]) = s
          /\ made = [ret |-> RUE_OK, dirs |-> Parents]
          /\ ruMkdir(made.dirs, {}, <<Slash>> \o s \o <<Slash>>, FALSE) = made
          /\ (ruMkdir({}, {}, <<Slash>> \o s, FALSE).ret = RUE_OK) <=> Len(pieces) = 1
          /\ \A f \in Parents : ruMkdir({}, {f}, <<Slash>> \o s, TRUE).ret = RUE_FILE_EXISTS
     /\ ruFullPath(<<Slash, 97>>, s)[1] = Slash

\* A list of every type is iterated, and indexed from either end, in the order
\* it was filled in; sorting orders it and keeps what it holds.
ListsKeep(ns) ==
  \A t \in {"int64", "int8", "bool", "strRef"} :
    LET Value(n) == CASE t = "bool" -> n > 0 [] t = "strRef" -> <<97 + n>> [] OTHER -> n - 1
        vals == [i \in DOMAIN ns |-> Value(ns[i])]
        l == FoldLeft(ruListAppend, ListNewType(t), vals)
        sorted == ruListSort(l).l
        n == Len(ns)
    IN /\ Iterated(l, ruListHead) = vals
       /\ \A i \in 0..(n - 1) : ruListIdxDataTo(l, i) = [ret |-> RUE_OK, out |-> <<vals[i + 1]>>]
       /\ \A i \in 1..n : ruListIdxDataTo(l, -i) = ruListIdxDataTo(l, n - i)
       /\ \A i \in {n, -n - 1} : ruListIdxDataTo(l, i).ret = RUE_INVALID_PARAMETER
       /\ \A i \in 1..(n - 1) : Types[t].comp[sorted.data[i], sorted.data[i + 1]] <= 0
       /\ \E perm \in Permutations(1..n) : \A i \in 1..n : sorted.data[i] = l.data[perm[i]]
       /\ t = "strRef" /\ n > 0 => ruStrNSplit(ruListJoin(l, <<47>>), 2 * n - 1, <<47>>, 0) = vals
       /\ ruListElmtIsTail(l, ruListTail(l)) /\ ruListElmtIsHead(ruListHead)

PiecesRejoin ==
  /\ kind = "words" => SplitsRejoin(text) /\ KeyAndValue(text) /\ CaseAndBuffers(text)
  /\ kind \in {"words", "key"} => PathsRejoin(text)
  /\ kind = "list" => ListsKeep(text)

---------------------------------------------------------------------------
(* Ini files and the keys of the file store                                *)

\* An object read from a text, and one changed in one place, reads back as it
\* was from what the writer makes of it, unless a key is empty or a value
\* begins a comment.  A key set is found in its section and nowhere else.
IniReadsBack(s) ==
  LET r == ruIniRead(s, 200)
      Writable(ini) == \A x \in DOMAIN ini : \A k \in DOMAIN ini[x] :
                         k # << >> /\ (ini[x][k] = NoValue \/ At(ini[x][k], 1) # 59)
      Back(ini) == Writable(ini) =>
                     LET w == ruIniRead(ruIniWrite(ini), 200) IN ~w.err /\ w.ini = ini
      Changed(x, v) == ruIniSet(r.ini, x, <<97>>, v)
  IN ~r.err =>
       /\ Back(r.ini)
       /\ ruIniRead(Bom \o s, 200) = r \/ s = << >> \/ At(s, 1) \in Spaces
       /\ \A x \in {NoSection, <<97>>, <<98>>} :
            /\ Back(Changed(x, <<120, 61>>)) /\ Back(Changed(x, NoValue))
            /\ ruIniGetDef(Changed(x, <<120>>), x, <<97>>, NoValue) = [ret |-> RUE_OK, out |-> <<120>>]
            /\ ruIniKeys(Changed(x, NoValue), x) = ruIniKeys(r.ini, x) \ {<<97>>}
            /\ ruIniGetDef(Changed(x, NoValue), x, <<97>>, <<121>>).out = <<121>>
            /\ \A y \in DOMAIN r.ini \ {x} : \A k \in ruIniKeys(r.ini, y) :
                 ruIniGetDef(Changed(x, <<120>>), y, k, NoValue) = ruIniGetDef(r.ini, y, k, NoValue)
            /\ ruIniSections(Changed(x, <<120>>)) = ruIniSections(r.ini) \cup ({x} \ {NoSection})

\* What the path of a key tells of it: each byte from 128 on is 255, for _%x of
\* a signed char is _ff.., and the first one below 16 ends it with its digit.
Told(k) ==
  LET end == LeastOf({i \in DOMAIN k : k[i] < 16} \cup {Len(k) + 1})
  IN [i \in 1..(end - 1) |-> IF k[i] >= 128 THEN 255 ELSE k[i]]
       \o IF end > Len(k) THEN << >> ELSE <<95, HexDigit(k[end])>>

\* The folder of a key is told from it again but for spaces that come in a row,
\* first or last, so that no two keys that differ otherwise share a file, if
\* they have no bytes below 16 or from 128 on: kvstore.c:163 makes any two of
\* the latter alike, so that letters outside of ASCII share their files, and
\* lets one of the former cut the path.  No name on it begins or ends with a
\* dot, so that none is hidden, a temporary name or a way out of the store; and
\* it fits in what is reserved for it, but where a dot is next to a space.
KeysReadBack(k) ==
  LET p == keyToPath(k)
      Words(s) == SelectSeq(ruStrNSplit(s, Len(s), <<32>>, 0), LAMBDA w : w # << >>)
      names == {n \in {ruStrNSplit(p, Len(p), <<Slash>>, 0)[i] :
                         i \in DOMAIN ruStrNSplit(p, Len(p), <<Slash>>, 0)} : n # << >>}
  IN /\ Words(pathToKey(p)) = Words(Told(k))
     /\ \A n \in names : n[1] # 46 /\ Last(n) # 46
     /\ p # << >> => p[1] # Slash /\ ruStrStrLen(p, <<Slash, Slash>>, 0) = 0
     /\ ruStrStrLen(k, <<46, 32>>, 0) = 0 \/ k = << >> => Len(p) <= Reserved(k)
     /\ ruNullStoreGet(k) = [ret |-> ruNullStoreSet(k), val |-> NoPath, len |-> 0]

StoresReadBack ==
  /\ kind = "ini" => IniReadsBack(text)
  /\ kind = "key" => KeysReadBack(text)

---------------------------------------------------------------------------
(* Html                                                                    *)

\* What is encoded decodes to the text, with its pairs of spaces made to stay
\* and its line ends tags, and never to one of the entities the decoder breaks
\* on, and the next call answers the same.  For the empty text the encoder
\* returns NULL (string.c:116-119), and so it does for every text after that
\* (cleaner.c:416).  A text is html between the tags and not long after them.
EncodedDecodes(s) ==
  LET wanted == ruStrReplace(ruStrReplace(s, <<32, 32>>, H!Nbsp \o H!Nbsp), <<10>>, H!BrTag)
      far == [i \in 1..20 |-> 32]
      first == H!ruHtmlEncodeText(H!Encoder, s)
      second == H!ruHtmlEncodeText(first.rc, IF s = << >> THEN <<32>> ELSE s)
  IN /\ second.text = first.text
     /\ IF s = << >> THEN first.text = H!NoOut
        ELSE H!entityDecode(first.text) = [text |-> wanted, fault |-> FALSE]
     /\ H!ruHtmlTestFor(H!HtmlStart \o s \o caseThis(H!HtmlEnd, 0, TRUE) \o s)
     /\ ~H!ruHtmlTestFor(H!HtmlStart \o s \o H!HtmlEnd \o far)

\* The tag that comes at place i; every text is a letter of its own.
Tag(op, i) ==
  CASE op = 1 -> H!Open("div", << >>) [] op = 2 -> H!Open("ul", << >>)
    [] op = 3 -> H!Open("li", << >>) [] op = 4 -> H!Open("script", << >>)
    [] op = 5 -> H!Open("a", <<"href", "onclick">>) [] op = 6 -> H!Close
    [] op = 7 -> H!Text(<<32, 96 + i>>)
RECURSIVE Pruned(_)
Pruned(nodes) ==
  LET kept == SelectSeq(nodes, LAMBDA n : n.name \notin H!excludeTagSet)
  IN [i \in DOMAIN kept |->
        [kept[i] EXCEPT !.attrs = SelectSeq(@, LAMBDA a : a \notin H!excludeAttrSet),
                        !.kids = Pruned(@)]]
\* The nodes of a tree in the order of the document.
RECURSIVE Nodes(_)
Nodes(nodes) == FlattenSeq([i \in DOMAIN nodes |-> <<nodes[i]>> \o Nodes(nodes[i].kids)])

SanitizedTo(r, body, pruned, after) ==
  LET Kept(S) == SelectSeq(r.plainTxt, LAMBDA c : c \in S)
  IN /\ H!tidyGetBody(r.html) = pruned
     /\ r.unchanged <=> pruned = body
     /\ Kept(Lower) = FlattenSeq([i \in DOMAIN after |-> From(after[i].text, 2)])
     /\ Len(Kept({42})) = Len(SelectSeq(after, LAMBDA n : n.name = "li"))
     /\ ~ruStrStartsWith(r.plainTxt, <<10>>) /\ ruStrStrLen(r.plainTxt, <<10, 10>>, 0) = 0

\* The sanitized document is the one given without the tags and attributes
\* excluded and all there is below them, says whether it is, and has nothing
\* left to exclude.  Its plain text has every text in order, a star for each
\* item of a list and no empty line.
Sanitized(ops) ==
  LET Holds(body, pruned) ==
        /\ SanitizedTo(H!ruHtmlSanitize(body), body, pruned, Nodes(pruned))
        /\ H!ruHtmlSanitize(pruned).unchanged
        /\ H!ruHtmlSanitizeCustom(body, {}, {}).unchanged
      Body(body) == Holds(body, Pruned(body))
  IN Body(H!tidyParse([i \in DOMAIN ops |-> Tag(ops[i], i)]))

MarkupReadsBack ==
  /\ kind = "markup" => EncodedDecodes(text)
  /\ kind = "html" => Sanitized(text)

---------------------------------------------------------------------------
(* Json                                                                    *)

\* The call that comes at place i: its key is a letter of its own, its value
\* a digit or half of one, or no number at all, which is refused after the key.
Set(j, op, i) ==
  LET key == <<96 + i>>
      val == <<48 + i>>
  IN CASE op = 1 -> J!ruJsonStartMap(j) [] op = 2 -> J!ruJsonStartArray(j)
       [] op = 3 -> J!ruJsonEndMap(j) [] op = 4 -> J!ruJsonEndArray(j)
       [] op = 5 -> J!ruJsonSetStr(j, val)
       [] op = 6 -> IF i % 2 = 0 THEN J!ruJsonSetInt(j, i \div 2) ELSE J!ruJsonSetDouble(j, i)
       [] op = 7 -> CASE i % 3 = 0 -> J!ruJsonSetKeyInt(j, key, i) [] i % 3 = 1 -> J!ruJsonSetKeyDouble(j, key, i)
                      [] OTHER -> J!ruJsonSetKeyStr(j, key, val)
       [] op = 8 -> J!ruJsonStartKeyMap(j, key) [] op = 9 -> J!ruJsonStartKeyArray(j, key)
       [] op = 10 -> J!ruJsonSetKeyDouble(j, key, J!NaN)

\* What the calls mean: the containers not yet closed, each with what is in it.
Meant(op, i) ==
  CASE op \in {1, 8} -> J!Atom("object") [] op \in {2, 9} -> J!Atom("array")
    [] op = 5 -> J!Str(<<48 + i>>) [] op = 6 -> J!Number(i)
    [] op = 7 -> CASE i % 3 = 0 -> J!Number(2 * i) [] i % 3 = 1 -> J!Number(i) [] OTHER -> J!Str(<<48 + i>>)
Within(st, v) == [st EXCEPT ![Len(st)].vals = Append(@, v)]
\* A key waits for its value: a call without a key gives it.
Waits(st) == Last(st).t = "object" /\ Len(Last(st).keys) > Len(Last(st).vals)
Legal(st, op) ==
  CASE op \in {1, 2, 5, 6} -> Last(st).t = "array" \/ Last(st) = J!Atom("text") \/ Waits(st)
    [] op \in {3, 7, 8, 9, 10} -> Last(st).t = "object" /\ ~Waits(st)
    [] op = 4 -> Last(st).t = "array"
Meaning(st, op, i) ==
  LET keyed == IF op >= 7 THEN [st EXCEPT ![Len(st)].keys = Append(@, <<96 + i>>)] ELSE st
  IN CASE op \in {3, 4} -> Within(Front(st), Last(st))
       [] op \in {1, 2, 8, 9} -> Append(keyed, Meant(op, i))
       [] op = 10 -> keyed
       [] OTHER -> Within(keyed, Meant(op, i))

\* A value in a map, in an array and on its own is told alike by each getter.
\* The truth values of an array are left out, but for numbers: the getters by
\* index do not find them (json.c:756-766), against json.h:482-499.
GettersAgree(vals) ==
  LET Top(node) == [top |-> TRUE, node |-> node]
      Key(i) == <<96 + i>>
      all == vals \o <<J!Bool(TRUE), J!Bool(FALSE), J!Null, J!Str(True), J!Number(2)>>
      map == Top([J!Atom("object") EXCEPT !.keys = [i \in DOMAIN all |-> Key(i)], !.vals = all])
      array == Top([J!Atom("array") EXCEPT !.vals = all])
      Alike(k, x, self) == k = x /\ (k.ret = RUE_OK => k = self)
  IN /\ J!ruJsonKeys(map).out = [i \in DOMAIN all |-> Key(i)]
     /\ J!ruJsonArrayLen(array).out = Len(all) /\ J!ruJsonArrayLen(map).ret = RUE_INVALID_PARAMETER
     /\ J!ruJsonIdxStr(array, Len(all)).ret = RUE_WRONG_PARAMETER_LENGTH
     /\ J!ruJsonKeyStr(map, << >>).ret = RUE_FILE_NOT_FOUND
     /\ \A i \in DOMAIN all :
          LET v == all[i]
              self == [top |-> FALSE, node |-> v]
          IN /\ Alike(J!ruJsonKeyStr(map, Key(i)), J!ruJsonIdxStr(array, i - 1), J!ruJsonStr(self))
             /\ Alike(J!ruJsonKeyInt(map, Key(i)), J!ruJsonIdxInt(array, i - 1), J!ruJsonInt(self))
             /\ Alike(J!ruJsonKeyParseInt(map, Key(i)), J!ruJsonIdxParseInt(array, i - 1), J!ruJsonParseInt(self))
             /\ J!ruJsonKeyParseBool(map, Key(i)) = J!ruJsonParseBool(self)
             /\ J!ruJsonKeyBool(map, Key(i)) = J!ruJsonBool(self)
             /\ v.t \in {"true", "false"} => /\ J!ruJsonBool(self) = [ret |-> RUE_OK, out |-> v.t = "true"]
                                             /\ J!ruJsonParseBool(self) = J!ruJsonBool(self)
             /\ v.t = "number" => J!ruJsonIdxParseBool(array, i - 1) = J!ruJsonParseBool(self)
             /\ J!ruJsonKeyDouble(map, Key(i)) = J!ruJsonIdxDouble(array, i - 1)
             /\ v.t = "number" => J!ruJsonKeyDouble(map, Key(i)).out = v.twice
             /\ J!ruJsonKeyMap(map, Key(i)) = J!ruJsonIdxMap(array, i - 1)
             /\ J!ruJsonKeyArray(map, Key(i)) = J!ruJsonIdxArray(array, i - 1)
             /\ (J!ruJsonKeyMap(map, Key(i)).ret = RUE_OK <=> v.t = "object")
             /\ (J!ruJsonKeyToStr(map, Key(i)).ret = RUE_OK <=> v.t \notin {"object", "array"})

Advance(a, op, i, r) == [a EXCEPT !.j = r.j, !.ok = @ /\ (r.ret = RUE_OK <=> op # 10), !.st = Meaning(a.st, op, i)]
ReadAs(done, p) ==
  IF Len(done) = 1 /\ done[1].vals # << >>
  THEN p.ret = RUE_OK /\ p.rj.node = done[1].vals[1] /\ GettersAgree(p.rj.node.vals)
  ELSE p.ret # RUE_OK
WrittenAs(done, w) == w.ret = RUE_OK /\ w.text # J!NoOutput /\ ReadAs(done, J!ruJsonParse(w.text))
Ends(end, start) ==
  LET w == J!ruJsonWrite(end.j)
      last == start # "none" /\ Len(end.st) = 2 /\ ~Waits(end.st)
  IN end.legal =>
       /\ end.ok
       /\ WrittenAs(IF last THEN Within(Front(end.st), Last(end.st)) ELSE end.st, w)
       /\ last => J!ruJsonWrite(w.j) = [w EXCEPT !.text = J!NoOutput]

\* Calls that fit where they are made all succeed, and what is written after
\* them parses to just what they mean, or not at all while a container is open
\* or a key has no value.  A call refused after its key was written leaves that
\* key to the next value.  Written again, the object of ruJsonStart has no text,
\* though the call returns RUE_OK (json.c:567, 577-579).
JsonReadsBack ==
  kind = "json" =>
    \A start \in {"none", "map", "array"} :
      LET Open == CASE start = "none" -> << >> [] start = "map" -> <<J!Atom("object")>>
                    [] OTHER -> <<J!Atom("array")>>
          begin == [j |-> IF start = "none" THEN J!ruJsonNew ELSE J!ruJsonStart(start = "map"),
                    st |-> <<J!Atom("text")>> \o Open, legal |-> TRUE, ok |-> TRUE]
          Step(a, i) ==
            IF ~a.legal \/ ~Legal(a.st, text[i]) \/ (text[i] \in {3, 4} /\ Len(a.st) = 1 + Len(Open))
            THEN [a EXCEPT !.legal = FALSE]
            ELSE Advance(a, text[i], i, Set(a.j, text[i], i))
      IN Ends(FoldLeft(Step, begin, [i \in DOMAIN text |-> i]), start)

---------------------------------------------------------------------------
(* Regular expressions, conversions, programs and options                  *)

Patterns == {<<97>>, <<98, 97>>} \X {<< >>, <<98>>}

\* Every call gives back the lock it took; a match is found; the groups told
\* are parts of the text and none is empty; replacing a pattern without a
\* group is replacing a text.
RegexAnswers(s) ==
  \A p \in Patterns :
    LET re == U!ruRegexNew(p[1], p[2]).re
        matched == U!ruRegexMatchGroups(re, s)
        found == U!ruRegexFindGroups(re, s)
        replaced == U!ruRegexReplace(re, s, <<120>>)
    IN /\ \A i \in 1..3 : LET r == <<matched, found, replaced.r>>[i] IN r.locks = r.unlocks
       /\ U!ruRegexMatch(re, s) => U!ruRegexFind(re, s)
       /\ matched.out # U!NoGroups => matched.out[1] = s
       /\ found.out # U!NoGroups => \A i \in DOMAIN found.out :
            found.out[i] # << >> /\ ruStrStrLen(s, found.out[i], 0) # 0
       /\ ~replaced.fault /\ (ruStrStrLen(replaced.r.out, p[1], 0) = 0 \/ p[1] = <<97>>)
       /\ p[2] = << >> => replaced.r.out = ruStrReplace(s, p[1], <<120>>)
       /\ U!ruRegexReplace(re, s, << >>).fault => s # << >>

\* A text comes back from UTF-16, at whatever length the units are given with
\* or without their end, and from either normal form; changing the case never
\* writes past its buffer but where a character becomes longer.
UnicodeAnswers(s) ==
  LET u == U!ruStrToUtf16(s)
      upper == U!ruUtf8CaseNormalize(s, 0, U!ToUpper)
      Composing(t) == U!ruStrFromNfd(t).out
      longer == {223, 329}
  IN /\ U!ruStrFromUtf16(u) = s
     /\ s # << >> => U!ruStrFromNUtf16(u, 2 * Len(u)) = {s}
     /\ s # << >> => U!ruStrFromNUtf16(Append(u, 0), 2 * Len(u) + 2) = {s}
     /\ s # << >> => Composing(U!ruStrToNfd(s).out) = Composing(s)
     /\ s # << >> => U!ruStrToNfd(Composing(s)).out = U!ruStrToNfd(s).out
     /\ ~U!ruUtf8CaseNormalize(s, 0, U!ToLower).overrun
     /\ upper.overrun => \E i \in DOMAIN s : s[i] \in longer
     /\ U!ruUtf8CaseNormalize(upper.out, 0, U!ToUpper).out = upper.out
     /\ U!utf8SwitchCase(s, TRUE).out = upper.out
     /\ U!utf8SwitchCase(s, TRUE).unterminated => \E i \in DOMAIN s : s[i] \in longer

\* A program's code is its own, where it ran to its end; one timed out had its
\* time; one is left only if it was to be or was late; both platforms agree on
\* a program that ends in time.
Children == [forks : BOOLEAN, execs : BOOLEAN, signal : BOOLEAN, code : {0, 1, chldfail}, ends : 0..6]
ProgramsAnswer ==
  \A child \in Children : \A timeout \in -1..3 :
    LET p == RunProgPosix(child, timeout)
        w == RunProgWindows(child, timeout)
    IN /\ child.execs /\ child.forks /\ ~child.signal /\ p.ret \notin {RUE_TIMEOUT, RUE_RUN_FAILED} /\ ~p.left =>
            p.ret = child.code
       /\ p.ret = RUE_TIMEOUT => child.ends > timeout /\ timeout > 0
       /\ p.left => timeout = RU_NON_BLOCK \/ p.ret = RUE_TIMEOUT
       /\ p.ret = RUE_RUN_FAILED => ~child.execs \/ child.code = chldfail
       /\ child.forks /\ child.execs /\ ~child.signal /\ child.code # chldfail
            /\ timeout >= 0 /\ child.ends < timeout => p = w

\* Attempts go on until the time is up, not past it, and never rest for longer
\* than asked.
AttemptsAnswer ==
  \A retry \in 1..3, timeout \in 0..6, work \in 0..2 :
    LET at == Attempts(ruTryLoopInit(0, retry, timeout), work)
    IN /\ \A i \in 1..(Len(at) - 2) : at[i + 1] < timeout /\ at[i + 1] - at[i] \in 1..(retry + work)
       /\ Last(at) >= timeout
       /\ timeout > 0 => Last(at) <= timeout + work

\* Options are told, each with its argument, just when there is one and none
\* up to the first word that is none is unknown or short of its argument.
Options == (97 :> TRUE) @@ (98 :> FALSE)
RECURSIVE Well(_)
Well(argv) ==
  \/ argv = << >> \/ Head(argv) = 49
  \/ Head(argv) = 98 /\ Well(Tail(argv))
  \/ Head(argv) = 97 /\ Len(argv) > 1 /\ Well(From(argv, 3))
OptionsAnswer(argv) ==
  LET r == ruGetOptMap(Options, <<48>> \o argv)
  IN /\ r.ret = RUE_OK <=> Well(argv) /\ argv # << >> /\ argv[1] # 49
     /\ (r.ret = RUE_OK) <=> r.parms # NoMap
     /\ r.ret = RUE_OK => \A o \in DOMAIN r.parms :
          IF o = 98 THEN r.parms[o] = 0 ELSE ruStrStrLen(argv, <<o, r.parms[o]>>, 0) # 0
     /\ \A filter \in SUBSET {49, 97} :
          LET ips == ruIpAddrs([i \in DOMAIN argv |-> [family |-> argv[i], ip |-> i]], filter)
          IN IF ips = NoMap THEN \A i \in DOMAIN argv : argv[i] \notin filter
             ELSE /\ {ips[k] : k \in DOMAIN ips} = {i \in DOMAIN argv : argv[i] \in filter}
                  /\ \A k \in 1..(Len(ips) - 1) : ips[k] < ips[k + 1]

CallsAnswer ==
  /\ kind = "regex" => RegexAnswers(text)
  /\ kind = "unicode" => UnicodeAnswers(text)
  /\ kind = "call" => OptionsAnswer(text)
  /\ kind = "call" /\ text = << >> => ProgramsAnswer /\ AttemptsAnswer

===========================================================================
