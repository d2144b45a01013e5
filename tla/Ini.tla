-------------------------------- MODULE Ini --------------------------------
(***************************************************************************)
(* Ini files, lib/ini.c: the parser, the map of sections it fills, and the *)
(* writer.  An ini object is the function from its sections to the         *)
(* functions from keys to values; NoSection are the keys before the first  *)
(* section, NoValue is the NULL value of a line that is only a name.       *)
(***************************************************************************)
EXTENDS Strings, FiniteSets

NoSection == <<-1>>
NoName == <<-1>>
NoValue == <<-1>>
Bom == <<239, 187, 191>>
ruIniNew == NoSection :> << >>

lskip(s) == LET i == SkipSet(s, 1, Spaces) IN From(s, i)
strTrim(s) == SubSeq(s, 1, MostOf({i \in DOMAIN s : ~IsSpace(s[i])} \cup {0}))

\* The place of the first byte of chars, or of the inline comment, or the end.
find_chars_or_comment(s, chars) ==
  LeastOf({i \in 1..(Len(s) + 1) : \/ i = Len(s) + 1 \/ At(s, i) \in chars
                                   \/ i > 1 /\ IsSpace(At(s, i - 1)) /\ At(s, i) = 59})
Uncommented(s) == SubSeq(s, 1, find_chars_or_comment(s, {}) - 1)

\* What one call of the reader takes off the stream: at most num - 1 bytes,
\* to the end of the line at most.
LineLen(s, num) ==
  LeastOf({i \in DOMAIN s : s[i] = 10} \cup {IF Len(s) < num THEN Len(s) ELSE num - 1})

getIniMap(ini, section) ==
  IF section \in DOMAIN ini THEN ini ELSE (section :> << >>) @@ ini

Put(ini, section, name, value) == [ini EXCEPT ![section] = (name :> value) @@ @]

\* A key that comes again has the value appended to what it has.
iniParseCb(ini, section, name, value) ==
  LET i == getIniMap(ini, section)
      Text(v) == IF v = NoValue THEN << >> ELSE v
  IN IF name = NoName THEN i
     ELSE IF name \notin DOMAIN i[section] THEN Put(i, section, name, value)
     ELSE IF i[section][name] = NoValue /\ value = NoValue THEN i
     ELSE Put(i, section, name, Text(i[section][name]) \o Text(value))

\* One line: p is the parser's state, ini the object its handler fills.
ParseLine(p, line) ==
  LET raw == IF p.first /\ ruStrStartsWith(line, Bom) THEN From(line, 4) ELSE line
      start == lskip(strTrim(raw))
      c == At(start, 1)
      moved == Len(start) < Len(strTrim(line))
      close == find_chars_or_comment(Tail(start), {93})
      eq == find_chars_or_comment(start, {61, 58})
      name == strTrim(SubSeq(start, 1, eq - 1))
      value == strTrim(lskip(Uncommented(From(start, eq + 1))))
      q == [p EXCEPT !.first = FALSE]
  IN CASE c \in {0, 35, 59} -> q
       [] c \notin {0, 35, 59} /\ p.prev # NoName /\ moved ->
            [q EXCEPT !.ini = iniParseCb(@, p.section, p.prev, strTrim(Uncommented(start)))]
       [] c = 91 /\ (p.prev = NoName \/ ~moved) ->
            IF At(Tail(start), close) = 93
            THEN LET s == SubSeq(Tail(start), 1, close - 1)
                 IN [q EXCEPT !.section = s, !.prev = NoName, !.ini = iniParseCb(@, s, NoName, NoValue)]
            ELSE [q EXCEPT !.err = TRUE]
       [] OTHER ->
            CASE At(start, eq) \in {61, 58} ->
                   [q EXCEPT !.prev = name, !.ini = iniParseCb(@, p.section, name, value)]
              [] At(start, eq) \notin {61, 58} /\ ~p.err ->
                   [q EXCEPT !.ini = iniParseCb(@, p.section, name, NoValue)]
              [] OTHER -> q

RECURSIVE ParseStream(_, _, _)
ParseStream(p, s, maxLine) ==
  IF s = << >> THEN p
  ELSE LET n == LineLen(s, maxLine)
       IN ParseStream(ParseLine(p, SubSeq(s, 1, n)), From(s, n + 1), maxLine)

\* The object read, and whether a line was in error (then none is returned).
ruIniRead(s, maxLine) ==
  ParseStream([first |-> TRUE, section |-> NoSection, prev |-> NoName, err |-> FALSE,
               ini |-> ruIniNew], s, maxLine)

ruIniKeys(ini, section) == DOMAIN getIniMap(ini, section)[section]
ruIniSections(ini) == DOMAIN ini \ {NoSection}

---------------------------------------------------------------------------
(* The order of a map's keys is the order of SetToSeq here.                *)

dumpMap(map) ==
  FoldLeft(LAMBDA s, k : s \o k \o (IF map[k] = NoValue THEN << >> ELSE <<32, 61, 32>> \o map[k]) \o <<10>>,
           << >>, SetToSeq(DOMAIN map))

\* A blank line goes before a section once a key has been written.
ruIniWrite(ini) ==
  LET Section(w, x) ==
        [text |-> w.text \o (IF w.used THEN <<10>> ELSE << >>) \o <<91>> \o x \o <<93, 10>>
                  \o dumpMap(ini[x]),
         used |-> w.used \/ ini[x] # << >>]
      keys == ini[NoSection]
  IN FoldLeft(Section, [text |-> dumpMap(keys), used |-> keys # << >>],
              SetToSeq(ruIniSections(ini))).text

---------------------------------------------------------------------------
(* The accessors                                                           *)

\* A section that is not there leaves the map of the keys without section,
\* and with a default the value is looked up there.
ruIniGetDef(ini, section, key, def) ==
  LET map == IF section \in DOMAIN ini THEN ini[section] ELSE ini[NoSection]
      value == IF key \in DOMAIN map THEN map[key] ELSE NoValue
  IN CASE section \notin DOMAIN ini /\ def = NoValue -> [ret |-> RUE_FILE_NOT_FOUND, out |-> NoValue]
       [] def # NoValue /\ value \in {NoValue, << >>} -> [ret |-> RUE_OK, out |-> def]
       [] OTHER -> [ret |-> IF key \in DOMAIN map THEN RUE_OK ELSE RUE_FILE_NOT_FOUND, out |-> value]

ruIniSet(ini, section, key, value) ==
  LET i == getIniMap(ini, section)
  IN CASE key = NoName -> i
       [] key # NoName /\ value # NoValue -> Put(i, section, key, value)
       [] OTHER -> [i EXCEPT ![section] = [k \in DOMAIN @ \ {key} |-> @[k]]]
===========================================================================
