-------------------------------- MODULE Html --------------------------------
(***************************************************************************)
(* The html functions of lib/html.c: encoding a text, decoding entities,   *)
(* and the sanitizer, which filters the tree a parser made of the input,   *)
(* has the filtered text parsed again and takes a plain text from that.    *)
(* The parser (tidy) is not this library's: a document here is the tree it *)
(* gives, a sequence of nodes, and a text of tags the sequence of tokens   *)
(* written.  Names of tags and attributes are TLA+ strings, the text of a  *)
(* node is bytes; attributes keep their names only.                        *)
(***************************************************************************)
EXTENDS Cleaner

---------------------------------------------------------------------------
(* Encoding and decoding                                                   *)

Amp == 38
Nbsp == <<194, 160>>
BrTag == <<60, 98, 114, 47, 62, 10>>
Entity(name) == <<Amp>> \o name \o <<59>>
amp == <<97, 109, 112>>
lt == <<108, 116>>
gt == <<103, 116>>
nbsp == <<110, 98, 115, 112>>
\* The names of the table that a text of the library's own encoder needs.
getEntityMap == amp :> <<Amp>> @@ lt :> <<60>> @@ gt :> <<62>> @@ nbsp :> Nbsp
MAX_ENTITY_LEN == 31

Encoder ==
  LET add == << <<<<Amp>>, Entity(amp)>>, <<<<60>>, Entity(lt)>>, <<<<62>>, Entity(gt)>>,
               <<<<32, 32>>, Entity(nbsp) \o Entity(nbsp)>>,
               <<<<13, 10>>, BrTag>>, <<<<10>>, BrTag>>, <<<<13>>, BrTag>> >>
  IN FoldLeft(LAMBDA c, e : ruCleanAdd(c, e[1], e[2]), ruCleanNew(0), add)
\* rc is the static cleaner, made by the first call and kept for the next ones;
\* of text NoOut, which is NULL, there is none to return.
ruHtmlEncodeText(rc, text) ==
  LET r == ruCleanToString(rc, text, 0) IN [rc |-> r.c, text |-> r.out]

\* A numeric entity: a decimal one ends in the use of its number as an
\* address, and what is neither decimal nor hexadecimal in one of NULL; a
\* hexadecimal one is read from its x on and so is never one.
NumericFault(s, i) ==
  LET Used(r) == At(s, i + 1 + r.end) = 59 /\ r.out \in 0..65533
  IN At(s, i + 2) # 120 /\ (\/ At(s, i + 2) \notin Digit
                            \/ Used(ruStrParseInt(From(s, i + 2), IntBits, 10)))

\* What the & or other byte at place i becomes, and where what follows starts.
Decoded(text, next) == [text |-> text, next |-> next]
NamedEntity(s, i, ends) ==
  IF ends = {} THEN Decoded(<<Amp>>, i + 1)
  ELSE LET p == LeastOf(ends) IN Decoded(getEntityMap[SubSeq(s, i + 1, p - 1)], p + 1)
DecodeAt(s, i) ==
  CASE At(s, i) # Amp -> Decoded(<<s[i]>>, i + 1)
    [] At(s, i) = Amp /\ At(s, i + 1) = 35 -> Decoded(SubSeq(s, i, i + 1), i + 2)
    [] OTHER -> NamedEntity(s, i, {p \in (i + 2)..(i + 1 + MAX_ENTITY_LEN) :
                  At(s, p) = 59 /\ SubSeq(s, i + 1, p - 1) \in DOMAIN getEntityMap})

RECURSIVE DecodeFrom(_, _, _)
DecodeFrom(s, i, text) ==
  LET And(d) == DecodeFrom(s, d.next, text \o d.text)
  IN CASE i > Len(s) -> [text |-> text, fault |-> FALSE]
       [] i <= Len(s) /\ At(s, i) = Amp /\ At(s, i + 1) = 35 /\ NumericFault(s, i) ->
            [text |-> text, fault |-> TRUE]
       [] OTHER -> And(DecodeAt(s, i))
entityDecode(s) == DecodeFrom(s, 1, << >>)

---------------------------------------------------------------------------
(* The parser, and the tokens that make up a text of tags                  *)

Token(k, name, attrs, text) == [k |-> k, name |-> name, attrs |-> attrs, text |-> text]
Node(t, kids) == [type |-> t.k, name |-> t.name, attrs |-> t.attrs, text |-> t.text, kids |-> kids]
DocType == Token("doctype", "", << >>, << >>)
Open(name, attrs) == Token("tag", name, attrs, << >>)
Close == Token("close", "", << >>, << >>)
Text(s) == Token("text", "", << >>, s)

\* The tree of a well-formed sequence of tokens; what is left open is closed.
tidyParse(tokens) ==
  LET Shut(st) ==
        LET n == Len(st)
            child == Node(st[n].open, st[n].kids)
        IN [SubSeq(st, 1, n - 1) EXCEPT ![n - 1].kids = Append(@, child)]
      Step(st, t) ==
        CASE t.k = "tag" -> Append(st, [open |-> t, kids |-> << >>])
          [] t.k = "close" -> IF Len(st) > 1 THEN Shut(st) ELSE st
          [] OTHER -> [st EXCEPT ![Len(st)].kids = Append(@, Node(t, << >>))]
      ShutAll(st) == FoldLeft(LAMBDA s, i : Shut(s), st, Tail(st))
  IN ShutAll(FoldLeft(Step, <<[open |-> DocType, kids |-> << >>]>>, tokens))[1].kids

\* The document tidy makes of a body.
tidyDocument(body) ==
  <<Node(DocType, << >>),
    Node(Open("html", << >>), <<Node(Open("head", << >>), << >>), Node(Open("body", << >>), body)>>)>>
tidyGetBody(doc) ==
  LET Named(nodes, name) ==
        FoldLeft(\o, << >>, [i \in DOMAIN nodes |-> IF nodes[i].name = name THEN nodes[i].kids ELSE << >>])
  IN Named(Named(doc, "html"), "body")

---------------------------------------------------------------------------
(* Filtering                                                               *)

excludeTagSet == {"applet", "script", "object", "iframe", "noframes", "noscript"}
excludeAttrSet ==
  {"onabort", "onblur", "onchange", "onclick", "ondblclick", "onerror", "onfocus",
   "onkeydown", "onkeypress", "onkeyup", "onload", "onmousedown", "onmousemove",
   "onmouseout", "onmouseover", "onmouseup", "onreset", "onselect", "onsubmit",
   "onunload", "javascript", "eval", "script"}
lfTtags == {"br", "div", "h1", "h2", "h3", "h4", "h5", "h6", "hr", "ol", "p", "tr", "ul"}

RECURSIVE filterTags(_, _)
filterTags(pc, nodes) ==
  LET Emit(p, tokens) == [p EXCEPT !.pass1 = @ \o tokens]
      Tag(p, child) ==
        LET named == SelectSeq(child.attrs, LAMBDA a : a # "")
            attrs == SelectSeq(named, LAMBDA a : a \notin p.excludeAttrs)
            opened == Emit([p EXCEPT !.didExclude = @ \/ attrs # named],
                           <<Open(child.name, attrs)>> \o
                           IF child.name = "head" THEN <<Open("meta", <<"charset">>), Close>>
                           ELSE << >>)
        IN Emit(filterTags(opened, child.kids), <<Close>>)
      Child(p, child) ==
        CASE child.type = "doctype" -> filterTags(Emit(p, <<DocType>>), child.kids)
          [] child.type = "tag" ->
               IF child.name \in p.excludeTags THEN [p EXCEPT !.didExclude = TRUE]
               ELSE Tag(p, child)
          [] OTHER -> filterTags(IF child.text = << >> THEN p
                                 ELSE Emit(p, <<Token(child.type, "", << >>, child.text)>>),
                                 child.kids)
  IN FoldLeft(Child, pc, nodes)

\* Two spaces (INDENT) for each level.
Indent(n) == IF n < 1 THEN << >> ELSE [i \in 1..(2 * n) |-> 32]

\* What a text node adds: the text without blanks around it, decoded.
NodeText(text) ==
  LET Trimmed(b) == SubSeq(text, b.start, b.start + b.len - 1)
  IN entityDecode(Trimmed(ruStrTrimBounds(text, 1, Len(text)))).text

\* A list's indent is only taken back where its end finds a line started.
RECURSIVE filterText(_, _)
filterText(pc, nodes) ==
  LET List(child) == IF child.name \in {"ul", "ol"} THEN 1 ELSE 0
      Start(p) == IF p.lineStarted THEN p
                  ELSE [p EXCEPT !.lineStarted = TRUE, !.txt = @ \o Indent(p.indent)]
      Break(p) == IF p.lineStarted THEN [p EXCEPT !.lineStarted = FALSE, !.txt = Append(@, 10)]
                  ELSE p
      Add(p, s) == IF s = << >> THEN p
                   ELSE IF p.lineStarted THEN [p EXCEPT !.txt = @ \o <<32>> \o s]
                   ELSE [Start(p) EXCEPT !.txt = @ \o s]
      End(p, less) == IF p.lineStarted THEN [Break(p) EXCEPT !.indent = @ - less] ELSE p
      Child(p, child) ==
        CASE child.type = "tag" /\ child.name \in lfTtags ->
               End(filterText([Break(p) EXCEPT !.indent = @ + List(child)], child.kids), List(child))
          [] child.type = "tag" /\ child.name = "li" ->
               End(filterText([Start(p) EXCEPT !.txt = Append(@, 42)], child.kids), 0)
          [] child.type = "text" -> filterText(Add(p, NodeText(child.text)), child.kids)
          [] OTHER -> filterText(p, child.kids)
  IN FoldLeft(Child, pc, nodes)

\* Mutant: the line is not reset.
startFilterText_NoReset(body) ==
  filterText([txt |-> << >>, lineStarted |-> TRUE, indent |-> -1], body).txt

startFilterText(body) ==
  filterText([txt |-> << >>, lineStarted |-> FALSE, indent |-> -1], body).txt

\* html is the filtered document, or the input where nothing was excluded.
Result(excluded, doc, second) ==
  [unchanged |-> ~excluded, html |-> IF excluded THEN second ELSE doc,
   plainTxt |-> startFilterText(tidyGetBody(second))]
SecondPass(pc, doc) == Result(pc.didExclude, doc, tidyParse(pc.pass1))
ruHtmlSanitizeCustom(body, excludeTags, excludeAttrs) ==
  SecondPass(filterTags([pass1 |-> << >>, didExclude |-> FALSE, excludeTags |-> excludeTags,
                         excludeAttrs |-> excludeAttrs], tidyDocument(body)),
             tidyDocument(body))
ruHtmlSanitize(body) == ruHtmlSanitizeCustom(body, excludeTagSet, excludeAttrSet)

HtmlStart == <<60, 104, 116, 109, 108>>
HtmlEnd == <<60, 47, 104, 116, 109, 108, 62>>
ruHtmlTestFor(s) ==
  /\ ruStrCaseStrLen(s, HtmlStart, IF Len(s) > 200 THEN 200 ELSE Len(s)) # 0
  /\ ruStrCaseStrLen(From(s, IF Len(s) > 20 THEN Len(s) - 19 ELSE 1), HtmlEnd,
                     IF Len(s) > 20 THEN 20 ELSE Len(s)) # 0
===========================================================================
