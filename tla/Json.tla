-------------------------------- MODULE Json --------------------------------
(***************************************************************************)
(* The json functions of lib/json.c: the setters, which drive a generator, *)
(* and the getters, which look into a parsed tree.  The generator and the  *)
(* parser (yajl) are not this library's; they are modelled from the calls  *)
(* lib/json.c makes of them.  A text is the sequence of its brackets, keys *)
(* and values.  A value is a node; a number has twice its value in twice,  *)
(* so that halves are there, and a double is a number with an odd one.     *)
(***************************************************************************)
EXTENDS Strings, FiniteSets

Node(t, twice, str, keys, vals) ==
  [t |-> t, twice |-> twice, str |-> str, keys |-> keys, vals |-> vals]
Atom(t) == Node(t, 0, << >>, << >>, << >>)
NoNode == Atom("none")
Null == Atom("null")
Number(twice) == Node("number", twice, << >>, << >>, << >>)
Str(s) == Node("string", 0, s, << >>, << >>)
Bool(b) == Atom(IF b THEN "true" ELSE "false")
NoText == <<-1>>       \* no string
NoOutput == <<NoNode>>  \* no text written

---------------------------------------------------------------------------
(* The generator                                                           *)

\* It asks for a string where a key must come, and refuses a string that is
\* not UTF-8 and a double that is no number; it does not ask which container
\* a bracket closes, nor whether a key has its value.
Expects(g) == Last(g.states)
AfterAtom(states) ==
  LET n == Len(states)
  IN [states EXCEPT ![n] = CASE @ = "start" -> "complete" [] @ = "key" -> "value"
                             [] @ = "value" -> "key" [] OTHER -> @]
yajl_gen(g, tok) ==
  LET fails == [ok |-> FALSE, g |-> g]
      Works(states) == [ok |-> TRUE, g |-> [states |-> states, text |-> Append(g.text, tok)]]
  IN CASE g.states = << >> \/ Expects(g) = "complete" -> fails
       [] OTHER ->
          CASE tok.t \in {"}", "]"} ->
                 IF Len(g.states) = 1 THEN [fails EXCEPT !.g.states = << >>]
                 ELSE Works(AfterAtom(Front(g.states)))
            [] tok.t \notin {"}", "]"} /\ \/ tok.t # "string" /\ Expects(g) = "key"
                                          \/ tok.t = "none" -> fails
            [] tok.t \in {"{", "["} /\ Expects(g) # "key" ->
                 Works(Append(g.states, IF tok.t = "{" THEN "key" ELSE "element"))
            [] OTHER -> Works(AfterAtom(g.states))

---------------------------------------------------------------------------
(* The setters.  A value that the generator refuses is NoNode.             *)

\* The calls of the generator one setter makes, up to the first that fails.
Outcome(j, r) ==
  [ret |-> IF r.ok THEN RUE_OK ELSE RUE_INVALID_PARAMETER, j |-> [j EXCEPT !.g = r.g]]
Call(j, toks) ==
  Outcome(j, FoldLeft(LAMBDA a, t : IF a.ok THEN yajl_gen(a.g, t) ELSE a, [ok |-> TRUE, g |-> j.g], toks))
\* Mutant: the key is not written.
Keyed_ValueOnly(j, key, tok) == Call(j, <<tok>>)

Keyed(j, key, tok) ==
  IF key = NoText THEN [ret |-> RUE_PARAMETER_NOT_SET, j |-> j] ELSE Call(j, <<Str(key), tok>>)

ruJsonNew == [open |-> "none", g |-> [states |-> <<"start">>, text |-> << >>]]
ruJsonStart(map) ==
  [Call(ruJsonNew, <<Atom(IF map THEN "{" ELSE "[")>>).j EXCEPT !.open = IF map THEN "}" ELSE "]"]
ruJsonStartMap(j) == Call(j, <<Atom("{")>>)
ruJsonEndMap(j) == Call(j, <<Atom("}")>>)
ruJsonStartArray(j) == Call(j, <<Atom("[")>>)
ruJsonEndArray(j) == Call(j, <<Atom("]")>>)
StrOrNull(val) == IF val = NoText THEN Null ELSE Str(val)
ruJsonSetInt(j, n) == Call(j, <<Number(2 * n)>>)
NaN == 1000001
Double(twice) == IF twice = NaN THEN NoNode ELSE Number(twice)
ruJsonSetDouble(j, twice) == Call(j, <<Double(twice)>>)
ruJsonSetStr(j, val) == Call(j, <<StrOrNull(val)>>)
ruJsonSetKeyStr(j, key, val) == Keyed(j, key, StrOrNull(val))
ruJsonSetKeyInt(j, key, n) == Keyed(j, key, Number(2 * n))
ruJsonSetKeyDouble(j, key, twice) == Keyed(j, key, Double(twice))
ruJsonStartKeyMap(j, key) == Keyed(j, key, Atom("{"))
ruJsonStartKeyArray(j, key) == Keyed(j, key, Atom("["))

\* A container that cannot be closed leaves the text unset, and the code says
\* RUE_OK all the same.
TextOf(r) == [ret |-> RUE_OK, j |-> r.j, text |-> IF r.ret = RUE_OK THEN r.j.g.text ELSE NoOutput]
ruJsonWrite(j) == TextOf(Call(j, IF j.open = "none" THEN << >> ELSE <<Atom(j.open)>>))

---------------------------------------------------------------------------
(* The parser: the tree of a text that is one value, NoNode else           *)

yajl_tree_parse(text) ==
  LET Bottom == Atom("text")
      Takes(f) == f.t # "object" \/ Len(f.keys) > Len(f.vals)
      \* A value, or a key, for the container on top.
      Give(st, v) ==
        LET n == Len(st)
        IN CASE st = << >> -> << >>
             [] st # << >> /\ Takes(st[n]) -> [st EXCEPT ![n].vals = Append(@, v)]
             [] OTHER -> IF v.t = "string" THEN [st EXCEPT ![n].keys = Append(@, v.str)] ELSE << >>
      Shuts(st, t) ==
        /\ st # << >>
        /\ t = (CASE Last(st).t = "object" -> "}" [] Last(st).t = "array" -> "]" [] OTHER -> "")
        /\ Last(st).t = "object" => ~Takes(Last(st))
      Step(st, tok) ==
        CASE tok.t \in {"}", "]"} -> IF Shuts(st, tok.t) THEN Give(Front(st), Last(st)) ELSE << >>
          [] tok.t \in {"{", "["} ->
               IF st = << >> \/ ~Takes(Last(st)) THEN << >>
               ELSE Append(st, Atom(IF tok.t = "{" THEN "object" ELSE "array"))
          [] OTHER -> Give(st, tok)
      Only(end) == IF Len(end) = 1 /\ Len(end[1].vals) = 1 THEN end[1].vals[1] ELSE NoNode
  IN Only(FoldLeft(Step, <<Bottom>>, text))

\* A handle is a json object (top) or a node inside one.
NoHandle == [top |-> TRUE, node |-> NoNode]
Handle(v) ==
  IF v = NoNode THEN [ret |-> RUE_INVALID_PARAMETER, rj |-> NoHandle]
  ELSE [ret |-> RUE_OK, rj |-> [top |-> TRUE, node |-> v]]
ruJsonParse(text) == Handle(yajl_tree_parse(text))

---------------------------------------------------------------------------
(* The getters.  Each returns its code and its value.                      *)

Result(ret, out) == [ret |-> ret, out |-> out]
\* The value found, looked at, or the code of what found none.
Found(r, Look(_), none) == IF r.out = NoNode THEN Result(r.ret, none) ELSE Look(r.out)

IsInteger(v) == v.t = "number" /\ v.twice % 2 = 0
Truncated(v) == IF v.twice < 0 THEN -((-v.twice) \div 2) ELSE v.twice \div 2

\* A generator is a handle too, with no node; a node inside a tree is no json
\* object, and stands for itself.
getYajlVal(rj) ==
  IF rj.node = NoNode THEN Result(RUE_INVALID_PARAMETER, NoNode) ELSE Result(RUE_OK, rj.node)

parseNum(v) ==
  CASE v.t = "number" -> Result(RUE_OK, Truncated(v))
    [] v.t = "string" -> Result(RUE_OK, ruStrParseInt(v.str, IntBits, 10).out)
    [] OTHER -> Result(RUE_FILE_NOT_FOUND, 0)

parseBool(v) ==
  CASE v.t \in {"true", "false"} -> Result(RUE_OK, v.t = "true")
    [] v.t = "number" -> Result(IF Truncated(v) \in {0, 1} THEN RUE_OK ELSE RUE_FILE_NOT_FOUND,
                                Truncated(v) = 1)
    [] v.t = "string" -> Result(IF ruIsBool(v.str) THEN RUE_OK ELSE RUE_FILE_NOT_FOUND,
                                ruStrParseBool(v.str).out)
    [] OTHER -> Result(RUE_FILE_NOT_FOUND, FALSE)

\* The text of a value: of a number its value, of a complex one nothing.
toString(v) ==
  IF v.t \in {"object", "array"} THEN Result(RUE_INVALID_PARAMETER, Null)
  ELSE Result(RUE_OK, v)

jsonKey(rj, key, t) ==
  LET r == getYajlVal(rj)
      at == {i \in DOMAIN r.out.keys : r.out.keys[i] = key}
      v == r.out.vals[LeastOf(at)]
  IN CASE r.out = NoNode -> r
       [] r.out # NoNode /\ key = NoText -> Result(RUE_PARAMETER_NOT_SET, NoNode)
       [] OTHER -> IF at # {} /\ (t = "any" \/ v.t = t) THEN Result(RUE_OK, v)
                   ELSE Result(RUE_FILE_NOT_FOUND, NoNode)

jsonIdx(rj, index, t) ==
  LET r == getYajlVal(rj)
      v == r.out.vals[index + 1]
  IN CASE r.out = NoNode -> r
       [] r.out # NoNode /\ r.out.t # "array" -> Result(RUE_INVALID_PARAMETER, NoNode)
       [] r.out.t = "array" /\ index >= Len(r.out.vals) -> Result(RUE_WRONG_PARAMETER_LENGTH, NoNode)
       [] OTHER -> IF t = "any" \/ v.t = t THEN Result(RUE_OK, v)
                   ELSE Result(RUE_FILE_NOT_FOUND, NoNode)

nodeStr(v) ==
  IF v.t = "string" THEN Result(RUE_OK, v.str) ELSE Result(RUE_INVALID_PARAMETER, NoText)
nodeBool(v) ==
  Result(IF v.t \in {"true", "false"} THEN RUE_OK ELSE RUE_INVALID_PARAMETER, v.t = "true")
nodeInt(v) ==
  IF IsInteger(v) THEN Result(RUE_OK, Truncated(v)) ELSE Result(RUE_INVALID_PARAMETER, 0)
\* An integer is valid as a double.
nodeDouble(v) ==
  IF v.t = "number" THEN Result(RUE_OK, v.twice) ELSE Result(RUE_INVALID_PARAMETER, 0)
Inside(v, t) ==
  IF v.t = t THEN Result(RUE_OK, [top |-> FALSE, node |-> v])
  ELSE Result(RUE_INVALID_PARAMETER, NoHandle)
nodeMap(v) == Inside(v, "object")
nodeArray(v) == Inside(v, "array")

ruJsonArrayLen(rj) ==
  Found(getYajlVal(rj),
        LAMBDA v : IF v.t = "array" THEN Result(RUE_OK, Len(v.vals)) ELSE Result(RUE_INVALID_PARAMETER, 0), 0)
ruJsonStr(rj) == Found(getYajlVal(rj), nodeStr, NoText)
ruJsonParseInt(rj) == Found(getYajlVal(rj), parseNum, 0)
ruJsonInt(rj) == Found(getYajlVal(rj), nodeInt, 0)
ruJsonParseBool(rj) == Found(getYajlVal(rj), parseBool, FALSE)
ruJsonBool(rj) == Found(getYajlVal(rj), nodeBool, FALSE)
ruJsonKeys(rj) ==
  Found(getYajlVal(rj),
        LAMBDA v : IF v.t = "object" THEN Result(RUE_OK, v.keys) ELSE Result(RUE_INVALID_PARAMETER, << >>),
        << >>)

ruJsonKeyStr(rj, key) == Found(jsonKey(rj, key, "string"), nodeStr, NoText)
ruJsonKeyToStr(rj, key) == Found(jsonKey(rj, key, "any"), toString, Null)
ruJsonKeyParseInt(rj, key) == Found(jsonKey(rj, key, "any"), parseNum, 0)
ruJsonKeyInt(rj, key) == Found(jsonKey(rj, key, "number"), nodeInt, 0)
ruJsonKeyDouble(rj, key) == Found(jsonKey(rj, key, "number"), nodeDouble, 0)
ruJsonKeyParseBool(rj, key) == Found(jsonKey(rj, key, "any"), parseBool, FALSE)
ruJsonKeyBool(rj, key) == Found(jsonKey(rj, key, "any"), nodeBool, FALSE)
ruJsonKeyMap(rj, key) == Found(jsonKey(rj, key, "object"), nodeMap, NoHandle)
ruJsonKeyArray(rj, key) == Found(jsonKey(rj, key, "array"), nodeArray, NoHandle)

\* A truth value is asked for as a number, so that none is ever found.
ruJsonIdxStr(rj, index) == Found(jsonIdx(rj, index, "string"), nodeStr, NoText)
ruJsonIdxParseInt(rj, index) == Found(jsonIdx(rj, index, "any"), parseNum, 0)
ruJsonIdxInt(rj, index) == Found(jsonIdx(rj, index, "number"), nodeInt, 0)
ruJsonIdxParseBool(rj, index) == Found(jsonIdx(rj, index, "number"), parseBool, FALSE)
ruJsonIdxBool(rj, index) == Found(jsonIdx(rj, index, "number"), nodeBool, FALSE)
ruJsonIdxDouble(rj, index) == Found(jsonIdx(rj, index, "number"), nodeDouble, 0)
ruJsonIdxMap(rj, index) == Found(jsonIdx(rj, index, "object"), nodeMap, NoHandle)
ruJsonIdxArray(rj, index) == Found(jsonIdx(rj, index, "array"), nodeArray, NoHandle)
===========================================================================
