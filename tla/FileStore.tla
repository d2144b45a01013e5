------------------------------- MODULE FileStore -------------------------------
(***************************************************************************)
(* io.c and kvstore.c: keys are files below a folder.  A value is written  *)
(* to a temporary file beside its key and renamed; several processes may   *)
(* use a store, fail to write, and crash.                                  *)
(*                                                                         *)
(* A path is a sequence of components, a component a name or a name with   *)
(* the suffix of a temporary file; a file is an inode with blocks of data. *)
(* What is said of other file systems and of power failures is left out.   *)
(***************************************************************************)
EXTENDS Integers, SequencesExt

CONSTANTS Caller, Key, Value,
          Length,   \* how many blocks a value has
          Suffix,   \* what ruOpenTmp may pick
          Ops,      \* what callers do: "set", "del", "get", "copy", "list", "wipe"
          Faults,   \* what may go wrong: "write", "read", "crash"
          MaxOps    \* how many calls there are (a bound of the runs)

None == 0 \* no such file
Dir == -1 \* any other node is an inode

Tmp(p, s) == [p EXCEPT ![Len(p)] = @ \o <<s>>]
Folders == UNION {{SubSeq(k, 1, n) : n \in 0..Len(k) - 1} : k \in Key}
Path == Key \cup Folders \cup {Tmp(k, s) : k \in Key, s \in Suffix}

(* No key is named like the temporary file of another. *)
ASSUME FileStoreAssumption ==
    /\ Key \subseteq Seq(Seq(STRING)) \ {<<>>} /\ Suffix \subseteq STRING
    /\ IsFiniteSet(Key) /\ IsFiniteSet(Suffix)
    /\ \A k \in Key, s \in Suffix : Tmp(k, s) \notin Key \cup Folders
    /\ Length \in [Value -> Nat]

VARIABLES
    node,   \* what is at each path
    data,   \* the blocks of each inode
    pc, call,
    made,   \* the calls so far
    crashed, spoiled  \* histories: inodes that two calls, or a failed one, have written

vars == <<node, data, pc, call, made, crashed, spoiled>>

Blank == [op |-> "none", key |-> <<>>, val |-> "none", tmp |-> <<>>, ino |-> None, src |-> None,
          at |-> 0, todo |-> <<>>, seen |-> {}, stay |-> {}, ret |-> "none"]

CallType == [op : {"none", "set", "del", "copy", "get", "list", "wipe"}, key : Path \cup {<<>>},
             val : Value \cup {"none"}, tmp : Path \cup {<<>>}, ino : Nat, src : Nat, at : Nat,
             todo : Seq({"enter", "leave", "file"} \X Path), seen : SUBSET Path,
             stay : SUBSET (Path \X Nat),
             ret : {"none", "ok", "FILE_NOT_FOUND", "INVALID_PARAMETER", "FILE_EXISTS", "CANT_OPEN_FILE",
                    "CANT_WRITE", "GENERAL"}]

TypeOK ==
    /\ node \in [Path -> Nat \cup {Dir}]
    /\ data \in Seq(Seq(Value \X Nat))
    /\ pc \in [Caller -> {"idle", "read", "mkdir", "open", "write", "rename", "remove", "walk"}]
    /\ call \in [Caller -> CallType]
    /\ made \in Nat /\ crashed \in BOOLEAN /\ spoiled \subseteq Nat

Init ==
    /\ node = [p \in Path |-> IF p = <<>> THEN Dir ELSE None]
    /\ data = <<>>
    /\ pc = [c \in Caller |-> "idle"] /\ call = [c \in Caller |-> Blank]
    /\ made = 0 /\ crashed = FALSE /\ spoiled = {}

(* errno2rfec, for the errors that occur here *)
Rfec(errno) ==
    CASE errno \in {"ENOENT", "ENOTDIR"} -> "FILE_NOT_FOUND"
      [] errno \in {"EACCES", "EPERM", "EMFILE"} -> "CANT_OPEN_FILE"
      [] errno = "EEXIST" -> "FILE_EXISTS"
      [] OTHER -> "GENERAL"

IsDir(p) == node[p] = Dir
IsFile(p) == node[p] > 0
Exists(p) == node[p] # None
Parent(p) == Front(p)
Children(p) == {q \in Path : q # <<>> /\ Parent(q) = p /\ Exists(q)}

Goto(c, label) == pc' = [pc EXCEPT ![c] = label]
Start(c, new) == call' = [call EXCEPT ![c] = new]
Done(c, r) == Goto(c, "idle") /\ call' = [call EXCEPT ![c] = [Blank EXCEPT !.ret = r]]

NotAFile(p) == IF Exists(p) THEN "INVALID_PARAMETER" ELSE "FILE_NOT_FOUND"

Begin(c) ==
    /\ pc[c] = "idle" /\ made < MaxOps
    /\ made' = made + 1
    /\ \E k \in Key :
        \/ /\ "set" \in Ops /\ Goto(c, "mkdir")
           /\ \E v \in Value : Start(c, [Blank EXCEPT !.op = "set", !.key = k, !.val = v])
        \/ /\ "del" \in Ops /\ Goto(c, "mkdir")
           /\ Start(c, [Blank EXCEPT !.op = "del", !.key = k])
        \/ /\ "copy" \in Ops
           /\ \E s \in Key \ {k} :
            IF IsFile(s)
            THEN Goto(c, "open") /\ Start(c, [Blank EXCEPT !.op = "copy", !.key = k, !.src = node[s]])
            ELSE Done(c, NotAFile(s))
    /\ UNCHANGED <<node, data, crashed, spoiled>>

(* ruFileStoreGet and ruFileGetContents: the file that is opened, not the
   path, is read. *)
Get(c) ==
    /\ pc[c] = "idle" /\ made < MaxOps /\ "get" \in Ops
    /\ made' = made + 1
    /\ \E k \in Key :
        IF IsFile(k)
        THEN Goto(c, "read") /\ Start(c, [Blank EXCEPT !.op = "get", !.key = k, !.src = node[k]])
        ELSE Done(c, NotAFile(k))
    /\ UNCHANGED <<node, data, crashed, spoiled>>

Read(c) ==
    /\ pc[c] = "read"
    /\ \E r \in {"ok"} \cup IF "read" \in Faults THEN {"CANT_OPEN_FILE"} ELSE {} : Done(c, r)
    /\ UNCHANGED <<node, data, made, crashed, spoiled>>

(* ruMkdir(deep): also for a key that is removed. *)
Mkdir(c) ==
    LET d == Parent(call[c].key)
        up == {SubSeq(d, 1, n) : n \in 0..Len(d)}
    IN  /\ pc[c] = "mkdir"
        /\ IF \E p \in up : IsFile(p)
           THEN Done(c, "FILE_EXISTS") /\ UNCHANGED node
           ELSE /\ node' = [p \in Path |-> IF p \in up THEN Dir ELSE node[p]]
                /\ Goto(c, IF call[c].op = "del" THEN "remove" ELSE "open")
                /\ UNCHANGED call
        /\ UNCHANGED <<data, made, crashed, spoiled>>

(* ruOpenTmp, without O_EXCL and O_TRUNC: an existing file is opened. *)
OpenTmp(c) ==
    /\ pc[c] = "open"
    /\ \E s \in Suffix :
        LET t == Tmp(call[c].key, s) IN
        IF ~IsDir(Parent(t)) \/ IsDir(t)
        THEN Done(c, Rfec("ENOENT")) /\ UNCHANGED <<node, data, spoiled>>
        ELSE /\ Goto(c, "write")
             /\ IF IsFile(t)
                THEN /\ call' = [call EXCEPT ![c].tmp = t, ![c].ino = node[t]]
                     /\ spoiled' = spoiled \cup {node[t]} /\ UNCHANGED <<node, data>>
                ELSE /\ call' = [call EXCEPT ![c].tmp = t, ![c].ino = Len(data) + 1]
                     /\ node' = [node EXCEPT ![t] = Len(data) + 1]
                     /\ data' = Append(data, <<>>) /\ UNCHANGED spoiled
    /\ UNCHANGED <<made, crashed>>

Bytes(v) == [i \in 1..Length[v] |-> <<v, i>>]
Content(c) == IF call[c].op = "copy" THEN data[call[c].src] ELSE Bytes(call[c].val)

(* Mutant: the pointer to what is to be written is not advanced. *)
Write_Again(c) ==
    LET i == call[c].at + 1  old == data[call[c].ino]
    IN  /\ pc[c] = "write" /\ i <= Len(Content(c))
        /\ data' = [data EXCEPT ![call[c].ino] =
                        IF i <= Len(old) THEN [old EXCEPT ![i] = Content(c)[1]] ELSE Append(old, Content(c)[1])]
        /\ call' = [call EXCEPT ![c].at = i]
        /\ UNCHANGED <<node, pc, made, crashed, spoiled>>

(* One block is written, whole (ruFileCopy drops what a short write leaves of
   its block, which is left out) ... *)
Write(c) ==
    LET i == call[c].at + 1  old == data[call[c].ino]
    IN  /\ pc[c] = "write" /\ i <= Len(Content(c))
        /\ data' = [data EXCEPT ![call[c].ino] =
                        IF i <= Len(old) THEN [old EXCEPT ![i] = Content(c)[i]] ELSE Append(old, Content(c)[i])]
        /\ call' = [call EXCEPT ![c].at = i]
        /\ UNCHANGED <<node, pc, made, crashed, spoiled>>

(* Mutant: one write is taken to have written everything. *)
Written_Once(c) ==
    /\ pc[c] = "write" /\ call[c].at = 1
    /\ Goto(c, "rename")
    /\ UNCHANGED <<node, data, call, made, crashed, spoiled>>

(* ... until all are, or it fails; ruFileCopy also stops when it can't read. *)
Written(c) ==
    /\ pc[c] = "write"
    /\ \/ /\ call[c].at = Len(Content(c))
          /\ spoiled' = spoiled \cup IF call[c].src \in spoiled THEN {call[c].ino} ELSE {}
       \/ /\ call[c].at < Len(Content(c))
          /\ "write" \in Faults
          /\ spoiled' = spoiled \cup {call[c].ino}
    /\ Goto(c, "rename")
    /\ UNCHANGED <<node, data, call, made, crashed>>

Renamable(c) == Exists(call[c].tmp) /\ ~IsDir(call[c].key)

(* Mutant: the temporary file stays when it can't be renamed. *)
Rename_Stays(c) ==
    /\ pc[c] = "rename"
    /\ LET t == call[c].tmp IN
       IF Renamable(c)
       THEN /\ node' = [node EXCEPT ![call[c].key] = node[t], ![t] = None]
            /\ spoiled' = spoiled \cup IF node[t] = call[c].ino THEN {} ELSE {node[t]}
            /\ Done(c, "ok")
       ELSE UNCHANGED <<node, spoiled>> /\ Done(c, "CANT_WRITE")
    /\ UNCHANGED <<data, made, crashed>>

(* ruFileRename replaces what is there and gives the result of the whole
   call; the temporary file is removed if it fails. *)
Rename(c) ==
    /\ pc[c] = "rename"
    /\ LET t == call[c].tmp IN
       IF Renamable(c)
       THEN /\ node' = [node EXCEPT ![call[c].key] = node[t], ![t] = None]
            /\ spoiled' = spoiled \cup IF node[t] = call[c].ino THEN {} ELSE {node[t]}
            /\ Done(c, "ok")
       ELSE /\ node' = [node EXCEPT ![t] = None]
            /\ UNCHANGED spoiled /\ Done(c, "CANT_WRITE")
    /\ UNCHANGED <<data, made, crashed>>

(* ruFileRemove takes a path that is not there for removed. *)
Removable(p) == IsDir(p) => Children(p) = {}

FileRemove(c) ==
    /\ pc[c] = "remove"
    /\ LET k == call[c].key IN
       IF Removable(k) THEN node' = [node EXCEPT ![k] = None] /\ Done(c, "ok")
                       ELSE UNCHANGED node /\ Done(c, Rfec("ENOTEMPTY"))
    /\ UNCHANGED <<data, made, crashed, spoiled>>

(* ruFolderRemove removes a file at once; what is a file or nothing at all
   has no entries to list. *)
First(op, d) == IF op = "wipe" /\ IsFile(d) THEN <<"file", d>> ELSE <<"enter", d>>

(* ruFileStoreList and ruFolderRemove walk a folder. *)
Walk(c) ==
    /\ pc[c] = "idle" /\ made < MaxOps
    /\ made' = made + 1
    /\ \E op \in {"list", "wipe"} \cap Ops, d \in Folders :
        /\ Start(c, [Blank EXCEPT !.op = op, !.key = d, !.todo = <<First(op, d)>>,
                !.stay = {<<p, node[p]>> : p \in {q \in Path : IsFile(q) /\ IsStrictPrefix(d, q)}}])
        /\ Goto(c, "walk")
    /\ UNCHANGED <<node, data, crashed, spoiled>>

Item(p) == <<IF IsDir(p) THEN "enter" ELSE "file", p>>

(* Mutant: folders in folders are not entered. *)
Enter_Shallow(p) ==
    IF IsDir(p) THEN {[i \in DOMAIN s |-> <<"file", s[i]>>] \o <<<<"leave", p>>>> : s \in SetToSeqs(Children(p))} ELSE {<<>>}

(* The entries of a folder, in any order, come before the folder itself. *)
Enter(p) ==
    IF IsDir(p) THEN {[i \in DOMAIN s |-> Item(s[i])] \o <<<<"leave", p>>>> : s \in SetToSeqs(Children(p))} ELSE {<<>>}

WalkStep(c) ==
    LET kind == call[c].todo[1][1]  p == call[c].todo[1][2]  rest == Tail(call[c].todo)
        go == call' = [call EXCEPT ![c].todo = rest] /\ UNCHANGED pc
    IN  /\ pc[c] = "walk" /\ call[c].todo # <<>>
        /\ CASE kind = "enter" ->
                  /\ \E items \in Enter(p) : call' = [call EXCEPT ![c].todo = items \o rest]
                  /\ UNCHANGED <<node, pc>>
             [] kind # "enter" /\ call[c].op = "list" ->
                  /\ call' = [call EXCEPT ![c].todo = rest,
                                         ![c].seen = @ \cup IF kind = "file" THEN {p} ELSE {}]
                  /\ UNCHANGED <<node, pc>>
             [] kind # "enter" /\ call[c].op = "wipe" ->
                  IF Removable(p) THEN node' = [node EXCEPT ![p] = None] /\ go
                                  ELSE UNCHANGED node /\ Done(c, "GENERAL")
        /\ UNCHANGED <<data, made, crashed, spoiled>>

WalkEnds(c) ==
    /\ pc[c] = "walk" /\ call[c].todo = <<>>
    /\ Done(c, "ok")
    /\ UNCHANGED <<node, data, made, crashed, spoiled>>

(* All processes end where they are; what was written stays. *)
Crash ==
    /\ "crash" \in Faults /\ ~crashed
    /\ crashed' = TRUE
    /\ pc' = [c \in Caller |-> "idle"] /\ call' = [c \in Caller |-> Blank]
    /\ UNCHANGED <<node, data, made, spoiled>>

Next ==
    \/ \E c \in Caller :
        \/ Begin(c) \/ Get(c) \/ Read(c) \/ Mkdir(c) \/ OpenTmp(c) \/ Write(c) \/ Written(c)
        \/ Rename(c) \/ FileRemove(c) \/ Walk(c) \/ WalkStep(c) \/ WalkEnds(c)
    \/ Crash

Spec == Init /\ [][Next]_vars
-----------------------------------------------------------------------------
Whole(i) == i \in spoiled \/ \E v \in Value : data[i] = Bytes(v)

(* A key's file, and a file that a get has opened, hold one whole value,
   though processes crash and remove folders meanwhile; the exceptions are
   files that a failed write, two calls with one temporary name, or one call
   after a crash have written. *)
WholeFiles ==
    /\ \A k \in Key : IsFile(k) => Whole(node[k])
    /\ \A c \in Caller : pc[c] = "read" => Whole(call[c].src)

Publishes(c) == pc[c] = "rename" /\ call[c].op = "set" /\ call'[c].ret = "ok"

(* A set that succeeds has stored its value, with the same exceptions. *)
SetStores ==
    [][\A c \in Caller : Publishes(c) =>
        LET i == node'[call[c].key] IN i \in spoiled' \/ data[i] = Bytes(call[c].val)]_vars

(* kvstore.h, kvset: "RUE_OK on success else an error code". *)
SetReports ==
    [][\A c \in Caller : Publishes(c) => data[node'[call[c].key]] = Bytes(call[c].val)]_vars

(* Temporary files, which ruFileStoreList takes for keys, are there only
   while their call is in progress, unless it has crashed. *)
NoLitter ==
    \A k \in Key, s \in Suffix : Exists(Tmp(k, s)) =>
        crashed \/ \E c \in Caller : pc[c] \in {"write", "rename"} /\ call[c].tmp = Tmp(k, s)

(* A list has every file that was there when it began and still is, whatever
   others add and remove meanwhile. *)
ListComplete ==
    [][\A c \in Caller : pc[c] = "walk" /\ call[c].op = "list" /\ call'[c].ret = "ok" =>
        \A f \in call[c].stay : node[f[1]] = f[2] => f[1] \in call[c].seen]_vars
=============================================================================
