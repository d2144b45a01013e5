--------------------------- MODULE FileStoreProofs ---------------------------
(***************************************************************************)
(* Proofs about FileStore, for any callers, keys, values and temporary     *)
(* names, whatever fails and whenever the processes crash.                 *)
(***************************************************************************)
EXTENDS FileStore, SequenceLemmas, FiniteSetTheorems

Inode == 1..Len(data)
Temps == {Tmp(k, s) : k \in Key, s \in Suffix}
Writing(c) == pc[c] \in {"write", "rename"}

(* What a call knows where it is. *)
PlaceOK(c) ==
    LET q == call[c]
    IN  /\ q.ino \in 0..Len(data) /\ q.src \in 0..Len(data)
        /\ pc[c] \in {"mkdir", "open", "write", "rename", "remove"} => q.key \in Key
        /\ pc[c] = "mkdir" => q.op \in {"set", "del"}
        /\ pc[c] \in {"open", "write", "rename"} => q.op \in {"set", "copy"}
        /\ ~Writing(c) => q.at = 0
        /\ pc[c] # "idle" => q.ret = "none"
        /\ q.op = "set" => q.val \in Value /\ q.src = None
        /\ q.op = "copy" \/ pc[c] = "read" => q.src # None
        /\ Writing(c) => q.ino # None /\ \E s \in Suffix : q.tmp = Tmp(q.key, s)
        /\ pc[c] = "walk" <=> q.op \in {"list", "wipe"}
PlaceInv ==
    /\ \A c \in Caller : PlaceOK(c)
    /\ \A p \in Path : node[p] \in {Dir} \cup 0..Len(data)
    /\ spoiled \subseteq Inode

(* Folders are where folders can be, and what is there is in folders. *)
TreeInv ==
    /\ \A p \in Path, n \in Nat : Exists(p) /\ n < Len(p) => IsDir(SubSeq(p, 1, n))
    /\ \A p \in Path : IsDir(p) => p \in Folders

(* A temporary file is that of a call in progress, but for a crash. *)
LitterInv ==
    \A t \in Temps : Exists(t) => crashed \/ \E c \in Caller : Writing(c) /\ call[c].tmp = t

(* Who writes a file writes it alone, and nobody reads it, or it is spoiled. *)
OwnOK(c) ==
    Writing(c) /\ call[c].ino \notin spoiled =>
        /\ \A k \in Key : node[k] # call[c].ino
        /\ \A d \in Caller : call[d].src # call[c].ino
        /\ \A d \in Caller \ {c} : Writing(d) => call[d].ino # call[c].ino

(* What has been written is the first blocks of a value. *)
PartOK(c) ==
    LET q == call[c]
    IN  /\ pc[c] = "write" => q.at <= Len(Content(c))
        /\ pc[c] = "write" /\ q.ino \notin spoiled /\ q.src \notin spoiled =>
              data[q.ino] = SubSeq(Content(c), 1, q.at)
        /\ pc[c] = "rename" /\ q.ino \notin spoiled =>
              \E v \in Value : data[q.ino] = Bytes(v) /\ (q.op = "set" => v = q.val)
WholeInv ==
    /\ \A k \in Key : IsFile(k) => Whole(node[k])
    /\ \A c \in Caller : call[c].src # None => Whole(call[c].src)
    /\ \A c \in Caller : OwnOK(c) /\ PartOK(c)

(* Each file is at one path, and what a list has to find is in what it has
   found or is about to see. *)
OnceInv == \A p, q \in Path : IsFile(p) /\ node[p] = node[q] => p = q
Ahead(c, p) ==
    \E i \in DOMAIN call[c].todo :
        LET item == call[c].todo[i]
        IN  \/ item[1] = "enter" /\ IsStrictPrefix(item[2], p)
            \/ item = <<"file", p>>
SeenOK(c) ==
    pc[c] = "walk" /\ call[c].op = "list" =>
        \A f \in call[c].stay :
            /\ f[1] \in Key => \A t \in Temps : node[t] # f[2]
            /\ f[2] \in Inode
            /\ node[f[1]] = f[2] => f[1] \in call[c].seen \/ Ahead(c, f[1])
SeenInv == \A c \in Caller : SeenOK(c)

Inductive == TypeOK /\ PlaceInv /\ TreeInv /\ LitterInv /\ WholeInv /\ OnceInv /\ SeenInv
-----------------------------------------------------------------------------
(* The folders are what is above the keys. *)
LEMMA FolderMember ==
    ASSUME NEW p
    PROVE  p \in Folders <=> \E k \in Key : \E n \in 0..Len(k) - 1 : p = SubSeq(k, 1, n)
<1> DEFINE F(k) == {SubSeq(k, 1, n) : n \in 0..Len(k) - 1}
<1>1. Folders = UNION {F(k) : k \in Key}
  BY DEF Folders
<1>2. \A k : p \in F(k) <=> \E n \in 0..Len(k) - 1 : p = SubSeq(k, 1, n)
  OBVIOUS
<1> HIDE DEF F
<1>3. p \in UNION {F(k) : k \in Key} <=> \E k \in Key : p \in F(k)
  BY Zenon
<1> QED
  BY <1>1, <1>2, <1>3, Zenon

(* What is above a key is a folder. *)
LEMMA FolderAt ==
    ASSUME NEW k \in Key, NEW n \in 0..Len(k) - 1
    PROVE  SubSeq(k, 1, n) \in Folders
BY FolderMember, Zenon

(* Paths, and the folders they are in. *)
LEMMA PathTypes ==
    /\ Key \subseteq Path /\ Folders \subseteq Path /\ Temps \subseteq Path
    /\ Path = Key \cup Folders \cup Temps
    /\ Path \subseteq Seq(Seq(STRING))
    /\ \A k \in Key : Len(k) \in Nat /\ Len(k) > 0
    /\ \A t \in Temps : t \notin Key /\ t \notin Folders
    /\ None \in Nat /\ Dir \notin Nat /\ Dir # None
<1>1. \A k \in Key : k \in Seq(Seq(STRING)) /\ Len(k) \in Nat /\ Len(k) > 0
  <2> SUFFICES ASSUME NEW k \in Key
               PROVE  k \in Seq(Seq(STRING)) /\ Len(k) \in Nat /\ Len(k) > 0
    OBVIOUS
  <2>1. k \in Seq(Seq(STRING)) /\ k # <<>>
    BY FileStoreAssumption
  <2> QED
    BY <2>1
<1>2. \A p \in Folders : p \in Seq(Seq(STRING))
  <2> SUFFICES ASSUME NEW k \in Key, NEW n \in 0..Len(k) - 1
               PROVE  SubSeq(k, 1, n) \in Seq(Seq(STRING))
    BY FolderMember
  <2> QED
    BY <1>1
<1>3. ASSUME NEW k \in Key, NEW s \in Suffix
      PROVE  Tmp(k, s) \in Seq(Seq(STRING)) /\ Tmp(k, s) \notin Key \cup Folders
  <2> DEFINE Name == Seq(STRING)
  <2>1. k \in Seq(Name) /\ Len(k) \in DOMAIN k /\ Len(k) \in Nat
    BY <1>1
  <2>2. s \in STRING
    BY FileStoreAssumption
  <2>3. ASSUME NEW m \in Name PROVE m \o <<s>> \in Name
    <3>1. \A S, x : x \in S => <<x>> \in Seq(S)
      OBVIOUS
    <3>2. <<s>> \in Seq(STRING)
      BY <2>2, <3>1, Zenon
    <3> QED
      BY <3>2, ConcatProperties
  <2> HIDE DEF Name
  <2>4. k[Len(k)] \in Name
    BY <2>1, ElementOfSeq
  <2>5. k[Len(k)] \o <<s>> \in Name
    BY <2>3, <2>4
  <2>6. [k EXCEPT ![Len(k)] = k[Len(k)] \o <<s>>] \in Seq(Name)
    BY <2>1, <2>5
  <2> QED
    BY <2>6, FileStoreAssumption DEF Tmp, Name
<1>4. Path = Key \cup Folders \cup Temps
  BY DEF Path, Temps
<1>5. \A t \in Temps : t \in Seq(Seq(STRING)) /\ t \notin Key /\ t \notin Folders
  BY <1>3 DEF Temps
<1> QED
  BY <1>1, <1>2, <1>4, <1>5 DEF None, Dir

(* A temporary file is beside its key. *)
LEMMA TmpPath ==
    ASSUME NEW k \in Key, NEW s \in Suffix
    PROVE  /\ Tmp(k, s) \in Temps /\ Len(Tmp(k, s)) = Len(k)
           /\ Parent(Tmp(k, s)) = Parent(k)
           /\ \A n \in Nat : n < Len(k) => SubSeq(Tmp(k, s), 1, n) = SubSeq(k, 1, n)
<1>1. k \in Seq(Seq(STRING)) /\ Len(k) \in Nat /\ Len(k) > 0 /\ Tmp(k, s) \in Seq(Seq(STRING))
      /\ Tmp(k, s) \in Temps
  BY PathTypes DEF Temps
<1>2. Len(Tmp(k, s)) = Len(k)
  BY <1>1 DEF Tmp
<1>3. ASSUME NEW n \in Nat, n < Len(k)
      PROVE  SubSeq(Tmp(k, s), 1, n) = SubSeq(k, 1, n)
  <2>1. \A i \in 1..n : Tmp(k, s)[i] = k[i]
    BY <1>1, <1>3 DEF Tmp
  <2> QED
    BY <1>1, <1>2, <1>3, <2>1
<1>4. Parent(Tmp(k, s)) = Parent(k)
  <2>1. Len(k) - 1 \in Nat /\ Len(k) - 1 < Len(k)
    BY <1>1
  <2>2. SubSeq(Tmp(k, s), 1, Len(k) - 1) = SubSeq(k, 1, Len(k) - 1)
    BY <1>3, <2>1
  <2> QED
    BY <1>2, <2>2 DEF Parent, Front
<1> QED
  BY <1>1, <1>2, <1>3, <1>4

(* What is above a path is a folder's path. *)
LEMMA PathPrefix ==
    ASSUME NEW p \in Path, NEW n \in Nat, n < Len(p)
    PROVE  SubSeq(p, 1, n) \in Folders
<1>0. p \in Seq(Seq(STRING))
  BY PathTypes
<1>1. CASE p \in Key
  <2>1. n \in 0..Len(p) - 1
    BY <1>0
  <2> QED
    BY <1>1, <2>1, FolderAt
<1>2. CASE p \in Temps
  <2>1. PICK k \in Key, s \in Suffix : p = Tmp(k, s)
    BY <1>2 DEF Temps
  <2> QED
    <3>1. SubSeq(p, 1, n) = SubSeq(k, 1, n) /\ n \in 0..Len(k) - 1
      BY <2>1, TmpPath, PathTypes
    <3> QED
      BY <3>1, FolderAt
<1>3. CASE p \in Folders
  <2>1. PICK k \in Key : \E m \in 0..Len(k) - 1 : p = SubSeq(k, 1, m)
    BY <1>3, FolderMember
  <2>2. PICK m \in 0..Len(k) - 1 : p = SubSeq(k, 1, m)
    BY <2>1
  <2>3. k \in Seq(Seq(STRING)) /\ Len(k) \in Nat /\ m < Len(k)
    BY PathTypes
  <2>4. SubSeq(p, 1, n) = SubSeq(k, 1, n) /\ n < Len(k)
    BY <2>2, <2>3
  <2> QED
    <3>1. n \in 0..Len(k) - 1
      BY <2>3, <2>4
    <3> QED
      BY <2>4, <3>1, FolderAt
<1> QED
  BY <1>1, <1>2, <1>3, PathTypes

(* The types of what a call keeps. *)
LEMMA BlankType ==
    /\ Blank \in CallType
    /\ \A r \in {"ok", "FILE_NOT_FOUND", "INVALID_PARAMETER", "FILE_EXISTS", "CANT_OPEN_FILE",
                 "CANT_WRITE", "GENERAL"} : [Blank EXCEPT !.ret = r] \in CallType
<1>1. <<>> \in Seq({"enter", "leave", "file"} \X Path)
  OBVIOUS
<1>2. Blank \in CallType
  BY <1>1 DEF Blank, CallType, None
<1> QED
  BY <1>2 DEF CallType

(* A call that ends leaves the types as they are. *)
LEMMA DoneType ==
    ASSUME TypeOK, NEW c \in Caller,
           NEW r \in {"ok", "FILE_NOT_FOUND", "INVALID_PARAMETER", "FILE_EXISTS", "CANT_OPEN_FILE",
                      "CANT_WRITE", "GENERAL"}, Done(c, r)
    PROVE  /\ pc' \in [Caller -> {"idle", "read", "mkdir", "open", "write", "rename", "remove", "walk"}]
           /\ call' \in [Caller -> CallType]
BY BlankType DEF TypeOK, Done, Goto

(* A value that is copied or set is a sequence of blocks. *)
LEMMA ContentType ==
    ASSUME TypeOK, PlaceInv, NEW c \in Caller, pc[c] \in {"open", "write", "rename"}
    PROVE  Content(c) \in Seq(Value \X Nat)
<1>1. PlaceOK(c)
  BY DEF PlaceInv
<1>2. CASE call[c].op = "copy"
  BY <1>1, <1>2 DEF PlaceOK, Content, TypeOK, None
<1>3. CASE call[c].op = "set"
  <2>1. call[c].val \in Value /\ Length[call[c].val] \in Nat
    BY <1>1, <1>3, FileStoreAssumption DEF PlaceOK
  <2> QED
    BY <1>3, <2>1 DEF Content, Bytes
<1> QED
  BY <1>1, <1>2, <1>3 DEF PlaceOK

(* Nothing to walk yet. *)
LEMMA NoSteps ==
    <<>> \in Seq({"enter", "leave", "file"} \X Path)
OBVIOUS

(* What a write does to the file. *)
LEMMA WriteEffect ==
    ASSUME TypeOK, PlaceInv, NEW c \in Caller, Write(c)
    PROVE  LET i == call[c].at + 1  f == call[c].ino
           IN  /\ f \in Inode /\ i \in 1..Len(Content(c)) /\ Content(c)[i] \in Value \X Nat
               /\ data' \in Seq(Seq(Value \X Nat)) /\ Len(data') = Len(data)
               /\ \A g \in Inode : g # f => data'[g] = data[g]
               /\ data'[f] = IF i <= Len(data[f]) THEN [data[f] EXCEPT ![i] = Content(c)[i]]
                                                  ELSE Append(data[f], Content(c)[i])
               /\ \A g \in Inode : Len(data'[g]) >= Len(data[g])
<1> DEFINE i == call[c].at + 1  f == call[c].ino  w == Content(c)[i]
           old == data[f]
           new == IF i <= Len(old) THEN [old EXCEPT ![i] = w] ELSE Append(old, w)
<1>1. /\ pc[c] = "write" /\ i <= Len(Content(c)) /\ data' = [data EXCEPT ![f] = new]
  BY DEF Write
<1>2. f \in Inode /\ call[c].at \in Nat
  BY <1>1 DEF PlaceInv, PlaceOK, Writing, Inode, TypeOK, CallType, None
<1>3. Content(c) \in Seq(Value \X Nat)
  BY <1>1, ContentType
<1>4. i \in 1..Len(Content(c)) /\ w \in Value \X Nat
  BY <1>1, <1>2, <1>3
<1>5. old \in Seq(Value \X Nat)
  BY <1>2 DEF TypeOK, Inode
<1> HIDE DEF w, old
<1>6. new \in Seq(Value \X Nat) /\ Len(new) >= Len(old)
  <2>1. CASE i <= Len(old)
    <3>1. new = [old EXCEPT ![i] = w]
      BY <2>1
    <3>2. Len([old EXCEPT ![i] = w]) = Len(old) /\ Len(old) \in Nat
      BY <1>5
    <3>4. i \in 1..Len(old)
      BY <1>4, <2>1
    <3>3. [old EXCEPT ![i] = w] \in Seq(Value \X Nat)
      <4>1. \A S, q, j, e : q \in Seq(S) /\ j \in 1..Len(q) /\ e \in S => [q EXCEPT ![j] = e] \in Seq(S)
        OBVIOUS
      <4> QED
        BY <1>4, <1>5, <3>4, <4>1, Zenon
    <3> HIDE DEF new, i
    <3> QED
      BY <3>1, <3>2, <3>3
  <2>2. CASE ~(i <= Len(old))
    <3>1. new = Append(old, w)
      BY <2>2
    <3> HIDE DEF new, i
    <3> QED
      BY <1>4, <1>5, <3>1
  <2> QED
    BY <2>1, <2>2
<1> HIDE DEF new
<1>7. data' \in Seq(Seq(Value \X Nat)) /\ Len(data') = Len(data) /\ data'[f] = new
      /\ \A g \in Inode : g # f => data'[g] = data[g]
  BY <1>1, <1>2, <1>6 DEF TypeOK, Inode
<1>8. \A g \in Inode : Len(data'[g]) >= Len(data[g])
  <2> SUFFICES ASSUME NEW g \in Inode PROVE Len(data'[g]) >= Len(data[g])
    OBVIOUS
  <2>1. CASE g = f
    BY <1>6, <1>7, <2>1 DEF old
  <2>2. CASE g # f
    <3>1. Len(data[g]) \in Nat /\ data'[g] = data[g]
      BY <1>7, <2>2 DEF TypeOK, Inode
    <3> QED
      BY <3>1
  <2> QED
    BY <2>1, <2>2
<1> QED
  BY <1>2, <1>4, <1>7, <1>8 DEF new, old, w

(* A finite function has finitely many values. *)
LEMMA ImageFinite ==
    ASSUME NEW f, IsFiniteSet(DOMAIN f)
    PROVE  IsFiniteSet({f[x] : x \in DOMAIN f})
<1> DEFINE T == {f[x] : x \in DOMAIN f}
<1>1. [x \in DOMAIN f |-> f[x]] \in Surjection(DOMAIN f, T)
  BY DEF Surjection
<1> QED
  BY <1>1, FS_Surjection

(* There are finitely many paths. *)
LEMMA ChildrenFinite ==
    \A p : IsFiniteSet(Children(p))
<1> DEFINE F(k) == {SubSeq(k, 1, n) : n \in 0..Len(k) - 1}
<1>1. ASSUME NEW k \in Key PROVE IsFiniteSet(F(k))
  <2>1. Len(k) - 1 \in Int /\ 0 \in Int
    BY PathTypes
  <2>2. IsFiniteSet(0..Len(k) - 1)
    BY <2>1, FS_Interval
  <2> DEFINE f == [n \in 0..Len(k) - 1 |-> SubSeq(k, 1, n)]
  <2>3. IsFiniteSet({f[n] : n \in DOMAIN f})
    BY <2>2, ImageFinite
  <2>4. F(k) = {f[n] : n \in DOMAIN f}
    OBVIOUS
  <2> QED
    BY <2>3, <2>4
<1>2. IsFiniteSet(Folders)
  <2>1. IsFiniteSet({F(k) : k \in Key})
    <3> DEFINE f == [k \in Key |-> F(k)]
    <3>1. DOMAIN f = Key /\ IsFiniteSet(Key)
      BY FileStoreAssumption
    <3>2. IsFiniteSet({f[k] : k \in DOMAIN f})
      BY <3>1, ImageFinite
    <3>3. {F(k) : k \in Key} = {f[k] : k \in DOMAIN f}
      OBVIOUS
    <3> QED
      BY <3>2, <3>3
  <2>2. \A f \in {F(k) : k \in Key} : IsFiniteSet(f)
    BY <1>1
  <2>3. IsFiniteSet(UNION {F(k) : k \in Key})
    BY <2>1, <2>2, FS_UNION
  <2> QED
    BY <2>3 DEF Folders
<1>3. IsFiniteSet(Temps)
  <2>1. IsFiniteSet(Key \X Suffix)
    BY FileStoreAssumption, FS_Product
  <2>2. IsFiniteSet({Tmp(x[1], x[2]) : x \in Key \X Suffix})
    <3> DEFINE f == [x \in Key \X Suffix |-> Tmp(x[1], x[2])]
    <3>1. IsFiniteSet({f[x] : x \in DOMAIN f})
      BY <2>1, ImageFinite
    <3>2. {Tmp(x[1], x[2]) : x \in Key \X Suffix} = {f[x] : x \in DOMAIN f}
      OBVIOUS
    <3> QED
      BY <3>1, <3>2
  <2>3. Temps \subseteq {Tmp(x[1], x[2]) : x \in Key \X Suffix}
    <3> SUFFICES ASSUME NEW k \in Key, NEW s \in Suffix
                 PROVE  Tmp(k, s) \in {Tmp(x[1], x[2]) : x \in Key \X Suffix}
      BY DEF Temps
    <3>1. <<k, s>> \in Key \X Suffix /\ <<k, s>>[1] = k /\ <<k, s>>[2] = s
      OBVIOUS
    <3> QED
      BY <3>1
  <2> QED
    BY <2>2, <2>3, FS_Subset
<1>4. IsFiniteSet(Path)
  BY <1>2, <1>3, FileStoreAssumption, PathTypes, FS_Union
<1> QED
  BY <1>4, FS_Subset DEF Children

(* What is in a folder comes before the folder itself. *)
LEMMA EnterType ==
    ASSUME NEW p \in Path, NEW items \in Enter(p)
    PROVE  items \in Seq({"enter", "leave", "file"} \X Path)
<1> DEFINE Step == {"enter", "leave", "file"} \X Path
<1>1. CASE ~IsDir(p)
  BY <1>1 DEF Enter
<1>2. CASE IsDir(p)
  <2>1. PICK s \in SetToSeqs(Children(p)) :
            items = [i \in DOMAIN s |-> Item(s[i])] \o <<<<"leave", p>>>>
    BY <1>2 DEF Enter
  <2> DEFINE n == Cardinality(Children(p))  f == [i \in DOMAIN s |-> Item(s[i])]
  <2>2. s \in [1..n -> Children(p)]
    BY DEF SetToSeqs
  <2>3. n \in Nat
    BY ChildrenFinite, FS_CardinalityType
  <2> HIDE DEF n
  <2>4. \A q \in Children(p) : Item(q) \in Step
    BY DEF Children, Item
  <2>5. f \in Seq(Step)
    BY <2>2, <2>3, <2>4
  <2>6. <<<<"leave", p>>>> \in Seq(Step)
    OBVIOUS
  <2> QED
    BY <2>1, <2>5, <2>6, ConcatProperties
<1> QED
  BY <1>1, <1>2

(* Every step keeps the types. *)
LEMMA TypeStep ==
    ASSUME Inductive, [Next]_vars
    PROVE  TypeOK'
<1> TypeOK /\ PlaceInv /\ TreeInv
  BY DEF Inductive
<1> USE DEF TypeOK
<1>1. ASSUME NEW c \in Caller, Begin(c)
      PROVE  TypeOK'
  <2>1. made' \in Nat /\ UNCHANGED <<node, data, crashed, spoiled>>
    <3>1. made' = made + 1 /\ UNCHANGED <<node, data, crashed, spoiled>>
      BY <1>1, Zenon DEF Begin
    <3> QED
      BY <3>1 DEF TypeOK
  <2>2. ASSUME NEW k \in Key, NEW v \in Value, Goto(c, "mkdir"),
               Start(c, [Blank EXCEPT !.op = "set", !.key = k, !.val = v])
        PROVE  TypeOK'
    <3> k \in Path
      BY PathTypes
    <3>1. [Blank EXCEPT !.op = "set", !.key = k, !.val = v] \in CallType
      BY NoSteps DEF CallType, Blank, None
    <3> QED
      BY <2>1, <2>2, <3>1 DEF Goto, Start
  <2>3. ASSUME NEW k \in Key, Goto(c, "mkdir"), Start(c, [Blank EXCEPT !.op = "del", !.key = k])
        PROVE  TypeOK'
    <3> k \in Path
      BY PathTypes
    <3>1. [Blank EXCEPT !.op = "del", !.key = k] \in CallType
      BY NoSteps DEF CallType, Blank, None
    <3> QED
      BY <2>1, <2>3, <3>1 DEF Goto, Start
  <2>4. ASSUME NEW k \in Key, NEW s \in Key, IsFile(s), Goto(c, "open"),
               Start(c, [Blank EXCEPT !.op = "copy", !.key = k, !.src = node[s]])
        PROVE  TypeOK'
    <3>1. node[s] \in Nat
      BY <2>4, PathTypes DEF IsFile, Dir, TypeOK
    <3> k \in Path
      BY PathTypes
    <3>2. [Blank EXCEPT !.op = "copy", !.key = k, !.src = node[s]] \in CallType
      BY <3>1, NoSteps DEF CallType, Blank, None
    <3> QED
      BY <2>1, <2>4, <3>2 DEF Goto, Start
  <2>5. ASSUME NEW s \in Key, Done(c, NotAFile(s)) PROVE TypeOK'
    <3>1. NotAFile(s) \in {"INVALID_PARAMETER", "FILE_NOT_FOUND"}
      BY DEF NotAFile
    <3> QED
      BY <2>1, <2>5, <3>1, DoneType
  <2> QED
    BY <1>1, <2>2, <2>3, <2>4, <2>5 DEF Begin
<1>2. ASSUME NEW c \in Caller, Get(c)
      PROVE  TypeOK'
  <2>1. made' \in Nat /\ UNCHANGED <<node, data, crashed, spoiled>>
    BY <1>2 DEF Get
  <2>2. ASSUME NEW k \in Key, IsFile(k), Goto(c, "read"),
               Start(c, [Blank EXCEPT !.op = "get", !.key = k, !.src = node[k]])
        PROVE  TypeOK'
    <3>1. node[k] \in Nat
      BY <2>2, PathTypes DEF IsFile, Dir, TypeOK
    <3> k \in Path
      BY PathTypes
    <3>2. [Blank EXCEPT !.op = "get", !.key = k, !.src = node[k]] \in CallType
      BY <3>1, NoSteps DEF CallType, Blank, None
    <3> QED
      BY <2>1, <2>2, <3>2 DEF Goto, Start
  <2>3. ASSUME NEW k \in Key, Done(c, NotAFile(k)) PROVE TypeOK'
    <3>1. NotAFile(k) \in {"INVALID_PARAMETER", "FILE_NOT_FOUND"}
      BY DEF NotAFile
    <3> QED
      BY <2>1, <2>3, <3>1, DoneType
  <2> QED
    BY <1>2, <2>2, <2>3 DEF Get
<1>3. ASSUME NEW c \in Caller, Read(c)
      PROVE  TypeOK'
  <2>1. \E r \in {"ok", "CANT_OPEN_FILE"} : Done(c, r)
    BY <1>3 DEF Read
  <2>2. UNCHANGED <<node, data, made, crashed, spoiled>>
    BY <1>3 DEF Read
  <2> QED
    BY <2>1, <2>2, DoneType
<1>4. ASSUME NEW c \in Caller, Mkdir(c)
      PROVE  TypeOK'
  <2>1. node' \in [Path -> Nat \cup {Dir}] /\ UNCHANGED <<data, made, crashed, spoiled>>
    BY <1>4 DEF Mkdir
  <2>2. \/ Done(c, "FILE_EXISTS")
        \/ UNCHANGED call /\ (Goto(c, "remove") \/ Goto(c, "open"))
    <3>1. \/ Done(c, "FILE_EXISTS")
          \/ Goto(c, IF call[c].op = "del" THEN "remove" ELSE "open") /\ UNCHANGED call
      BY <1>4, Zenon DEF Mkdir
    <3>2. CASE call[c].op = "del"
      BY <3>1, <3>2
    <3>3. CASE call[c].op # "del"
      BY <3>1, <3>3
    <3> QED
      BY <3>2, <3>3
  <2>3. CASE Done(c, "FILE_EXISTS")
    BY <2>1, <2>3, DoneType DEF TypeOK
  <2>4. CASE UNCHANGED call /\ (Goto(c, "remove") \/ Goto(c, "open"))
    BY <2>1, <2>4 DEF TypeOK, Goto
  <2> QED
    BY <2>2, <2>3, <2>4
<1>5. ASSUME NEW c \in Caller, OpenTmp(c)
      PROVE  TypeOK'
  <2>0. UNCHANGED <<made, crashed>> /\ pc[c] = "open" /\ call[c].key \in Key
    BY <1>5 DEF OpenTmp, PlaceInv, PlaceOK
  <2>1. PICK s \in Suffix :
            LET t == Tmp(call[c].key, s) IN
            \/ Done(c, Rfec("ENOENT")) /\ UNCHANGED <<node, data, spoiled>>
            \/ /\ IsFile(t) /\ Goto(c, "write")
               /\ call' = [call EXCEPT ![c].tmp = t, ![c].ino = node[t]]
               /\ spoiled' = spoiled \cup {node[t]} /\ UNCHANGED <<node, data>>
            \/ /\ Goto(c, "write")
               /\ call' = [call EXCEPT ![c].tmp = t, ![c].ino = Len(data) + 1]
               /\ node' = [node EXCEPT ![t] = Len(data) + 1]
               /\ data' = Append(data, <<>>) /\ UNCHANGED spoiled
    BY <1>5 DEF OpenTmp
  <2> DEFINE t == Tmp(call[c].key, s)
  <2>2. t \in Path /\ call[c] \in CallType
    BY <2>0, PathTypes DEF Temps
  <2>3. CASE Done(c, Rfec("ENOENT")) /\ UNCHANGED <<node, data, spoiled>>
    <3>1. Rfec("ENOENT") = "FILE_NOT_FOUND"
      BY DEF Rfec
    <3> QED
      BY <2>0, <2>3, <3>1, DoneType
  <2>4. CASE /\ IsFile(t) /\ Goto(c, "write")
             /\ call' = [call EXCEPT ![c].tmp = t, ![c].ino = node[t]]
             /\ spoiled' = spoiled \cup {node[t]} /\ UNCHANGED <<node, data>>
    <3> HIDE DEF t
    <3>1. node[t] \in Nat
      BY <2>2, <2>4 DEF IsFile, Dir
    <3>2. [call[c] EXCEPT !.tmp = t, !.ino = node[t]] \in CallType
      BY <2>2, <3>1 DEF CallType
    <3> QED
      BY <2>0, <2>4, <3>1, <3>2 DEF Goto
  <2>5. CASE /\ Goto(c, "write")
             /\ call' = [call EXCEPT ![c].tmp = t, ![c].ino = Len(data) + 1]
             /\ node' = [node EXCEPT ![t] = Len(data) + 1]
             /\ data' = Append(data, <<>>) /\ UNCHANGED spoiled
    <3> HIDE DEF t
    <3>1. Len(data) + 1 \in Nat /\ data' \in Seq(Seq(Value \X Nat))
      BY <2>5
    <3>2. [call[c] EXCEPT !.tmp = t, !.ino = Len(data) + 1] \in CallType
      BY <2>2, <3>1 DEF CallType
    <3> QED
      BY <2>0, <2>5, <3>1, <3>2 DEF Goto
  <2> QED
    BY <2>1, <2>3, <2>4, <2>5
<1>6. ASSUME NEW c \in Caller, Write(c)
      PROVE  TypeOK'
  <2>1. data' \in Seq(Seq(Value \X Nat))
    BY <1>6, WriteEffect
  <2>2. call' = [call EXCEPT ![c].at = call[c].at + 1] /\ UNCHANGED <<node, pc, made, crashed, spoiled>>
    BY <1>6 DEF Write
  <2>3. call[c] \in CallType
    BY DEF TypeOK
  <2>5. call[c].at \in Nat
    BY <2>3 DEF CallType
  <2>6. call[c].at + 1 \in Nat
    BY <2>5
  <2>4. [call[c] EXCEPT !.at = call[c].at + 1] \in CallType
    BY <2>3, <2>6 DEF CallType
  <2> QED
    BY <2>1, <2>2, <2>4 DEF TypeOK
<1>7. ASSUME NEW c \in Caller, Written(c)
      PROVE  TypeOK'
  <2>1. call[c].ino \in Nat
    BY DEF CallType
  <2> QED
    BY <1>7, <2>1 DEF Written, Goto
<1>8. ASSUME NEW c \in Caller, Rename(c)
      PROVE  TypeOK'
  <2>1. PlaceOK(c) /\ pc[c] = "rename"
    BY <1>8 DEF Rename, PlaceInv
  <2>2. call[c].key \in Path /\ call[c].tmp \in Path
    BY <2>1, PathTypes DEF PlaceOK, Writing, Temps
  <2>3. UNCHANGED <<data, made, crashed>> /\ \E r \in {"ok", "CANT_WRITE"} : Done(c, r)
    BY <1>8 DEF Rename
  <2>4. node' \in [Path -> Nat \cup {Dir}]
    BY <1>8, <2>2, PathTypes DEF Rename
  <2>5. spoiled' \subseteq Nat
    <3>1. node[call[c].tmp] \notin Nat => ~Renamable(c)
      <4> SUFFICES ASSUME node[call[c].tmp] = Dir PROVE FALSE
        BY <2>2 DEF TypeOK
      <4>1. call[c].tmp \in Temps
        BY <2>1 DEF PlaceOK, Writing, Temps
      <4> QED
        BY <2>2, <4>1, PathTypes DEF TreeInv, IsDir
    <3> QED
      BY <1>8, <3>1 DEF Rename
  <2> QED
    BY <2>3, <2>4, <2>5, DoneType
<1>9. ASSUME NEW c \in Caller, FileRemove(c)
      PROVE  TypeOK'
  <2>1. node' \in [Path -> Nat \cup {Dir}] /\ UNCHANGED <<data, made, crashed, spoiled>>
    BY <1>9, PathTypes DEF FileRemove
  <2>2. Rfec("ENOTEMPTY") = "GENERAL"
    BY DEF Rfec
  <2>3. \E r \in {"ok", "GENERAL"} : Done(c, r)
    BY <1>9, <2>2 DEF FileRemove
  <2> QED
    BY <2>1, <2>3, DoneType
<1>10. ASSUME NEW c \in Caller, Walk(c)
      PROVE  TypeOK'
  <2>1. PICK op \in {"list", "wipe"}, d \in Folders :
            Start(c, [Blank EXCEPT !.op = op, !.key = d, !.todo = <<First(op, d)>>,
                !.stay = {<<p, node[p]>> : p \in {q \in Path : IsFile(q) /\ IsStrictPrefix(d, q)}}])
    BY <1>10 DEF Walk
  <2> DEFINE all == {<<p, node[p]>> : p \in {q \in Path : IsFile(q) /\ IsStrictPrefix(d, q)}}
  <2>2. all \in SUBSET (Path \X Nat)
    BY DEF IsFile, Dir
  <2>3. d \in Path /\ <<First(op, d)>> \in Seq({"enter", "leave", "file"} \X Path)
    BY PathTypes DEF First
  <2> HIDE DEF all
  <2> DEFINE first == <<First(op, d)>>
  <2>5. first \in Seq({"enter", "leave", "file"} \X Path)
    BY <2>3
  <2> HIDE DEF first
  <2>4. [Blank EXCEPT !.op = op, !.key = d, !.todo = first, !.stay = all] \in CallType
    BY <2>2, <2>3, <2>5, NoSteps DEF CallType, Blank, None
  <2> QED
    BY <1>10, <2>1, <2>4 DEF Walk, Start, Goto, all, first, TypeOK
<1>11. ASSUME NEW c \in Caller, WalkStep(c)
      PROVE  TypeOK'
  <2> DEFINE todo == call[c].todo  rest == Tail(todo)
             Steps == Seq({"enter", "leave", "file"} \X Path)
  <2>9. call[c].op \in {"list", "wipe"}
    BY <1>11 DEF WalkStep, PlaceInv, PlaceOK
  <2>1. call[c] \in CallType /\ todo # <<>> /\ todo \in Steps /\ rest \in Steps
        /\ todo[1] \in {"enter", "leave", "file"} \X Path /\ todo[1][2] \in Path
    BY <1>11 DEF WalkStep, CallType, TypeOK
  <2>2. UNCHANGED <<data, made, crashed, spoiled>> /\ node' \in [Path -> Nat \cup {Dir}]
    <3>1. UNCHANGED <<data, made, crashed, spoiled>>
          /\ (UNCHANGED node \/ node' = [node EXCEPT ![todo[1][2]] = None])
      BY <1>11, <2>9, Zenon DEF WalkStep
    <3> QED
      BY <2>1, <3>1, PathTypes DEF TypeOK
  <2>3. ASSUME NEW l \in Steps, call' = [call EXCEPT ![c].todo = l], UNCHANGED pc
        PROVE  TypeOK'
    <3>1. [call[c] EXCEPT !.todo = l] \in CallType
      BY <2>1 DEF CallType
    <3> QED
      BY <2>2, <2>3, <3>1
  <2>4. ASSUME NEW new, new \in SUBSET Path, UNCHANGED pc,
               call' = [call EXCEPT ![c].todo = rest, ![c].seen = @ \cup new]
        PROVE  TypeOK'
    <3>1. [call[c] EXCEPT !.todo = rest, !.seen = @ \cup new] \in CallType
      BY <2>1, <2>4 DEF CallType
    <3> QED
      BY <2>2, <2>4, <3>1
  <2>5. ASSUME Done(c, "GENERAL") PROVE TypeOK'
    BY <2>2, <2>5, DoneType
  <2>6. CASE todo[1][1] = "enter"
    <3>1. PICK items \in Enter(todo[1][2]) :
              call' = [call EXCEPT ![c].todo = items \o rest] /\ UNCHANGED pc
      BY <1>11, <2>6 DEF WalkStep
    <3>2. items \in Steps
      BY <2>1, EnterType
    <3> QED
      BY <2>1, <2>3, <3>1, <3>2, ConcatProperties
  <2>7. CASE todo[1][1] # "enter" /\ call[c].op = "list"
    <3>1. call' = [call EXCEPT ![c].todo = rest,
                               ![c].seen = @ \cup IF todo[1][1] = "file" THEN {todo[1][2]} ELSE {}]
          /\ UNCHANGED pc
      BY <1>11, <2>7 DEF WalkStep
    <3>2. (IF todo[1][1] = "file" THEN {todo[1][2]} ELSE {}) \in SUBSET Path
      BY <2>1
    <3> QED
      BY <2>4, <3>1, <3>2
  <2>8. CASE todo[1][1] # "enter" /\ call[c].op = "wipe"
    BY <1>11, <2>1, <2>3, <2>5, <2>8 DEF WalkStep
  <2> QED
    BY <2>6, <2>7, <2>8, <2>9
<1>12. ASSUME NEW c \in Caller, WalkEnds(c)
      PROVE  TypeOK'
  BY <1>12, DoneType DEF WalkEnds
<1>13. ASSUME Crash
      PROVE  TypeOK'
  BY <1>13, BlankType DEF Crash
<1>14. ASSUME UNCHANGED vars
      PROVE  TypeOK'
  BY <1>14 DEF vars
<1> QED
  BY <1>1, <1>2, <1>3, <1>4, <1>5, <1>6, <1>7, <1>8, <1>9, <1>10, <1>11, <1>12, <1>13, <1>14 DEF Next

(* What a step of a walk does to the call, and to the files. *)
LEMMA WalkStepCall ==
    ASSUME TypeOK, NEW c \in Caller, WalkStep(c), call[c].op \in {"list", "wipe"}
    PROVE  /\ \/ Done(c, "GENERAL")
              \/ UNCHANGED pc /\ \E todo : call' = [call EXCEPT ![c] = [@ EXCEPT !.todo = todo]]
              \/ UNCHANGED pc /\ \E todo : \E seen :
                    call' = [call EXCEPT ![c] = [@ EXCEPT !.todo = todo, !.seen = seen]]
           /\ \/ UNCHANGED node
              \/ /\ call[c].op = "wipe" /\ call[c].todo # <<>> /\ Removable(call[c].todo[1][2])
                 /\ node' = [node EXCEPT ![call[c].todo[1][2]] = None]
<1> DEFINE kind == call[c].todo[1][1]  p == call[c].todo[1][2]  rest == Tail(call[c].todo)
<1>0. call[c].todo # <<>>
  BY Zenon DEF WalkStep
<1>1. CASE kind = "enter"
  <2>1. PICK items \in Enter(p) : call' = [call EXCEPT ![c].todo = items \o rest]
    BY <1>1 DEF WalkStep
  <2>2. UNCHANGED <<node, pc>>
    BY <1>1 DEF WalkStep
  <2> QED
    BY <2>1, <2>2, Zenon
<1>2. CASE kind # "enter" /\ call[c].op = "list"
  <2>1. call' = [call EXCEPT ![c].todo = rest, ![c].seen = @ \cup IF kind = "file" THEN {p} ELSE {}]
        /\ UNCHANGED <<node, pc>>
    BY <1>2 DEF WalkStep
  <2> DEFINE seen == call[c].seen \cup IF kind = "file" THEN {p} ELSE {}
  <2>2. call' = [call EXCEPT ![c] = [@ EXCEPT !.todo = rest, !.seen = seen]]
    BY <2>1 DEF TypeOK
  <2> QED
    BY <2>1, <2>2, Zenon
<1>3. CASE kind # "enter" /\ call[c].op = "wipe"
  <2>1. IF Removable(p) THEN /\ node' = [node EXCEPT ![p] = None]
                             /\ call' = [call EXCEPT ![c].todo = rest] /\ UNCHANGED pc
                        ELSE UNCHANGED node /\ Done(c, "GENERAL")
    BY <1>3 DEF WalkStep
  <2> QED
    BY <1>0, <1>3, <2>1, Zenon
<1> QED
  BY <1>1, <1>2, <1>3

(* A step of one call leaves the others where they are. *)
LEMMA OthersStay ==
    ASSUME TypeOK, PlaceInv, NEW c \in Caller,
           \/ Begin(c) \/ Get(c) \/ Read(c) \/ Mkdir(c) \/ OpenTmp(c) \/ Write(c) \/ Written(c)
           \/ Rename(c) \/ FileRemove(c) \/ Walk(c) \/ WalkStep(c) \/ WalkEnds(c)
    PROVE  \A d \in Caller \ {c} : pc'[d] = pc[d] /\ call'[d] = call[d]
<1>1. CASE Begin(c)
  BY <1>1 DEF Begin, TypeOK, Goto, Start, Done
<1>2. CASE Get(c)
  BY <1>2 DEF Get, TypeOK, Goto, Start, Done
<1>3. CASE Read(c)
  BY <1>3 DEF Read, TypeOK, Goto, Start, Done
<1>4. CASE Mkdir(c)
  BY <1>4 DEF Mkdir, TypeOK, Goto, Start, Done
<1>5. CASE OpenTmp(c)
  BY <1>5 DEF OpenTmp, TypeOK, Goto, Start, Done
<1>6. CASE Write(c)
  BY <1>6 DEF Write, TypeOK, Goto, Start, Done
<1>7. CASE Written(c)
  BY <1>7 DEF Written, TypeOK, Goto, Start, Done
<1>8. CASE Rename(c)
  BY <1>8 DEF Rename, TypeOK, Goto, Start, Done
<1>9. CASE FileRemove(c)
  BY <1>9 DEF FileRemove, TypeOK, Goto, Start, Done
<1>10. CASE Walk(c)
  BY <1>10 DEF Walk, TypeOK, Goto, Start, Done
<1>11. CASE WalkStep(c)
  <2>1. call[c].op \in {"list", "wipe"}
    BY <1>11 DEF WalkStep, PlaceInv, PlaceOK
  <2>2. \/ Done(c, "GENERAL")
        \/ UNCHANGED pc /\ \E new : call' = [call EXCEPT ![c] = new]
    BY <1>11, <2>1, WalkStepCall
  <2>3. CASE Done(c, "GENERAL")
    BY <2>3 DEF Done, Goto, TypeOK
  <2>4. CASE UNCHANGED pc /\ \E new : call' = [call EXCEPT ![c] = new]
    BY <2>4 DEF TypeOK
  <2> QED
    BY <2>2, <2>3, <2>4
<1>12. CASE WalkEnds(c)
  BY <1>12 DEF WalkEnds, TypeOK, Goto, Start, Done
<1> QED
  BY <1>1, <1>2, <1>3, <1>4, <1>5, <1>6, <1>7, <1>8, <1>9, <1>10, <1>11, <1>12

(* A call that ends keeps nothing. *)
LEMMA DonePlace ==
    ASSUME TypeOK, NEW c \in Caller, NEW r, Done(c, r)
    PROVE  /\ pc'[c] = "idle"
           /\ call'[c].op = "none" /\ call'[c].src = None /\ call'[c].ino = None
           /\ call'[c].todo = <<>> /\ call'[c].stay = {} /\ call'[c].ret = r
           /\ \A d \in Caller \ {c} : pc'[d] = pc[d] /\ call'[d] = call[d]
           /\ Len(data') \in Nat => PlaceOK(c)'
<1>1. call'[c] = [Blank EXCEPT !.ret = r] /\ pc'[c] = "idle"
      /\ \A d \in Caller \ {c} : pc'[d] = pc[d] /\ call'[d] = call[d]
  BY DEF Done, Goto, TypeOK
<1>2. /\ call'[c].op = "none" /\ call'[c].src = None /\ call'[c].ino = None /\ call'[c].at = 0
      /\ call'[c].todo = <<>> /\ call'[c].stay = {} /\ call'[c].ret = r
  BY <1>1 DEF Blank
<1>3. Len(data') \in Nat => PlaceOK(c)'
  BY <1>1, <1>2 DEF PlaceOK, Writing, None
<1> QED
  BY <1>1, <1>2, <1>3

(* What the callers of a step that is not theirs know stays true. *)
LEMMA PlaceFrame ==
    ASSUME TypeOK, PlaceInv, NEW c \in Caller, PlaceOK(c)', Len(data) \in Nat, Len(data') \in Nat,
           Len(data') >= Len(data),
           \A d \in Caller \ {c} : pc'[d] = pc[d] /\ call'[d] = call[d],
           \A p \in Path : node'[p] \in {Dir} \cup 0..Len(data'),
           spoiled' \subseteq Inode'
    PROVE  PlaceInv'
<1>1. ASSUME NEW d \in Caller PROVE PlaceOK(d)'
  <2>1. CASE d = c
    BY <2>1
  <2>2. CASE d # c
    <3>1. PlaceOK(d) /\ pc'[d] = pc[d] /\ call'[d] = call[d]
      BY <2>2 DEF PlaceInv
    <3>2. \A m \in 0..Len(data) : m \in 0..Len(data')
      OBVIOUS
    <3> QED
      BY <3>1, <3>2, SMT DEF PlaceOK, Writing
  <2> QED
    BY <2>1, <2>2
<1> QED
  BY <1>1 DEF PlaceInv

(* What a call knows of the files stays true. *)
LEMMA PlaceStep ==
    ASSUME Inductive, [Next]_vars
    PROVE  PlaceInv'
<1> USE DEF Inductive
<1>1. ASSUME NEW c \in Caller, Begin(c)
      PROVE  PlaceInv'
  <2>0. UNCHANGED <<node, data, spoiled>>
    BY <1>1 DEF Begin
  <2>1. Len(data) \in Nat
    BY DEF TypeOK
  <2>2. \A d \in Caller \ {c} : pc'[d] = pc[d] /\ call'[d] = call[d]
    BY <1>1, OthersStay
  <2>3. PlaceOK(c)'
    <3>1. ASSUME NEW k \in Key, NEW v \in Value, Goto(c, "mkdir"),
                 Start(c, [Blank EXCEPT !.op = "set", !.key = k, !.val = v])
          PROVE  PlaceOK(c)'
      <4>1. pc'[c] = "mkdir" /\ call'[c] = [Blank EXCEPT !.op = "set", !.key = k, !.val = v]
        BY <3>1 DEF Goto, Start, TypeOK
      <4> QED
        BY <2>0, <2>1, <4>1 DEF PlaceOK, Writing, Blank, None
    <3>2. ASSUME NEW k \in Key, Goto(c, "mkdir"), Start(c, [Blank EXCEPT !.op = "del", !.key = k])
          PROVE  PlaceOK(c)'
      <4>1. pc'[c] = "mkdir" /\ call'[c] = [Blank EXCEPT !.op = "del", !.key = k]
        BY <3>2 DEF Goto, Start, TypeOK
      <4> QED
        BY <2>0, <2>1, <4>1 DEF PlaceOK, Writing, Blank, None
    <3>3. ASSUME NEW k \in Key, NEW s \in Key, IsFile(s), Goto(c, "open"),
                 Start(c, [Blank EXCEPT !.op = "copy", !.key = k, !.src = node[s]])
          PROVE  PlaceOK(c)'
      <4>1. pc'[c] = "open" /\ call'[c] = [Blank EXCEPT !.op = "copy", !.key = k, !.src = node[s]]
        BY <3>3 DEF Goto, Start, TypeOK
      <4>2. node[s] \in 0..Len(data) /\ node[s] # None
        BY <3>3, PathTypes DEF PlaceInv, IsFile, None, Dir
      <4> QED
        BY <2>0, <2>1, <4>1, <4>2 DEF PlaceOK, Writing, Blank, None
    <3>4. ASSUME NEW s \in Key, Done(c, NotAFile(s)) PROVE PlaceOK(c)'
      BY <2>0, <2>1, <3>4, DonePlace
    <3> QED
      BY <1>1, <3>1, <3>2, <3>3, <3>4 DEF Begin
  <2>4. \A p \in Path : node'[p] \in {Dir} \cup 0..Len(data')
    BY <2>0 DEF PlaceInv
  <2>5. spoiled' \subseteq Inode'
    BY <2>0 DEF PlaceInv, Inode
  <2> QED
    BY <2>0, <2>1, <2>2, <2>3, <2>4, <2>5, PlaceFrame
<1>2. ASSUME NEW c \in Caller, Get(c)
      PROVE  PlaceInv'
  <2>0. UNCHANGED <<node, data, spoiled>>
    BY <1>2 DEF Get
  <2>1. Len(data) \in Nat
    BY DEF TypeOK
  <2>2. \A d \in Caller \ {c} : pc'[d] = pc[d] /\ call'[d] = call[d]
    BY <1>2, OthersStay
  <2>3. PlaceOK(c)'
    <3>1. ASSUME NEW k \in Key, IsFile(k), Goto(c, "read"),
                 Start(c, [Blank EXCEPT !.op = "get", !.key = k, !.src = node[k]])
          PROVE  PlaceOK(c)'
      <4>1. pc'[c] = "read" /\ call'[c] = [Blank EXCEPT !.op = "get", !.key = k, !.src = node[k]]
        BY <3>1 DEF Goto, Start, TypeOK
      <4>2. node[k] \in 0..Len(data) /\ node[k] # None
        BY <3>1, PathTypes DEF PlaceInv, IsFile, None, Dir
      <4> QED
        BY <2>0, <2>1, <4>1, <4>2 DEF PlaceOK, Writing, Blank, None
    <3>2. ASSUME NEW s \in Key, Done(c, NotAFile(s)) PROVE PlaceOK(c)'
      BY <2>0, <2>1, <3>2, DonePlace
    <3> QED
      BY <1>2, <3>1, <3>2 DEF Get
  <2>4. \A p \in Path : node'[p] \in {Dir} \cup 0..Len(data')
    BY <2>0 DEF PlaceInv
  <2>5. spoiled' \subseteq Inode'
    BY <2>0 DEF PlaceInv, Inode
  <2> QED
    BY <2>0, <2>1, <2>2, <2>3, <2>4, <2>5, PlaceFrame
<1>3. ASSUME NEW c \in Caller, Read(c)
      PROVE  PlaceInv'
  <2>0. UNCHANGED <<node, data, spoiled>>
    BY <1>3 DEF Read
  <2>1. Len(data) \in Nat
    BY DEF TypeOK
  <2>2. \A d \in Caller \ {c} : pc'[d] = pc[d] /\ call'[d] = call[d]
    BY <1>3, OthersStay
  <2>3. PlaceOK(c)'
    BY <1>3, <2>0, <2>1, DonePlace DEF Read
  <2>4. \A p \in Path : node'[p] \in {Dir} \cup 0..Len(data')
    BY <2>0 DEF PlaceInv
  <2>5. spoiled' \subseteq Inode'
    BY <2>0 DEF PlaceInv, Inode
  <2> QED
    BY <2>0, <2>1, <2>2, <2>3, <2>4, <2>5, PlaceFrame
<1>4. ASSUME NEW c \in Caller, Mkdir(c)
      PROVE  PlaceInv'
  <2>0. UNCHANGED <<data, spoiled>> /\ Len(data) \in Nat
    BY <1>4 DEF Mkdir, TypeOK
  <2>2. \A d \in Caller \ {c} : pc'[d] = pc[d] /\ call'[d] = call[d]
    BY <1>4, OthersStay
  <2>3. PlaceOK(c)'
    <3>1. CASE Done(c, "FILE_EXISTS")
      BY <2>0, <3>1, DonePlace
    <3>2. CASE /\ UNCHANGED call /\ pc[c] = "mkdir"
               /\ Goto(c, IF call[c].op = "del" THEN "remove" ELSE "open")
      <4>1. PlaceOK(c)
        BY DEF PlaceInv
      <4>2. call'[c] = call[c] /\ pc'[c] = IF call[c].op = "del" THEN "remove" ELSE "open"
        BY <3>2 DEF Goto, TypeOK
      <4> QED
        BY <2>0, <3>2, <4>1, <4>2 DEF PlaceOK, Writing, None
    <3> QED
      BY <1>4, <3>1, <3>2, Zenon DEF Mkdir
  <2>4. \A p \in Path : node'[p] \in {Dir} \cup 0..Len(data')
    BY <1>4, <2>0 DEF PlaceInv, Mkdir
  <2>5. spoiled' \subseteq Inode'
    BY <2>0 DEF PlaceInv, Inode
  <2> QED
    BY <2>0, <2>2, <2>3, <2>4, <2>5, PlaceFrame
<1>5. ASSUME NEW c \in Caller, OpenTmp(c)
      PROVE  PlaceInv'
  <2>0. /\ pc[c] = "open" /\ call[c].key \in Key /\ Len(data) \in Nat
        /\ \A p \in Path : node[p] \in {Dir} \cup 0..Len(data)
    BY <1>5 DEF OpenTmp, PlaceInv, PlaceOK, TypeOK
  <2>1. PICK s \in Suffix :
            LET t == Tmp(call[c].key, s) IN
            \/ Done(c, Rfec("ENOENT")) /\ UNCHANGED <<node, data, spoiled>>
            \/ /\ IsFile(t) /\ Goto(c, "write")
               /\ call' = [call EXCEPT ![c].tmp = t, ![c].ino = node[t]]
               /\ spoiled' = spoiled \cup {node[t]} /\ UNCHANGED <<node, data>>
            \/ /\ Goto(c, "write")
               /\ call' = [call EXCEPT ![c].tmp = t, ![c].ino = Len(data) + 1]
               /\ node' = [node EXCEPT ![t] = Len(data) + 1]
               /\ data' = Append(data, <<>>) /\ UNCHANGED spoiled
    BY <1>5 DEF OpenTmp
  <2> DEFINE t == Tmp(call[c].key, s)
  <2>2. t \in Path /\ t = Tmp(call[c].key, s) /\ PlaceOK(c) /\ call[c] \in CallType
    BY <2>0, PathTypes DEF Temps, PlaceInv, TypeOK
  <2> HIDE DEF t
  <2>6. \A d \in Caller \ {c} : pc'[d] = pc[d] /\ call'[d] = call[d]
    BY <1>5, OthersStay
  <2>3. CASE Done(c, Rfec("ENOENT")) /\ UNCHANGED <<node, data, spoiled>>
    <3>1. PlaceOK(c)'
      BY <2>0, <2>3, DonePlace
    <3>2. \A p \in Path : node'[p] \in {Dir} \cup 0..Len(data')
      BY <2>0, <2>3
    <3>3. spoiled' \subseteq Inode'
      BY <2>3 DEF PlaceInv, Inode
    <3> QED
      BY <2>0, <2>3, <2>6, <3>1, <3>2, <3>3, PlaceFrame
  <2>4. CASE /\ IsFile(t) /\ Goto(c, "write")
             /\ call' = [call EXCEPT ![c].tmp = t, ![c].ino = node[t]]
             /\ spoiled' = spoiled \cup {node[t]} /\ UNCHANGED <<node, data>>
    <3>1. pc'[c] = "write" /\ call'[c] = [call[c] EXCEPT !.tmp = t, !.ino = node[t]]
      BY <2>4 DEF Goto, TypeOK
    <3>2. node[t] \in 1..Len(data)
      BY <2>0, <2>2, <2>4 DEF IsFile, Dir
    <3>3. /\ call'[c].tmp = t /\ call'[c].ino = node[t] /\ call'[c].op = call[c].op
          /\ call'[c].key = call[c].key /\ call'[c].src = call[c].src /\ call'[c].val = call[c].val
          /\ call'[c].ret = call[c].ret
      BY <2>2, <3>1 DEF CallType
    <3>7. UNCHANGED data
      BY <2>4
    <3>4. PlaceOK(c)'
      BY <2>0, <2>2, <3>1, <3>2, <3>3, <3>7 DEF PlaceOK, Writing, None
    <3>5. \A p \in Path : node'[p] \in {Dir} \cup 0..Len(data')
      BY <2>0, <2>4
    <3>6. spoiled' \subseteq Inode'
      BY <2>4, <3>2 DEF PlaceInv, Inode
    <3> QED
      BY <2>0, <2>6, <3>4, <3>5, <3>6, <3>7, PlaceFrame
  <2>5. CASE /\ Goto(c, "write")
             /\ call' = [call EXCEPT ![c].tmp = t, ![c].ino = Len(data) + 1]
             /\ node' = [node EXCEPT ![t] = Len(data) + 1]
             /\ data' = Append(data, <<>>) /\ UNCHANGED spoiled
    <3>1. pc'[c] = "write" /\ call'[c] = [call[c] EXCEPT !.tmp = t, !.ino = Len(data) + 1]
      BY <2>5 DEF Goto, TypeOK
    <3>2. Len(data') = Len(data) + 1
      BY <2>5 DEF TypeOK
    <3>3. /\ call'[c].tmp = t /\ call'[c].ino = Len(data) + 1 /\ call'[c].op = call[c].op
          /\ call'[c].key = call[c].key /\ call'[c].src = call[c].src /\ call'[c].val = call[c].val
          /\ call'[c].ret = call[c].ret
      BY <2>2, <3>1 DEF CallType
    <3>4. PlaceOK(c)'
      BY <2>0, <2>2, <3>1, <3>2, <3>3 DEF PlaceOK, Writing, None
    <3>5. \A p \in Path : node'[p] \in {Dir} \cup 0..Len(data')
      BY <2>0, <2>2, <2>5, <3>2 DEF TypeOK
    <3>6. spoiled' \subseteq Inode'
      BY <2>0, <2>5, <3>2 DEF PlaceInv, Inode
    <3> QED
      BY <2>0, <2>6, <3>2, <3>4, <3>5, <3>6, PlaceFrame
  <2> QED
    BY <2>1, <2>3, <2>4, <2>5 DEF t
<1>6. ASSUME NEW c \in Caller, Write(c)
      PROVE  PlaceInv'
  <2>0. /\ pc[c] = "write" /\ UNCHANGED <<node, pc, spoiled>>
        /\ call' = [call EXCEPT ![c].at = call[c].at + 1]
    BY <1>6 DEF Write
  <2>1. Len(data) \in Nat /\ Len(data') = Len(data)
    <3>1. Len(data') = Len(data)
      BY <1>6, WriteEffect
    <3> QED
      BY <3>1 DEF TypeOK
  <2>2. \A d \in Caller \ {c} : pc'[d] = pc[d] /\ call'[d] = call[d]
    BY <1>6, OthersStay
  <2>3. PlaceOK(c)'
    <3>1. call'[c] = [call[c] EXCEPT !.at = call[c].at + 1] /\ call[c] \in CallType
      BY <2>0 DEF TypeOK
    <3>2. /\ call'[c].tmp = call[c].tmp /\ call'[c].ino = call[c].ino /\ call'[c].op = call[c].op
          /\ call'[c].key = call[c].key /\ call'[c].src = call[c].src /\ call'[c].val = call[c].val
          /\ call'[c].ret = call[c].ret
      BY <3>1 DEF CallType
    <3> QED
      BY <2>0, <2>1, <3>2 DEF PlaceInv, PlaceOK, Writing
  <2>4. \A p \in Path : node'[p] \in {Dir} \cup 0..Len(data')
    BY <2>0, <2>1 DEF PlaceInv
  <2>5. spoiled' \subseteq Inode'
    BY <2>0, <2>1 DEF PlaceInv, Inode
  <2> QED
    BY <2>1, <2>2, <2>3, <2>4, <2>5, PlaceFrame
<1>7. ASSUME NEW c \in Caller, Written(c)
      PROVE  PlaceInv'
  <2>0. /\ pc[c] = "write" /\ UNCHANGED <<node, data, call>> /\ pc'[c] = "rename"
        /\ spoiled' \subseteq spoiled \cup {call[c].ino}
    BY <1>7 DEF Written, Goto, TypeOK
  <2>1. Len(data) \in Nat
    BY DEF TypeOK
  <2>2. \A d \in Caller \ {c} : pc'[d] = pc[d] /\ call'[d] = call[d]
    BY <1>7, OthersStay
  <2>3. PlaceOK(c)'
    BY <2>0, <2>1 DEF PlaceInv, PlaceOK, Writing
  <2>4. \A p \in Path : node'[p] \in {Dir} \cup 0..Len(data')
    BY <2>0, <2>1 DEF PlaceInv
  <2>5. spoiled' \subseteq Inode'
    <3>1. call[c].ino \in Inode
      BY <2>0, <2>1 DEF PlaceInv, PlaceOK, Writing, Inode, None
    <3> QED
      BY <2>0, <3>1 DEF PlaceInv, Inode
  <2> QED
    BY <2>0, <2>1, <2>2, <2>3, <2>4, <2>5, PlaceFrame
<1>8. ASSUME NEW c \in Caller, Rename(c)
      PROVE  PlaceInv'
  <2>0. /\ UNCHANGED data /\ \E r \in {"ok", "CANT_WRITE"} : Done(c, r)
        /\ PlaceOK(c) /\ pc[c] = "rename" /\ Len(data) \in Nat
    BY <1>8 DEF Rename, PlaceInv, TypeOK
  <2>1. call[c].key \in Path /\ call[c].tmp \in Path /\ call[c].tmp \in Temps
    BY <2>0, PathTypes DEF PlaceOK, Writing, Temps
  <2>2. \A d \in Caller \ {c} : pc'[d] = pc[d] /\ call'[d] = call[d]
    BY <1>8, OthersStay
  <2>3. PlaceOK(c)'
    BY <2>0, DonePlace
  <2>6. node[call[c].tmp] \in 0..Len(data)
    BY <2>1, PathTypes DEF PlaceInv, TreeInv, IsDir
  <2>4. \A p \in Path : node'[p] \in {Dir} \cup 0..Len(data')
    BY <1>8, <2>0, <2>1, <2>6 DEF PlaceInv, Rename, TypeOK, None
  <2>5. spoiled' \subseteq Inode'
    <3>1. Renamable(c) => node[call[c].tmp] \in 1..Len(data)
      BY <2>6 DEF Renamable, Exists, None
    <3> QED
      BY <1>8, <2>0, <3>1 DEF PlaceInv, Inode, Rename
  <2> QED
    BY <2>0, <2>2, <2>3, <2>4, <2>5, PlaceFrame
<1>9. ASSUME NEW c \in Caller, FileRemove(c)
      PROVE  PlaceInv'
  <2>0. UNCHANGED <<data, spoiled>> /\ Len(data) \in Nat /\ \E r : Done(c, r)
    BY <1>9 DEF FileRemove, TypeOK
  <2>2. \A d \in Caller \ {c} : pc'[d] = pc[d] /\ call'[d] = call[d]
    BY <1>9, OthersStay
  <2>3. PlaceOK(c)'
    BY <2>0, DonePlace
  <2>4. \A p \in Path : node'[p] \in {Dir} \cup 0..Len(data')
    BY <1>9, <2>0 DEF PlaceInv, FileRemove, TypeOK, None
  <2>5. spoiled' \subseteq Inode'
    BY <2>0 DEF PlaceInv, Inode
  <2> QED
    BY <2>0, <2>2, <2>3, <2>4, <2>5, PlaceFrame
<1>10. ASSUME NEW c \in Caller, Walk(c)
      PROVE  PlaceInv'
  <2>0. UNCHANGED <<node, data, spoiled>>
    BY <1>10 DEF Walk
  <2>1. Len(data) \in Nat
    BY DEF TypeOK
  <2>2. \A d \in Caller \ {c} : pc'[d] = pc[d] /\ call'[d] = call[d]
    BY <1>10, OthersStay
  <2>3. PlaceOK(c)'
    <3>1. /\ pc' = [pc EXCEPT ![c] = "walk"]
          /\ call'[c].op \in {"list", "wipe"} /\ call'[c].src = None /\ call'[c].ino = None
          /\ call'[c].at = 0 /\ call'[c].ret = "none"
      BY <1>10 DEF Walk, Goto, Start, TypeOK, Blank
    <3> QED
      BY <2>0, <2>1, <3>1 DEF PlaceOK, Writing, None, TypeOK
  <2>4. \A p \in Path : node'[p] \in {Dir} \cup 0..Len(data')
    BY <2>0 DEF PlaceInv
  <2>5. spoiled' \subseteq Inode'
    BY <2>0 DEF PlaceInv, Inode
  <2> QED
    BY <2>0, <2>1, <2>2, <2>3, <2>4, <2>5, PlaceFrame
<1>11. ASSUME NEW c \in Caller, WalkStep(c)
      PROVE  PlaceInv'
  <2>0. /\ UNCHANGED <<data, spoiled>> /\ Len(data) \in Nat /\ pc[c] = "walk"
        /\ PlaceOK(c) /\ call[c].op \in {"list", "wipe"} /\ call[c] \in CallType
    BY <1>11 DEF WalkStep, PlaceInv, PlaceOK, TypeOK
  <2>2. \A d \in Caller \ {c} : pc'[d] = pc[d] /\ call'[d] = call[d]
    BY <1>11, OthersStay
  <2>7. /\ \/ Done(c, "GENERAL")
           \/ UNCHANGED pc /\ \E todo : call' = [call EXCEPT ![c] = [@ EXCEPT !.todo = todo]]
           \/ UNCHANGED pc /\ \E todo : \E seen :
                 call' = [call EXCEPT ![c] = [@ EXCEPT !.todo = todo, !.seen = seen]]
        /\ UNCHANGED node \/ node' = [node EXCEPT ![call[c].todo[1][2]] = None]
    BY <1>11, <2>0, WalkStepCall
  <2>3. PlaceOK(c)'
    <3>1. CASE Done(c, "GENERAL")
      BY <2>0, <3>1, DonePlace
    <3>2. CASE UNCHANGED pc /\ \E todo : call' = [call EXCEPT ![c] = [@ EXCEPT !.todo = todo]]
      <4>1. PICK todo : call' = [call EXCEPT ![c] = [@ EXCEPT !.todo = todo]]
        BY <3>2
      <4>2. /\ call'[c].tmp = call[c].tmp /\ call'[c].ino = call[c].ino /\ call'[c].op = call[c].op
            /\ call'[c].key = call[c].key /\ call'[c].src = call[c].src /\ call'[c].val = call[c].val
            /\ call'[c].at = call[c].at /\ call'[c].ret = call[c].ret
        BY <2>0, <4>1 DEF CallType, TypeOK
      <4> QED
        BY <2>0, <3>2, <4>2 DEF PlaceOK, Writing
    <3>3. CASE UNCHANGED pc /\ \E todo : \E seen :
                   call' = [call EXCEPT ![c] = [@ EXCEPT !.todo = todo, !.seen = seen]]
      <4>1. PICK todo : \E seen :
                call' = [call EXCEPT ![c] = [@ EXCEPT !.todo = todo, !.seen = seen]]
        BY <3>3
      <4>2. PICK seen : call' = [call EXCEPT ![c] = [@ EXCEPT !.todo = todo, !.seen = seen]]
        BY <4>1
      <4>3. /\ call'[c].tmp = call[c].tmp /\ call'[c].ino = call[c].ino /\ call'[c].op = call[c].op
            /\ call'[c].key = call[c].key /\ call'[c].src = call[c].src /\ call'[c].val = call[c].val
            /\ call'[c].at = call[c].at /\ call'[c].ret = call[c].ret
        BY <2>0, <4>2 DEF CallType, TypeOK
      <4> QED
        BY <2>0, <3>3, <4>3 DEF PlaceOK, Writing
    <3> QED
      BY <2>7, <3>1, <3>2, <3>3
  <2>4. \A p \in Path : node'[p] \in {Dir} \cup 0..Len(data')
    <3>1. CASE UNCHANGED node
      BY <2>0, <3>1 DEF PlaceInv
    <3>2. CASE node' = [node EXCEPT ![call[c].todo[1][2]] = None]
      BY <2>0, <3>2 DEF PlaceInv, TypeOK, None
    <3> QED
      BY <2>7, <3>1, <3>2
  <2>5. spoiled' \subseteq Inode'
    BY <2>0 DEF PlaceInv, Inode
  <2> QED
    BY <2>0, <2>2, <2>3, <2>4, <2>5, PlaceFrame
<1>12. ASSUME NEW c \in Caller, WalkEnds(c)
      PROVE  PlaceInv'
  <2>0. UNCHANGED <<node, data, spoiled>>
    BY <1>12 DEF WalkEnds
  <2>1. Len(data) \in Nat
    BY DEF TypeOK
  <2>2. \A d \in Caller \ {c} : pc'[d] = pc[d] /\ call'[d] = call[d]
    BY <1>12, OthersStay
  <2>3. PlaceOK(c)'
    BY <1>12, <2>0, <2>1, DonePlace DEF WalkEnds
  <2>4. \A p \in Path : node'[p] \in {Dir} \cup 0..Len(data')
    BY <2>0 DEF PlaceInv
  <2>5. spoiled' \subseteq Inode'
    BY <2>0 DEF PlaceInv, Inode
  <2> QED
    BY <2>0, <2>1, <2>2, <2>3, <2>4, <2>5, PlaceFrame
<1>13. ASSUME Crash
      PROVE  PlaceInv'
  <2>0. /\ UNCHANGED <<node, data, spoiled>> /\ Len(data) \in Nat
        /\ pc' = [c \in Caller |-> "idle"] /\ call' = [c \in Caller |-> Blank]
    BY <1>13 DEF Crash, TypeOK
  <2>1. ASSUME NEW d \in Caller PROVE PlaceOK(d)'
    BY <2>0, <2>1 DEF PlaceOK, Writing, Blank, None
  <2> QED
    BY <2>0, <2>1 DEF PlaceInv, Inode
<1>14. ASSUME UNCHANGED vars
      PROVE  PlaceInv'
  BY <1>14 DEF vars, PlaceInv, PlaceOK, Writing, Inode
<1> QED
  BY <1>1, <1>2, <1>3, <1>4, <1>5, <1>6, <1>7, <1>8, <1>9, <1>10, <1>11, <1>12, <1>13, <1>14 DEF Next

(* How the files change in a step: folders are made, a temporary file is
   created, one is renamed to its key, a file or an empty folder goes. *)
Above(d) == {SubSeq(d, 1, n) : n \in 0..Len(d)}
MakesFolders ==
    \E d \in Folders : /\ \A p \in Above(d) : ~IsFile(p)
                       /\ node' = [p \in Path |-> IF p \in Above(d) THEN Dir ELSE node[p]]
CreatesTemp ==
    \E t \in Temps : /\ IsDir(Parent(t)) /\ node[t] = None
                     /\ node' = [node EXCEPT ![t] = Len(data) + 1]
MovesTemp ==
    \E k \in Key : \E s \in Suffix :
        /\ \E c \in Caller : Rename(c) /\ Renamable(c) /\ call[c].key = k /\ call[c].tmp = Tmp(k, s)
        /\ IsFile(Tmp(k, s)) /\ ~IsDir(k)
        /\ node' = [node EXCEPT ![k] = node[Tmp(k, s)], ![Tmp(k, s)] = None]
Removes ==
    \E p \in Path : Removable(p) /\ node' = [node EXCEPT ![p] = None]

(* The folders above a folder are folders. *)
LEMMA AboveFolders ==
    ASSUME NEW d \in Folders
    PROVE  /\ Above(d) \subseteq Folders
           /\ \A p \in Above(d), m \in Nat : m < Len(p) => SubSeq(p, 1, m) \in Above(d)
<1>1. d \in Path /\ d \in Seq(Seq(STRING))
  BY PathTypes
<1>2. ASSUME NEW n \in 0..Len(d), NEW m \in Nat, m < Len(SubSeq(d, 1, n))
      PROVE  SubSeq(SubSeq(d, 1, n), 1, m) \in Above(d)
  <2>1. SubSeq(SubSeq(d, 1, n), 1, m) = SubSeq(d, 1, m) /\ m \in 0..Len(d)
    BY <1>1, <1>2
  <2> QED
    BY <2>1 DEF Above
<1>3. ASSUME NEW n \in 0..Len(d) PROVE SubSeq(d, 1, n) \in Folders
  <2>1. CASE n = Len(d)
    <3>1. \A S, q : q \in Seq(S) => SubSeq(q, 1, Len(q)) = q
      OBVIOUS
    <3> QED
      BY <1>1, <2>1, <3>1
  <2>2. CASE n # Len(d)
    <3>1. n \in Nat /\ n < Len(d)
      BY <1>1, <2>2
    <3> QED
      BY <1>1, <3>1, PathPrefix
  <2> QED
    BY <2>1, <2>2
<1> QED
  BY <1>2, <1>3 DEF Above

(* ruMkdir makes folders. *)
LEMMA MkdirNode ==
    ASSUME PlaceInv, NEW c \in Caller, Mkdir(c)
    PROVE  UNCHANGED node \/ MakesFolders
<1> DEFINE d == Parent(call[c].key)
<1>1. \/ UNCHANGED node
      \/ /\ ~\E p \in Above(d) : IsFile(p)
         /\ node' = [p \in Path |-> IF p \in Above(d) THEN Dir ELSE node[p]]
  BY Zenon DEF Mkdir, Above
<1>2. d \in Folders
  <2>1. call[c].key \in Key
    BY DEF Mkdir, PlaceInv, PlaceOK
  <2>2. d = SubSeq(call[c].key, 1, Len(call[c].key) - 1)
        /\ Len(call[c].key) - 1 \in 0..Len(call[c].key) - 1
    BY <2>1, PathTypes DEF Parent, Front
  <2> QED
    BY <2>1, <2>2, FolderAt
<1> HIDE DEF d
<1> QED
  BY <1>1, <1>2, Zenon DEF MakesFolders

(* Temporary files stay when folders are made. *)
LEMMA TempsStay ==
    ASSUME MakesFolders
    PROVE  \A t \in Temps : node'[t] = node[t]
<1>1. PICK d \in Folders : node' = [p \in Path |-> IF p \in Above(d) THEN Dir ELSE node[p]]
  BY DEF MakesFolders
<1>2. \A t \in Temps : t \notin Above(d)
  BY AboveFolders, PathTypes
<1> QED
  BY <1>1, <1>2, PathTypes

(* No step changes the files in another way. *)
LEMMA NodeStep ==
    ASSUME Inductive, [Next]_vars
    PROVE  UNCHANGED node \/ MakesFolders \/ CreatesTemp \/ MovesTemp \/ Removes
<1> USE DEF Inductive
<1>1. ASSUME NEW c \in Caller, Begin(c)
      PROVE  UNCHANGED node \/ MakesFolders \/ CreatesTemp \/ MovesTemp \/ Removes
  BY <1>1, Zenon DEF Begin
<1>2. ASSUME NEW c \in Caller, Get(c)
      PROVE  UNCHANGED node \/ MakesFolders \/ CreatesTemp \/ MovesTemp \/ Removes
  BY <1>2, Zenon DEF Get
<1>3. ASSUME NEW c \in Caller, Read(c)
      PROVE  UNCHANGED node \/ MakesFolders \/ CreatesTemp \/ MovesTemp \/ Removes
  BY <1>3, Zenon DEF Read
<1>4. ASSUME NEW c \in Caller, Mkdir(c)
      PROVE  UNCHANGED node \/ MakesFolders \/ CreatesTemp \/ MovesTemp \/ Removes
  BY <1>4, MkdirNode
<1>5. ASSUME NEW c \in Caller, OpenTmp(c)
      PROVE  UNCHANGED node \/ MakesFolders \/ CreatesTemp \/ MovesTemp \/ Removes
  <2>1. call[c].key \in Key
    BY <1>5 DEF OpenTmp, PlaceInv, PlaceOK
  <2>2. PICK s \in Suffix :
            \/ UNCHANGED node
            \/ /\ IsDir(Parent(Tmp(call[c].key, s))) /\ ~IsDir(Tmp(call[c].key, s))
               /\ ~IsFile(Tmp(call[c].key, s))
               /\ node' = [node EXCEPT ![Tmp(call[c].key, s)] = Len(data) + 1]
    BY <1>5, Zenon DEF OpenTmp
  <2> DEFINE t == Tmp(call[c].key, s)
  <2>3. t \in Temps /\ t \in Path
    BY <2>1, PathTypes DEF Temps
  <2> HIDE DEF t
  <2>4. ~IsDir(t) /\ ~IsFile(t) => node[t] = None
    BY <2>3 DEF IsDir, IsFile, TypeOK, None
  <2> QED
    BY <2>2, <2>3, <2>4 DEF t, CreatesTemp
<1>6. ASSUME NEW c \in Caller, Write(c)
      PROVE  UNCHANGED node \/ MakesFolders \/ CreatesTemp \/ MovesTemp \/ Removes
  BY <1>6, Zenon DEF Write
<1>7. ASSUME NEW c \in Caller, Written(c)
      PROVE  UNCHANGED node \/ MakesFolders \/ CreatesTemp \/ MovesTemp \/ Removes
  BY <1>7, Zenon DEF Written
<1>8. ASSUME NEW c \in Caller, Rename(c)
      PROVE  UNCHANGED node \/ MakesFolders \/ CreatesTemp \/ MovesTemp \/ Removes
  <2>0. PlaceOK(c) /\ pc[c] = "rename"
    BY <1>8 DEF Rename, PlaceInv
  <2>1. call[c].key \in Key
    BY <2>0 DEF PlaceOK
  <2>2. PICK s \in Suffix : call[c].tmp = Tmp(call[c].key, s)
    BY <2>0 DEF PlaceOK, Writing
  <2>3. call[c].tmp \in Temps /\ call[c].tmp \in Path
    BY <2>1, <2>2, PathTypes DEF Temps
  <2>4. ~IsDir(call[c].tmp) /\ node[call[c].tmp] \in Nat
    BY <2>3, PathTypes DEF TreeInv, IsDir, TypeOK
  <2>5. CASE Renamable(c)
    <3>1. node' = [node EXCEPT ![call[c].key] = node[call[c].tmp], ![call[c].tmp] = None]
      BY <1>8, <2>5 DEF Rename
    <3>2. IsFile(call[c].tmp) /\ ~IsDir(call[c].key)
      BY <2>4, <2>5 DEF Renamable, Exists, IsFile, None
    <3> QED
      BY <1>8, <2>1, <2>2, <2>5, <3>1, <3>2, Zenon DEF MovesTemp
  <2>6. CASE ~Renamable(c)
    <3>1. node' = [node EXCEPT ![call[c].tmp] = None]
      BY <1>8, <2>6 DEF Rename
    <3> QED
      BY <2>3, <2>4, <3>1 DEF Removes, Removable
  <2> QED
    BY <2>5, <2>6
<1>9. ASSUME NEW c \in Caller, FileRemove(c)
      PROVE  UNCHANGED node \/ MakesFolders \/ CreatesTemp \/ MovesTemp \/ Removes
  <2>1. call[c].key \in Path
    BY <1>9, PathTypes DEF FileRemove, PlaceInv, PlaceOK
  <2> QED
    BY <1>9, <2>1, Zenon DEF FileRemove, Removes
<1>10. ASSUME NEW c \in Caller, Walk(c)
      PROVE  UNCHANGED node \/ MakesFolders \/ CreatesTemp \/ MovesTemp \/ Removes
  BY <1>10, Zenon DEF Walk
<1>11. ASSUME NEW c \in Caller, WalkStep(c)
      PROVE  UNCHANGED node \/ MakesFolders \/ CreatesTemp \/ MovesTemp \/ Removes
  <2>1. call[c] \in CallType /\ call[c].op \in {"list", "wipe"} /\ call[c].todo # <<>>
    BY <1>11 DEF WalkStep, PlaceInv, PlaceOK, TypeOK
  <2>2. call[c].todo[1][2] \in Path
    BY <2>1 DEF CallType
  <2>3. \/ UNCHANGED node
        \/ /\ Removable(call[c].todo[1][2])
           /\ node' = [node EXCEPT ![call[c].todo[1][2]] = None]
    BY <1>11, <2>1, WalkStepCall
  <2> QED
    BY <2>2, <2>3, Zenon DEF Removes
<1>12. ASSUME NEW c \in Caller, WalkEnds(c)
      PROVE  UNCHANGED node \/ MakesFolders \/ CreatesTemp \/ MovesTemp \/ Removes
  BY <1>12, Zenon DEF WalkEnds
<1>13. ASSUME Crash
      PROVE  UNCHANGED node \/ MakesFolders \/ CreatesTemp \/ MovesTemp \/ Removes
  BY <1>13, Zenon DEF Crash
<1>14. ASSUME UNCHANGED vars
      PROVE  UNCHANGED node \/ MakesFolders \/ CreatesTemp \/ MovesTemp \/ Removes
  BY <1>14 DEF vars
<1> QED
  BY <1>1, <1>2, <1>3, <1>4, <1>5, <1>6, <1>7, <1>8, <1>9, <1>10, <1>11, <1>12, <1>13, <1>14 DEF Next

(* Folders stay where folders can be, and what is there in folders. *)
LEMMA TreeStep ==
    ASSUME Inductive, [Next]_vars
    PROVE  TreeInv'
<1> USE DEF Inductive
<1>0. /\ \A p \in Path, n \in Nat : n < Len(p) => SubSeq(p, 1, n) \in Folders
      /\ Folders \subseteq Path
      /\ \A p \in Path, n \in Nat : Exists(p) /\ n < Len(p) => IsDir(SubSeq(p, 1, n))
      /\ \A p \in Path : IsDir(p) => p \in Folders
      /\ \A p \in Path : node[p] \in Nat \cup {Dir}
      /\ \A t \in Temps : t \in Path /\ t \notin Folders
      /\ Dir # None /\ Dir \notin Nat
  BY PathPrefix, PathTypes DEF TreeInv, TypeOK
<1>1. CASE UNCHANGED node
  BY <1>1 DEF TreeInv, Exists, IsDir
<1>2. CASE MakesFolders
  <2>1. PICK d \in Folders : node' = [p \in Path |-> IF p \in Above(d) THEN Dir ELSE node[p]]
    BY <1>2 DEF MakesFolders
  <2>5. \A p \in Above(d) : p \in Folders /\ \A m \in Nat : m < Len(p) => SubSeq(p, 1, m) \in Above(d)
    BY AboveFolders
  <2>6. ASSUME NEW p \in Path, NEW n \in Nat, Exists(p)', n < Len(p)
        PROVE  IsDir(SubSeq(p, 1, n))'
    <3>1. SubSeq(p, 1, n) \in Path
      BY <1>0, <2>6
    <3>2. CASE p \in Above(d)
      BY <2>1, <2>5, <2>6, <3>1, <3>2 DEF IsDir
    <3>3. CASE p \notin Above(d)
      <4>1. IsDir(SubSeq(p, 1, n))
        BY <1>0, <2>1, <2>6, <3>3 DEF Exists
      <4> QED
        BY <2>1, <3>1, <4>1 DEF IsDir
    <3> QED
      BY <3>2, <3>3
  <2>7. \A p \in Path : IsDir(p)' => p \in Folders
    BY <1>0, <2>1, <2>5 DEF IsDir
  <2> QED
    BY <2>6, <2>7 DEF TreeInv
<1>3. CASE CreatesTemp
  <2>1. PICK t \in Temps : IsDir(Parent(t)) /\ node' = [node EXCEPT ![t] = Len(data) + 1]
    BY <1>3 DEF CreatesTemp
  <2>2. t \in Path /\ t \in Seq(Seq(STRING)) /\ t # <<>> /\ t \notin Folders /\ Len(data) + 1 \in Nat
    <3>1. \A k \in Key, s \in Suffix : Len(Tmp(k, s)) > 0
      BY TmpPath, PathTypes
    <3>2. Len(<<>>) = 0
      OBVIOUS
    <3>3. t # <<>>
      BY <3>1, <3>2 DEF Temps
    <3> QED
      BY <3>3, PathTypes DEF TypeOK
  <2>3. ASSUME NEW n \in Nat, n < Len(t) PROVE IsDir(SubSeq(t, 1, n))
    <3>1. Parent(t) = SubSeq(t, 1, Len(t) - 1) /\ Len(t) - 1 \in Nat /\ Len(t) - 1 < Len(t)
      BY <2>2 DEF Parent, Front
    <3>2. CASE n = Len(t) - 1
      BY <2>1, <3>1, <3>2
    <3>3. CASE n # Len(t) - 1
      <4>1. n < Len(Parent(t)) /\ SubSeq(Parent(t), 1, n) = SubSeq(t, 1, n)
        BY <2>2, <2>3, <3>1, <3>3
      <4>2. Exists(Parent(t)) /\ Parent(t) \in Path
        BY <1>0, <2>1, <2>2, <3>1 DEF Exists, IsDir
      <4> QED
        BY <1>0, <4>1, <4>2
    <3> QED
      BY <3>2, <3>3
  <2>4. ASSUME NEW p \in Path, NEW n \in Nat, Exists(p)', n < Len(p)
        PROVE  IsDir(SubSeq(p, 1, n))'
    <3>1. IsDir(SubSeq(p, 1, n))
      BY <1>0, <2>1, <2>3, <2>4 DEF Exists, TypeOK
    <3>2. SubSeq(p, 1, n) # t /\ SubSeq(p, 1, n) \in Path
      BY <1>0, <2>2, <2>4
    <3> QED
      BY <2>1, <3>1, <3>2 DEF IsDir, TypeOK
  <2>5. \A p \in Path : IsDir(p)' => p \in Folders
    BY <1>0, <2>1, <2>2 DEF IsDir, TypeOK
  <2> QED
    BY <2>4, <2>5 DEF TreeInv
<1>4. CASE MovesTemp
  <2>1. PICK k \in Key : \E s \in Suffix :
            /\ IsFile(Tmp(k, s)) /\ ~IsDir(k)
            /\ node' = [node EXCEPT ![k] = node[Tmp(k, s)], ![Tmp(k, s)] = None]
    BY <1>4 DEF MovesTemp
  <2>2. PICK s \in Suffix :
            /\ IsFile(Tmp(k, s)) /\ ~IsDir(k)
            /\ node' = [node EXCEPT ![k] = node[Tmp(k, s)], ![Tmp(k, s)] = None]
    BY <2>1
  <2> DEFINE t == Tmp(k, s)
  <2>3. /\ t \in Temps /\ t \in Path /\ k \in Path /\ t # k /\ t \notin Folders /\ Len(t) = Len(k)
        /\ \A n \in Nat : n < Len(k) => SubSeq(t, 1, n) = SubSeq(k, 1, n)
    BY TmpPath, PathTypes
  <2> HIDE DEF t
  <2>4. /\ ~IsDir(t) /\ Exists(t) /\ node'[k] = node[t] /\ node'[t] = None
        /\ \A p \in Path : p # k /\ p # t => node'[p] = node[p]
    BY <1>0, <2>2, <2>3 DEF IsFile, IsDir, Exists, None, t, TypeOK
  <2>5. ASSUME NEW p \in Path, NEW n \in Nat, Exists(p)', n < Len(p)
        PROVE  IsDir(SubSeq(p, 1, n))'
    <3>1. IsDir(SubSeq(p, 1, n))
      <4>1. CASE p = k
        BY <1>0, <2>3, <2>4, <2>5, <4>1
      <4>2. CASE p # k
        BY <1>0, <2>4, <2>5, <4>2 DEF Exists
      <4> QED
        BY <4>1, <4>2
    <3>2. SubSeq(p, 1, n) # t /\ SubSeq(p, 1, n) # k /\ SubSeq(p, 1, n) \in Path
      BY <1>0, <2>2, <2>3, <2>5, <3>1
    <3> QED
      BY <2>4, <3>1, <3>2 DEF IsDir
  <2>6. \A p \in Path : IsDir(p)' => p \in Folders
    BY <1>0, <2>3, <2>4 DEF IsDir
  <2> QED
    BY <2>5, <2>6 DEF TreeInv
<1>5. CASE Removes
  <2>1. PICK o \in Path : Removable(o) /\ node' = [node EXCEPT ![o] = None]
    BY <1>5 DEF Removes
  <2>2. /\ node'[o] = None
        /\ \A p \in Path : p # o => node'[p] = node[p]
    BY <2>1 DEF TypeOK
  <2>3. ASSUME NEW p \in Path, NEW n \in Nat, Exists(p)', n < Len(p)
        PROVE  IsDir(SubSeq(p, 1, n))'
    <3>1. p # o /\ Exists(p)
      BY <2>2, <2>3 DEF Exists
    <3>2. IsDir(SubSeq(p, 1, n)) /\ SubSeq(p, 1, n) \in Path
      BY <1>0, <2>3, <3>1
    <3>3. ASSUME SubSeq(p, 1, n) = o PROVE FALSE
      <4> DEFINE q == SubSeq(p, 1, n + 1)
      <4>0. p \in Seq(Seq(STRING))
        BY PathTypes
      <4>1. q \in Path /\ Exists(q)
        <5>1. CASE n + 1 = Len(p)
          <6>1. q = p
            BY <4>0, <5>1
          <6> QED
            BY <3>1, <6>1
        <5>2. CASE n + 1 # Len(p)
          <6>1. n + 1 \in Nat /\ n + 1 < Len(p)
            BY <2>3, <4>0, <5>2
          <6> QED
            BY <1>0, <3>1, <6>1 DEF Exists, IsDir
        <5> QED
          BY <5>1, <5>2
      <4>2. q # <<>> /\ Parent(q) = SubSeq(p, 1, n)
        <5>1. q \in Seq(Seq(STRING)) /\ Len(q) = n + 1
          BY <2>3, <4>0
        <5>2. SubSeq(q, 1, n) = SubSeq(p, 1, n)
          BY <2>3, <4>0
        <5>3. Len(q) - 1 = n /\ q # <<>>
          BY <2>3, <5>1
        <5> HIDE DEF q
        <5> QED
          BY <5>2, <5>3 DEF Parent, Front
      <4> HIDE DEF q
      <4>3. q \in Children(o)
        BY <3>3, <4>1, <4>2 DEF Children
      <4> QED
        BY <2>1, <3>2, <3>3, <4>3 DEF Removable
    <3> QED
      BY <2>2, <3>2, <3>3 DEF IsDir
  <2>4. \A p \in Path : IsDir(p)' => p \in Folders
    BY <1>0, <2>2 DEF IsDir
  <2> QED
    BY <2>3, <2>4 DEF TreeInv
<1> QED
  BY <1>1, <1>2, <1>3, <1>4, <1>5, NodeStep

(* A file is at one path before and after. *)
LEMMA OnceStep ==
    ASSUME Inductive, [Next]_vars
    PROVE  OnceInv'
<1> USE DEF Inductive
<1>0. /\ \A p \in Path : node[p] \in {Dir} \cup 0..Len(data)
      /\ \A p, q \in Path : IsFile(p) /\ node[p] = node[q] => p = q
      /\ Len(data) \in Nat
  BY DEF PlaceInv, OnceInv, TypeOK
<1>1. CASE UNCHANGED node
  BY <1>1 DEF OnceInv, IsFile
<1>2. CASE MakesFolders
  <2>1. PICK d \in Folders : node' = [p \in Path |-> IF p \in Above(d) THEN Dir ELSE node[p]]
    BY <1>2 DEF MakesFolders
  <2> QED
    BY <1>0, <2>1 DEF OnceInv, IsFile, Dir
<1>3. CASE CreatesTemp
  <2>1. PICK t \in Temps : node' = [node EXCEPT ![t] = Len(data) + 1]
    BY <1>3 DEF CreatesTemp
  <2>2. \A p \in Path : node'[p] = IF p = t THEN Len(data) + 1 ELSE node[p]
    BY <2>1 DEF TypeOK
  <2> QED
    BY <1>0, <2>2 DEF OnceInv, IsFile, Dir
<1>4. CASE MovesTemp
  <2>1. PICK k \in Key : \E s \in Suffix :
            /\ IsFile(Tmp(k, s))
            /\ node' = [node EXCEPT ![k] = node[Tmp(k, s)], ![Tmp(k, s)] = None]
    BY <1>4 DEF MovesTemp
  <2>2. PICK s \in Suffix :
            /\ IsFile(Tmp(k, s))
            /\ node' = [node EXCEPT ![k] = node[Tmp(k, s)], ![Tmp(k, s)] = None]
    BY <2>1
  <2> DEFINE t == Tmp(k, s)
  <2>3. t \in Path /\ t # k
    BY TmpPath, PathTypes
  <2> HIDE DEF t
  <2>4. \A p \in Path : node'[p] = IF p = t THEN None ELSE IF p = k THEN node[t] ELSE node[p]
    BY <2>2, <2>3 DEF TypeOK, t
  <2>5. IsFile(t)
    BY <2>2 DEF t
  <2> QED
    BY <1>0, <2>3, <2>4, <2>5 DEF OnceInv, IsFile, None
<1>5. CASE Removes
  <2>1. PICK o \in Path : node' = [node EXCEPT ![o] = None]
    BY <1>5 DEF Removes
  <2> QED
    BY <1>0, <2>1 DEF OnceInv, IsFile, None, TypeOK
<1> QED
  BY <1>1, <1>2, <1>3, <1>4, <1>5, NodeStep

(* A step leaves no temporary file to nobody if it leaves none of its call's
   and makes none but its call's. *)
LEMMA LitterFrame ==
    ASSUME LitterInv, NEW c \in Caller, crashed' = crashed,
           \A d \in Caller \ {c} : pc'[d] = pc[d] /\ call'[d] = call[d],
           \A t \in Temps : Exists(t)' =>
               \/ Writing(c)' /\ call'[c].tmp = t
               \/ Exists(t) /\ ~(Writing(c) /\ call[c].tmp = t)
    PROVE  LitterInv'
<1> SUFFICES ASSUME NEW t \in Temps, Exists(t)', ~crashed'
             PROVE  \E d \in Caller : Writing(d)' /\ call'[d].tmp = t
  BY DEF LitterInv, Temps
<1>1. CASE Writing(c)' /\ call'[c].tmp = t
  BY <1>1
<1>2. CASE Exists(t) /\ ~(Writing(c) /\ call[c].tmp = t)
  <2>1. PICK d \in Caller : Writing(d) /\ call[d].tmp = t
    BY <1>2 DEF LitterInv
  <2>2. d # c
    BY <1>2, <2>1
  <2> QED
    BY <2>1, <2>2 DEF Writing
<1> QED
  BY <1>1, <1>2

(* Temporary files stay those of calls in progress. *)
LEMMA LitterStep ==
    ASSUME Inductive, [Next]_vars
    PROVE  LitterInv'
<1> USE DEF Inductive
<1>1. ASSUME NEW c \in Caller, Begin(c)
      PROVE  LitterInv'
  <2>1. ~Writing(c) /\ crashed' = crashed /\ UNCHANGED node
    BY <1>1 DEF Begin, Writing
  <2>2. \A d \in Caller \ {c} : pc'[d] = pc[d] /\ call'[d] = call[d]
    BY <1>1, OthersStay
  <2>3. \A t \in Temps : Exists(t)' => Exists(t)
    BY <2>1 DEF Exists
  <2> QED
    BY <2>1, <2>2, <2>3, LitterFrame
<1>2. ASSUME NEW c \in Caller, Get(c)
      PROVE  LitterInv'
  <2>1. ~Writing(c) /\ crashed' = crashed /\ UNCHANGED node
    BY <1>2 DEF Get, Writing
  <2>2. \A d \in Caller \ {c} : pc'[d] = pc[d] /\ call'[d] = call[d]
    BY <1>2, OthersStay
  <2>3. \A t \in Temps : Exists(t)' => Exists(t)
    BY <2>1 DEF Exists
  <2> QED
    BY <2>1, <2>2, <2>3, LitterFrame
<1>3. ASSUME NEW c \in Caller, Read(c)
      PROVE  LitterInv'
  <2>1. ~Writing(c) /\ crashed' = crashed /\ UNCHANGED node
    BY <1>3 DEF Read, Writing
  <2>2. \A d \in Caller \ {c} : pc'[d] = pc[d] /\ call'[d] = call[d]
    BY <1>3, OthersStay
  <2>3. \A t \in Temps : Exists(t)' => Exists(t)
    BY <2>1 DEF Exists
  <2> QED
    BY <2>1, <2>2, <2>3, LitterFrame
<1>4. ASSUME NEW c \in Caller, Mkdir(c)
      PROVE  LitterInv'
  <2>1. ~Writing(c) /\ crashed' = crashed
    BY <1>4 DEF Mkdir, Writing
  <2>2. \A d \in Caller \ {c} : pc'[d] = pc[d] /\ call'[d] = call[d]
    BY <1>4, OthersStay
  <2>3. \A t \in Temps : Exists(t)' => Exists(t)
    BY <1>4, MkdirNode, TempsStay DEF Exists
  <2> QED
    BY <2>1, <2>2, <2>3, LitterFrame
<1>5. ASSUME NEW c \in Caller, OpenTmp(c)
      PROVE  LitterInv'
  <2>0. crashed' = crashed /\ ~Writing(c) /\ pc[c] = "open"
    BY <1>5 DEF OpenTmp, Writing
  <2>1. PICK s \in Suffix :
            \/ UNCHANGED node
            \/ /\ Goto(c, "write") /\ \E i : call' = [call EXCEPT ![c].tmp = Tmp(call[c].key, s), ![c].ino = i]
               /\ node' = [node EXCEPT ![Tmp(call[c].key, s)] = Len(data) + 1]
    BY <1>5, Zenon DEF OpenTmp
  <2>2. \A d \in Caller \ {c} : pc'[d] = pc[d] /\ call'[d] = call[d]
    BY <1>5, OthersStay
  <2>3. CASE UNCHANGED node
    BY <2>0, <2>2, <2>3, LitterFrame DEF Exists
  <2>4. CASE /\ Goto(c, "write") /\ \E i : call' = [call EXCEPT ![c].tmp = Tmp(call[c].key, s), ![c].ino = i]
             /\ node' = [node EXCEPT ![Tmp(call[c].key, s)] = Len(data) + 1]
    <3> DEFINE t == Tmp(call[c].key, s)
    <3> HIDE DEF t
    <3>1. PICK i : call' = [call EXCEPT ![c].tmp = t, ![c].ino = i]
      BY <2>4 DEF t
    <3>2. Writing(c)' /\ call'[c].tmp = t
      BY <2>4, <3>1 DEF Goto, Writing, TypeOK, CallType
    <3>3. \A u \in Temps : u # t => node'[u] = node[u]
      BY <2>4, PathTypes DEF t, TypeOK
    <3> QED
      BY <2>0, <2>2, <3>2, <3>3, LitterFrame DEF Exists
  <2> QED
    BY <2>1, <2>3, <2>4
<1>6. ASSUME NEW c \in Caller, Write(c)
      PROVE  LitterInv'
  <2>1. crashed' = crashed /\ UNCHANGED <<node, pc>> /\ pc[c] = "write"
        /\ call' = [call EXCEPT ![c].at = call[c].at + 1]
    BY <1>6 DEF Write
  <2>2. \A d \in Caller : call'[d].tmp = call[d].tmp
    BY <2>1 DEF TypeOK, CallType
  <2> QED
    BY <2>1, <2>2 DEF LitterInv, Writing, Exists, Temps
<1>7. ASSUME NEW c \in Caller, Written(c)
      PROVE  LitterInv'
  <2>1. crashed' = crashed /\ UNCHANGED <<node, call>> /\ pc' = [pc EXCEPT ![c] = "rename"]
        /\ pc[c] = "write"
    BY <1>7 DEF Written, Goto
  <2>2. \A d \in Caller : Writing(d) => Writing(d)'
    BY <2>1 DEF Writing, TypeOK
  <2> QED
    BY <2>1, <2>2 DEF LitterInv, Exists, Temps
<1>8. ASSUME NEW c \in Caller, Rename(c)
      PROVE  LitterInv'
  <2>0. crashed' = crashed /\ pc[c] = "rename" /\ PlaceOK(c)
    BY <1>8 DEF Rename, PlaceInv
  <2>2. \A d \in Caller \ {c} : pc'[d] = pc[d] /\ call'[d] = call[d]
    BY <1>8, OthersStay
  <2>3. \A t \in Temps : Exists(t)' => Exists(t) /\ t # call[c].tmp
    <3>1. call[c].tmp \in Temps /\ call[c].key \in Key
      BY <2>0 DEF PlaceOK, Writing, Temps
    <3>2. \A t \in Temps : t \in Path /\ t # call[c].key
      BY <3>1, PathTypes
    <3> QED
      BY <1>8, <3>1, <3>2 DEF Rename, Exists, TypeOK
  <2> QED
    BY <2>0, <2>2, <2>3, LitterFrame
<1>9. ASSUME NEW c \in Caller, FileRemove(c)
      PROVE  LitterInv'
  <2>1. ~Writing(c) /\ crashed' = crashed
    BY <1>9 DEF FileRemove, Writing
  <2>2. \A d \in Caller \ {c} : pc'[d] = pc[d] /\ call'[d] = call[d]
    BY <1>9, OthersStay
  <2>3. \A t \in Temps : Exists(t)' => Exists(t)
    BY <1>9, PathTypes DEF FileRemove, Exists, TypeOK
  <2> QED
    BY <2>1, <2>2, <2>3, LitterFrame
<1>10. ASSUME NEW c \in Caller, Walk(c)
      PROVE  LitterInv'
  <2>1. ~Writing(c) /\ crashed' = crashed /\ UNCHANGED node
    BY <1>10 DEF Walk, Writing
  <2>2. \A d \in Caller \ {c} : pc'[d] = pc[d] /\ call'[d] = call[d]
    BY <1>10, OthersStay
  <2>3. \A t \in Temps : Exists(t)' => Exists(t)
    BY <2>1 DEF Exists
  <2> QED
    BY <2>1, <2>2, <2>3, LitterFrame
<1>11. ASSUME NEW c \in Caller, WalkStep(c)
      PROVE  LitterInv'
  <2>1. ~Writing(c) /\ crashed' = crashed
    BY <1>11 DEF WalkStep, Writing
  <2>2. \A d \in Caller \ {c} : pc'[d] = pc[d] /\ call'[d] = call[d]
    BY <1>11, OthersStay
  <2>3. \A t \in Temps : Exists(t)' => Exists(t)
    <3>1. call[c].op \in {"list", "wipe"}
      BY <1>11 DEF WalkStep, PlaceInv, PlaceOK
    <3>2. UNCHANGED node \/ node' = [node EXCEPT ![call[c].todo[1][2]] = None]
      BY <1>11, <3>1, WalkStepCall
    <3> QED
      BY <3>2, PathTypes DEF Exists, TypeOK
  <2> QED
    BY <2>1, <2>2, <2>3, LitterFrame
<1>12. ASSUME NEW c \in Caller, WalkEnds(c)
      PROVE  LitterInv'
  <2>1. ~Writing(c) /\ crashed' = crashed /\ UNCHANGED node
    BY <1>12 DEF WalkEnds, Writing
  <2>2. \A d \in Caller \ {c} : pc'[d] = pc[d] /\ call'[d] = call[d]
    BY <1>12, OthersStay
  <2>3. \A t \in Temps : Exists(t)' => Exists(t)
    BY <2>1 DEF Exists
  <2> QED
    BY <2>1, <2>2, <2>3, LitterFrame
<1>13. ASSUME Crash
      PROVE  LitterInv'
  BY <1>13 DEF Crash, LitterInv
<1>14. ASSUME UNCHANGED vars
      PROVE  LitterInv'
  BY <1>14 DEF vars, LitterInv, Writing, Exists, Temps
<1> QED
  BY <1>1, <1>2, <1>3, <1>4, <1>5, <1>6, <1>7, <1>8, <1>9, <1>10, <1>11, <1>12, <1>13, <1>14 DEF Next

(* What a call is to do is the same after a step, and whence it reads. *)
Kept(c) ==
    /\ call'[c].op = call[c].op /\ call'[c].key = call[c].key /\ call'[c].val = call[c].val
    /\ call'[c].src = call[c].src
CallOK(d) ==
    /\ call'[d].src \in {None, call[d].src} \/ \E s \in Key : IsFile(s) /\ call'[d].src = node[s]
    /\ Writing(d)' => OpenTmp(d) \/ (Writing(d) /\ Kept(d) /\ call'[d].ino = call[d].ino)
    /\ Writing(d)' => \/ OpenTmp(d) \/ Write(d) \/ Written(d)
                      \/ Writing(d) /\ pc'[d] = pc[d] /\ call'[d] = call[d]

(* Files are added to the data. *)
LEMMA DataGrows ==
    ASSUME Inductive, [Next]_vars
    PROVE  Len(data') \in Nat /\ Len(data') >= Len(data)
<1> USE DEF Inductive
<1>1. Len(data) \in Nat
  BY DEF TypeOK
<1>2. ASSUME NEW c \in Caller, Write(c) PROVE Len(data') = Len(data)
  BY <1>2, WriteEffect
<1>3. ASSUME NEW c \in Caller, OpenTmp(c) PROVE Len(data') \in {Len(data), Len(data) + 1}
  <2>1. PICK s \in Suffix : UNCHANGED data \/ data' = Append(data, <<>>)
    BY <1>3 DEF OpenTmp
  <2> QED
    BY <2>1 DEF TypeOK
<1>4. ASSUME NEW c \in Caller,
             \/ Begin(c) \/ Get(c) \/ Read(c) \/ Mkdir(c) \/ Written(c) \/ Rename(c)
             \/ FileRemove(c) \/ Walk(c) \/ WalkStep(c) \/ WalkEnds(c)
      PROVE  UNCHANGED data
  BY <1>4, Zenon DEF Begin, Get, Read, Mkdir, Written, Rename, FileRemove, Walk, WalkStep, WalkEnds
<1>5. Crash \/ UNCHANGED vars => UNCHANGED data
  BY DEF Crash, vars
<1>6. \/ Len(data') = Len(data) \/ Len(data') \in {Len(data), Len(data) + 1}
  BY <1>2, <1>3, <1>4, <1>5 DEF Next
<1> QED
  BY <1>1, <1>6

(* The blocks that are there stay, but those of the file that is written. *)
LEMMA DataStep ==
    ASSUME Inductive, [Next]_vars
    PROVE  /\ spoiled \subseteq spoiled' /\ Len(data) \in Nat
           /\ \A i \in Inode : /\ Len(data'[i]) >= Len(data[i])
                               /\ \/ data'[i] = data[i]
                                  \/ \E c \in Caller : Write(c) /\ i = call[c].ino
<1> USE DEF Inductive
<1>0. Len(data) \in Nat /\ \A i \in Inode : Len(data[i]) \in Nat
  BY DEF TypeOK, Inode
<1>1. CASE spoiled \subseteq spoiled' /\ UNCHANGED data
  BY <1>0, <1>1
<1>2. ASSUME NEW c \in Caller, Write(c)
      PROVE  /\ UNCHANGED spoiled
             /\ \A i \in Inode : /\ Len(data'[i]) >= Len(data[i])
                                 /\ data'[i] = data[i] \/ i = call[c].ino
  <2>1. UNCHANGED spoiled
    BY <1>2 DEF Write
  <2> QED
    BY <1>2, <2>1, WriteEffect
<1>3. ASSUME NEW c \in Caller, OpenTmp(c)
      PROVE  /\ spoiled \subseteq spoiled'
             /\ \A i \in Inode : data'[i] = data[i]
  <2>1. PICK s \in Suffix : UNCHANGED data \/ data' = Append(data, <<>>)
    BY <1>3 DEF OpenTmp
  <2>2. \A i \in Inode : data'[i] = data[i]
    <3>2. data \in Seq(Seq(Value \X Nat))
      BY DEF TypeOK
    <3>1. <<>> \in Seq(Value \X Nat)
      OBVIOUS
    <3>3. \A i \in 1..Len(data) : Append(data, <<>>)[i] = data[i]
      BY <3>1, <3>2, AppendProperties
    <3> QED
      BY <2>1, <3>3 DEF Inode
  <2> QED
    BY <1>3, <2>2 DEF OpenTmp
<1>4. ASSUME NEW c \in Caller,
             \/ Begin(c) \/ Get(c) \/ Read(c) \/ Mkdir(c) \/ Written(c) \/ Rename(c)
             \/ FileRemove(c) \/ Walk(c) \/ WalkStep(c) \/ WalkEnds(c)
      PROVE  spoiled \subseteq spoiled' /\ UNCHANGED data
  BY <1>4, Zenon DEF Begin, Get, Read, Mkdir, Written, Rename, FileRemove, Walk, WalkStep, WalkEnds
<1>5. Crash \/ UNCHANGED vars => spoiled \subseteq spoiled' /\ UNCHANGED data
  BY DEF Crash, vars
<1> QED
  <2>1. CASE Crash \/ UNCHANGED vars
    BY <1>1, <1>5, <2>1
  <2>2. ASSUME NEW c \in Caller,
               \/ Begin(c) \/ Get(c) \/ Read(c) \/ Mkdir(c) \/ Written(c) \/ Rename(c)
               \/ FileRemove(c) \/ Walk(c) \/ WalkStep(c) \/ WalkEnds(c)
        PROVE  spoiled \subseteq spoiled' /\ UNCHANGED data
    BY <1>4, <2>2
  <2>3. CASE \E c \in Caller : Write(c)
    BY <1>0, <1>2, <2>3
  <2>4. CASE \E c \in Caller : OpenTmp(c)
    BY <1>0, <1>3, <2>4
  <2> QED
    BY <1>1, <2>1, <2>2, <2>3, <2>4 DEF Next

(* What ruOpenTmp gives a call: nothing, a file that others may have, or a new one. *)
LEMMA OpenTmpEffect ==
    ASSUME TypeOK, PlaceInv, NEW c \in Caller, OpenTmp(c)
    PROVE  /\ pc[c] = "open" /\ \A k \in Key : node'[k] = node[k]
           /\ \/ pc'[c] = "idle" /\ call'[c].src = None
              \/ /\ pc'[c] = "write" /\ Kept(c) /\ call'[c].at = 0
                 /\ call'[c].ino \in spoiled' \/ (call'[c].ino = Len(data) + 1 /\ data' = Append(data, <<>>))
<1>0. pc[c] = "open" /\ call[c].key \in Key /\ call[c] \in CallType /\ call[c].at = 0
  BY DEF OpenTmp, PlaceInv, PlaceOK, TypeOK, Writing
<1>1. PICK s \in Suffix :
          LET t == Tmp(call[c].key, s) IN
          \/ Done(c, Rfec("ENOENT")) /\ UNCHANGED node
          \/ /\ Goto(c, "write") /\ call' = [call EXCEPT ![c].tmp = t, ![c].ino = node[t]]
             /\ spoiled' = spoiled \cup {node[t]} /\ UNCHANGED node
          \/ /\ Goto(c, "write") /\ call' = [call EXCEPT ![c].tmp = t, ![c].ino = Len(data) + 1]
             /\ node' = [node EXCEPT ![t] = Len(data) + 1] /\ data' = Append(data, <<>>)
  BY DEF OpenTmp
<1> DEFINE t == Tmp(call[c].key, s)
<1>2. t \in Temps /\ t \in Path /\ \A k \in Key : k \in Path /\ k # t
  BY <1>0, PathTypes DEF Temps
<1> HIDE DEF t
<1>3. CASE Done(c, Rfec("ENOENT")) /\ UNCHANGED node
  BY <1>0, <1>3, DonePlace
<1>4. CASE /\ Goto(c, "write") /\ call' = [call EXCEPT ![c].tmp = t, ![c].ino = node[t]]
           /\ spoiled' = spoiled \cup {node[t]} /\ UNCHANGED node
  <2>1. call'[c] = [call[c] EXCEPT !.tmp = t, !.ino = node[t]] /\ pc'[c] = "write"
    BY <1>4 DEF Goto, TypeOK
  <2>2. Kept(c) /\ call'[c].ino = node[t] /\ call'[c].at = 0
    BY <1>0, <2>1 DEF Kept, CallType
  <2> QED
    BY <1>0, <1>4, <2>1, <2>2
<1>5. CASE /\ Goto(c, "write") /\ call' = [call EXCEPT ![c].tmp = t, ![c].ino = Len(data) + 1]
           /\ node' = [node EXCEPT ![t] = Len(data) + 1] /\ data' = Append(data, <<>>)
  <2>1. call'[c] = [call[c] EXCEPT !.tmp = t, !.ino = Len(data) + 1] /\ pc'[c] = "write"
    BY <1>5 DEF Goto, TypeOK
  <2>2. \A k \in Key : node'[k] = node[k]
    BY <1>2, <1>5 DEF TypeOK
  <2>3. Kept(c) /\ call'[c].ino = Len(data) + 1 /\ call'[c].at = 0
    BY <1>0, <2>1 DEF Kept, CallType
  <2> QED
    BY <1>0, <1>5, <2>1, <2>2, <2>3
<1> QED
  BY <1>1, <1>3, <1>4, <1>5 DEF t

(* Who reads a file has found it at a key, and who writes one has opened it. *)
LEMMA CallStep ==
    ASSUME Inductive, [Next]_vars
    PROVE  \A d \in Caller : CallOK(d)
<1> USE DEF Inductive
<1>1. ASSUME NEW c \in Caller, Begin(c)
      PROVE  \A d \in Caller : CallOK(d)
  <2>0. \A d \in Caller \ {c} : CallOK(d)
    BY <1>1, OthersStay DEF CallOK, Kept, Writing
  <2>1. CallOK(c)
    <3>1. ~Writing(c)' /\ (call'[c].src = None \/ \E s \in Key : IsFile(s) /\ call'[c].src = node[s])
      <4>1. \/ \E r : Done(c, r)
            \/ Goto(c, "mkdir") /\ \E k \in Key, v \in Value :
                  Start(c, [Blank EXCEPT !.op = "set", !.key = k, !.val = v])
            \/ Goto(c, "mkdir") /\ \E k \in Key : Start(c, [Blank EXCEPT !.op = "del", !.key = k])
            \/ Goto(c, "open") /\ \E k \in Key, s \in Key :
                  IsFile(s) /\ Start(c, [Blank EXCEPT !.op = "copy", !.key = k, !.src = node[s]])
        BY <1>1, Zenon DEF Begin
      <4>2. CASE \E r : Done(c, r)
        BY <4>2, DonePlace DEF Writing
      <4>3. CASE Goto(c, "mkdir") /\ \E k \in Key, v \in Value :
                  Start(c, [Blank EXCEPT !.op = "set", !.key = k, !.val = v])
        BY <4>3 DEF Writing, Start, Goto, Blank, TypeOK
      <4>4. CASE Goto(c, "mkdir") /\ \E k \in Key : Start(c, [Blank EXCEPT !.op = "del", !.key = k])
        BY <4>4 DEF Writing, Start, Goto, Blank, TypeOK
      <4>5. CASE Goto(c, "open") /\ \E k \in Key, s \in Key :
                  IsFile(s) /\ Start(c, [Blank EXCEPT !.op = "copy", !.key = k, !.src = node[s]])
        BY <4>5 DEF Writing, Start, Goto, Blank, TypeOK
      <4> QED
        BY <4>1, <4>2, <4>3, <4>4, <4>5
    <3> QED
      BY <3>1 DEF CallOK
  <2> QED
    BY <2>0, <2>1
<1>2. ASSUME NEW c \in Caller, Get(c)
      PROVE  \A d \in Caller : CallOK(d)
  <2>0. \A d \in Caller \ {c} : CallOK(d)
    BY <1>2, OthersStay DEF CallOK, Kept, Writing
  <2>1. CallOK(c)
    <3>1. ~Writing(c)' /\ (call'[c].src = None \/ \E s \in Key : IsFile(s) /\ call'[c].src = node[s])
      BY <1>2 DEF Get, Writing, Done, Start, Goto, Blank, TypeOK
    <3> QED
      BY <3>1 DEF CallOK
  <2> QED
    BY <2>0, <2>1
<1>3. ASSUME NEW c \in Caller, Read(c)
      PROVE  \A d \in Caller : CallOK(d)
  <2>0. \A d \in Caller \ {c} : CallOK(d)
    BY <1>3, OthersStay DEF CallOK, Kept, Writing
  <2>1. CallOK(c)
    <3>1. \E r : Done(c, r)
      BY <1>3, Zenon DEF Read
    <3> QED
      BY <3>1, DonePlace DEF CallOK, Writing
  <2> QED
    BY <2>0, <2>1
<1>4. ASSUME NEW c \in Caller, Mkdir(c)
      PROVE  \A d \in Caller : CallOK(d)
  <2>0. \A d \in Caller \ {c} : CallOK(d)
    BY <1>4, OthersStay DEF CallOK, Kept, Writing
  <2>1. CallOK(c)
    <3>1. \/ Done(c, "FILE_EXISTS")
          \/ Goto(c, IF call[c].op = "del" THEN "remove" ELSE "open") /\ UNCHANGED call
      BY <1>4, Zenon DEF Mkdir
    <3>2. CASE Done(c, "FILE_EXISTS")
      BY <3>2, DonePlace DEF CallOK, Writing
    <3>3. CASE Goto(c, IF call[c].op = "del" THEN "remove" ELSE "open") /\ UNCHANGED call
      <4>1. pc'[c] \in {"remove", "open"} /\ call'[c] = call[c]
        BY <3>3 DEF Goto, TypeOK
      <4> QED
        BY <4>1 DEF CallOK, Writing
    <3> QED
      BY <3>1, <3>2, <3>3
  <2> QED
    BY <2>0, <2>1
<1>5. ASSUME NEW c \in Caller, OpenTmp(c)
      PROVE  \A d \in Caller : CallOK(d)
  <2>0. \A d \in Caller \ {c} : CallOK(d)
    BY <1>5, OthersStay DEF CallOK, Kept, Writing
  <2>1. CallOK(c)
    BY <1>5, OpenTmpEffect DEF CallOK, Kept
  <2> QED
    BY <2>0, <2>1
<1>6. ASSUME NEW c \in Caller, Write(c)
      PROVE  \A d \in Caller : CallOK(d)
  <2>0. \A d \in Caller \ {c} : CallOK(d)
    BY <1>6, OthersStay DEF CallOK, Kept, Writing
  <2>1. CallOK(c)
    <3>1. /\ pc[c] = "write" /\ call[c] \in CallType
          /\ call'[c] = [call[c] EXCEPT !.at = call[c].at + 1]
      BY <1>6 DEF Write, TypeOK
    <3>2. Kept(c) /\ call'[c].ino = call[c].ino /\ call'[c].src = call[c].src
      BY <3>1 DEF Kept, CallType
    <3> QED
      BY <1>6, <3>1, <3>2 DEF CallOK, Writing
  <2> QED
    BY <2>0, <2>1
<1>7. ASSUME NEW c \in Caller, Written(c)
      PROVE  \A d \in Caller : CallOK(d)
  <2>0. \A d \in Caller \ {c} : CallOK(d)
    BY <1>7, OthersStay DEF CallOK, Kept, Writing
  <2>1. CallOK(c)
    BY <1>7 DEF CallOK, Kept, Written, Writing
  <2> QED
    BY <2>0, <2>1
<1>8. ASSUME NEW c \in Caller, Rename(c)
      PROVE  \A d \in Caller : CallOK(d)
  <2>0. \A d \in Caller \ {c} : CallOK(d)
    BY <1>8, OthersStay DEF CallOK, Kept, Writing
  <2>1. CallOK(c)
    <3>1. \E r : Done(c, r)
      BY <1>8, Zenon DEF Rename
    <3> QED
      BY <3>1, DonePlace DEF CallOK, Writing
  <2> QED
    BY <2>0, <2>1
<1>9. ASSUME NEW c \in Caller, FileRemove(c)
      PROVE  \A d \in Caller : CallOK(d)
  <2>0. \A d \in Caller \ {c} : CallOK(d)
    BY <1>9, OthersStay DEF CallOK, Kept, Writing
  <2>1. CallOK(c)
    <3>1. \E r : Done(c, r)
      BY <1>9, Zenon DEF FileRemove
    <3> QED
      BY <3>1, DonePlace DEF CallOK, Writing
  <2> QED
    BY <2>0, <2>1
<1>10. ASSUME NEW c \in Caller, Walk(c)
      PROVE  \A d \in Caller : CallOK(d)
  <2>0. \A d \in Caller \ {c} : CallOK(d)
    BY <1>10, OthersStay DEF CallOK, Kept, Writing
  <2>1. CallOK(c)
    <3>1. ~Writing(c)' /\ call'[c].src = None
      BY <1>10 DEF Walk, Writing, Start, Goto, Blank, TypeOK
    <3> QED
      BY <3>1 DEF CallOK
  <2> QED
    BY <2>0, <2>1
<1>11. ASSUME NEW c \in Caller, WalkStep(c)
      PROVE  \A d \in Caller : CallOK(d)
  <2>0. \A d \in Caller \ {c} : CallOK(d)
    BY <1>11, OthersStay DEF CallOK, Kept, Writing
  <2>1. CallOK(c)
    <3>1. pc[c] = "walk" /\ call[c].op \in {"list", "wipe"} /\ call[c] \in CallType
      BY <1>11 DEF WalkStep, PlaceInv, PlaceOK, TypeOK
    <3>2. CASE Done(c, "GENERAL")
      BY <3>2, DonePlace DEF CallOK, Writing
    <3>3. CASE UNCHANGED pc /\ \E todo : call' = [call EXCEPT ![c] = [@ EXCEPT !.todo = todo]]
      BY <3>1, <3>3 DEF CallOK, Writing, CallType, TypeOK
    <3>4. CASE UNCHANGED pc /\ \E todo : \E seen :
                   call' = [call EXCEPT ![c] = [@ EXCEPT !.todo = todo, !.seen = seen]]
      BY <3>1, <3>4 DEF CallOK, Writing, CallType, TypeOK
    <3> QED
      BY <1>11, <3>1, <3>2, <3>3, <3>4, WalkStepCall
  <2> QED
    BY <2>0, <2>1
<1>12. ASSUME NEW c \in Caller, WalkEnds(c)
      PROVE  \A d \in Caller : CallOK(d)
  <2>0. \A d \in Caller \ {c} : CallOK(d)
    BY <1>12, OthersStay DEF CallOK, Kept, Writing
  <2>1. CallOK(c)
    <3>1. \E r : Done(c, r)
      BY <1>12, Zenon DEF WalkEnds
    <3> QED
      BY <3>1, DonePlace DEF CallOK, Writing
  <2> QED
    BY <2>0, <2>1
<1>13. ASSUME Crash
      PROVE  \A d \in Caller : CallOK(d)
  BY <1>13 DEF Crash, CallOK, Writing, Blank
<1>14. ASSUME UNCHANGED vars
      PROVE  \A d \in Caller : CallOK(d)
  BY <1>14 DEF vars, CallOK, Writing, Kept
<1> QED
  BY <1>1, <1>2, <1>3, <1>4, <1>5, <1>6, <1>7, <1>8, <1>9, <1>10, <1>11, <1>12, <1>13, <1>14 DEF Next

(* A file comes to a key by being renamed. *)
LEMMA KeyStep ==
    ASSUME Inductive, [Next]_vars, NEW k \in Key
    PROVE  \/ node'[k] = node[k] \/ node'[k] \in {None, Dir}
           \/ \E c \in Caller : /\ Rename(c) /\ Renamable(c) /\ call[c].key = k
                                /\ node'[k] = node[call[c].tmp] /\ node'[k] \in Inode
<1> USE DEF Inductive
<1>0. k \in Path /\ \A t \in Temps : t \in Path /\ t # k
  BY PathTypes
<1>1. CASE UNCHANGED node
  BY <1>1
<1>2. CASE MakesFolders
  BY <1>0, <1>2 DEF MakesFolders
<1>3. CASE CreatesTemp
  BY <1>0, <1>3 DEF CreatesTemp, TypeOK
<1>4. CASE MovesTemp
  <2>1. PICK o \in Key : \E s \in Suffix :
            /\ \E c \in Caller : Rename(c) /\ Renamable(c) /\ call[c].key = o /\ call[c].tmp = Tmp(o, s)
            /\ IsFile(Tmp(o, s))
            /\ node' = [node EXCEPT ![o] = node[Tmp(o, s)], ![Tmp(o, s)] = None]
    BY <1>4 DEF MovesTemp
  <2>2. PICK s \in Suffix :
            /\ \E c \in Caller : Rename(c) /\ Renamable(c) /\ call[c].key = o /\ call[c].tmp = Tmp(o, s)
            /\ IsFile(Tmp(o, s))
            /\ node' = [node EXCEPT ![o] = node[Tmp(o, s)], ![Tmp(o, s)] = None]
    BY <2>1
  <2> DEFINE t == Tmp(o, s)
  <2>3. t \in Temps /\ t \in Path /\ t # k /\ o \in Path /\ t # o
    BY <1>0, TmpPath, PathTypes
  <2>4. node[t] \in Inode
    BY <2>2, <2>3 DEF PlaceInv, IsFile, Inode, Dir
  <2> HIDE DEF t
  <2>5. node'[k] = IF k = o THEN node[t] ELSE node[k]
    BY <1>0, <2>2, <2>3 DEF t, TypeOK
  <2> QED
    BY <2>2, <2>4, <2>5 DEF t
<1>5. CASE Removes
  BY <1>0, <1>5 DEF Removes, TypeOK
<1> QED
  BY <1>1, <1>2, <1>3, <1>4, <1>5, NodeStep

(* A file that a key has, or that somebody reads, is not written, unless it
   is spoiled. *)
LEMMA WholeKept ==
    ASSUME Inductive, [Next]_vars, NEW i \in Inode, Whole(i),
           (\E k \in Key : node[k] = i) \/ (\E d \in Caller : call[d].src = i)
    PROVE  i \in spoiled' \/ \E v \in Value : data'[i] = Bytes(v)
<1>1. CASE data'[i] = data[i]
  BY <1>1, DataStep DEF Whole
<1>2. CASE \E c \in Caller : Write(c) /\ i = call[c].ino
  <2>1. PICK c \in Caller : Write(c) /\ i = call[c].ino
    BY <1>2
  <2>2. OwnOK(c) /\ Writing(c)
    BY <2>1 DEF Inductive, WholeInv, Write, Writing
  <2>3. i \in spoiled
    BY <2>1, <2>2 DEF OwnOK
  <2> QED
    BY <2>3, DataStep
<1> QED
  BY <1>1, <1>2, DataStep

(* What is renamed to a key is whole: it is what its call has written. *)
LEMMA RenamedWhole ==
    ASSUME Inductive, NEW c \in Caller, Rename(c), Renamable(c)
    PROVE  LET i == node[call[c].tmp]
           IN  i \in spoiled' \/ \E v \in Value : data[i] = Bytes(v) /\ (call[c].op = "set" => v = call[c].val)
<1> DEFINE i == node[call[c].tmp]
<1>1. /\ UNCHANGED data /\ pc[c] = "rename"
      /\ spoiled' = spoiled \cup IF i = call[c].ino THEN {} ELSE {i}
  BY DEF Rename
<1> HIDE DEF i
<1>2. PartOK(c)
  BY DEF Inductive, WholeInv
<1> QED
  BY <1>1, <1>2 DEF PartOK, i

(* The files of the keys, and those that are read, stay whole. *)
LEMMA KeysWholeStep ==
    ASSUME Inductive, [Next]_vars
    PROVE  /\ \A k \in Key : IsFile(k)' => Whole(node[k])'
           /\ \A c \in Caller : call'[c].src # None => Whole(call[c].src)'
<1>1. ASSUME NEW k \in Key, IsFile(k) PROVE Whole(node[k]) /\ node[k] \in Inode
  <2>1. Whole(node[k])
    BY <1>1 DEF Inductive, WholeInv
  <2>2. node[k] \in {Dir} \cup 0..Len(data) /\ node[k] > 0
    BY <1>1, PathTypes DEF Inductive, PlaceInv, IsFile
  <2> QED
    BY <2>1, <2>2 DEF Inode, Dir
<1>2. ASSUME NEW k \in Key, IsFile(k)' PROVE Whole(node[k])'
  <2>1. CASE node'[k] = node[k]
    <3>1. IsFile(k)
      BY <1>2, <2>1 DEF IsFile
    <3>2. node[k] \in spoiled' \/ \E v \in Value : data'[node[k]] = Bytes(v)
      BY <1>1, <3>1, WholeKept
    <3> QED
      BY <2>1, <3>2 DEF Whole, Bytes
  <2>2. CASE node'[k] \in {None, Dir}
    BY <1>2, <2>2 DEF IsFile, None, Dir
  <2>3. CASE \E c \in Caller : /\ Rename(c) /\ Renamable(c) /\ call[c].key = k
                               /\ node'[k] = node[call[c].tmp] /\ node'[k] \in Inode
    <3>1. PICK c \in Caller : /\ Rename(c) /\ Renamable(c) /\ node'[k] = node[call[c].tmp]
      BY <2>3
    <3>2. node'[k] \in spoiled' \/ \E v \in Value : data[node'[k]] = Bytes(v)
      BY <3>1, RenamedWhole
    <3>3. UNCHANGED data
      BY <3>1 DEF Rename
    <3> QED
      BY <3>2, <3>3 DEF Whole, Bytes
  <2> QED
    BY <2>1, <2>2, <2>3, KeyStep
<1>3. ASSUME NEW c \in Caller, call'[c].src # None PROVE Whole(call[c].src)'
  <2>1. CASE call'[c].src = call[c].src
    <3>1. Whole(call[c].src) /\ call[c].src \in Inode
      BY <1>3, <2>1 DEF Inductive, WholeInv, PlaceInv, PlaceOK, Inode, None
    <3>2. call[c].src \in spoiled' \/ \E v \in Value : data'[call[c].src] = Bytes(v)
      BY <3>1, WholeKept
    <3> QED
      BY <2>1, <3>2 DEF Whole, Bytes
  <2>2. CASE \E s \in Key : IsFile(s) /\ call'[c].src = node[s]
    <3>1. PICK s \in Key : IsFile(s) /\ call'[c].src = node[s]
      BY <2>2
    <3>2. node[s] \in spoiled' \/ \E v \in Value : data'[node[s]] = Bytes(v)
      BY <1>1, <3>1, WholeKept
    <3> QED
      BY <3>1, <3>2 DEF Whole, Bytes
  <2> QED
    BY <1>3, <2>1, <2>2, CallStep DEF CallOK
<1> QED
  BY <1>2, <1>3

(* Who writes a file goes on writing it alone. *)
LEMMA OwnStep ==
    ASSUME Inductive, [Next]_vars, NEW c \in Caller
    PROVE  OwnOK(c)'
<1> DEFINE i == call'[c].ino
<1> SUFFICES ASSUME Writing(c)', i \notin spoiled'
             PROVE  /\ \A k \in Key : node'[k] # i
                    /\ \A d \in Caller : call'[d].src # i
                    /\ \A d \in Caller \ {c} : Writing(d)' => call'[d].ino # i
  BY DEF OwnOK
<1>0. TypeOK /\ PlaceInv /\ spoiled \subseteq spoiled' /\ Len(data) \in Nat
  BY DataStep DEF Inductive
<1>1. /\ \A k \in Key : node[k] \in {Dir} \cup 0..Len(data)
      /\ \A d \in Caller : call[d].src \in 0..Len(data) /\ call[d].ino \in 0..Len(data)
      /\ \A d \in Caller : Writing(d) => call[d].ino # None
  BY <1>0, PathTypes DEF PlaceInv, PlaceOK
<1>2. CASE OpenTmp(c)
  <2>1. i = Len(data) + 1 /\ \A k \in Key : node'[k] = node[k]
    BY <1>0, <1>2, OpenTmpEffect DEF Writing
  <2>2. \A d \in Caller : call'[d].src \in {None, call[d].src} \/ \E s \in Key : call'[d].src = node[s]
    BY CallStep DEF CallOK
  <2>3. \A d \in Caller \ {c} : Writing(d)' => Writing(d) /\ call'[d] = call[d]
    BY <1>0, <1>2, OthersStay DEF Writing
  <2> HIDE DEF i
  <2> QED
    BY <1>0, <1>1, <2>1, <2>2, <2>3 DEF None, Dir
<1>3. CASE ~OpenTmp(c)
  <2>1. Writing(c) /\ i = call[c].ino
    BY <1>3, CallStep DEF CallOK
  <2>2. i \in Inode /\ i \notin spoiled
    BY <1>0, <1>1, <2>1 DEF Inode, None
  <2>3. /\ \A k \in Key : node[k] # i
        /\ \A d \in Caller : call[d].src # i
        /\ \A d \in Caller \ {c} : Writing(d) => call[d].ino # i
    BY <2>1, <2>2 DEF Inductive, WholeInv, OwnOK
  <2>7. i \notin spoiled'
    OBVIOUS
  <2> HIDE DEF i
  <2>4. ASSUME NEW k \in Key PROVE node'[k] # i
    <3>1. i # None /\ i # Dir
      BY <2>2 DEF Inode, None, Dir
    <3>2. ASSUME NEW d \in Caller, Rename(d), Renamable(d), node'[k] = node[call[d].tmp], node'[k] = i
          PROVE  FALSE
      <4>1. d # c
        <5>1. Rename(c) => ~Writing(c)'
          BY <1>0 DEF Rename, Done, Goto, Writing, TypeOK
        <5> QED
          BY <3>2, <5>1
      <4>2. Writing(d) /\ spoiled' = spoiled \cup IF i = call[d].ino THEN {} ELSE {i}
        BY <3>2 DEF Rename, Writing
      <4> QED
        BY <2>3, <4>1, <4>2, <2>7
    <3> QED
      BY <2>3, <3>1, <3>2, KeyStep
  <2>5. ASSUME NEW d \in Caller PROVE call'[d].src # i
    <3>1. call'[d].src \in {None, call[d].src} \/ \E s \in Key : call'[d].src = node[s]
      BY CallStep DEF CallOK
    <3> QED
      BY <2>2, <2>3, <3>1 DEF Inode, None
  <2>6. ASSUME NEW d \in Caller \ {c}, Writing(d)' PROVE call'[d].ino # i
    <3>1. CASE OpenTmp(d)
      <4>1. call'[d].ino \in spoiled' \/ call'[d].ino = Len(data) + 1
        BY <1>0, <2>6, <3>1, OpenTmpEffect DEF Writing
      <4> QED
        BY <1>0, <2>2, <4>1, <2>7 DEF Inode
    <3>2. CASE ~OpenTmp(d)
      BY <2>3, <2>6, <3>2, CallStep DEF CallOK
    <3> QED
      BY <3>1, <3>2
  <2> QED
    BY <2>4, <2>5, <2>6
<1> QED
  BY <1>2, <1>3

(* What is to be written stays as it is, unless it is spoiled. *)
LEMMA ContentStep ==
    ASSUME Inductive, [Next]_vars, NEW c \in Caller, pc[c] \in {"open", "write", "rename"}, Kept(c)
    PROVE  /\ Len(Content(c)') \in Nat /\ Len(Content(c)') >= Len(Content(c)) /\ Len(Content(c)) \in Nat
           /\ call[c].src \notin spoiled => Content(c)' = Content(c)
<1>0. TypeOK /\ PlaceInv /\ TypeOK' /\ PlaceInv'
  BY TypeStep, PlaceStep DEF Inductive
<1>1. Content(c) \in Seq(Value \X Nat)
  BY <1>0, ContentType
<1>2. CASE call[c].op = "copy"
  <2>1. Content(c) = data[call[c].src] /\ Content(c)' = data'[call[c].src]
    BY <1>2 DEF Content, Kept
  <2>2. call[c].src \in Inode /\ call'[c].src \in Inode'
    <3>1. PlaceOK(c) /\ PlaceOK(c)' /\ call'[c].op = call[c].op /\ call'[c].src = call[c].src
      BY <1>0 DEF PlaceInv, Kept
    <3> QED
      BY <1>2, <3>1 DEF PlaceOK, Inode, None
  <2>3. Len(data'[call[c].src]) \in Nat
    <3>1. call'[c].src = call[c].src
      BY DEF Kept
    <3> QED
      BY <1>0, <2>2, <3>1 DEF TypeOK, Inode
  <2>4. Len(data'[call[c].src]) >= Len(data[call[c].src])
    BY <2>2, DataStep
  <2>5. ASSUME call[c].src \notin spoiled PROVE data'[call[c].src] = data[call[c].src]
    <3>1. ASSUME NEW d \in Caller, Write(d), call[c].src = call[d].ino PROVE FALSE
      <4>1. OwnOK(d) /\ Writing(d)
        BY <3>1 DEF Inductive, WholeInv, Write, Writing
      <4> QED
        BY <2>5, <3>1, <4>1 DEF OwnOK
    <3> QED
      BY <2>2, <3>1, DataStep
  <2> QED
    BY <1>1, <2>1, <2>3, <2>4, <2>5
<1>3. CASE call[c].op # "copy"
  <2>1. Content(c)' = Content(c)
    BY <1>3 DEF Content, Kept, Bytes
  <2> QED
    BY <1>1, <2>1
<1> QED
  BY <1>2, <1>3

(* Only who writes a file changes it, unless it is spoiled. *)
LEMMA AloneStep ==
    ASSUME Inductive, [Next]_vars, NEW c \in Caller, Writing(c), call[c].ino \notin spoiled, ~Write(c)
    PROVE  data'[call[c].ino] = data[call[c].ino]
<1>1. call[c].ino \in Inode
  BY DEF Inductive, PlaceInv, PlaceOK, Inode, None
<1>2. ASSUME NEW d \in Caller, Write(d), call[c].ino = call[d].ino PROVE FALSE
  <2>1. d # c /\ Writing(d)
    BY <1>2 DEF Write, Writing
  <2>2. OwnOK(c)
    BY DEF Inductive, WholeInv
  <2> QED
    BY <1>2, <2>1, <2>2 DEF OwnOK
<1> QED
  BY <1>1, <1>2, DataStep

(* The first blocks, and one more. *)
LEMMA OneMore ==
    ASSUME NEW S, NEW s \in Seq(S), NEW n \in Nat, n + 1 <= Len(s)
    PROVE  Append(SubSeq(s, 1, n), s[n + 1]) = SubSeq(s, 1, n + 1) /\ Len(SubSeq(s, 1, n)) = n
OBVIOUS

(* All blocks are the sequence. *)
LEMMA AllOfIt ==
    ASSUME NEW S, NEW s \in Seq(S)
    PROVE  SubSeq(s, 1, Len(s)) = s
OBVIOUS

(* What has been written stays the first blocks of a value, until it is all of it. *)
LEMMA PartStep ==
    ASSUME Inductive, [Next]_vars, NEW c \in Caller
    PROVE  PartOK(c)'
<1>0. TypeOK /\ PlaceInv /\ PlaceOK(c) /\ PartOK(c) /\ OwnOK(c) /\ call[c] \in CallType
      /\ spoiled \subseteq spoiled' /\ Len(data) \in Nat
  BY DataStep DEF Inductive, PlaceInv, WholeInv, TypeOK
<1>1. CASE ~Writing(c)'
  BY <1>1 DEF PartOK, Writing
<1>2. CASE Writing(c)' /\ OpenTmp(c)
  <2>1. /\ pc[c] = "open" /\ pc'[c] = "write" /\ Kept(c) /\ call'[c].at = 0
        /\ call'[c].ino \in spoiled' \/ (call'[c].ino = Len(data) + 1 /\ data' = Append(data, <<>>))
    BY <1>0, <1>2, OpenTmpEffect DEF Writing
  <2>2. Len(Content(c)') \in Nat
    BY <2>1, ContentStep
  <2>3. ASSUME call'[c].ino \notin spoiled' PROVE data'[call'[c].ino] = <<>>
    BY <1>0, <2>1, <2>3 DEF TypeOK
  <2>4. \A s : SubSeq(s, 1, 0) = <<>>
    OBVIOUS
  <2>5. SubSeq(Content(c)', 1, call'[c].at) = <<>> /\ call'[c].at <= Len(Content(c)')
    BY <2>1, <2>2, <2>4
  <2>6. (pc[c] = "write")' /\ ~(pc[c] = "rename")'
    BY <2>1
  <2> QED
    BY <2>3, <2>5, <2>6 DEF PartOK
<1>3. CASE Writing(c)' /\ Written(c)
  <2>1. /\ pc[c] = "write" /\ pc'[c] = "rename" /\ call' = call /\ data' = data
        /\ \/ /\ call[c].at = Len(Content(c))
              /\ spoiled' = spoiled \cup IF call[c].src \in spoiled THEN {call[c].ino} ELSE {}
           \/ spoiled' = spoiled \cup {call[c].ino}
    BY <1>0, <1>3 DEF Written, Goto, TypeOK
  <2>2. ASSUME call[c].ino \notin spoiled'
        PROVE  \E v \in Value : data[call[c].ino] = Bytes(v) /\ (call[c].op = "set" => v = call[c].val)
    <3>1. call[c].ino \notin spoiled /\ call[c].src \notin spoiled /\ call[c].at = Len(Content(c))
      BY <2>1, <2>2
    <3>2. data[call[c].ino] = Content(c)
      <4>1. Content(c) \in Seq(Value \X Nat)
        BY <1>0, <2>1, ContentType
      <4> QED
        BY <1>0, <2>1, <3>1, <4>1, AllOfIt DEF PartOK
    <3>3. CASE call[c].op = "copy"
      <4>1. Whole(call[c].src) /\ call[c].src # None
        BY <1>0, <3>3 DEF Inductive, WholeInv, PlaceOK
      <4> QED
        BY <3>1, <3>2, <3>3, <4>1 DEF Whole, Content
    <3>4. CASE call[c].op = "set"
      BY <1>0, <3>2, <3>4 DEF Content, PlaceOK
    <3> QED
      BY <1>0, <2>1, <3>3, <3>4 DEF PlaceOK
  <2> QED
    BY <2>1, <2>2 DEF PartOK, Bytes
<1>4. CASE Writing(c)' /\ Write(c)
  <2>1. /\ pc[c] = "write" /\ pc'[c] = "write" /\ UNCHANGED spoiled
        /\ call' = [call EXCEPT ![c].at = call[c].at + 1]
    BY <1>4 DEF Write
  <2>2. /\ Kept(c) /\ call'[c].ino = call[c].ino /\ call'[c].at = call[c].at + 1 /\ call[c].at \in Nat
    BY <1>0, <2>1 DEF Kept, CallType, TypeOK
  <2>3. /\ Len(Content(c)') \in Nat /\ Len(Content(c)') >= Len(Content(c)) /\ Len(Content(c)) \in Nat
        /\ call[c].src \notin spoiled => Content(c)' = Content(c)
    BY <2>1, <2>2, ContentStep
  <2>4. /\ call[c].at + 1 <= Len(Content(c))
        /\ data'[call[c].ino] =
              IF call[c].at + 1 <= Len(data[call[c].ino])
              THEN [data[call[c].ino] EXCEPT ![call[c].at + 1] = Content(c)[call[c].at + 1]]
              ELSE Append(data[call[c].ino], Content(c)[call[c].at + 1])
    <3>1. call[c].at + 1 <= Len(Content(c))
      BY <1>4 DEF Write
    <3> QED
      BY <1>0, <1>4, <3>1, WriteEffect
  <2>5. ASSUME call[c].ino \notin spoiled, call[c].src \notin spoiled
        PROVE  data'[call[c].ino] = SubSeq(Content(c), 1, call[c].at + 1)
    <3>1. data[call[c].ino] = SubSeq(Content(c), 1, call[c].at)
      BY <1>0, <2>1, <2>5 DEF PartOK
    <3>2. Content(c) \in Seq(Value \X Nat)
      BY <1>0, <2>1, ContentType
    <3>3. /\ Append(SubSeq(Content(c), 1, call[c].at), Content(c)[call[c].at + 1])
                = SubSeq(Content(c), 1, call[c].at + 1)
          /\ Len(SubSeq(Content(c), 1, call[c].at)) = call[c].at
      BY <2>2, <2>4, <3>2, OneMore
    <3>4. ~(call[c].at + 1 <= Len(data[call[c].ino]))
      BY <2>2, <3>1, <3>3
    <3> QED
      BY <2>4, <3>1, <3>3, <3>4
  <2>6. call'[c].src = call[c].src
    BY <2>2 DEF Kept
  <2>7. (pc[c] = "write")' /\ (call[c].at)' <= Len(Content(c)')
    BY <2>1, <2>2, <2>3, <2>4
  <2> QED
    BY <2>1, <2>2, <2>3, <2>5, <2>6, <2>7 DEF PartOK
<1>5. CASE Writing(c)' /\ ~OpenTmp(c) /\ ~Written(c) /\ ~Write(c)
  <2>1. Writing(c) /\ pc'[c] = pc[c] /\ call'[c] = call[c] /\ Kept(c)
    BY <1>5, CallStep DEF CallOK, Kept
  <2>2. /\ Len(Content(c)') \in Nat /\ Len(Content(c)') >= Len(Content(c)) /\ Len(Content(c)) \in Nat
        /\ call[c].src \notin spoiled => Content(c)' = Content(c)
    BY <2>1, ContentStep DEF Writing
  <2>3. call[c].ino \notin spoiled => data'[call[c].ino] = data[call[c].ino]
    BY <1>5, <2>1, AloneStep
  <2>4. pc[c] = "write" => call[c].at <= Len(Content(c)')
    BY <1>0, <2>2 DEF PartOK, CallType
  <2> QED
    BY <1>0, <2>1, <2>2, <2>3, <2>4 DEF PartOK, Bytes
<1> QED
  BY <1>1, <1>2, <1>3, <1>4, <1>5

(* Keys and what is read stay whole, and what is written goes on being written
   by one. *)
LEMMA WholeStep ==
    ASSUME Inductive, [Next]_vars
    PROVE  WholeInv'
BY KeysWholeStep, OwnStep, PartStep DEF WholeInv

(* Everything that is in a folder is among what entering it adds. *)
LEMMA EnterItems ==
    ASSUME NEW p \in Path, IsDir(p), NEW items \in Enter(p), NEW q \in Children(p)
    PROVE  \E i \in DOMAIN items : items[i] = Item(q)
<1>1. PICK s \in SetToSeqs(Children(p)) :
          items = [i \in DOMAIN s |-> Item(s[i])] \o <<<<"leave", p>>>>
  BY DEF Enter
<1> DEFINE n == Cardinality(Children(p))  f == [i \in DOMAIN s |-> Item(s[i])]  l == <<<<"leave", p>>>>
           Step == {"enter", "leave", "file"} \X Path
<1>2. s \in [1..n -> Children(p)] /\ \A i, j \in 1..n : i # j => s[i] # s[j]
  BY DEF SetToSeqs
<1>3. n \in Nat
  BY ChildrenFinite, FS_CardinalityType
<1> HIDE DEF n
<1>4. s \in Injection(1..n, Children(p))
  BY <1>2 DEF Injection, IsInjective
<1>5. Cardinality(1..n) = n
  <2>1. Cardinality(1..n) = IF 1 > n THEN 0 ELSE n - 1 + 1
    BY <1>3, FS_Interval
  <2> QED
    BY <1>3, <2>1
<1>6. s \in Surjection(1..n, Children(p))
  BY <1>4, <1>5, ChildrenFinite, FS_Injection DEF n
<1>7. PICK i \in 1..n : s[i] = q
  BY <1>6 DEF Surjection
<1>8. f \in Seq(Step) /\ Len(f) = n /\ f[i] = Item(q)
  <2>1. \A c \in Children(p) : Item(c) \in Step
    BY DEF Children, Item
  <2> QED
    BY <1>2, <1>3, <1>7, <2>1
<1>9. l \in Seq(Step) /\ Len(l) = 1
  OBVIOUS
<1> HIDE DEF f, l
<1>10. items = f \o l
  BY <1>1 DEF f, l
<1>11. i \in 1..Len(items) /\ items[i] = f[i] /\ items \in Seq(Step)
  <2>1. /\ Len(f \o l) = Len(f) + Len(l) /\ f \o l \in Seq(Step)
        /\ \A j \in 1..Len(f) + Len(l) : (f \o l)[j] = IF j <= Len(f) THEN f[j] ELSE l[j - Len(f)]
    BY <1>8, <1>9, ConcatProperties
  <2> QED
    BY <1>3, <1>8, <1>9, <1>10, <2>1
<1> QED
  BY <1>8, <1>11

(* What is in a folder is found through an entry of the folder. *)
LEMMA Below ==
    ASSUME TypeOK, TreeInv, NEW p \in Path, NEW q \in Path, IsFile(q), IsStrictPrefix(p, q)
    PROVE  /\ IsDir(p)
           /\ \E e \in Children(p) : Item(e) = <<"file", q>> \/ (IsDir(e) /\ IsStrictPrefix(e, q))
<1>0. p \in Seq(Seq(STRING)) /\ q \in Seq(Seq(STRING)) /\ Len(p) \in Nat /\ Len(q) \in Nat
  BY PathTypes
<1>1. Len(p) < Len(q) /\ p = SubSeq(q, 1, Len(p))
  <2>1. Len(p) <= Len(q) /\ SubSeq(p, 1, Len(p)) = SubSeq(q, 1, Len(p)) /\ p # q
    BY DEF IsStrictPrefix, IsPrefix
  <2>2. SubSeq(p, 1, Len(p)) = p /\ SubSeq(q, 1, Len(q)) = q
    BY <1>0, AllOfIt
  <2>3. p = SubSeq(q, 1, Len(p))
    BY <2>1, <2>2
  <2>4. Len(p) # Len(q)
    BY <2>1, <2>2, <2>3
  <2> QED
    BY <1>0, <2>1, <2>3, <2>4
<1>2. Exists(q) /\ ~IsDir(q)
  BY DEF IsFile, Exists, None, IsDir, Dir
<1>3. IsDir(p)
  BY <1>0, <1>1, <1>2 DEF TreeInv
<1> DEFINE n == Len(p) + 1  e == SubSeq(q, 1, n)
<1>4. e \in Seq(Seq(STRING)) /\ Len(e) = n /\ n <= Len(q) /\ n \in Nat
  BY <1>0, <1>1
<1>5. Parent(e) = p /\ e # <<>>
  <2>1. Len(e) - 1 = Len(p) /\ e # <<>>
    BY <1>0, <1>4
  <2>2. SubSeq(e, 1, Len(p)) = SubSeq(q, 1, Len(p))
    BY <1>0, <1>1
  <2> HIDE DEF e
  <2> QED
    BY <1>1, <2>1, <2>2 DEF Parent, Front
<1>6. CASE n = Len(q)
  <2>1. e = q
    BY <1>0, <1>6, AllOfIt
  <2>2. Item(q) = <<"file", q>>
    BY <1>2 DEF Item
  <2> QED
    BY <1>2, <1>3, <1>5, <2>1, <2>2 DEF Children
<1>7. CASE n # Len(q)
  <2>1. n < Len(q)
    BY <1>4, <1>7
  <2>2. e \in Path /\ IsDir(e)
    <3>1. e \in Folders
      BY <1>4, <2>1, PathPrefix
    <3> QED
      BY <1>2, <1>4, <2>1, <3>1, PathTypes DEF TreeInv
  <2>3. IsStrictPrefix(e, q)
    <3>1. e # q
      BY <1>4, <1>7
    <3>2. SubSeq(e, 1, Len(e)) = e
      BY <1>4, AllOfIt
    <3>3. SubSeq(q, 1, Len(e)) = e
      BY <1>4
    <3> QED
      BY <1>4, <3>1, <3>2, <3>3 DEF IsStrictPrefix, IsPrefix
  <2> HIDE DEF e
  <2>4. e \in Children(p)
    BY <1>5, <2>2, PathTypes DEF Children, Exists, IsDir
  <2> QED
    BY <1>3, <2>2, <2>3, <2>4
<1> QED
  BY <1>6, <1>7

(* A file that is where it was has been there, and is not made a key's again. *)
LEMMA StayStep ==
    ASSUME Inductive, [Next]_vars, NEW p \in Path, NEW i \in Inode,
           p \in Key => \A t \in Temps : node[t] # i
    PROVE  /\ i \in Inode'
           /\ p \in Key => \A t \in Temps : node'[t] # i
           /\ node'[p] = i => node[p] = i
<1> USE DEF Inductive
<1>0. /\ Key \subseteq Path /\ Folders \subseteq Path /\ Temps \subseteq Path /\ Len(data) \in Nat
      /\ \A t \in Temps : t \notin Key
      /\ i # None /\ i # Dir /\ i # Len(data) + 1
  BY PathTypes DEF TypeOK, Inode, None, Dir
<1>1. i \in Inode'
  <2>1. Len(data') \in Nat /\ Len(data') >= Len(data)
    BY DataGrows
  <2> QED
    BY <1>0, <2>1 DEF Inode
<1>2. CASE UNCHANGED node
  BY <1>1, <1>2
<1>3. CASE MakesFolders
  <2>1. PICK d \in Folders : node' = [q \in Path |-> IF q \in Above(d) THEN Dir ELSE node[q]]
    BY <1>3 DEF MakesFolders
  <2> QED
    BY <1>0, <1>1, <2>1
<1>4. CASE CreatesTemp
  <2>1. PICK t \in Temps : node' = [node EXCEPT ![t] = Len(data) + 1]
    BY <1>4 DEF CreatesTemp
  <2> QED
    BY <1>0, <1>1, <2>1 DEF TypeOK
<1>5. CASE MovesTemp
  <2>1. PICK k \in Key : \E s \in Suffix :
            node' = [node EXCEPT ![k] = node[Tmp(k, s)], ![Tmp(k, s)] = None]
    BY <1>5 DEF MovesTemp
  <2>2. PICK s \in Suffix :
            node' = [node EXCEPT ![k] = node[Tmp(k, s)], ![Tmp(k, s)] = None]
    BY <2>1
  <2> DEFINE t == Tmp(k, s)
  <2>3. t \in Temps
    BY DEF Temps
  <2>4. node' = [node EXCEPT ![k] = node[t], ![t] = None]
    BY <2>2
  <2> HIDE DEF t
  <2> QED
    BY <1>0, <1>1, <2>3, <2>4 DEF TypeOK
<1>6. CASE Removes
  <2>1. PICK o \in Path : node' = [node EXCEPT ![o] = None]
    BY <1>6 DEF Removes
  <2> QED
    BY <1>0, <1>1, <2>1 DEF TypeOK
<1> QED
  BY <1>2, <1>3, <1>4, <1>5, <1>6, NodeStep

(* A list goes on towards every file that stays. *)
LEMMA SeenFrame ==
    ASSUME Inductive, [Next]_vars, NEW c \in Caller, pc[c] = "walk", call[c].op = "list",
           call'[c].stay = call[c].stay,
           \A f \in call[c].stay : node[f[1]] = f[2] /\ (f[1] \in call[c].seen \/ Ahead(c, f[1])) =>
               f[1] \in call'[c].seen \/ Ahead(c, f[1])'
    PROVE  SeenOK(c)'
<1> SUFFICES ASSUME NEW f \in call[c].stay
             PROVE  /\ f[1] \in Key => \A t \in Temps : node'[t] # f[2]
                    /\ f[2] \in Inode'
                    /\ node'[f[1]] = f[2] => f[1] \in call'[c].seen \/ Ahead(c, f[1])'
  BY DEF SeenOK, Temps
<1>1. f[1] \in Path
  BY DEF Inductive, TypeOK, CallType
<1>2. /\ f[1] \in Key => \A t \in Temps : node[t] # f[2]
      /\ f[2] \in Inode
      /\ node[f[1]] = f[2] => f[1] \in call[c].seen \/ Ahead(c, f[1])
  BY DEF Inductive, SeenInv, SeenOK
<1>3. /\ f[2] \in Inode'
      /\ f[1] \in Key => \A t \in Temps : node'[t] # f[2]
      /\ node'[f[1]] = f[2] => node[f[1]] = f[2]
  BY <1>1, <1>2, StayStep
<1> QED
  BY <1>2, <1>3

(* What is ahead after the first step of a walk is still ahead. *)
LEMMA AheadRest ==
    ASSUME NEW todo \in Seq({"enter", "leave", "file"} \X Path), todo # <<>>,
           NEW i \in DOMAIN todo, i # 1
    PROVE  i - 1 \in DOMAIN Tail(todo) /\ Tail(todo)[i - 1] = todo[i]
           /\ Tail(todo) \in Seq({"enter", "leave", "file"} \X Path)
OBVIOUS

(* A step that is not a call's own leaves its list as it is. *)
LEMMA SeenOthers ==
    ASSUME Inductive, [Next]_vars, NEW d \in Caller, pc'[d] = pc[d], call'[d] = call[d]
    PROVE  SeenOK(d)'
<1>1. CASE pc[d] = "walk" /\ call[d].op = "list"
  <2>1. \A p : Ahead(d, p) => Ahead(d, p)'
    BY DEF Ahead
  <2> QED
    BY <1>1, <2>1, SeenFrame
<1>2. CASE ~(pc[d] = "walk" /\ call[d].op = "list")
  BY <1>2 DEF SeenOK
<1> QED
  BY <1>1, <1>2

(* A step of a list goes on towards every file. *)
LEMMA ListStep ==
    ASSUME Inductive, [Next]_vars, NEW c \in Caller, WalkStep(c), call[c].op = "list"
    PROVE  SeenOK(c)'
<1> DEFINE todo == call[c].todo  kind == todo[1][1]  p == todo[1][2]  rest == Tail(todo)
<1>0. TypeOK /\ TreeInv /\ PlaceInv /\ call[c] \in CallType
  BY DEF Inductive, TypeOK
<1>1. /\ pc[c] = "walk" /\ todo # <<>> /\ todo \in Seq({"enter", "leave", "file"} \X Path)
      /\ todo[1] \in {"enter", "leave", "file"} \X Path
  BY <1>0 DEF WalkStep, CallType
<1>2. p \in Path /\ todo[1] = <<kind, p>>
  BY <1>1
<1>3. CASE kind = "enter"
  <2>1. PICK items \in Enter(p) : call' = [call EXCEPT ![c].todo = items \o rest]
    BY <1>3 DEF WalkStep
  <2>2. /\ call'[c].todo = items \o rest /\ call'[c].seen = call[c].seen
        /\ call'[c].stay = call[c].stay
    BY <1>0, <2>1 DEF CallType, TypeOK
  <2>3. items \in Seq({"enter", "leave", "file"} \X Path) /\ rest \in Seq({"enter", "leave", "file"} \X Path)
    BY <1>1, <1>2, EnterType
  <2> HIDE DEF rest, p
  <2>4. ASSUME NEW i \in DOMAIN items PROVE i \in DOMAIN (items \o rest) /\ (items \o rest)[i] = items[i]
    BY <2>3
  <2>5. ASSUME NEW i \in DOMAIN rest
        PROVE  Len(items) + i \in DOMAIN (items \o rest) /\ (items \o rest)[Len(items) + i] = rest[i]
    BY <2>3
  <2>6. ASSUME NEW f \in call[c].stay, node[f[1]] = f[2], Ahead(c, f[1])
        PROVE  Ahead(c, f[1])'
    <3>1. PICK i \in DOMAIN todo : \/ todo[i][1] = "enter" /\ IsStrictPrefix(todo[i][2], f[1])
                                   \/ todo[i] = <<"file", f[1]>>
      BY <2>6 DEF Ahead
    <3>2. CASE i # 1
      <4>1. i - 1 \in DOMAIN rest /\ rest[i - 1] = todo[i]
        BY <1>1, <3>2, AheadRest DEF rest
      <4>2. Len(items) + (i - 1) \in DOMAIN (items \o rest) /\ (items \o rest)[Len(items) + (i - 1)] = todo[i]
        BY <2>5, <4>1
      <4> QED
        BY <2>2, <3>1, <4>2 DEF Ahead
    <3>3. CASE i = 1
      <4>1. IsStrictPrefix(p, f[1])
        BY <1>2, <1>3, <3>1, <3>3 DEF p
      <4>2. f[1] \in Path /\ IsFile(f[1])
        <5>1. f[1] \in Path /\ f[2] \in Inode
          BY <1>1, <2>6 DEF Inductive, SeenInv, SeenOK, TypeOK, CallType
        <5> QED
          BY <2>6, <5>1 DEF IsFile, Inode
      <4>3. PICK e \in Children(p) : Item(e) = <<"file", f[1]>> \/ (IsDir(e) /\ IsStrictPrefix(e, f[1]))
        BY <1>0, <1>2, <4>1, <4>2, Below DEF p
      <4>4. IsDir(p)
        BY <1>0, <1>2, <4>1, <4>2, Below DEF p
      <4>5. PICK j \in DOMAIN items : items[j] = Item(e)
        BY <1>2, <4>4, EnterItems DEF p
      <4>6. j \in DOMAIN (items \o rest) /\ (items \o rest)[j] = Item(e)
        BY <2>4, <4>5
      <4>7. IsDir(e) => Item(e)[1] = "enter" /\ Item(e)[2] = e
        BY DEF Item
      <4> QED
        BY <2>2, <4>3, <4>6, <4>7 DEF Ahead
    <3> QED
      BY <3>2, <3>3
  <2> QED
    BY <1>1, <2>2, <2>6, SeenFrame
<1>4. CASE kind # "enter"
  <2>1. call' = [call EXCEPT ![c].todo = rest,
                             ![c].seen = @ \cup IF kind = "file" THEN {p} ELSE {}]
    BY <1>4 DEF WalkStep
  <2>2. /\ call'[c].todo = rest /\ call'[c].stay = call[c].stay
        /\ call'[c].seen = call[c].seen \cup IF kind = "file" THEN {p} ELSE {}
    BY <1>0, <2>1 DEF CallType, TypeOK
  <2>3. ASSUME NEW f \in call[c].stay, Ahead(c, f[1])
        PROVE  f[1] \in call'[c].seen \/ Ahead(c, f[1])'
    <3>1. PICK i \in DOMAIN todo : \/ todo[i][1] = "enter" /\ IsStrictPrefix(todo[i][2], f[1])
                                   \/ todo[i] = <<"file", f[1]>>
      BY <2>3 DEF Ahead
    <3>2. CASE i # 1
      <4>1. i - 1 \in DOMAIN rest /\ rest[i - 1] = todo[i]
        BY <1>1, <3>2, AheadRest
      <4> QED
        BY <2>2, <3>1, <4>1 DEF Ahead
    <3>3. CASE i = 1
      <4>1. kind = "file" /\ p = f[1]
        BY <1>2, <1>4, <3>1, <3>3
      <4> QED
        BY <2>2, <4>1
    <3> QED
      BY <3>2, <3>3
  <2> QED
    BY <1>1, <2>2, <2>3, SeenFrame
<1> QED
  BY <1>3, <1>4

(* A list begins above all files it has to find. *)
LEMMA ListStarts ==
    ASSUME Inductive, NEW c \in Caller, Walk(c)
    PROVE  SeenOK(c)'
<1>0. TypeOK /\ PlaceInv /\ OnceInv
  BY DEF Inductive
<1>1. PICK op \in {"list", "wipe"}, d \in Folders :
          /\ Start(c, [Blank EXCEPT !.op = op, !.key = d, !.todo = <<First(op, d)>>,
                !.stay = {<<p, node[p]>> : p \in {q \in Path : IsFile(q) /\ IsStrictPrefix(d, q)}}])
          /\ UNCHANGED <<node, data>>
  BY DEF Walk
<1> DEFINE all == {<<p, node[p]>> : p \in {q \in Path : IsFile(q) /\ IsStrictPrefix(d, q)}}
           first == <<First(op, d)>>
<1>2. op = "list" => first[1][1] = "enter" /\ first[1][2] = d /\ 1 \in DOMAIN first
  BY DEF First
<1>3. \A f \in all : f[1] \in Path /\ IsFile(f[1]) /\ IsStrictPrefix(d, f[1]) /\ f[2] = node[f[1]]
  OBVIOUS
<1> HIDE DEF all, first
<1>4. call'[c].todo = first /\ call'[c].stay = all /\ call'[c].op = op
  BY <1>0, <1>1 DEF Start, Blank, TypeOK, all, first
<1> SUFFICES ASSUME op = "list", NEW f \in all
             PROVE  /\ f[1] \in Key => \A t \in Temps : node[t] # f[2]
                    /\ f[2] \in Inode
                    /\ Ahead(c, f[1])'
  BY <1>1, <1>4 DEF SeenOK, Temps, Inode
<1>5. f[1] \in Path /\ IsFile(f[1]) /\ IsStrictPrefix(d, f[1]) /\ f[2] = node[f[1]]
  BY <1>3
<1>6. ASSUME f[1] \in Key, NEW t \in Temps PROVE node[t] # f[2]
  BY <1>0, <1>5, <1>6, PathTypes DEF OnceInv
<1>7. f[2] \in Inode
  BY <1>0, <1>5 DEF PlaceInv, IsFile, Inode, Dir
<1>8. Ahead(c, f[1])'
  BY <1>2, <1>4, <1>5 DEF Ahead
<1> QED
  BY <1>6, <1>7, <1>8

(* A list goes on towards what it has to find. *)
LEMMA SeenStep ==
    ASSUME Inductive, [Next]_vars
    PROVE  SeenInv'
<1>1. ASSUME NEW c \in Caller, Begin(c)
      PROVE  SeenInv'
  <2>1. \A d \in Caller \ {c} : SeenOK(d)'
    BY <1>1, OthersStay, SeenOthers DEF Inductive
  <2>2. SeenOK(c)'
    <3>1. pc'[c] # "walk"
      BY <1>1 DEF Begin, Goto, Done, Inductive, TypeOK
    <3> QED
      BY <3>1 DEF SeenOK
  <2> QED
    BY <2>1, <2>2 DEF SeenInv
<1>2. ASSUME NEW c \in Caller, Get(c)
      PROVE  SeenInv'
  <2>1. \A d \in Caller \ {c} : SeenOK(d)'
    BY <1>2, OthersStay, SeenOthers DEF Inductive
  <2>2. SeenOK(c)'
    <3>1. pc'[c] # "walk"
      BY <1>2 DEF Get, Goto, Done, Inductive, TypeOK
    <3> QED
      BY <3>1 DEF SeenOK
  <2> QED
    BY <2>1, <2>2 DEF SeenInv
<1>3. ASSUME NEW c \in Caller, Read(c)
      PROVE  SeenInv'
  <2>1. \A d \in Caller \ {c} : SeenOK(d)'
    BY <1>3, OthersStay, SeenOthers DEF Inductive
  <2>2. SeenOK(c)'
    <3>1. pc'[c] # "walk"
      BY <1>3 DEF Read, Goto, Done, Inductive, TypeOK
    <3> QED
      BY <3>1 DEF SeenOK
  <2> QED
    BY <2>1, <2>2 DEF SeenInv
<1>4. ASSUME NEW c \in Caller, Mkdir(c)
      PROVE  SeenInv'
  <2>1. \A d \in Caller \ {c} : SeenOK(d)'
    BY <1>4, OthersStay, SeenOthers DEF Inductive
  <2>2. SeenOK(c)'
    <3>1. pc'[c] # "walk"
      BY <1>4 DEF Mkdir, Goto, Done, Inductive, TypeOK
    <3> QED
      BY <3>1 DEF SeenOK
  <2> QED
    BY <2>1, <2>2 DEF SeenInv
<1>5. ASSUME NEW c \in Caller, OpenTmp(c)
      PROVE  SeenInv'
  <2>1. \A d \in Caller \ {c} : SeenOK(d)'
    BY <1>5, OthersStay, SeenOthers DEF Inductive
  <2>2. SeenOK(c)'
    <3>1. pc'[c] # "walk"
      BY <1>5 DEF OpenTmp, Goto, Done, Inductive, TypeOK
    <3> QED
      BY <3>1 DEF SeenOK
  <2> QED
    BY <2>1, <2>2 DEF SeenInv
<1>6. ASSUME NEW c \in Caller, Write(c)
      PROVE  SeenInv'
  <2>1. \A d \in Caller \ {c} : SeenOK(d)'
    BY <1>6, OthersStay, SeenOthers DEF Inductive
  <2>2. SeenOK(c)'
    <3>1. pc'[c] # "walk"
      BY <1>6 DEF Write
    <3> QED
      BY <3>1 DEF SeenOK
  <2> QED
    BY <2>1, <2>2 DEF SeenInv
<1>7. ASSUME NEW c \in Caller, Written(c)
      PROVE  SeenInv'
  <2>1. \A d \in Caller \ {c} : SeenOK(d)'
    BY <1>7, OthersStay, SeenOthers DEF Inductive
  <2>2. SeenOK(c)'
    <3>1. pc'[c] # "walk"
      BY <1>7 DEF Written, Goto, Done, Inductive, TypeOK
    <3> QED
      BY <3>1 DEF SeenOK
  <2> QED
    BY <2>1, <2>2 DEF SeenInv
<1>8. ASSUME NEW c \in Caller, Rename(c)
      PROVE  SeenInv'
  <2>1. \A d \in Caller \ {c} : SeenOK(d)'
    BY <1>8, OthersStay, SeenOthers DEF Inductive
  <2>2. SeenOK(c)'
    <3>1. pc'[c] # "walk"
      BY <1>8 DEF Rename, Goto, Done, Inductive, TypeOK
    <3> QED
      BY <3>1 DEF SeenOK
  <2> QED
    BY <2>1, <2>2 DEF SeenInv
<1>9. ASSUME NEW c \in Caller, FileRemove(c)
      PROVE  SeenInv'
  <2>1. \A d \in Caller \ {c} : SeenOK(d)'
    BY <1>9, OthersStay, SeenOthers DEF Inductive
  <2>2. SeenOK(c)'
    <3>1. pc'[c] # "walk"
      BY <1>9 DEF FileRemove, Goto, Done, Inductive, TypeOK
    <3> QED
      BY <3>1 DEF SeenOK
  <2> QED
    BY <2>1, <2>2 DEF SeenInv
<1>10. ASSUME NEW c \in Caller, Walk(c)
      PROVE  SeenInv'
  <2>1. \A d \in Caller \ {c} : SeenOK(d)'
    BY <1>10, OthersStay, SeenOthers DEF Inductive
  <2>2. SeenOK(c)'
    BY <1>10, ListStarts
  <2> QED
    BY <2>1, <2>2 DEF SeenInv
<1>11. ASSUME NEW c \in Caller, WalkStep(c)
      PROVE  SeenInv'
  <2>1. \A d \in Caller \ {c} : SeenOK(d)'
    BY <1>11, OthersStay, SeenOthers DEF Inductive
  <2>2. SeenOK(c)'
    <3>1. CASE call[c].op = "list"
      BY <1>11, <3>1, ListStep
    <3>2. CASE call[c].op # "list"
      <4>1. call'[c].op # "list"
        <5>1. call[c] \in CallType /\ call[c].op = "wipe"
          BY <1>11, <3>2 DEF Inductive, WalkStep, PlaceInv, PlaceOK, TypeOK
        <5>2. CASE Done(c, "GENERAL")
          BY <5>2, DonePlace DEF Inductive
        <5>3. CASE \E todo : call' = [call EXCEPT ![c] = [@ EXCEPT !.todo = todo]]
          BY <5>1, <5>3 DEF CallType, Inductive, TypeOK
        <5>4. CASE \E todo : \E seen : call' = [call EXCEPT ![c] = [@ EXCEPT !.todo = todo, !.seen = seen]]
          BY <5>1, <5>4 DEF CallType, Inductive, TypeOK
        <5> QED
          BY <1>11, <5>1, <5>2, <5>3, <5>4, WalkStepCall DEF Inductive
      <4> QED
        BY <4>1 DEF SeenOK
    <3> QED
      BY <3>1, <3>2
  <2> QED
    BY <2>1, <2>2 DEF SeenInv
<1>12. ASSUME NEW c \in Caller, WalkEnds(c)
      PROVE  SeenInv'
  <2>1. \A d \in Caller \ {c} : SeenOK(d)'
    BY <1>12, OthersStay, SeenOthers DEF Inductive
  <2>2. SeenOK(c)'
    <3>1. pc'[c] # "walk"
      BY <1>12 DEF WalkEnds, Goto, Done, Inductive, TypeOK
    <3> QED
      BY <3>1 DEF SeenOK
  <2> QED
    BY <2>1, <2>2 DEF SeenInv
<1>13. ASSUME Crash
      PROVE  SeenInv'
  BY <1>13 DEF Crash, SeenInv, SeenOK
<1>14. ASSUME UNCHANGED vars
      PROVE  SeenInv'
  <2>1. \A d \in Caller : SeenOK(d)'
    BY <1>14, SeenOthers DEF vars
  <2> QED
    BY <2>1 DEF SeenInv
<1> QED
  BY <1>1, <1>2, <1>3, <1>4, <1>5, <1>6, <1>7, <1>8, <1>9, <1>10, <1>11, <1>12, <1>13, <1>14 DEF Next

(* A call that succeeds has done its last step. *)
ReturnOK(d) ==
    /\ pc[d] = "rename" /\ call'[d].ret = "ok" => Rename(d) /\ Renamable(d)
    /\ pc[d] = "walk" /\ call[d].op = "list" /\ call'[d].ret = "ok" => call[d].todo = <<>>

(* A call in progress has not returned yet. *)
LEMMA StillRuns ==
    ASSUME PlaceInv
    PROVE  \A d \in Caller : pc[d] # "idle" => call[d].ret = "none"
BY DEF PlaceInv, PlaceOK

(* Which step gives the result of a call. *)
LEMMA ReturnStep ==
    ASSUME Inductive, [Next]_vars
    PROVE  \A d \in Caller : ReturnOK(d)
<1> USE DEF Inductive
<1>1. ASSUME NEW c \in Caller, Begin(c)
      PROVE  \A d \in Caller : ReturnOK(d)
  <2>0. \A d \in Caller \ {c} : ReturnOK(d)
    BY <1>1, OthersStay, StillRuns DEF ReturnOK
  <2>1. ReturnOK(c)
    <3>1. pc[c] = "idle"
      BY <1>1, Zenon DEF Begin
    <3> QED
      BY <3>1 DEF ReturnOK
  <2> QED
    BY <2>0, <2>1
<1>2. ASSUME NEW c \in Caller, Get(c)
      PROVE  \A d \in Caller : ReturnOK(d)
  <2>0. \A d \in Caller \ {c} : ReturnOK(d)
    BY <1>2, OthersStay, StillRuns DEF ReturnOK
  <2>1. ReturnOK(c)
    <3>1. pc[c] = "idle"
      BY <1>2, Zenon DEF Get
    <3> QED
      BY <3>1 DEF ReturnOK
  <2> QED
    BY <2>0, <2>1
<1>3. ASSUME NEW c \in Caller, Read(c)
      PROVE  \A d \in Caller : ReturnOK(d)
  <2>0. \A d \in Caller \ {c} : ReturnOK(d)
    BY <1>3, OthersStay, StillRuns DEF ReturnOK
  <2>1. ReturnOK(c)
    <3>1. pc[c] = "read"
      BY <1>3, Zenon DEF Read
    <3> QED
      BY <3>1 DEF ReturnOK
  <2> QED
    BY <2>0, <2>1
<1>4. ASSUME NEW c \in Caller, Mkdir(c)
      PROVE  \A d \in Caller : ReturnOK(d)
  <2>0. \A d \in Caller \ {c} : ReturnOK(d)
    BY <1>4, OthersStay, StillRuns DEF ReturnOK
  <2>1. ReturnOK(c)
    <3>1. pc[c] = "mkdir"
      BY <1>4, Zenon DEF Mkdir
    <3> QED
      BY <3>1 DEF ReturnOK
  <2> QED
    BY <2>0, <2>1
<1>5. ASSUME NEW c \in Caller, OpenTmp(c)
      PROVE  \A d \in Caller : ReturnOK(d)
  <2>0. \A d \in Caller \ {c} : ReturnOK(d)
    BY <1>5, OthersStay, StillRuns DEF ReturnOK
  <2>1. ReturnOK(c)
    <3>1. pc[c] = "open"
      BY <1>5, Zenon DEF OpenTmp
    <3> QED
      BY <3>1 DEF ReturnOK
  <2> QED
    BY <2>0, <2>1
<1>6. ASSUME NEW c \in Caller, Write(c)
      PROVE  \A d \in Caller : ReturnOK(d)
  <2>0. \A d \in Caller \ {c} : ReturnOK(d)
    BY <1>6, OthersStay, StillRuns DEF ReturnOK
  <2>1. ReturnOK(c)
    <3>1. pc[c] = "write"
      BY <1>6, Zenon DEF Write
    <3> QED
      BY <3>1 DEF ReturnOK
  <2> QED
    BY <2>0, <2>1
<1>7. ASSUME NEW c \in Caller, Written(c)
      PROVE  \A d \in Caller : ReturnOK(d)
  <2>0. \A d \in Caller \ {c} : ReturnOK(d)
    BY <1>7, OthersStay, StillRuns DEF ReturnOK
  <2>1. ReturnOK(c)
    <3>1. pc[c] = "write"
      BY <1>7, Zenon DEF Written
    <3> QED
      BY <3>1 DEF ReturnOK
  <2> QED
    BY <2>0, <2>1
<1>8. ASSUME NEW c \in Caller, Rename(c)
      PROVE  \A d \in Caller : ReturnOK(d)
  <2>0. \A d \in Caller \ {c} : ReturnOK(d)
    BY <1>8, OthersStay, StillRuns DEF ReturnOK
  <2>1. ReturnOK(c)
    <3>1. pc[c] = "rename" /\ (~Renamable(c) => Done(c, "CANT_WRITE"))
      BY <1>8, Zenon DEF Rename
    <3>2. ~Renamable(c) => call'[c].ret = "CANT_WRITE"
      BY <3>1, DonePlace
    <3> QED
      BY <1>8, <3>1, <3>2 DEF ReturnOK
  <2> QED
    BY <2>0, <2>1
<1>9. ASSUME NEW c \in Caller, FileRemove(c)
      PROVE  \A d \in Caller : ReturnOK(d)
  <2>0. \A d \in Caller \ {c} : ReturnOK(d)
    BY <1>9, OthersStay, StillRuns DEF ReturnOK
  <2>1. ReturnOK(c)
    <3>1. pc[c] = "remove"
      BY <1>9, Zenon DEF FileRemove
    <3> QED
      BY <3>1 DEF ReturnOK
  <2> QED
    BY <2>0, <2>1
<1>10. ASSUME NEW c \in Caller, Walk(c)
      PROVE  \A d \in Caller : ReturnOK(d)
  <2>0. \A d \in Caller \ {c} : ReturnOK(d)
    BY <1>10, OthersStay, StillRuns DEF ReturnOK
  <2>1. ReturnOK(c)
    <3>1. pc[c] = "idle"
      BY <1>10, Zenon DEF Walk
    <3> QED
      BY <3>1 DEF ReturnOK
  <2> QED
    BY <2>0, <2>1
<1>11. ASSUME NEW c \in Caller, WalkStep(c)
      PROVE  \A d \in Caller : ReturnOK(d)
  <2>0. \A d \in Caller \ {c} : ReturnOK(d)
    BY <1>11, OthersStay, StillRuns DEF ReturnOK
  <2>1. ReturnOK(c)
    <3>1. pc[c] = "walk" /\ call[c].op \in {"list", "wipe"} /\ call[c].ret = "none" /\ call[c] \in CallType
      BY <1>11 DEF WalkStep, PlaceInv, PlaceOK, TypeOK
    <3>2. call'[c].ret # "ok"
      <4>1. CASE Done(c, "GENERAL")
        BY <4>1, DonePlace
      <4>2. CASE \E todo : call' = [call EXCEPT ![c] = [@ EXCEPT !.todo = todo]]
        BY <3>1, <4>2 DEF CallType, TypeOK
      <4>3. CASE \E todo : \E seen : call' = [call EXCEPT ![c] = [@ EXCEPT !.todo = todo, !.seen = seen]]
        BY <3>1, <4>3 DEF CallType, TypeOK
      <4> QED
        BY <1>11, <3>1, <4>1, <4>2, <4>3, WalkStepCall
    <3> QED
      BY <3>1, <3>2 DEF ReturnOK
  <2> QED
    BY <2>0, <2>1
<1>12. ASSUME NEW c \in Caller, WalkEnds(c)
      PROVE  \A d \in Caller : ReturnOK(d)
  <2>0. \A d \in Caller \ {c} : ReturnOK(d)
    BY <1>12, OthersStay, StillRuns DEF ReturnOK
  <2>1. ReturnOK(c)
    <3>1. pc[c] = "walk" /\ call[c].todo = <<>>
      BY <1>12, Zenon DEF WalkEnds
    <3> QED
      BY <3>1 DEF ReturnOK
  <2> QED
    BY <2>0, <2>1
<1>13. ASSUME Crash
      PROVE  \A d \in Caller : ReturnOK(d)
  BY <1>13 DEF Crash, ReturnOK, Blank
<1>14. ASSUME UNCHANGED vars
      PROVE  \A d \in Caller : ReturnOK(d)
  BY <1>14, StillRuns DEF vars, ReturnOK
<1> QED
  BY <1>1, <1>2, <1>3, <1>4, <1>5, <1>6, <1>7, <1>8, <1>9, <1>10, <1>11, <1>12, <1>13, <1>14 DEF Next

(* The invariant holds when nothing has happened. *)
LEMMA InductiveInit ==
    Init => Inductive
<1> SUFFICES ASSUME Init PROVE Inductive
  OBVIOUS
<1> USE DEF Init
<1>1. Len(data) = 0 /\ data \in Seq(Seq(Value \X Nat))
  OBVIOUS
<1>2. \A c \in Caller : /\ pc[c] = "idle" /\ call[c] = Blank
                        /\ call[c].op = "none" /\ call[c].src = None /\ call[c].ino = None /\ call[c].at = 0
  BY DEF Blank
<1>3. TypeOK
  BY <1>1, BlankType, PathTypes DEF TypeOK
<1>4. PlaceInv
  BY <1>1, <1>2 DEF PlaceInv, PlaceOK, Writing, None, Inode
<1>5. TreeInv
  <2>1. Len(<<>>) = 0
    OBVIOUS
  <2>2. \A p \in Path : p = <<>> => p \in Folders
    <3>1. <<>> \notin Key
      BY FileStoreAssumption
    <3>2. <<>> \notin Temps
      BY <2>1, TmpPath, PathTypes DEF Temps
    <3> QED
      BY <3>1, <3>2, PathTypes
  <2>3. \A p \in Path : node[p] # None => p = <<>>
    OBVIOUS
  <2> QED
    BY <2>1, <2>2, <2>3, PathTypes DEF TreeInv, Exists, IsDir
<1>6. LitterInv
  <2>1. <<>> \in Folders \/ <<>> \notin Path
    BY <1>5, PathTypes DEF TreeInv, IsDir
  <2> QED
    BY <2>1, PathTypes DEF LitterInv, Exists
<1>7. WholeInv
  BY <1>2, PathTypes DEF WholeInv, OwnOK, PartOK, Writing, IsFile, None, Dir
<1>8. OnceInv /\ SeenInv
  BY <1>2 DEF OnceInv, IsFile, None, Dir, SeenInv, SeenOK
<1> QED
  BY <1>3, <1>4, <1>5, <1>6, <1>7, <1>8 DEF Inductive

(* The invariant holds from the first state on. *)
THEOREM InductiveHolds == Spec => []Inductive
<1>1. Init => Inductive
  BY InductiveInit
<1>2. Inductive /\ [Next]_vars => Inductive'
  BY TypeStep, PlaceStep, TreeStep, LitterStep, WholeStep, OnceStep, SeenStep DEF Inductive
<1> QED
  BY <1>1, <1>2, PTL DEF Spec

(* The variables have their types. *)
THEOREM TypeCorrect == Spec => []TypeOK
<1>1. Inductive => TypeOK
  BY DEF Inductive
<1> QED
  BY <1>1, InductiveHolds, PTL

(* The file of a key, and what a get has opened, is one whole value, whatever
   the calls of any number of processes do, fail to write and crash in: ruOpenTmp,
   ruWriteFile and ruFileRename publish nothing that is not complete. *)
THEOREM WholeFilesHolds == Spec => []WholeFiles
<1>1. Inductive => WholeFiles
  BY DEF Inductive, WholeInv, PlaceInv, PlaceOK, WholeFiles
<1> QED
  BY <1>1, InductiveHolds, PTL

(* Temporary files are gone when their calls are, unless a process has crashed. *)
THEOREM NoLitterHolds == Spec => []NoLitter
<1>1. Inductive => NoLitter
  BY DEF Inductive, LitterInv, Writing, Temps, NoLitter
<1> QED
  BY <1>1, InductiveHolds, PTL

(* A set that reports success has its value at its key. *)
THEOREM SetStoresHolds == Spec => SetStores
<1>1. ASSUME Inductive, [Next]_vars
      PROVE  [\A c \in Caller : Publishes(c) =>
                 LET i == node'[call[c].key] IN i \in spoiled' \/ data[i] = Bytes(call[c].val)]_vars
  <2> SUFFICES ASSUME NEW c \in Caller, Publishes(c)
               PROVE  node'[call[c].key] \in spoiled' \/ data[node'[call[c].key]] = Bytes(call[c].val)
    OBVIOUS
  <2>1. pc[c] = "rename" /\ call[c].op = "set" /\ Rename(c) /\ Renamable(c)
    BY <1>1, ReturnStep DEF Publishes, ReturnOK
  <2>2. node'[call[c].key] = node[call[c].tmp]
    <3>1. node' = [node EXCEPT ![call[c].key] = node[call[c].tmp], ![call[c].tmp] = None]
      BY <2>1 DEF Rename
    <3>2. call[c].key \in Key /\ call[c].tmp \in Temps
      BY <1>1, <2>1 DEF Inductive, PlaceInv, PlaceOK, Writing, Temps
    <3> QED
      BY <1>1, <3>1, <3>2, PathTypes DEF Inductive, TypeOK
  <2> QED
    BY <1>1, <2>1, <2>2, RenamedWhole
<1> QED
  BY <1>1, InductiveHolds, PTL DEF Spec, SetStores

(* A list that ends has all files that were there all the time, however many
   files, in whatever folders, and whatever else comes and goes. *)
THEOREM ListCompleteHolds == Spec => ListComplete
<1>1. ASSUME Inductive, [Next]_vars
      PROVE  [\A c \in Caller : pc[c] = "walk" /\ call[c].op = "list" /\ call'[c].ret = "ok" =>
                 \A f \in call[c].stay : node[f[1]] = f[2] => f[1] \in call[c].seen]_vars
  <2> SUFFICES ASSUME NEW c \in Caller, pc[c] = "walk", call[c].op = "list", call'[c].ret = "ok",
                      NEW f \in call[c].stay, node[f[1]] = f[2]
               PROVE  f[1] \in call[c].seen
    OBVIOUS
  <2>1. call[c].todo = <<>>
    BY <1>1, ReturnStep DEF ReturnOK
  <2>2. ~Ahead(c, f[1])
    BY <2>1 DEF Ahead
  <2> QED
    BY <1>1, <2>2 DEF Inductive, SeenInv, SeenOK
<1> QED
  BY <1>1, InductiveHolds, PTL DEF Spec, ListComplete
=============================================================================
