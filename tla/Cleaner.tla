------------------------------ MODULE Cleaner ------------------------------
(***************************************************************************)
(* The text cleaner of lib/cleaner.c: a tree of entries, each with its     *)
(* substitute, and one pass over a text, read from a string or through a   *)
(* buffer of bufLen characters, that replaces the entries it meets.        *)
(*                                                                         *)
(* The tree is the function from the paths of its nodes to the substitute  *)
(* kept there (NoSubst at an inner node); the root is the empty path.      *)
(* Characters are bytes; NUL ends a C string.  A cleaner at work is the   *)
(* record of the pointers cleaner.c keeps: mem is the memory of inBuf, cur,*)
(* next, ms (matchStart) and inEnd index it, 0 is NULL.  Memory beyond the *)
(* end of mem is never looked at but by the one read past a full buffer,   *)
(* whose value decides nothing (the node reached then has no children).    *)
(* buf is what outBuf holds, out what the writer got in this pass, writes  *)
(* how many more of its calls succeed; error outlives the pass.            *)
(***************************************************************************)
EXTENDS Strings, FiniteSets

RUE_CANT_WRITE == 70
Always == -1                 \* of a writer that never fails

NUL == 0
NoSubst == <<-1>>
EmptyTree == << >> :> NoSubst

---------------------------------------------------------------------------
(* The tree                                                                *)

Prefixed(p, s) == IsPrefix(p, s)
HasKids(tree, p) == \E q \in DOMAIN tree : IsStrictPrefix(p, q)

AddEntry(tree, instr, subst) ==
  LET path == {SubSeq(instr, 1, k) : k \in 1..Len(instr)}
  IN [p \in DOMAIN tree \cup path |->
        IF p = instr THEN subst
        ELSE IF p \in DOMAIN tree THEN tree[p] ELSE NoSubst]

FreeBranch(tree, p) == [q \in {q \in DOMAIN tree : ~Prefixed(p, q)} |-> tree[q]]

\* The way back up frees every node of the path that has no children left;
\* entryUsed looks at the children only, so a node that is an entry goes too.
RemoveEntry(tree, instr) ==
  LET path == {k \in 1..Len(instr) : SubSeq(instr, 1, k) \in DOMAIN tree}
      cleared == [p \in DOMAIN tree |-> IF p = instr THEN NoSubst ELSE tree[p]]
      Up(t, k) == LET p == SubSeq(instr, 1, k)
                  IN IF HasKids(t, p) THEN t ELSE FreeBranch(t, p)
  IN FoldLeft(Up, cleared, Reverse([k \in 1..Cardinality(path) |-> k]))

\* ruCleanDump calls back for each node, those that are no entry included;
\* the order of the calls is left out.
DumpEntry(tree) == {<<p, tree[p]>> : p \in DOMAIN tree}

Entries(tree) == {p \in DOMAIN tree : tree[p] # NoSubst}

---------------------------------------------------------------------------
(* Reading and writing                                                     *)

\* The partial match is moved to the start of the buffer; ms is not.
MatchToStart(c) ==
  LET n == c.inEnd - c.ms
  IN [c EXCEPT !.mem = [i \in DOMAIN c.mem |->
                          IF i <= n THEN c.mem[c.ms + i - 1] ELSE c.mem[i]],
               !.cur = n + 1]

\* The reader delivers what it is asked for until the stream ends: a read that
\* is short, or fails, is taken for that end, and rest is what comes before it.
Fill(c) ==
  LET want == c.inEnd - c.cur
      got == Slice(c.rest, 1, want)
  IN [c EXCEPT !.mem = [i \in DOMAIN c.mem |->
                          IF i \in c.cur..(c.cur + Len(got) - 1) THEN got[i - c.cur + 1]
                          ELSE IF Len(got) < want /\ i = c.cur + Len(got) THEN NUL
                          ELSE c.mem[i]],
               !.rest = SubSeq(c.rest, Len(got) + 1, Len(c.rest))]

Refill(c) ==
  IF ~c.buffered \/ c.cur < c.inEnd THEN c
  ELSE Fill(IF c.ms # 0 THEN MatchToStart(c) ELSE [c EXCEPT !.cur = 1])
BufferedRead(c) == Refill([c EXCEPT !.cur = @ + 1])

Peeked(c) == [c EXCEPT !.next = c.cur]
PeekNext(c) == IF c.next # 0 THEN c ELSE Peeked(BufferedRead(c))

Taken(c) ==
  [c EXCEPT !.cur = c.next, !.next = 0,
            !.thisChar = IF c.next < c.inEnd THEN At(c.mem, c.next) ELSE NUL]
GetNext(c) == Taken(PeekNext(c))

\* The writer gets all there is, be it nothing; what it takes of it in parts is
\* offered again.  A failure sets the error, which nothing takes back.
Flush(c) ==
  IF c.writes = 0 THEN [c EXCEPT !.error = RUE_CANT_WRITE]
  ELSE [c EXCEPT !.writes = @ - 1, !.out = @ \o c.buf, !.buf = << >>]

RECURSIVE Write(_, _)
Write(c, s) ==
  LET room == c.bufLen - Len(c.buf)
      full == Flush([c EXCEPT !.buf = @ \o Slice(s, 1, room)])
  IN CASE Len(s) <= room -> [c EXCEPT !.buf = @ \o s]
       [] Len(s) > room /\ full.error # RUE_OK -> full
       [] OTHER -> Write(full, From(s, room + 1))

\* Mutant: the end of a match does not forget its start.
DoCharacter_KeepsMatch(c, subst) ==
  [Write(c, IF subst # NoSubst THEN subst ELSE <<At(c.mem, c.cur)>>) EXCEPT !.leaf = << >>]

DoCharacter(c, subst) ==
  IF subst = NoSubst /\ c.ms = 0 THEN Write(c, <<At(c.mem, c.cur)>>)
  ELSE [Write(c, IF subst # NoSubst THEN subst ELSE SubSeq(c.mem, c.ms, c.cur - 1))
          EXCEPT !.ms = 0, !.leaf = << >>]

---------------------------------------------------------------------------
(* The pass                                                                *)

\* The cleaner after the character leaf ends in is done with, where the next
\* one is known: the walk goes on into the tree or leaves it.
Deeper(c, leaf) ==
  IF Append(leaf, At(c.mem, c.next)) \in DOMAIN c.tree THEN [c EXCEPT !.leaf = leaf]
  ELSE DoCharacter(c, c.tree[leaf])
Visit(c, leaf) ==
  IF leaf \notin DOMAIN c.tree THEN DoCharacter(c, NoSubst)
  ELSE Deeper(PeekNext(IF c.ms = 0 THEN [c EXCEPT !.ms = c.cur] ELSE c), leaf)

RECURSIVE WalkFrom(_)
WalkFrom(c) ==
  LET seen == Visit(c, Append(c.leaf, c.thisChar))
  IN IF c.thisChar = NUL THEN c ELSE IF seen.error # RUE_OK THEN seen ELSE WalkFrom(GetNext(seen))
WalkText(c) == WalkFrom(GetNext(c))

\* A cleaner before its first pass; chunk is the size of a read.
ruCleanNew(chunk) ==
  [tree |-> EmptyTree, longest |-> 0, chunk |-> IF chunk = 0 THEN 1048576 ELSE chunk,
   bufLen |-> 0, leaf |-> << >>, ms |-> 0, next |-> 0, cur |-> 0, thisChar |-> NUL,
   buffered |-> FALSE, mem |-> << >>, inEnd |-> 0, rest |-> << >>,
   buf |-> << >>, out |-> << >>, writes |-> 0, error |-> RUE_OK]

ruCleanAdd(c, instr, subst) ==
  IF instr = << >> THEN c
  ELSE [c EXCEPT !.tree = AddEntry(@, instr, subst),
                 !.longest = IF Len(instr) > @ THEN Len(instr) ELSE @]

ruCleanRemove(c, instr) == [c EXCEPT !.tree = RemoveEntry(@, instr)]

\* Starting a pass sets neither matchStart nor next, nor the error: one that
\* is set ends the pass at its first character, and what that does is left out.
CleanNow(c, buffered, mem, rest, writes) ==
  LET size == IF c.chunk < c.longest THEN c.longest ELSE c.chunk
      begun == [c EXCEPT !.bufLen = size, !.leaf = << >>, !.buffered = buffered,
                         !.mem = IF buffered THEN [i \in 1..size |-> NUL] ELSE mem,
                         !.inEnd = 1 + IF buffered THEN size ELSE Len(mem),
                         !.rest = rest, !.cur = IF buffered THEN size + 1 ELSE 0,
                         !.buf = << >>, !.out = << >>, !.writes = writes]
      Ended(p) == IF p.error = RUE_OK THEN Flush(p) ELSE p
  IN IF c.error # RUE_OK THEN [c EXCEPT !.out = << >>] ELSE Ended(WalkText(begun))

\* len is the length the caller gives, 0 for the whole string.
ruCleanToWriter(c, in, len, writes) ==
  CleanNow(c, FALSE, IF len = 0 THEN in ELSE Slice(in, 1, len), << >>, writes)

ruCleanIo(c, in, writes) == CleanNow(c, TRUE, << >>, in, writes)

\* The buffer for no text is NULL (string.c:116-119), which cannot be written to.
NoOut == <<-1>>
ruCleanToString(c, in, len) ==
  LET p == ruCleanToWriter(c, in, len, IF in = << >> THEN 0 ELSE Always)
  IN [c |-> p, ret |-> p.error, out |-> IF p.error = RUE_OK THEN p.out ELSE NoOut]

---------------------------------------------------------------------------
(* What a pass promises                                                    *)

\* From the left, the longest entry that starts here is replaced.  The n-th of
\* length stop is the last (0: none is).
RECURSIVE Cleaned(_, _, _, _)
Cleaned(tree, in, stop, n) ==
  LET here == {e \in Entries(tree) : Prefixed(e, in)}
      e == CHOOSE e \in here : \A f \in here : Len(f) <= Len(e)
      left == IF Len(e) = stop THEN n - 1 ELSE n
  IN CASE in = << >> -> << >>
       [] in # << >> /\ here = {} -> <<in[1]>> \o Cleaned(tree, Tail(in), stop, n)
       [] OTHER -> tree[e] \o IF n # 0 /\ left = 0 THEN << >>
                              ELSE Cleaned(tree, From(in, Len(e) + 1), stop, left)

\* A walk that fails need not go back: no entry starts inside the beginning
\* of one, and none is a beginning of another that the walk goes past.
NoRestart(tree) ==
  \A p \in {q \in DOMAIN tree \ {<< >>} : HasKids(tree, q)} : \A f \in Entries(tree) :
    /\ ~IsStrictPrefix(f, p)
    /\ \A k \in 2..Len(p) : LET s == SubSeq(p, k, Len(p)) IN ~Prefixed(s, f) /\ ~Prefixed(f, s)

\* Whatever begins an entry in this text is an entry.
RECURSIVE Whole(_, _)
Whole(tree, in) ==
  LET most == CHOOSE k \in 0..Len(in) :
                /\ SubSeq(in, 1, k) \in DOMAIN tree
                /\ \A l \in (k + 1)..Len(in) : SubSeq(in, 1, l) \notin DOMAIN tree
  IN \/ in = << >>
     \/ most = 0 /\ Whole(tree, Tail(in))
     \/ most > 0 /\ tree[SubSeq(in, 1, most)] # NoSubst /\ Whole(tree, SubSeq(in, most + 1, Len(in)))
===========================================================================
