------------------------------- MODULE Paths -------------------------------
(***************************************************************************)
(* Paths of lib/io.c and the translation between the keys and the paths of *)
(* the file store, lib/kvstore.c, on POSIX.  0 is a NULL path.             *)
(***************************************************************************)
EXTENDS Strings, FiniteSets

Slash == 47
NoPath == <<-1>>

getDirNameTerminator(path) == MostOf({i \in DOMAIN path : path[i] = Slash} \cup {0})

ruDirName(path) ==
  LET t == getDirNameTerminator(path) IN IF t = 0 THEN NoPath ELSE SubSeq(path, 1, t - 1)
ruBaseName(path) == From(path, getDirNameTerminator(path) + 1)

\* Neither the dot a name begins with nor one it ends with.
ruFileExtension(path) ==
  LET stop == MostOf({i \in DOMAIN path : path[i] \in {Slash, 46}} \cup {1})
  IN IF \/ path = << >> \/ stop = 1 \/ path[stop] = Slash \/ path[stop - 1] = Slash
        \/ stop = Len(path)
     THEN NoPath ELSE From(path, stop + 1)

ruFullPath(cwd, path) ==
  CASE path = NoPath -> cwd
    [] path # NoPath /\ At(path, 1) = Slash -> path
    [] OTHER -> cwd \o <<Slash>> \o path

pathJoin(base, file) ==
  CASE file = NoPath -> base
    [] base = NoPath -> file
    [] OTHER -> IF ruStrEndsWith(base, <<Slash>>) THEN base \o file
                ELSE base \o <<Slash>> \o file

\* One slash is taken off the end of a piece and off the start of all but the
\* first; a first piece of no length starts no buffer.
pathMultiJoin(pieces) ==
  LET Add(str, piece) ==
        LET p == IF str # NoPath /\ At(piece, 1) = Slash THEN Tail(piece) ELSE piece
            q == IF ruStrEndsWith(p, <<Slash>>) THEN SubSeq(p, 1, Len(p) - 1) ELSE p
        IN IF str # NoPath THEN str \o <<Slash>> \o q ELSE IF q = << >> THEN NoPath ELSE q
  IN FoldLeft(Add, NoPath, pieces)

\* ruMkdir with the folders and the files there are; parent of NoPath fails.
RECURSIVE ruMkdirRecurse(_, _, _, _)
ruMkdirRecurse(dirs, files, path, deep) ==
  LET parent == ruDirName(path)
      up == ruMkdirRecurse(dirs, files, parent, deep)
      made == [ret |-> RUE_OK, dirs |-> dirs \cup {path}]
  IN CASE path \in dirs -> [ret |-> RUE_OK, dirs |-> dirs]
       [] path \in files -> [ret |-> RUE_FILE_EXISTS, dirs |-> dirs]
       [] path \notin dirs \cup files /\ parent = NoPath -> [ret |-> RUE_GENERAL, dirs |-> dirs]
       [] OTHER -> IF parent = << >> \/ parent \in dirs THEN made
                   ELSE IF ~deep THEN [ret |-> RUE_FILE_NOT_FOUND, dirs |-> dirs]
                   ELSE IF up.ret = RUE_OK THEN [up EXCEPT !.dirs = @ \cup {path}] ELSE up
ruMkdir(dirs, files, path, deep) ==
  IF path = << >> THEN [ret |-> RUE_PARAMETER_NOT_SET, dirs |-> dirs]
  ELSE ruMkdirRecurse(dirs, files,
         IF ruStrEndsWith(path, <<Slash>>) THEN SubSeq(path, 1, Len(path) - 1) ELSE path, deep)

---------------------------------------------------------------------------
(* Keys of the file store                                                  *)

getNum(c) ==
  CASE c \in Digit -> c - 48 [] c \in 97..102 -> c - 87 [] c \in 65..70 -> c - 55 [] OTHER -> 255

\* Mutant: a dot may end a name.
isEscaped_Dots(c, ends) == c \in Lower \cup Upper \cup Digit \cup {45, 46}

isEscaped(c, ends) == c \in Lower \cup Upper \cup Digit \/ (~ends /\ c \in {45, 46})

\* "_%x" of a char: sign extended from 128 on, one digit below 16, of which
\* three bytes are kept and counted.
Escape(c) ==
  CASE c >= 128 -> <<95, 102, 102>>
    [] c < 16 -> <<95, HexDigit(c), 0>>
    [] OTHER -> <<95, HexDigit(c \div 16), HexDigit(c % 16)>>

CString(s) == SubSeq(s, 1, LeastOf({i \in DOMAIN s : s[i] = 0} \cup {Len(s) + 1}) - 1)

\* The path below the store's folder.
keyToPath(key) ==
  LET n == Len(key)
      Step(t, i) ==
        LET after == t = << >> \/ Last(t) = Slash
        IN CASE key[i] = 42 /\ i = n /\ after -> Append(t, 42)
             [] key[i] = 32 -> IF after THEN t ELSE Append(t, Slash)
             [] OTHER -> IF isEscaped(key[i], i = 1 \/ i = n \/ after \/ At(key, i + 1) = 32)
                         THEN Append(t, key[i]) ELSE t \o Escape(key[i])
  IN CString(FoldLeft(Step, << >>, [i \in 1..n |-> i]))

\* The bytes keyToPath reserves for it.
Reserved(key) ==
  FoldLeft(LAMBDA cnt, i : cnt + (IF isEscaped(key[i], i = 1 \/ i = Len(key)) THEN 1 ELSE 3),
           0, [i \in DOMAIN key |-> i])

RECURSIVE pathToKey(_)
pathToKey(p) ==
  LET d == getNum(At(p, 2))
      s == getNum(At(p, 3))
  IN CASE p = << >> -> << >>
       [] p # << >> /\ p[1] = Slash -> <<32>> \o pathToKey(Tail(p))
       [] p # << >> /\ p[1] = 95 /\ d # 255 /\ s # 255 ->
            <<16 * d + s>> \o pathToKey(From(p, 4))
       [] OTHER -> <<p[1]>> \o pathToKey(Tail(p))

\* The null store checks its arguments, keeps nothing and finds nothing.
ruNullStoreSet(key) == IF key = << >> THEN RUE_INVALID_PARAMETER ELSE RUE_OK
ruNullStoreGet(key) == [ret |-> ruNullStoreSet(key), val |-> NoPath, len |-> 0]
===========================================================================
