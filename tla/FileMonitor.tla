------------------------------ MODULE FileMonitor ------------------------------
(***************************************************************************)
(* fam/lin.c: a thread that keeps an inotify watch on every folder below   *)
(* the one it monitors and reports what happens in them.  It learns of new *)
(* and moved folders from the events themselves, which it reads late; two  *)
(* events with one cookie are a move, one that stays alone is a move out.  *)
(*                                                                         *)
(* A path is a sequence of letters, as the code compares paths as strings. *)
(* The kernel is external: its tree, its watches and its queue.            *)
(***************************************************************************)
EXTENDS Integers, SequencesExt, FiniteSetsExt

CONSTANTS Folder,   \* the folders below the top one
          Name,     \* the names of folders, sequences of letters
          Limit,    \* how many watches the kernel grants for certain: others share it
          Settled,  \* whether others wait for the monitor before they move a folder
                    \* or give its name to another
          Ops,      \* what others do: "mkdir", "rmdir", "file", "attrib", "move"
          MaxOps,   \* how often they do it (a bound of the runs)
          Quit      \* whether ruFamKillMonitor is called

ASSUME MonitorAssumption == Limit \in Nat /\ Settled \in BOOLEAN /\ MaxOps \in Nat /\ Quit \in BOOLEAN

Top == "top"
Out == "out" \* beside the monitored tree
Gone == "gone"
Lost == <<"?">> \* the path of what is not in the tree

(* Folders are none of the other places; names are not empty, have no slash, and
   are not that of a file. *)
ASSUME FolderAssumption == IsFiniteSet(Folder) /\ Folder \cap {Top, Out, Gone} = {}
ASSUME NameAssumption ==
    \A n \in Name :
        /\ n \in Seq(ToSet(n)) /\ n # <<>> /\ n # <<"f">> /\ \A i \in DOMAIN n : n[i] # "/"

VARIABLES
    up, name,     \* the tree: the folder that holds a folder, and its name there
    watch,        \* the kernel's watch of a folder, 0 for none
    queue,        \* events not read yet
    issued,       \* watches, cookies and changes so far
    wdPath, pathWd, cookie, \* the maps of famCtx
    buf,          \* events read and not processed yet
    todo, root,   \* a ruFolderWalk under way: what is to be done, and its folder
    quit, ended,
    moved         \* history: how often each move has been reported, by its cookie

kernel == <<up, name, watch, queue>>
maps == <<wdPath, pathWd, cookie>>
vars == <<kernel, issued, maps, buf, todo, root, quit, ended, moved>>

(* The tree.  An event knows the path it happened at: a history, for the
   properties. *)
PathOf(u, n) ==
    LET p[d \in Folder \cup {Top, Out, Gone}] ==
            IF d = Top THEN <<>>
            ELSE IF d \in {Out, Gone} \/ p[u[d]] = Lost THEN Lost
            ELSE p[u[d]] \o <<"/">> \o n[d]
    IN  p
Path == PathOf(up, name)
Below(d) == Path[d] # Lost
FolderAt(p) == {d \in Folder \cup {Top} : Path[d] = p}
Children(d) == {e \in Folder : up[e] = d}
Join(p, n) == IF n = <<>> THEN p ELSE p \o <<"/">> \o n

Without(f, S) == [x \in DOMAIN f \ S |-> f[x]]
Put(f, k, v) == [x \in DOMAIN f \cup {k} |-> IF x = k THEN v ELSE f[x]]

(* ruStrStartsWith, on whole paths *)
Affected(p) == {w \in DOMAIN wdPath : IsPrefix(p, wdPath[w])}

Event(d, mask, n, isDir, c) ==
    IF watch[d] = 0 THEN <<>>
    ELSE <<[wd |-> watch[d], mask |-> mask, name |-> n, dir |-> isDir, cookie |-> c,
            at |-> Join(Path[d], n)]>>

Quiet == queue = <<>> /\ buf = <<>> /\ todo = <<>> /\ DOMAIN cookie = {}
Unheard(p) == \/ \E i \in DOMAIN queue : queue[i].at = p
              \/ \E i \in DOMAIN buf : buf[i].at = p

Init ==
    /\ up = [d \in Folder |-> Gone] /\ name = [d \in Folder |-> <<>>]
    /\ watch = [d \in Folder \cup {Top, Out} |-> 0] /\ queue = <<>>
    /\ issued = [wd |-> 0, cookie |-> 0, op |-> 0]
    /\ wdPath = <<>> /\ pathWd = <<>> /\ cookie = <<>>
    /\ buf = <<>> /\ todo = <<[do |-> "visit", path |-> <<>>]>> /\ root = <<>>
    /\ quit = FALSE /\ ended = FALSE /\ moved = <<>>

(***************************************************************************)
(* What others do to the tree.                                             *)
(***************************************************************************)
Change(op) ==
    /\ op \in Ops /\ issued.op < MaxOps
    /\ UNCHANGED <<maps, buf, todo, root, quit, ended, moved>>

Counted(c) == issued' = [issued EXCEPT !.op = @ + 1, !.cookie = c]

Free(u, n) == \A e \in Children(u) : name[e] # n

Mkdir ==
    /\ Change("mkdir") /\ Counted(issued.cookie)
    /\ \E d \in Folder, u \in Folder \cup {Top}, n \in Name :
        /\ up[d] = Gone /\ Below(u) /\ Free(u, n)
        /\ Settled => LET p == Join(Path[u], n) IN ~Unheard(p) /\ p \notin Range(cookie)
        /\ up' = [up EXCEPT ![d] = u] /\ name' = [name EXCEPT ![d] = n]
        /\ queue' = queue \o Event(u, "CREATE", n, TRUE, 0)
    /\ UNCHANGED watch

Rmdir ==
    /\ Change("rmdir") /\ Counted(issued.cookie)
    /\ \E d \in Folder :
        /\ Below(d) /\ Children(d) = {}
        /\ up' = [up EXCEPT ![d] = Gone] /\ name' = [name EXCEPT ![d] = <<>>]
        /\ watch' = [watch EXCEPT ![d] = 0]
        /\ queue' = queue \o Event(d, "DELETE_SELF", <<>>, FALSE, 0)
                          \o Event(up[d], "DELETE", name[d], TRUE, 0)

(* A file is moved out of the tree. *)
MoveFile ==
    /\ Change("file") /\ Counted(issued.cookie + 1)
    /\ \E d \in Folder \cup {Top} :
        Below(d) /\ queue' = queue \o Event(d, "MOVED_FROM", <<"f">>, FALSE, issued.cookie + 1)
    /\ UNCHANGED <<up, name, watch>>

(* The metadata of a folder is changed. *)
Attrib ==
    /\ Change("attrib") /\ Counted(issued.cookie)
    /\ \E d \in Folder :
        Below(d) /\ queue' = queue \o Event(up[d], "ATTRIB", name[d], TRUE, 0)
    /\ UNCHANGED <<up, name, watch>>

Move ==
    /\ Change("move") /\ Counted(issued.cookie + 1)
    /\ Settled => Quiet
    /\ \E d \in Folder, u \in Folder \cup {Top, Out}, n \in Name :
        LET c == issued.cookie + 1 IN
            /\ Below(d) \/ (up[d] = Out /\ u # Out)
            /\ up[d] = u => name[d] # n
            /\ u \in {Top, Out} \/ (Below(u) /\ ~IsPrefix(Path[d], Path[u]))
            /\ Free(u, n)
            /\ up' = [up EXCEPT ![d] = u] /\ name' = [name EXCEPT ![d] = n]
            /\ queue' = queue \o Event(up[d], "MOVED_FROM", name[d], TRUE, c)
                              \o Event(u, "MOVED_TO", n, TRUE, c)
    /\ UNCHANGED watch

(***************************************************************************)
(* The thread.                                                             *)
(***************************************************************************)
Unwatch(W) == watch' = [d \in DOMAIN watch |-> IF watch[d] \in W THEN 0 ELSE watch[d]]

(* watcher, for the folder that the walk has come to: the watch of an inode
   that has one already is the same. *)
Watch(d, p) ==
    LET fresh == watch[d] = 0
        w == IF fresh THEN issued.wd + 1 ELSE watch[d]
    IN  /\ watch' = [watch EXCEPT ![d] = w]
        /\ issued' = IF fresh THEN [issued EXCEPT !.wd = w] ELSE issued
        /\ wdPath' = Put(wdPath, w, p) /\ pathWd' = Put(pathWd, p, w)

Refusable(d) == watch[d] = 0 /\ Cardinality({e \in DOMAIN watch : watch[e] # 0}) >= Limit

(* One step of ruFolderWalk; a folder that is not there is no error. *)
Walk ==
    /\ todo # <<>>
    /\ LET p == Head(todo).path IN
       \/ /\ FolderAt(p) = {} /\ todo' = Tail(todo)
          /\ UNCHANGED <<watch, issued, wdPath, pathWd, quit>>
       \/ /\ Head(todo).do = "visit"
          /\ \E d \in FolderAt(p) :
               \/ /\ Watch(d, p) /\ UNCHANGED quit
                  /\ todo' = <<[do |-> "read", path |-> p]>> \o Tail(todo)
               \/ /\ Refusable(d)
                  /\ todo' = <<>> /\ quit' = (quit \/ FolderAt(root) # {})
                  /\ UNCHANGED <<watch, issued, wdPath, pathWd>>
       \/ /\ Head(todo).do = "read"
          /\ \E d \in FolderAt(p) :
               todo' = SetToSeq({[do |-> "visit", path |-> Path[e]] : e \in Children(d)}) \o Tail(todo)
          /\ UNCHANGED <<watch, issued, wdPath, pathWd, quit>>
    /\ UNCHANGED <<up, name, queue, cookie, buf, root, ended, moved>>

WatchDir(p) == todo' = <<[do |-> "visit", path |-> p]>> /\ root' = p
NoWalk == UNCHANGED <<todo, root>>

(* Mutant: what is below the folder keeps its watch. *)
UnwatchDir_Self(p) ==
    LET W == {w \in DOMAIN wdPath : wdPath[w] = p} IN
    Unwatch(W) /\ wdPath' = Without(wdPath, W) /\ pathWd' = Without(pathWd, {p})

UnwatchDir(p) ==
    LET W == Affected(p) IN
    /\ Unwatch(W)
    /\ wdPath' = Without(wdPath, W)
    /\ pathWd' = Without(pathWd, {wdPath[w] : w \in W})

(* Mutant: what is below the folder keeps its path. *)
RenameDir_Self(old, new) ==
    LET W == {w \in DOMAIN wdPath : wdPath[w] = old} IN
    /\ wdPath' = [w \in DOMAIN wdPath |-> IF w \in W THEN new ELSE wdPath[w]]
    /\ pathWd' = Put(Without(pathWd, {old}), new, pathWd[old])
    /\ UNCHANGED watch

RenameDir(old, new) ==
    LET W == Affected(old)
        To(w) == new \o SubSeq(wdPath[w], Len(old) + 1, Len(wdPath[w]))
        fresh == {To(w) : w \in W}
        keep == DOMAIN pathWd \ {wdPath[w] : w \in W}
    IN  /\ wdPath' = [w \in DOMAIN wdPath |-> IF w \in W THEN To(w) ELSE wdPath[w]]
        /\ pathWd' = [p \in fresh \cup keep |->
                         IF p \in fresh THEN CHOOSE w \in W : To(w) = p ELSE pathWd[p]]
        /\ UNCHANGED watch

Reported(c) == moved' = [moved EXCEPT ![c] = @ + 1]

(* Mutant: only folders are given up. *)
Expire_Folders(c) ==
    /\ todo = <<>> /\ buf = <<>> /\ ~quit /\ cookie[c] \in DOMAIN pathWd
    /\ Reported(c) /\ UnwatchDir(cookie[c]) /\ cookie' = Without(cookie, {c})
    /\ UNCHANGED <<up, name, queue, issued, buf, todo, root, quit, ended>>

(* fam_handle_moveTo with the empty path: nothing came to the cookie in time. *)
Expire(c) ==
    /\ todo = <<>> /\ buf = <<>> /\ ~quit
    /\ Reported(c)
    /\ IF cookie[c] \in DOMAIN pathWd THEN UnwatchDir(cookie[c]) ELSE UNCHANGED <<wdPath, pathWd, watch>>
    /\ cookie' = Without(cookie, {c})
    /\ UNCHANGED <<up, name, queue, issued, buf, todo, root, quit, ended>>

(* The kernel hands out what there is, or what fits. *)
Read ==
    /\ todo = <<>> /\ buf = <<>> /\ ~quit
    /\ \E n \in 1..Len(queue) : buf' = SubSeq(queue, 1, n) /\ queue' = SubSeq(queue, n + 1, Len(queue))
    /\ UNCHANGED <<up, name, watch, issued, maps, todo, root, quit, ended, moved>>

(* IN_DELETE_SELF: the path is used after it is freed, so its entry in pathWd
   goes or stays. *)
DeleteSelf(ev) ==
    /\ Unwatch({ev.wd}) /\ wdPath' = Without(wdPath, {ev.wd})
    /\ \/ pathWd' = Without(pathWd, {wdPath[ev.wd]})
       \/ UNCHANGED pathWd
    /\ UNCHANGED <<cookie, moved>> /\ NoWalk

MovedFrom(ev, full) ==
    /\ cookie' = Put(cookie, ev.cookie, full)
    /\ moved' = Put(moved, ev.cookie, 0)
    /\ UNCHANGED <<watch, wdPath, pathWd>> /\ NoWalk

(* Mutant: the cookie of a move stays when it has arrived. *)
MovedTo_Keeps(ev, full) ==
    IF ev.cookie \in DOMAIN cookie
    THEN /\ Reported(ev.cookie)
         /\ IF cookie[ev.cookie] \in DOMAIN pathWd
            THEN RenameDir(cookie[ev.cookie], full)
            ELSE UNCHANGED <<wdPath, pathWd, watch>>
         /\ UNCHANGED cookie /\ NoWalk
    ELSE /\ IF ev.dir THEN WatchDir(full) ELSE NoWalk
         /\ UNCHANGED <<maps, watch, moved>>

MovedTo(ev, full) ==
    IF ev.cookie \in DOMAIN cookie
    THEN /\ Reported(ev.cookie)
         /\ IF cookie[ev.cookie] \in DOMAIN pathWd
            THEN RenameDir(cookie[ev.cookie], full)
            ELSE UNCHANGED <<wdPath, pathWd, watch>>
         /\ cookie' = Without(cookie, {ev.cookie}) /\ NoWalk
    ELSE /\ IF ev.dir THEN WatchDir(full) ELSE NoWalk
         /\ UNCHANGED <<maps, watch, moved>>

OtherEvent(ev, full) ==
    /\ IF ev.mask \in {"CREATE", "ATTRIB"} /\ ev.dir THEN WatchDir(full) ELSE NoWalk
    /\ UNCHANGED <<maps, watch, moved>>

(* fam_processEv *)
Process ==
    /\ todo = <<>> /\ buf # <<>>
    /\ buf' = Tail(buf)
    /\ LET ev == Head(buf) IN
       IF ev.wd \notin DOMAIN wdPath
       THEN NoWalk /\ UNCHANGED <<maps, watch, moved>>
       ELSE LET full == Join(wdPath[ev.wd], ev.name) IN
            CASE ev.mask = "DELETE_SELF" -> DeleteSelf(ev)
              [] ev.mask = "MOVED_FROM" -> MovedFrom(ev, full)
              [] ev.mask = "MOVED_TO" -> MovedTo(ev, full)
              [] OTHER -> OtherEvent(ev, full)
    /\ UNCHANGED <<up, name, queue, issued, quit, ended>>

(* ruFamKillMonitor asks; fam_runThread leaves its loop and frees the maps. *)
Kill == Quit /\ ~quit /\ quit' = TRUE /\ UNCHANGED <<kernel, issued, maps, buf, todo, root, ended, moved>>

End ==
    /\ quit /\ ~ended /\ todo = <<>> /\ buf = <<>>
    /\ ended' = TRUE
    /\ wdPath' = <<>> /\ pathWd' = <<>> /\ cookie' = <<>>
    /\ Unwatch(DOMAIN wdPath)
    /\ UNCHANGED <<up, name, queue, issued, buf, todo, root, quit, moved>>

Thread == Walk \/ Read \/ Process \/ End \/ \E c \in DOMAIN cookie : Expire(c)
Next == Mkdir \/ Rmdir \/ MoveFile \/ Attrib \/ Move \/ Thread \/ Kill
Spec == Init /\ [][Next]_vars /\ WF_vars(Thread)

(***************************************************************************)
(* Properties.                                                             *)
(***************************************************************************)

(* fam.h:72 "recursively watches filePath and below": once everything is
   processed the folders of the tree, and no other, are watched, each under
   its own path. *)
WatchesRight ==
    Quiet /\ ~quit => LET D == {d \in Folder \cup {Top} : Below(d)} IN
        /\ \A d \in D : watch[d] \in DOMAIN wdPath /\ wdPath[watch[d]] = Path[d]
        /\ \A w \in DOMAIN wdPath : \E d \in D : watch[d] = w
        /\ \A d \in D : Path[d] \in DOMAIN pathWd /\ pathWd[Path[d]] = watch[d]

(* What is reported is the path at which it happened, however late it is
   processed. *)
PathsTrue ==
    todo = <<>> /\ buf # <<>> => LET ev == Head(buf) IN
        ev.wd \in DOMAIN wdPath => Join(wdPath[ev.wd], ev.name) = ev.at

(* A move is reported once, as it arrives or when it is given up. *)
MoveOnce == \A c \in DOMAIN moved : IF c \in DOMAIN cookie THEN moved[c] = 0 ELSE ended \/ moved[c] = 1

(* However the events are split over reads, the thread gets to rest, and a
   move is not held back for ever. *)
ComesToRest == []<>(Quiet \/ ended)
================================================================================
