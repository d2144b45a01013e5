------------------------------ MODULE MCFileStore ------------------------------
(* A small instance of FileStore: a value of one block and one of two, and   *)
(* two keys, of which one is a file where the other needs a folder.          *)
EXTENDS FileStore, TLC

a == <<"a">>
MCKey == {<<a>>, <<a, <<"b">>>>}
MCLength == ("long" :> 2) @@ ("short" :> 1)
Symmetry == Permutations(Caller)
=============================================================================
