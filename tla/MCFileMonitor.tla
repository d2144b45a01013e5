---------------------------- MODULE MCFileMonitor ----------------------------
(* Names as sequences of letters: two that differ, and two of which one
   begins with the other. *)
EXTENDS FileMonitor

MCName == {<<"a">>, <<"b">>}
MCPrefixName == {<<"a">>, <<"a", "b">>}
=============================================================================
