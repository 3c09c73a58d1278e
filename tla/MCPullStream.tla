---------------------------- MODULE MCPullStream ----------------------------
(* A small instance of PullStream for TLC: four characters, one a NUL.     *)
EXTENDS PullStream

MCText == <<"a", "b", NUL, "d">>
MCOffsets == {-1, 0, 2}
=============================================================================
