---------------------------- MODULE MCRemotePush ----------------------------
(***************************************************************************)
(* Small instances of RemotePush for TLC.                                  *)
(***************************************************************************)
EXTENDS RemotePush

OneName == <<"f">>
TwoNames == <<"f", "g">>
\* A content that fits one chunk and two that do not; with in-place edits a
\* transfer may mix the two, or grow beyond the announced size.
OneAndTwoChunks == {<<1>>, <<1, 1, 1>>, <<2, 2, 2>>}
=============================================================================
