----------------------------- MODULE MCReceive -----------------------------
(***************************************************************************)
(* Small instances of Receive for TLC.                                     *)
(***************************************************************************)
EXTENDS Receive

F1 == <<"f">>
F2 == <<"f", "g">>
=============================================================================
