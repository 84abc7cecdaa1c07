----------------------------- MODULE MCPortForward -----------------------------
(* Small instances of PortForward for TLC.                                 *)
EXTENDS PortForward

OneRule == <<"r1">>
=============================================================================
