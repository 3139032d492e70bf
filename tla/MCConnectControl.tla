-------------------------- MODULE MCConnectControl --------------------------
(***************************************************************************)
(* ConnectControl with a clock of about a minute a unit.                   *)
(***************************************************************************)
EXTENDS ConnectControl

MCDelays == <<1, 2>>
=============================================================================
