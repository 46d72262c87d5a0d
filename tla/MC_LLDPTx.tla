------------------------------ MODULE MC_LLDPTx ------------------------------
(***************************************************************************)
(* Model-checking instances of LLDPTx: four ports, the second one with a  *)
(* frame that does not fit, so that a send round steps over a failed       *)
(* build and still has to reach the last port.                             *)
(***************************************************************************)
EXTENDS LLDPTx, TLC

MCOversized == {2}

MCOversized1 == {}

=============================================================================
