------------------------------ MODULE MCGateway ------------------------------
(***************************************************************************)
(* Gateway on small instances: MCGateway.cfg (safety and the turnstile),   *)
(* MCGatewayLive.cfg (liveness) and MCGatewayText.cfg (an engine whose     *)
(* output is not always UTF-8).                                            *)
(***************************************************************************)
EXTENDS Gateway, TLC

Interchangeable == Permutations(Requests)
=============================================================================
