------------------------------- MODULE MCHub -------------------------------
(* An instance of Hub: of three plug-ins the last two use the same          *)
(* peripheral.                                                              *)
EXTENDS Hub, TLC

MCUses == (1 :> 1) @@ (2 :> 2) @@ (3 :> 2)
=============================================================================
