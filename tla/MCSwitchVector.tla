---------------------------- MODULE MCSwitchVector ----------------------------
(***************************************************************************)
(* Instances of SwitchVector for TLC.                                      *)
(***************************************************************************)
EXTENDS SwitchVector

CONSTANTS a, b, c

ABC == <<a, b, c>>
=============================================================================
