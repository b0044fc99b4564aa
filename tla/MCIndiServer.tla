---------------------------- MODULE MCIndiServer ----------------------------
(***************************************************************************)
(* Instances of IndiServer for TLC: command lines and what goes wrong.     *)
(***************************************************************************)
EXTENDS IndiServer

OneDriver  == <<"a">>
TwoDrivers == <<"a", "b">>

(* What each process of a driver has to say.                                *)
Nothing    == [n \in Names |-> 0]
Once       == [n \in Names |-> 1]
FirstOnce  == [n \in Names |-> IF n = "a" THEN 1 ELSE 0]

ClientFailures == {"clientStalls", "clientLeaves"}

(* Descriptors 0 to 2 are the standard ones.                                *)
FdNumbers == 3 .. 14
=============================================================================
