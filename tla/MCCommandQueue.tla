--------------------------- MODULE MCCommandQueue ---------------------------
(***************************************************************************)
(* Instances of CommandQueue for TLC: a simple command that is answered, a *)
(* macro of three steps, the middle one without answer, a command that is  *)
(* not answered at all, and a second simple one.                           *)
(***************************************************************************)
EXTENDS CommandQueue

CONSTANTS simple, other, macro, silent

AllSteps ==
  [c \in Commands |-> CASE c = macro  -> <<TRUE, FALSE, TRUE>>
                        [] c = silent -> <<FALSE>>
                        [] OTHER      -> <<TRUE>>]

Anything == [c \in Commands |-> Commands]
=============================================================================
