---------------------------- MODULE TimerService ----------------------------
(***************************************************************************)
(* What the timers of common/eventloop.h promise a program, without the    *)
(* list they are kept in: a registration gets a fresh id and a due time;   *)
(* until it is cancelled it runs exactly once, not before it is due, and   *)
(* timers run in the order in which they are due.                          *)
(***************************************************************************)
EXTENDS Integers

VARIABLES
  clock,    (* milliseconds since the loop started                          *)
  lastId,   (* the id given last                                            *)
  pending   (* the timers still to run                                      *)

vars == <<clock, lastId, pending>>

Init == clock = 0 /\ lastId = 0 /\ pending = {}

Advance ==
  /\ clock' = clock + 1
  /\ UNCHANGED <<lastId, pending>>

Register ==
  /\ lastId' = lastId + 1
  /\ \E t \in pending' :
       /\ t.id = lastId' /\ t.due >= clock
       /\ pending' = pending \union {t}
  /\ UNCHANGED clock

Cancel ==
  /\ \E t \in pending : pending' = pending \ {t}
  /\ UNCHANGED <<clock, lastId>>

Run ==
  /\ \E t \in pending :
       /\ t.due <= clock
       /\ \A u \in pending : t.due <= u.due
       /\ pending' = pending \ {t}
  /\ UNCHANGED <<clock, lastId>>

Next == Advance \/ Register \/ Cancel \/ Run

Spec == Init /\ [][Next]_vars
=============================================================================
