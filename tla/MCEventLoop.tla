----------------------------- MODULE MCEventLoop -----------------------------
(***************************************************************************)
(* Instances of EventLoop for TLC: what the registered functions may call. *)
(***************************************************************************)
EXTENDS EventLoop

NoCalls == [k \in Kinds |-> {}]
NoTgo == {}

(* Timers only: functions of every kind set and remove timers.              *)
TimerCalls ==
  [NoCalls EXCEPT !["inTimer"] = {"addTimer", "rmTimer"},
                  !["inCallback"] = {"addTimer", "rmTimer"},
                  !["setup"] = {"addCallback"}]

(* Callbacks and work procedures come and go, from callbacks and work       *)
(* procedures, one timer firing in between.                                 *)
DispatchCalls ==
  [setup      |-> {"addCallback", "addWorkProc"},
   inTimer    |-> {"addCallback"},
   inCallback |-> {"addCallback", "rmCallback", "addWorkProc", "addTimer"},
   inWorkProc |-> {"rmCallback", "rmWorkProc"}]
=============================================================================
