---------------------------- MODULE AdaptiveTimer ----------------------------
(***************************************************************************)
(* The timer that plug-ins share (resources/adaptimer.h).  Each time it    *)
(* runs out it calls one of the receivers registered, in turn, and sets    *)
(* itself again: with n receivers n times as often as the period asks for, *)
(* so that each is called once a period.  What it sets are timers of the   *)
(* event loop (EventLoop), which has others too.                           *)
(*                                                                         *)
(* Times are relative to the present.  Receivers are ordered as the set of *)
(* their addresses is.                                                     *)
(***************************************************************************)
EXTENDS Integers, FiniteSets

CONSTANTS
  Receivers, (* those that may be registered, by their addresses             *)
  Periods,   (* what setPeriod() may be given, in milliseconds               *)
  Default,   (* DEFAULT_PERIOD                                               *)
  Late       (* how many milliseconds late the loop may get to a timer       *)

(* A period of less than a millisecond for each receiver comes to 0, and of *)
(* a timer that sets another to run at once the loop keeps the wrong one    *)
(* (EventLoop).                                                             *)
ASSUME AdaptiveTimerAssumption ==
  /\ Receivers \subseteq Nat /\ IsFiniteSet(Receivers) /\ Receivers # {}
  /\ Default \in Periods
  /\ Periods \subseteq {p \in Nat : p >= Cardinality(Receivers)}
  /\ \E p \in Periods : \A q \in Periods : q <= p
  /\ Late \in Nat

VARIABLES
  pc,        (* "loop", or "tick" while a receiver is being called           *)
  timef,     (* the timers set in the loop, but for the one that is running  *)
  timerId,   (* the timer set last, or Unset                                 *)
  period, effPeriod, enabled,
  deviceSet, (* the receivers registered                                     *)
  current,   (* the one to be called next; stale when there is none          *)
  called,    (* the one called last                                          *)
  stopped,   (* history: the receiver being called has stopped the timer     *)
  waiting,   (* history: of each receiver, those registered ever since it was*)
             (* called that have not been                                    *)
  since      (* history: how long ago each was called, or Unsure when the    *)
             (* receivers or the period have changed since                   *)

timerVars == <<timef, timerId>>
setVars   == <<period, effPeriod, enabled, deviceSet, current>>
pastVars  == <<called, waiting, since>>
vars == <<pc, timerVars, setVars, stopped, pastVars>>

Unset == -1
Unsure == -1
Longest == CHOOSE p \in Periods : \A q \in Periods : q <= p

-----------------------------------------------------------------------------
(* Definitions named <Definition>_<Slip> are slips of the pen in the code a *)
(* definition models; the properties are checked to tell them apart.        *)

(* addTimer: no id is given twice while it matters.                         *)
NewId ==
  CHOOSE i \in 0 .. Cardinality(timef) + 1 : i # timerId /\ \A t \in timef : t.tid # i

NewTimer == [tgo |-> effPeriod, tid |-> NewId]

(* rmTimer: an id that is not in the list is ignored.                       *)
Kept == {t \in timef : t.tid # timerId}

First(S) == CHOOSE r \in S : \A s \in S : r <= s

(* next(): the one after r, the first after the last.                       *)
Following_StaysAtEnd(S, r) ==
  LET after == {s \in S : s > r} IN IF after = {} THEN r ELSE First(after)
Following(S, r) ==
  LET after == {s \in S : s > r} IN First(IF after = {} THEN S ELSE after)

(* recalc()                                                                 *)
Share(p, S) == p \div (IF S = {} THEN 1 ELSE Cardinality(S))

Forget == [r \in Receivers |-> Unsure]

Init ==
  /\ pc = "loop" /\ timef = {} /\ timerId = Unset /\ stopped = FALSE
  /\ period = Default /\ effPeriod = Default /\ enabled = TRUE
  /\ deviceSet = {} /\ current = First(Receivers) /\ called = First(Receivers)
  /\ waiting = [r \in Receivers |-> {}] /\ since = Forget

-----------------------------------------------------------------------------
(* What plug-ins do at their turns in the loop, and as receivers called.    *)

Add(r) ==
  /\ deviceSet' = deviceSet \union {r}
  /\ current' = IF Cardinality(deviceSet') = 1 THEN r ELSE current
  /\ effPeriod' = Share(period, deviceSet')
  /\ since' = Forget
  /\ UNCHANGED <<pc, timerVars, period, enabled, stopped, called, waiting>>

(* The receiver whose turn is next goes only when no other is left, as it   *)
(* may in its own turn: what remove() looks at then is not there any more,  *)
(* and it does nothing with what it sees.                                   *)
Remove(r) ==
  /\ r # current \/ deviceSet \subseteq {r}
  /\ deviceSet' = deviceSet \ {r}
  /\ effPeriod' = Share(period, deviceSet')
  /\ waiting' = [s \in Receivers |-> IF s = r THEN {} ELSE waiting[s] \ {r}]
  /\ since' = Forget
  /\ UNCHANGED <<pc, timerVars, period, enabled, current, stopped, called>>

SetPeriod(p) ==
  /\ period' = p /\ effPeriod' = Share(p, deviceSet)
  /\ since' = Forget
  /\ UNCHANGED <<pc, timerVars, enabled, deviceSet, current, stopped, called, waiting>>

Enable(b) ==
  /\ enabled' = b
  /\ UNCHANGED <<pc, timerVars, period, effPeriod, deviceSet, current, stopped, pastVars>>

(* A receiver that stops the timer does not start it in the same turn, so   *)
(* that it is started while a receiver is called to no effect.              *)
Start_Anyway ==
  /\ ~stopped
  /\ timef' = timef \union {NewTimer} /\ timerId' = NewId
  /\ UNCHANGED <<pc, setVars, stopped, pastVars>>
Start ==
  /\ timerId = Unset /\ ~stopped
  /\ timef' = timef \union {NewTimer} /\ timerId' = NewId
  /\ UNCHANGED <<pc, setVars, stopped, pastVars>>

Stop ==
  /\ timerId # Unset
  /\ timef' = Kept /\ timerId' = Unset
  /\ stopped' = (pc = "tick")
  /\ UNCHANGED <<pc, setVars, pastVars>>

PluginCalls ==
  \/ \E r \in Receivers : Add(r) \/ Remove(r)
  \/ \E p \in Periods : SetPeriod(p)
  \/ \E b \in BOOLEAN : Enable(b)
  \/ Start
  \/ Stop

-----------------------------------------------------------------------------
Due(t) == pc = "loop" /\ t.tgo <= 0

(* tick() up to the call of the receiver.                                   *)
Tick ==
  /\ enabled /\ deviceSet # {}
  /\ \E t \in timef : Due(t) /\ timef' = timef \ {t}
  /\ pc' = "tick" /\ called' = current
  /\ current' = Following(deviceSet, current)
  /\ waiting' = [r \in Receivers |->
                   IF r = called' THEN deviceSet \ {r} ELSE waiting[r] \ {called'}]
  /\ since' = [since EXCEPT ![called'] = 0]
  /\ UNCHANGED <<timerId, period, effPeriod, enabled, deviceSet, stopped>>

(* tick() after it: the timer is set again, stopped or not.  When tick() is *)
(* done checkTimer() takes the last entry off its list; if the receiver has *)
(* removed the one that ran, that is another's or the one just set.         *)
TickReturns ==
  /\ pc = "tick" /\ pc' = "loop" /\ stopped' = FALSE
  /\ timef' \in {timef \union {NewTimer}} \union (IF stopped THEN {timef} ELSE {})
  /\ timerId' = NewId
  /\ UNCHANGED <<setVars, pastVars>>

TickIdly ==
  /\ ~(enabled /\ deviceSet # {})
  /\ \E t \in timef : Due(t) /\ timef' = (timef \ {t}) \union {NewTimer}
  /\ timerId' = NewId
  /\ UNCHANGED <<pc, setVars, stopped, pastVars>>

Elapse ==
  /\ \A t \in timef : t.tgo > -Late
  /\ timef' = {[t EXCEPT !.tgo = @ - 1] : t \in timef}
  /\ since' = [r \in Receivers |->
                 IF since[r] = Unsure \/ since[r] = Longest THEN since[r] ELSE since[r] + 1]
  /\ UNCHANGED <<pc, timerId, setVars, stopped, called, waiting>>

Loop == Tick \/ TickReturns \/ TickIdly

Next == PluginCalls \/ Loop \/ Elapse

Spec == Init /\ [][Next]_vars

-----------------------------------------------------------------------------
TypeOK ==
  /\ pc \in {"loop", "tick"} /\ timerId \in Nat \union {Unset} /\ stopped \in BOOLEAN
  /\ timef \subseteq [tgo : Int, tid : Nat]
  /\ period \in Periods /\ effPeriod \in Nat /\ enabled \in BOOLEAN
  /\ deviceSet \subseteq Receivers /\ current \in Receivers /\ called \in Receivers
  /\ waiting \in [Receivers -> SUBSET Receivers]
  /\ since \in [Receivers -> Nat \union {Unsure}]

Calls(r) == pc = "loop" /\ pc' = "tick" /\ called' = r

(* Receivers are called in turn: between two calls of one, every other that *)
(* was registered all along is called, and so once.  (AdaptiveTimer::next)  *)
InTurn == [][\A r \in Receivers : Calls(r) => waiting[r] = {}]_vars

(* No receiver is called twice within a period, but for what is lost in     *)
(* dividing it, by the clock of the loop, however the timer is stopped, in  *)
(* the turn of a receiver too, and started.  (AdaptiveTimer::tick, start)   *)
PeriodKept ==
  [][\A r \in Receivers :
       (Calls(r) /\ since[r] # Unsure)
         => since[r] >= Cardinality(deviceSet) * (period \div Cardinality(deviceSet))]_vars
=============================================================================
