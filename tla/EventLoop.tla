------------------------------ MODULE EventLoop ------------------------------
(***************************************************************************)
(* The single-threaded event loop of common/eventloop.c: file descriptor   *)
(* callbacks, one-shot timers and work procedures, and the loop that       *)
(* dispatches them.                                                        *)
(*                                                                         *)
(* One iteration of oneLoop() is the sequence of steps                     *)
(*     select -> checkTimer [-> inTimer] -> dispatch [-> inCallback or     *)
(*     inWorkProc] -> select                                               *)
(* of the variable pc.  The functions the program registers are unknown to *)
(* the loop: while one runs, it may make any of the API calls that Calls   *)
(* grants to its kind, at most MaxCalls of them, and then returns.  Time   *)
(* passes and descriptors become readable between any two steps.           *)
(*                                                                         *)
(* Slots are the C indices 0 .. n-1 plus one.  A timer keeps its id, its   *)
(* trigger time tgo, and two history fields: when it was registered (at)   *)
(* and with which delay (ms).                                              *)
(***************************************************************************)
EXTENDS Integers, Sequences, FiniteSets

CONSTANTS
  Fds,         (* file descriptors the program may watch                    *)
  Delays,      (* delays, in ms, the program passes to addTimer             *)
  PreLoopTgo,  (* trigger times an addTimer made before eventLoop() may get *)
  Interrupts,  (* whether a signal may interrupt select()                   *)
  Calls,       (* API calls each kind of running function may make          *)
  MaxCalls,    (* bound: API calls of one function invocation               *)
  MaxSlots,    (* bound: entries of cback[] and of wproc[]                  *)
  MaxTimers,   (* bound: calls of addTimer                                  *)
  MaxTime,     (* bound: the clock, in ticks                                *)
  Sub,         (* ticks per millisecond                                     *)
  PerSecond,   (* milliseconds per second                                   *)
  Epoch,       (* the tick of a second at which eventLoop() is called       *)
  IntHalf,     (* 2^(w-1) for an int of w bits                              *)
  CBSize,      (* sizeof(CB)                                                *)
  TFSize       (* sizeof(TF)                                                *)

(* What a function may do while it runs, by the value pc has meanwhile.     *)
Kinds == {"setup", "inTimer", "inCallback", "inWorkProc"}

(* rmSelf is rmTimer on the timer whose function is running.                *)
Ops == {"addCallback", "rmCallback", "addTimer", "rmTimer", "rmSelf",
        "addWorkProc", "rmWorkProc"}

ASSUME EventLoopAssumption ==
  /\ Delays \subseteq Nat
  /\ PreLoopTgo \subseteq Int
  /\ Interrupts \in BOOLEAN
  /\ Calls \in [Kinds -> SUBSET Ops]
  /\ MaxCalls \in Nat /\ MaxSlots \in Nat /\ MaxTimers \in Nat /\ MaxTime \in Nat
  /\ Sub \in Nat \ {0} /\ IntHalf \in Nat \ {0}
  /\ PerSecond \in Nat \ {0} /\ Epoch \in 0 .. PerSecond * Sub - 1
  /\ CBSize \in Nat \ {0} /\ TFSize \in Nat \ {0}

VARIABLES
  now,       (* the system's clock, in ticks since the loop started         *)
  ready,     (* descriptors that can be read without blocking               *)
  pc,        (* where the program is                                        *)
  calls,     (* API calls the running function may still make               *)
  rfd,       (* the descriptors the last select() reported                  *)
  cback, ncbinuse, lastcb,        (* callbacks                              *)
  timef, tid, tbytes,             (* timers; bytes allocated to timef       *)
  wproc, nwpinuse, lastwp,        (* work procedures                        *)
  running,   (* history: id of the timer whose function is running, or 0    *)
  fate       (* history: what became of each timer id                       *)

kernelVars == <<now, ready>>
cbVars     == <<cback, ncbinuse, lastcb>>
timerVars  == <<timef, tid, tbytes, running, fate>>
wpVars     == <<wproc, nwpinuse, lastwp>>
vars == <<kernelVars, pc, calls, rfd, cbVars, timerVars, wpVars>>

-----------------------------------------------------------------------------
(* Definitions named <Definition>_<Slip> are slips of the pen in the code a *)
(* definition models; the properties are checked to tell them apart.        *)

(* An int holds the value modulo 2^w.                                       *)
ToInt(x) == ((x + IntHalf) % (2 * IntHalf)) - IntHalf

(* C's division, by the ticks of a millisecond, is towards zero.            *)
Millis(d) == IF d >= 0 THEN d \div Sub ELSE -((-d) \div Sub)

(* EPOCHDT: the milliseconds since the loop started are the difference of   *)
(* the seconds and that of what is beyond them, each taken by itself, so    *)
(* that they are rounded up where a second is less far gone than at the     *)
(* epoch, and down elsewhere.                                               *)
Elapsed(at) ==
  (at \div (PerSecond * Sub)) * PerSecond + Millis((at % (PerSecond * Sub)) - Epoch)

Clock == ToInt(Elapsed(Epoch + now))

InUse(slots) == {i \in DOMAIN slots : slots[i].in_use}

(* Slot an add call takes: the first unused one, else a new one.            *)
FreeSlot(slots) ==
  CHOOSE i \in 1 .. Len(slots) + 1 :
    /\ i \notin InUse(slots)
    /\ \A j \in 1 .. i - 1 : j \in InUse(slots)

PutSlot(slots, s) ==
  LET k == FreeSlot(slots)
  IN  [i \in 1 .. (IF k > Len(slots) THEN k ELSE Len(slots)) |->
         IF i = k THEN s ELSE slots[i]]

FreedSlot(slots, i) == [slots EXCEPT ![i] = [@ EXCEPT !.in_use = FALSE]]

(* The member of S that a scan of n slots starting after slot last meets    *)
(* first; last is a C index, so slot last + 2 is tried first.               *)
NextInTurn_FromFirstSlot(S, last, n) == CHOOSE i \in S : \A j \in S : i <= j
NextInTurn(S, last, n) ==
  CHOOSE i \in S : \A j \in S : ((i - last - 2) % n) <= ((j - last - 2) % n)

(* Where addTimer's bubble stops: the last entry not due sooner than tgo.   *)
KeepsAhead_Reversed(tf, tgo) == {i \in DOMAIN tf : tf[i].tgo <= tgo}
KeepsAhead(tf, tgo) == {i \in DOMAIN tf : tf[i].tgo >= tgo}
InsertAfter_NoBubble(tf, tgo) == Len(tf)
InsertAfter(tf, tgo) ==
  IF KeepsAhead(tf, tgo) = {} THEN 0
  ELSE CHOOSE i \in KeepsAhead(tf, tgo) : \A j \in KeepsAhead(tf, tgo) : j <= i

Inserted(tf, t) ==
  LET p == InsertAfter(tf, t.tgo)
  IN  [i \in 1 .. Len(tf) + 1 |->
         IF i <= p THEN tf[i] ELSE IF i = p + 1 THEN t ELSE tf[i - 1]]

Shifted_NextEntry(tf, k) ==
  [i \in 1 .. Len(tf) - 1 |-> IF i <= k THEN tf[i] ELSE tf[i + 1]]
Shifted(tf, k) ==
  [i \in 1 .. Len(tf) - 1 |-> IF i < k THEN tf[i] ELSE tf[i + 1]]

(* The list loses its last entry: ntimef--.                                 *)
DropLast(tf) == [i \in 1 .. Len(tf) - 1 |-> tf[i]]

-----------------------------------------------------------------------------
Init ==
  /\ now = 0 /\ ready = {}
  /\ pc = "setup" /\ calls = MaxCalls /\ rfd = {}
  /\ cback = <<>> /\ ncbinuse = 0 /\ lastcb = 0
  /\ timef = <<>> /\ tid = 0 /\ tbytes = 0
  /\ wproc = <<>> /\ nwpinuse = 0 /\ lastwp = 0
  /\ running = 0 /\ fate = <<>>

Halted == pc \in {"spin", "exit", "undefined"}

(* The clock ticks and descriptors become readable at any moment.           *)
Tick ==
  /\ ~Halted /\ pc # "setup" /\ now < MaxTime
  /\ now' = now + 1
  /\ UNCHANGED <<ready, pc, calls, rfd, cbVars, timerVars, wpVars>>

Arrive(fd) ==
  /\ ~Halted /\ fd \notin ready
  /\ ready' = ready \union {fd}
  /\ UNCHANGED <<now, pc, calls, rfd, cbVars, timerVars, wpVars>>

-----------------------------------------------------------------------------
(* The API, called by the program's set-up code or by a running function.   *)

Call(op) ==
  /\ pc \in Kinds /\ op \in Calls[pc] /\ calls > 0
  /\ calls' = calls - 1
  /\ UNCHANGED <<kernelVars, pc, rfd>>

AddCallback(fd) ==
  /\ Call("addCallback")
  /\ FreeSlot(cback) <= MaxSlots
  /\ cback' = PutSlot(cback, [in_use |-> TRUE, fd |-> fd])
  /\ ncbinuse' = ncbinuse + 1
  /\ UNCHANGED <<lastcb, timerVars, wpVars>>

RmCallback_RangeCheckOnly(cid) ==
  /\ Call("rmCallback")
  /\ IF cid \in DOMAIN cback
     THEN /\ cback' = FreedSlot(cback, cid)
          /\ ncbinuse' = ncbinuse - 1
     ELSE UNCHANGED <<cback, ncbinuse>>
  /\ UNCHANGED <<lastcb, timerVars, wpVars>>

(* An id that is out of range or not in use is ignored.                     *)
RmCallback(cid) ==
  /\ Call("rmCallback")
  /\ IF cid \in InUse(cback)
     THEN /\ cback' = FreedSlot(cback, cid)
          /\ ncbinuse' = ncbinuse - 1
     ELSE UNCHANGED <<cback, ncbinuse>>
  /\ UNCHANGED <<lastcb, timerVars, wpVars>>

(* Before eventLoop() sets the epoch, EPOCHDT is an arbitrary int.          *)
TriggerTimes(ms) == IF pc = "setup" THEN PreLoopTgo ELSE {ToInt(Clock + ms)}

NewTimer(tgo, ms) == [tgo |-> tgo, tid |-> tid + 1, at |-> now, ms |-> ms]

GrownBytes == (Len(timef) + 1) * TFSize

AddTimer(ms) ==
  /\ Call("addTimer")
  /\ tid < MaxTimers
  /\ now + ms * Sub <= MaxTime
  /\ \E tgo \in TriggerTimes(ms) : timef' = Inserted(timef, NewTimer(tgo, ms))
  /\ tid' = tid + 1
  /\ tbytes' = GrownBytes
  /\ fate' = Append(fate, "pending")
  /\ UNCHANGED <<running, cbVars, wpVars>>

(* An id that is not in the list is ignored.                                *)
RmTimer(id) ==
  /\ Call(IF id = running THEN "rmSelf" ELSE "rmTimer")
  /\ \/ \E k \in DOMAIN timef :
          /\ timef[k].tid = id
          /\ timef' = Shifted(timef, k)
          /\ tbytes' = (Len(timef) - 1) * CBSize
          /\ fate' = [fate EXCEPT ![id] = IF @ = "pending" THEN "cancelled" ELSE @]
     \/ /\ \A k \in DOMAIN timef : timef[k].tid # id
        /\ UNCHANGED <<timef, tbytes, fate>>
  /\ UNCHANGED <<tid, running, cbVars, wpVars>>

AddWorkProc ==
  /\ Call("addWorkProc")
  /\ FreeSlot(wproc) <= MaxSlots
  /\ wproc' = PutSlot(wproc, [in_use |-> TRUE])
  /\ nwpinuse' = nwpinuse + 1
  /\ UNCHANGED <<lastwp, cbVars, timerVars>>

RmWorkProc(wid) ==
  /\ Call("rmWorkProc")
  /\ IF wid \in InUse(wproc)
     THEN /\ wproc' = FreedSlot(wproc, wid)
          /\ nwpinuse' = nwpinuse - 1
     ELSE UNCHANGED <<wproc, nwpinuse>>
  /\ UNCHANGED <<lastwp, cbVars, timerVars>>

-----------------------------------------------------------------------------
(* eventLoop() and oneLoop().                                               *)

StartLoop ==
  /\ pc = "setup"
  /\ pc' = "select" /\ calls' = 0
  /\ UNCHANGED <<kernelVars, rfd, cbVars, timerVars, wpVars>>

Watched_AllSlots == {cback[i].fd : i \in DOMAIN cback}
Watched == {cback[i].fd : i \in InUse(cback)}

(* select() waits for a watched descriptor; not at all with work procedures *)
(* registered, else until the soonest timer is due, else for ever.          *)
TimedOut_TimersIgnored == nwpinuse > 0
TimedOut ==
  \/ nwpinuse > 0
  \/ timef # <<>> /\ ToInt(timef[Len(timef)].tgo - Clock) <= 0

Select ==
  /\ pc = "select"
  /\ Watched \intersect ready # {} \/ TimedOut
  /\ rfd' = Watched \intersect ready
  /\ pc' = "checkTimer"
  /\ UNCHANGED <<kernelVars, calls, cbVars, timerVars, wpVars>>

(* perror("select"); exit(1)                                                *)
SelectFails ==
  /\ pc = "select" /\ Interrupts
  /\ pc' = "exit"
  /\ UNCHANGED <<kernelVars, calls, rfd, cbVars, timerVars, wpVars>>

TimerDue_Early == timef # <<>> /\ timef[Len(timef)].tgo <= Clock + 1
TimerDue == timef # <<>> /\ timef[Len(timef)].tgo <= Clock

NoTimerDue ==
  /\ pc = "checkTimer" /\ ~TimerDue
  /\ pc' = "dispatch"
  /\ UNCHANGED <<kernelVars, calls, rfd, cbVars, timerVars, wpVars>>

FireTimer ==
  /\ pc = "checkTimer" /\ TimerDue
  /\ pc' = "inTimer" /\ calls' = MaxCalls
  /\ LET id == timef[Len(timef)].tid
     IN  /\ running' = id
         /\ fate' = [fate EXCEPT ![id] = IF @ = "pending" THEN "fired" ELSE "again"]
  /\ UNCHANGED <<kernelVars, rfd, cbVars, timef, tid, tbytes, wpVars>>

(* The entry dropped is the last one of the list the function has left,     *)
(* "we assume it didn't remove itself"; dropping from an empty list makes   *)
(* the length -1 and every later use of the list undefined.                 *)
TimerReturns ==
  /\ pc = "inTimer"
  /\ pc' = IF timef = <<>> THEN "undefined" ELSE "dispatch"
  /\ timef' = DropLast(timef)
  /\ running' = 0 /\ calls' = 0
  /\ UNCHANGED <<kernelVars, rfd, cbVars, tid, tbytes, fate, wpVars>>

(* Nothing is registered for what select() reported.                        *)
SkipDispatch ==
  /\ pc = "dispatch"
  /\ (IF rfd = {} THEN nwpinuse ELSE ncbinuse) = 0
  /\ pc' = "select" /\ rfd' = {}
  /\ UNCHANGED <<kernelVars, calls, cbVars, timerVars, wpVars>>

RunWorkProc ==
  /\ pc = "dispatch" /\ rfd = {} /\ nwpinuse > 0
  /\ lastwp' = NextInTurn(InUse(wproc), lastwp, Len(wproc)) - 1
  /\ pc' = "inWorkProc" /\ calls' = MaxCalls
  /\ UNCHANGED <<kernelVars, rfd, cbVars, timerVars, wproc, nwpinuse>>

Callable == {i \in InUse(cback) : cback[i].fd \in rfd}

(* The function reads its descriptor, and may leave more to be read.  If    *)
(* there is no slot to stop at, the scan for one never ends.                *)
CallCallback ==
  /\ pc = "dispatch" /\ rfd # {} /\ ncbinuse > 0
  /\ IF Callable = {}
     THEN pc' = "spin" /\ UNCHANGED <<lastcb, ready, calls, rfd>>
     ELSE /\ LET i == NextInTurn(Callable, lastcb, Len(cback))
             IN  /\ lastcb' = i - 1
                 /\ ready' \in {ready, ready \ {cback[i].fd}}
          /\ pc' = "inCallback" /\ calls' = MaxCalls /\ rfd' = {}
  /\ UNCHANGED <<now, cback, ncbinuse, timerVars, wpVars>>

FunctionReturns ==
  /\ pc \in {"inCallback", "inWorkProc"}
  /\ pc' = "select" /\ calls' = 0
  /\ UNCHANGED <<kernelVars, rfd, cbVars, timerVars, wpVars>>

-----------------------------------------------------------------------------
Api ==
  \/ \E fd \in Fds : AddCallback(fd)
  \/ \E cid \in 1 .. MaxSlots : RmCallback(cid)
  \/ \E ms \in Delays : AddTimer(ms)
  \/ \E id \in 1 .. tid : RmTimer(id)
  \/ AddWorkProc
  \/ \E wid \in 1 .. MaxSlots : RmWorkProc(wid)

Proceed ==
  \/ StartLoop \/ Select \/ NoTimerDue \/ FireTimer \/ TimerReturns
  \/ SkipDispatch \/ RunWorkProc \/ CallCallback
  \/ FunctionReturns

Loop == Proceed \/ SelectFails

Next ==
  \/ Tick
  \/ \E fd \in Fds : Arrive(fd)
  \/ Api
  \/ Loop

Spec == Init /\ [][Next]_vars

(* The clock ticks, and the one thread runs whenever it can: functions      *)
(* return, and select() returns once it may.  Signals need not come.        *)
FairSpec == Spec /\ WF_vars(Tick) /\ WF_vars(Proceed)

-----------------------------------------------------------------------------
Slots   == [in_use : BOOLEAN, fd : Fds]
WpSlots == [in_use : BOOLEAN]
Timers  == [tgo : Int, tid : Nat \ {0}, at : Nat, ms : Delays]
Fates   == {"pending", "fired", "again", "cancelled"}

(* Every variable has the type its C declaration gives it.                  *)
TypeOK ==
  /\ now \in Nat /\ ready \subseteq Fds
  /\ pc \in Kinds \union {"select", "checkTimer", "dispatch",
                          "spin", "exit", "undefined"}
  /\ calls \in 0 .. MaxCalls /\ rfd \subseteq Fds
  /\ cback \in Seq(Slots) /\ ncbinuse \in Int /\ lastcb \in Nat
  /\ timef \in Seq(Timers) /\ tid \in Nat /\ tbytes \in Nat
  /\ wproc \in Seq(WpSlots) /\ nwpinuse \in Int /\ lastwp \in Nat
  /\ running \in Nat
  /\ fate \in Seq(Fates) /\ Len(fate) = tid

(* ncbinuse and nwpinuse, on which select()'s timeout and both dispatchers  *)
(* rely, count the slots in use whatever ids, valid or stale, the           *)
(* program passes to rmCallback() and rmWorkProc().                         *)
CountsAgree ==
  /\ ncbinuse = Cardinality(InUse(cback))
  /\ nwpinuse = Cardinality(InUse(wproc))

(* timef[] is in order of decreasing trigger time, which is what lets       *)
(* checkTimer() and select()'s timeout look at its last entry only.         *)
TimersSorted ==
  \A i, j \in DOMAIN timef : i < j => timef[i].tgo >= timef[j].tgo

Pending == {id \in DOMAIN fate : fate[id] = "pending"}

(* No registration is lost or doubled: the ids still to run are in the list,*)
(* each once, and the list holds no other id but the running one's.         *)
PendingListed ==
  /\ \A i, j \in DOMAIN timef : timef[i].tid = timef[j].tid => i = j
  /\ {timef[k].tid : k \in DOMAIN timef} \ {running}
       = Pending

(* callCallback()'s scan always finds a slot: the program never hangs in it.*)
NeverSpins == pc # "spin"

(* Timers run "no sooner than a specified delay from the moment they were   *)
(* registered", says eventloop.c:26.  It is not quite so.                   *)
NoSooner ==
  [][FireTimer => LET t == timef[Len(timef)] IN now >= t.at + t.ms * Sub]_vars

(* What the millisecond clock makes of that: it may be behind by less than  *)
(* a millisecond when a timer is registered, and ahead by less than one     *)
(* when it runs, so that a timer runs less than two too soon.               *)
NoSoonerByTwo ==
  [][FireTimer => LET t == timef[Len(timef)] IN now > t.at + (t.ms - 2) * Sub]_vars

-----------------------------------------------------------------------------
(* The timers to run, as the abstract timer service has them.               *)
InService ==
  {[id |-> timef[k].tid, due |-> timef[k].tgo] :
     k \in {k \in DOMAIN timef : timef[k].tid # running}}

TS == INSTANCE TimerService WITH
        clock <- Clock, lastId <- tid, pending <- InService

(* addTimer, rmTimer and checkTimer together are the abstract timer service:*)
(* once at most, never before the trigger time, soonest first.              *)
ImplementsTimerService == TS!Spec

-----------------------------------------------------------------------------
(* Every timer registered runs or is removed, however many others there are *)
(* and whatever the descriptors do, unless a failed select() ends the loop. *)
TimersRun ==
  \A id \in 1 .. MaxTimers : id \in Pending ~> (id \notin Pending \/ pc = "exit")

Waiting == {c \in InUse(cback) : cback[c].fd \in ready}

(* Round robin: a callback in use whose descriptor stays readable is called,*)
(* even if the other descriptors never cease to be readable.                *)
CallbacksServed ==
  \A c \in 1 .. MaxSlots :
    c \in Waiting ~> (c \notin Waiting \/ (pc = "inCallback" /\ lastcb = c - 1))

FoundIdle == pc = "dispatch" /\ rfd = {}

(* Work procedures take turns in what time the descriptors leave them: a    *)
(* work procedure in use is run, however busy the descriptors are between,  *)
(* unless from some time on select() never finds them all idle.             *)
WorkProcsServed ==
  \A w \in 1 .. MaxSlots :
    <>[]~FoundIdle \/
    (w \in InUse(wproc) ~> (w \notin InUse(wproc) \/ (pc = "inWorkProc" /\ lastwp = w - 1)))

(* Each kind is served in turn, by the same scan from the one after the     *)
(* last.                                                                    *)
TakeTurns == CallbacksServed /\ WorkProcsServed
=============================================================================
