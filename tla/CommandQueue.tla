---------------------------- MODULE CommandQueue ----------------------------
(***************************************************************************)
(* The queue of commands a driver sends to its COR device: CORQueue, the   *)
(* QCommands in it with their AlarmImp deadlines, and the MacroCommands    *)
(* some of them decorate (directory resources).                            *)
(*                                                                         *)
(* At most the command at the front has been sent.  It leaves the queue    *)
(* when the device has answered all its steps or when its alarm goes off,  *)
(* and the commands behind it are sent until one needs an answer.          *)
(* The delegates are external: while it handles a response or a timeout, a *)
(* delegate may add one command to the queue.                              *)
(***************************************************************************)
EXTENDS Integers, Sequences, FiniteSets

CONSTANTS
  Commands,    (* the QCommand objects                                      *)
  Steps,       (* Steps[c][i]: whether step i of c needs an answer          *)
  Macro,       (* the commands whose delegate is a MacroCommand             *)
  OnResponse,  (* OnResponse[c]: commands c's delegate may add in response() *)
  OnTimeout    (* OnTimeout[c]: commands c's delegate may add in timeout()   *)

ASSUME CommandQueueAssumption ==
  /\ Steps \in [Commands -> Seq(BOOLEAN)]
  /\ Macro \subseteq Commands
  /\ OnResponse \in [Commands -> SUBSET Commands]
  /\ OnTimeout \in [Commands -> SUBSET Commands]

VARIABLES
  queue,   (* cmdList                                                       *)
  at,      (* the step c awaits an answer for, 0 when it is not busy        *)
  alarm,   (* the commands with alarmId # -1                                *)
  armed,   (* the commands with a timer in the event loop                   *)
  failed,  (* an assertion failed, and the program with it                  *)
  cleared, (* history: clear() was called                                   *)
  retried  (* history: the command in front, if its delegate put it there   *)
           (* when it timed out                                             *)

vars == <<queue, at, alarm, armed, failed, cleared, retried>>

-----------------------------------------------------------------------------
(* Definitions named <Definition>_<Slip> are slips of the pen in the code a *)
(* definition models; the properties are checked to tell them apart.        *)

Members(q) == {q[i] : i \in DOMAIN q}

(* The first step of c after step i that needs an answer, 0 if none does.   *)
NextStep(c, i) ==
  LET waits == {j \in DOMAIN Steps[c] : j > i /\ Steps[c][j]}
  IN  IF waits = {} THEN 0 ELSE CHOOSE j \in waits : \A k \in waits : j <= k

(* request() leaves the command busy.                                       *)
Waits(c) == NextStep(c, 0) # 0

(* Commands are requested from the front until one is left busy.            *)
FirstWaiting(q) ==
  CHOOSE i \in 1 .. Len(q) + 1 :
    /\ i <= Len(q) => Waits(q[i])
    /\ \A j \in 1 .. i - 1 : ~Waits(q[j])
Run_KeepsFront(q) == q
Run(q) == SubSeq(q, FirstWaiting(q), Len(q))

(* add(d): duplicates are refused; into an empty queue, d is sent at once.  *)
Added_AtFront(q, d) ==
  IF d \in Members(q) THEN q ELSE Run(<<d>> \o q)
Added(q, d) ==
  IF d \in Members(q) THEN q
  ELSE IF q = <<>> THEN Run(<<d>>)
  ELSE Append(q, d)

(* What a handler of the delegate adds: nothing, or one of choice.          *)
Extended(q, choice) == {q} \union {Added(q, d) : d \in choice}

Front(q) == IF q = <<>> THEN {} ELSE {q[1]}

(* The commands sent while the queue changes to q: all but the front one    *)
(* needed no answer.  A macro restarts from its first step.                 *)
Sent(steps, q) ==
  [c \in Commands |-> IF c \in Front(q) THEN NextStep(c, 0) ELSE steps[c]]

(* AlarmImp::start, which does nothing while alarmId is set.                *)
Started(q, set) == Front(q) \ set

-----------------------------------------------------------------------------
Init ==
  /\ queue = <<>> /\ at = [c \in Commands |-> 0]
  /\ alarm = {} /\ armed = {} /\ failed = FALSE /\ cleared = FALSE
  /\ retried = {}

(* CORQueue::add, called by the driver.                                     *)
Add(d) ==
  /\ ~failed
  /\ queue' = Added(queue, d)
  /\ IF queue = <<>>
     THEN /\ at' = Sent(at, queue')
          /\ armed' = armed \union Started(queue', alarm)
          /\ alarm' = alarm \union Front(queue')
     ELSE UNCHANGED <<at, armed, alarm>>
  /\ UNCHANGED <<failed, cleared, retried>>

(* MacroCommand::handle, the step answered not the last: the next ones are  *)
(* requested.  The step's response() may add a command behind this one.     *)
AnswerStep ==
  /\ ~failed /\ queue # <<>>
  /\ LET c == Head(queue)
     IN  /\ NextStep(c, at[c]) # 0
         /\ at' = [at EXCEPT ![c] = NextStep(c, @)]
         /\ queue' \in Extended(queue, OnResponse[c])
  /\ UNCHANGED <<alarm, armed, failed, cleared, retried>>

(* AlarmImp::cancel removes the timer and resets alarmId; AlarmImp::timeout *)
(* resets alarmId of the timer that went off.                               *)
Cancelled(set, c) == set \ {c}
Expired_StillSet(set, c) == set
Expired(set, c) == set \ {c}

(* QCommand::response: the command completely answered, its alarm cancelled,*)
(* it leaves the queue, the next ones are sent, and then its delegate       *)
(* handles the response.                                                    *)
Answer ==
  /\ ~failed /\ queue # <<>>
  /\ LET c == Head(queue)
     IN  /\ NextStep(c, at[c]) = 0
         /\ queue' \in Extended(Run(Tail(queue)), OnResponse[c])
         /\ at' = Sent([at EXCEPT ![c] = 0], queue')
         /\ armed' = Cancelled(armed, c) \union Started(queue', Cancelled(alarm, c))
         /\ alarm' = Cancelled(alarm, c) \union Front(queue')
  /\ retried' = {}
  /\ UNCHANGED <<failed, cleared>>

(* AlarmImp::timeout and QCommand::timeout: the command, which remove()     *)
(* asserts to be the front one, leaves the queue, the next ones are sent,   *)
(* then its delegate handles the timeout, and only then is alarmId reset.   *)
(* A MacroCommand forwards the timeout and remembers the step it waits for. *)
Timeout(c) ==
  /\ ~failed /\ c \in armed
  /\ IF c \in Front(queue)
     THEN /\ queue' \in Extended(Run(Tail(queue)), OnTimeout[c])
          /\ at' = Sent([at EXCEPT ![c] = IF c \in Macro THEN @ ELSE 0], queue')
          /\ armed' = (armed \ {c}) \union Started(queue', alarm)
          /\ alarm' = Expired(alarm \union Front(queue'), c)
          /\ retried' = IF queue' = <<c>> THEN {c} ELSE {}
          /\ UNCHANGED failed
     ELSE /\ failed' = TRUE
          /\ UNCHANGED <<queue, at, armed, alarm, retried>>
  /\ UNCHANGED cleared

(* CORQueue::clear: the alarms stay.                                        *)
Clear ==
  /\ ~failed
  /\ queue' = <<>> /\ cleared' = TRUE /\ retried' = {}
  /\ UNCHANGED <<at, alarm, armed, failed>>

Next ==
  \/ \E d \in Commands : Add(d)
  \/ AnswerStep
  \/ Answer
  \/ \E c \in Commands : Timeout(c)
  \/ Clear

Spec == Init /\ [][Next]_vars

(* Every timer in the event loop runs: TimersRun of module EventLoop.  The  *)
(* device may never answer and the driver may never add another command.    *)
FairSpec == Spec /\ \A c \in Commands : WF_vars(Timeout(c))

-----------------------------------------------------------------------------
TypeOK ==
  /\ queue \in Seq(Commands)
  /\ at \in [Commands -> Nat]
  /\ \A c \in Commands : at[c] \in 0 .. Len(Steps[c])
  /\ alarm \subseteq Commands /\ armed \subseteq Commands
  /\ failed \in BOOLEAN /\ cleared \in BOOLEAN
  /\ retried \subseteq Front(queue)

(* A command is in the queue at most once, so that the answer or timeout of *)
(* one never stands for another.                                            *)
NoDuplicates ==
  \A i, j \in DOMAIN queue : queue[i] = queue[j] => i = j

(* "generates timeouts if the response from COR is not complete"           *)
(* (qcommand.h:38), whatever a delegate does in timeout(), where it may     *)
(* "enqueue itself again" (qcommand.h:113): the command the queue waits for *)
(* has a deadline.  It is so but for what the next property excepts.        *)
FrontHasDeadline == \A c \in Front(queue) : c \in armed

(* The command the queue waits for is busy, and has a deadline but in one   *)
(* case: it had timed out with nothing behind it and its delegate added it  *)
(* again.  One added again behind others has one when its turn comes.       *)
(* (AlarmImp::start, AlarmImp::timeout)                                     *)
DeadlineUnlessRetried == \A c \in Front(queue) : at[c] # 0 /\ c \in armed \union retried

(* No other command has one: a deadline left over from an answered or       *)
(* removed command would cut a later request short.  clear() leaves one.    *)
NoStaleDeadline == cleared \/ armed \subseteq Front(queue)

(* alarmId says whether there is a timer to remove.                         *)
AlarmsKnown == alarm = armed

(* assert(cmd == cmdList.front()) in remove(): a timeout finds its command  *)
(* in front, but for one that clear() left without its command.             *)
AssertHolds == failed => cleared

(* First come, first served: whatever the handlers add, commands leave in   *)
(* the order they came, those that need an answer one at a time.            *)
FirstComeFirstServed ==
  [][\/ Clear
     \/ \E k \in 0 .. Len(queue) : \E t \in {<<>>} \union {<<d>> : d \in Commands} :
          /\ queue' = SubSeq(queue, k + 1, Len(queue)) \o t
          /\ \A j \in 2 .. k : ~Waits(queue[j])]_vars

(* Every command that needs an answer gets its turn, whether or not those  *)
(* ahead of it are answered; unless the queue is stuck for good behind one  *)
(* its delegate added again.                                                *)
EveryCommandSent ==
  \A c \in {d \in Commands : Waits(d)} :
    c \in Members(queue) ~> (c \in Front(queue) \/ cleared \/ [](retried # {}))
=============================================================================
