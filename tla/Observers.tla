----------------------------- MODULE Observers -----------------------------
(***************************************************************************)
(* Devices that observe the property vectors of others (items/propvector,  *)
(* items/device.cpp).  A change calls no observer: it writes an event to a *)
(* pipe that the same thread reads when the event loop gets to it, and it  *)
(* is then that the list of the vector's observers is walked and each is   *)
(* called, with whatever the vector holds by then.                         *)
(*                                                                         *)
(* Vectors are changed by plug-ins, at their turns in the loop and in the  *)
(* calls they get as observers.  The lists are those the relationships say *)
(* (DriverStart); plug-ins may take a device off one.                      *)
(***************************************************************************)
EXTENDS Integers, Sequences, FiniteSets, SequencesExt

CONSTANTS
  Devices,
  Held,          (* the vectors of each device, in the order of their names  *)
  Kind,          (* of each vector                                           *)
  Members,       (* how many switches a switch vector has                    *)
  Data, Initial, (* what a vector may hold, or be in the state of            *)
  Lists,         (* the observers of each vector and topic, first to last    *)
  Implemented,   (* the devices that have a plug-in                          *)
  Reacts,        (* the vectors that each plug-in may set when it is called  *)
  Leavers,       (* the devices plug-ins take off lists, and off which       *)
  Capacity,      (* how many events the pipe holds                           *)
  Calm           (* so many wait when plug-ins change nothing at their turns *)

Topics == {"value", "state"}
Vectors == DOMAIN Kind
Keys == Vectors \X Topics

ASSUME ObserversAssumption ==
  /\ Kind \in [Vectors -> {"text", "number", "switch", "light", "blob"}]
  /\ Held \in [Devices -> Seq(Vectors)] /\ Lists \in [Keys -> Seq(Devices)]
  /\ Implemented \subseteq Devices
  /\ Reacts \in [Devices -> SUBSET {v \in Vectors : Kind[v] # "blob"}]
  /\ Initial \in Data /\ Leavers \subseteq Devices \X Keys /\ Vectors # {}
  /\ Members \in Nat /\ Capacity \in Nat /\ Calm \in Nat

VARIABLES
  pc,        (* "loop", "notify" while a list is walked, or "blocked"        *)
  datum,     (* what each vector holds and what state it is in               *)
  observers, (* the lists                                                    *)
  pipe,      (* the events written and not read                              *)
  topic,     (* the vector and topic whose list is walked                    *)
  left,      (* the observers on it yet to be called                         *)
  told,      (* history: what each observer last found there                 *)
  fresh      (* history: the vectors and topics whose last change was one    *)
             (* that tells observers                                         *)

vars == <<pc, datum, observers, pipe, topic, left, told, fresh>>

NotYet == -1

-----------------------------------------------------------------------------
(* Definitions named <Definition>_<Slip> are slips of the pen in the code a *)
(* definition models; the properties are checked to tell them apart.        *)

Init ==
  /\ pc = "loop" /\ datum = [k \in Keys |-> Initial] /\ observers = Lists
  /\ pipe = <<>> /\ topic = (CHOOSE k \in Keys : TRUE) /\ left = <<>>
  /\ told = [d \in Devices |-> [k \in Keys |-> NotYet]] /\ fresh = {}

(* generateEvent: nothing for nobody.  A write to a full pipe never returns:*)
(* the thread that would read it is the one that waits.                     *)
Store == [datum |-> datum, pipe |-> pipe, fresh |-> fresh, blocked |-> FALSE]

GenerateEvent_OncePerVector(s, k) ==
  IF observers[k] = <<>> \/ \E i \in DOMAIN s.pipe : s.pipe[i][1] = k[1] THEN s
  ELSE IF Len(s.pipe) = Capacity THEN [s EXCEPT !.blocked = TRUE]
  ELSE [s EXCEPT !.pipe = Append(@, k)]
GenerateEvent(s, k) ==
  IF observers[k] = <<>> THEN s
  ELSE IF Len(s.pipe) = Capacity THEN [s EXCEPT !.blocked = TRUE]
  ELSE [s EXCEPT !.pipe = Append(@, k)]

Change(s, k, x) ==
  IF s.blocked THEN s
  ELSE GenerateEvent([s EXCEPT !.datum[k] = x, !.fresh = @ \union {k}], k)

(* setValue of one member, but of a BLOB vector's, and of every switch.     *)
SetValue_AllTopics(s, v, x) ==
  GenerateEvent(Change(s, <<v, "value">>, x), <<v, "state">>)
SetValue(s, v, x) == Change(s, <<v, "value">>, x)
AllSwitches(s, v, x) ==
  LET set[n \in 0 .. Members] == IF n = 0 THEN s ELSE SetValue(set[n - 1], v, x)
  IN  set[Members]

(* setValue of a BLOB, and idle(), ok(), busy() and alert() of all lights,  *)
(* tell no observer.                                                        *)
SetSilently(s, v, x) == [s EXCEPT !.datum[<<v, "value">>] = x, !.fresh = @ \ {<<v, "value">>}]

(* setState, of a vector and of all a device has.                           *)
SetState(s, v, x) == Change(s, <<v, "state">>, x)
Status(s, d, x) ==
  LET set[n \in 0 .. Len(Held[d])] == IF n = 0 THEN s ELSE SetState(set[n - 1], Held[d][n], x)
  IN  set[Len(Held[d])]

Becomes(s) ==
  /\ datum' = s.datum /\ pipe' = s.pipe /\ fresh' = s.fresh

-----------------------------------------------------------------------------
(* A plug-in's turn in the loop.                                            *)
Turn(s) ==
  /\ Becomes(s)
  /\ pc' = IF s.blocked THEN "blocked" ELSE pc
  /\ UNCHANGED <<observers, topic, left, told>>

AtLeisure == pc = "loop" /\ Len(pipe) < Calm

PluginSetsValue ==
  AtLeisure /\ \E v \in Vectors, x \in Data :
    Kind[v] # "blob" /\ Turn(SetValue(Store, v, x))

PluginSetsSwitches ==
  AtLeisure /\ \E v \in Vectors, x \in Data :
    Kind[v] = "switch" /\ Turn(AllSwitches(Store, v, x))

PluginSetsSilently ==
  AtLeisure /\ \E v \in Vectors, x \in Data :
    Kind[v] \in {"light", "blob"} /\ Turn(SetSilently(Store, v, x))

PluginSetsState ==
  AtLeisure /\ \E v \in Vectors, x \in Data : Turn(SetState(Store, v, x))

PluginSetsStatus ==
  AtLeisure /\ \E d \in Devices, x \in Data : Turn(Status(Store, d, x))

(* removeObserver takes every mention of a device off a list, at a turn or  *)
(* while it is walked, when it is not the one being called.                 *)
Without(q, d) ==
  LET without[n \in 0 .. Len(q)] ==
        IF n = 0 THEN <<>>
        ELSE IF q[n] = d THEN without[n - 1] ELSE Append(without[n - 1], q[n])
  IN  without[Len(q)]

RemoveObserver(d, k) ==
  /\ pc \in {"loop", "notify"} /\ d \in ToSet(observers[k])
  /\ observers' = [observers EXCEPT ![k] = Without(@, d)]
  /\ left' = IF k = topic THEN Without(left, d) ELSE left
  /\ UNCHANGED <<pc, datum, pipe, topic, told, fresh>>

-----------------------------------------------------------------------------
(* PipeEventSource::changed: one event is read and its list is walked.      *)
ReadEvent_Drains ==
  /\ pc = "loop" /\ pipe # <<>>
  /\ pipe' = <<>>
  /\ topic' = Head(pipe) /\ left' = observers[Head(pipe)]
  /\ pc' = "notify"
  /\ UNCHANGED <<datum, observers, told, fresh>>
ReadEvent ==
  /\ pc = "loop" /\ pipe # <<>>
  /\ pipe' = Tail(pipe)
  /\ topic' = Head(pipe) /\ left' = observers[Head(pipe)]
  /\ pc' = "notify"
  /\ UNCHANGED <<datum, observers, told, fresh>>

(* Device::update: a device without a plug-in takes no notice; a plug-in    *)
(* looks at the vector and may set one of its own.                          *)
Reactions(d) ==
  {Store} \union
    IF d \in Implemented THEN {SetValue(Store, v, x) : v \in Reacts[d], x \in Data} ELSE {}

Update ==
  /\ pc = "notify" /\ left # <<>>
  /\ \E s \in Reactions(Head(left)) :
       /\ Becomes(s)
       /\ pc' = IF s.blocked THEN "blocked" ELSE pc
  /\ told' = IF Head(left) \in Implemented
             THEN [told EXCEPT ![Head(left)][topic] = datum[topic]] ELSE told
  /\ left' = Tail(left)
  /\ UNCHANGED <<observers, topic>>

EndNotify ==
  /\ pc = "notify" /\ left = <<>>
  /\ pc' = "loop"
  /\ UNCHANGED <<datum, observers, pipe, topic, left, told, fresh>>

-----------------------------------------------------------------------------
Next ==
  \/ PluginSetsValue
  \/ PluginSetsSwitches
  \/ PluginSetsSilently
  \/ PluginSetsState
  \/ PluginSetsStatus
  \/ \E l \in Leavers : RemoveObserver(l[1], l[2])
  \/ ReadEvent
  \/ Update
  \/ EndNotify

(* The loop gets to the pipe, and a walk goes on by itself.                 *)
Spec == Init /\ [][Next]_vars /\ WF_vars(ReadEvent) /\ WF_vars(Update) /\ WF_vars(EndNotify)

-----------------------------------------------------------------------------
TypeOK ==
  /\ pc \in {"loop", "notify", "blocked"}
  /\ datum \in [Keys -> Data] /\ observers \in [Keys -> Seq(Devices)]
  /\ pipe \in Seq(Keys) /\ Len(pipe) <= Capacity
  /\ topic \in Keys /\ left \in Seq(Devices) /\ (pc = "loop" => left = <<>>)
  /\ told \in [Devices -> [Keys -> Data \union {NotYet}]] /\ fresh \subseteq Keys

(* An observer of what last changed with an event has found it as it is, or *)
(* will: an event is on its way, or its list is being walked and it has not *)
(* been called.  (PropertyVector::generateEvent, notifyValueChange)         *)
Owed(d, k) == k \in ToSet(pipe) \/ (pc # "loop" /\ topic = k /\ d \in ToSet(left))

SeenOrOwed ==
  \A k \in fresh : \A d \in ToSet(observers[k]) \intersect Implemented :
    told[d][k] = datum[k] \/ Owed(d, k)

(* The driver never waits on its own pipe, if plug-ins change nothing at    *)
(* their turns while Calm events wait.  (PipeEventSource::generate)         *)
NeverBlocked == pc # "blocked"

(* An observer that has not found out about a change does.                  *)
(* (PipeEventSource::changed, Device::update)                               *)
EveryObserverTold ==
  \A d \in Implemented, k \in {l \in Keys : Lists[l] # <<>>} :
    (k \in fresh /\ d \in ToSet(observers[k]))
      ~> (told[d][k] = datum[k] \/ k \notin fresh \/ d \notin ToSet(observers[k])
            \/ pc = "blocked")
=============================================================================
