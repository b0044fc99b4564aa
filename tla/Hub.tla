--------------------------------- MODULE Hub ---------------------------------
(***************************************************************************)
(* What the plug-ins of a driver share: the timer that calls each in turn  *)
(* (AdaptiveTimer) and the link to the COR (UDPLink).  They send when they *)
(* are called, by the timer or because something came for them.            *)
(***************************************************************************)
EXTENDS AdaptiveTimer, UDPLink

ASSUME HubAssumption == Plugins \subseteq Receivers

VARIABLES
  hearer,    (* the plug-in that handle() calls, or Nobody                   *)
  aborted    (* the assertion of sendMessage() has failed                    *)

hubVars == <<vars, linkVars, hearer, aborted>>

HubInit == Init /\ LinkInit /\ hearer = Nobody /\ aborted = FALSE

-----------------------------------------------------------------------------
(* The plug-in that is being called.                                        *)
Busy ==
  IF hearer # Nobody THEN {hearer} ELSE IF pc = "tick" THEN {called} \intersect Plugins ELSE {}

TimerStep(A) == ~aborted /\ A /\ UNCHANGED <<linkVars, hearer, aborted>>
LinkStep == ~aborted /\ UNCHANGED vars

PluginSetsPeer ==
  /\ LinkStep /\ Busy # {}
  /\ \E p \in Peers : SetPeer(p)
  /\ UNCHANGED <<callbackMap, air, hearer, aborted>>

(* sendMessage() of a plug-in called once there is an address to send to.   *)
PluginSends ==
  /\ LinkStep /\ peer # "none"
  /\ \E p \in Busy :
       /\ Cardinality(Sent(Uses[p])) <= MaxAir
       /\ air' = IF Refused THEN air ELSE Sent(Uses[p])
  /\ aborted' = Refused
  /\ UNCHANGED <<peer, broadcast, callbackMap, hearer>>

PluginRegisters ==
  /\ LinkStep
  /\ \E p \in Plugins : callbackMap' = Registered(p)
  /\ UNCHANGED <<peer, broadcast, air, hearer, aborted>>

PluginUnregisters ==
  /\ LinkStep
  /\ \E p \in Busy : callbackMap' = Unregistered(Uses[p])
  /\ UNCHANGED <<peer, broadcast, air, hearer, aborted>>

CORSends(e) ==
  /\ LinkStep
  /\ air' = air \union {[from |-> "COR", peripheral |-> e]} /\ Cardinality(air') <= MaxAir
  /\ UNCHANGED <<peer, broadcast, callbackMap, hearer, aborted>>

Lost ==
  /\ LinkStep
  /\ \E d \in air : air' = air \ {d}
  /\ UNCHANGED <<peer, broadcast, callbackMap, hearer, aborted>>

(* The loop calls handle(); another copy of the datagram may be on its way. *)
Handle ==
  /\ LinkStep /\ pc = "loop" /\ hearer = Nobody
  /\ \E d \in air :
       /\ air' \in {air, air \ {d}}
       /\ hearer' = IF Dispatched(d) THEN callbackMap[d.peripheral] ELSE Nobody
  /\ UNCHANGED <<peer, broadcast, callbackMap, aborted>>

HandleReturns ==
  /\ LinkStep /\ hearer # Nobody
  /\ hearer' = Nobody
  /\ UNCHANGED <<linkVars, aborted>>

HubNext ==
  \/ TimerStep(PluginCalls)
  \/ hearer = Nobody /\ TimerStep(Loop)
  \/ TimerStep(Elapse)
  \/ PluginSetsPeer \/ PluginSends \/ PluginRegisters \/ PluginUnregisters
  \/ \E e \in Peripherals : CORSends(e)
  \/ Lost
  \/ Handle
  \/ HandleReturns

HubSpec == HubInit /\ [][HubNext]_hubVars

-----------------------------------------------------------------------------
(* A plug-in is called for nothing but what came from the COR, and from the *)
(* peripheral it uses; never for what the driver broadcast, its own or that *)
(* of another plug-in.  (UDPDemux::handle)                                  *)
HeardRight ==
  [][hearer' \notin {hearer, Nobody} =>
       \E d \in air : d.from = "COR" /\ d.peripheral = Uses[hearer']]_hubVars

(* Whatever the addresses plug-ins set in turn, the socket allows what they *)
(* send: the assertion of sendMessage() holds.  (UDPMux::setPeer)           *)
SendsAllowed == ~aborted
=============================================================================
