------------------------------- MODULE UDPLink -------------------------------
(***************************************************************************)
(* The socket that plug-ins share to talk to the COR, the controller of the*)
(* observatory (resources/udpmux.cpp, udpdemux.h): messages go out through *)
(* the multiplexer and come in through the demultiplexer, which calls the  *)
(* plug-in registered for the peripheral a message is from.  Messages sent *)
(* to all come back to the driver.                                         *)
(*                                                                         *)
(* The network and the COR are not this program's: datagrams are lost, and *)
(* arrive twice and in any order.                                          *)
(***************************************************************************)
EXTENDS Naturals, FiniteSets

CONSTANTS
  Plugins,
  Peripherals, (* those messages are to and from                             *)
  Uses,        (* the peripheral of each plug-in                             *)
  Nobody,      (* no plug-in                                                 *)
  MaxAir       (* bound: datagrams on their way                              *)

ASSUME UDPLinkAssumption ==
  /\ Uses \in [Plugins -> Peripherals] /\ Nobody \notin Plugins /\ MaxAir \in Nat

VARIABLES
  peer,        (* the address sent to: none yet, the COR's or that of all    *)
  broadcast,   (* SO_BROADCAST                                               *)
  callbackMap, (* the plug-in registered for each peripheral, or Nobody      *)
  air          (* the datagrams on their way to the driver                   *)

linkVars == <<peer, broadcast, callbackMap, air>>

Peers == {"COR", "all"}

-----------------------------------------------------------------------------
(* Definitions named <Definition>_<Slip> are slips of the pen in the code a *)
(* definition models; the properties are checked to tell them apart.        *)

(* init(): the socket is bound, knows the driver's address, and may         *)
(* broadcast.                                                               *)
LinkInit ==
  /\ peer = "none" /\ broadcast = TRUE
  /\ callbackMap = [e \in Peripherals |-> Nobody] /\ air = {}

SetPeer_OnlyOff(p) == peer' = p /\ broadcast' = (broadcast /\ p = "all")
SetPeer(p) == peer' = p /\ broadcast' = (p = "all")

(* sendto() refuses to broadcast from a socket that may not.                *)
Refused == peer = "all" /\ ~broadcast

Sent(e) ==
  air \union IF peer = "all" THEN {[from |-> "driver", peripheral |-> e]} ELSE {}

(* add(): the first registered stays.  remove() takes whoever it is.        *)
Registered(p) ==
  IF callbackMap[Uses[p]] = Nobody THEN [callbackMap EXCEPT ![Uses[p]] = p] ELSE callbackMap
Unregistered(e) == [callbackMap EXCEPT ![e] = Nobody]

(* handle(): what the driver sent itself is ignored, and what is from a     *)
(* peripheral that no plug-in is registered for.                            *)
Dispatched_FromAll(d) == callbackMap[d.peripheral] # Nobody
Dispatched(d) == d.from # "driver" /\ callbackMap[d.peripheral] # Nobody
=============================================================================
