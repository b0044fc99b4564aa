---------------------------- MODULE MCObservers ----------------------------
(* Instances of Observers: a camera observes a scope, as does a hub that has*)
(* no plug-in; a guider observes the camera's lights and the state of the   *)
(* scope; the camera's plug-in sets a light when it is called.              *)
EXTENDS Observers, TLC

CONSTANTS camera, scope, guider, hub, lights, position

MCKind == (lights :> "light") @@ (position :> "switch")
MCHeld ==
  (camera :> <<lights>>) @@ (scope :> <<position>>) @@ (guider :> <<>>) @@ (hub :> <<>>)
MCLists ==
  [k \in Keys |->
     CASE k = <<position, "value">> -> <<camera, hub>>
       [] k = <<position, "state">> -> <<hub, guider>>
       [] k = <<lights, "value">>   -> <<guider>>
       [] OTHER                     -> <<>>]
MCReacts == [d \in Devices |-> IF d = camera THEN {lights} ELSE {}]
MCLeavers == {<<guider, <<position, "state">>>>, <<hub, <<position, "value">>>>}
=============================================================================
