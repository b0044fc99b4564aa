---------------------------- MODULE SwitchVector ----------------------------
(***************************************************************************)
(* A switch property vector (items/propvector.cpp): its switches, the rule *)
(* that governs them, the cache of the switch last turned on that the rules*)
(* rely on, and what the clients have been told of it.                     *)
(*                                                                         *)
(* The vector is read from a file, defined to the clients, changed by the  *)
(* clients' newSwitchVector requests, which SwitchVectorHandler checks, and*)
(* by the plug-in that drives the device.  Only the switches with the      *)
(* changed flag are sent.                                                  *)
(***************************************************************************)
EXTENDS Integers, Sequences, FiniteSets

CONSTANTS
  Order,         (* the vector's switches, in the order of their names       *)
  NoSwitch,      (* the null pointer                                         *)
  FileErrors,    (* what may be wrong in a file: none on, several on         *)
  TurnsOff       (* the rules of vectors whose switches plug-ins turn off    *)

Switches == {Order[i] : i \in DOMAIN Order}
Rules == {"OneOfMany", "AtMostOne", "AnyOfMany"}

ASSUME SwitchVectorAssumption ==
  /\ Order \in Seq(Switches) /\ Order # <<>>
  /\ \A i, j \in DOMAIN Order : Order[i] = Order[j] => i = j
  /\ NoSwitch \notin Switches
  /\ FileErrors \subseteq {"none", "several"}
  /\ TurnsOff \subseteq Rules

VARIABLES
  rule,    (* the rule, set once by the reader                              *)
  sv,      (* the switches: those on, those changed, lastOn; alive is FALSE *)
           (* when the program has used the null pointer                    *)
  ended,   (* whether an assertion has ended the program                    *)
  shown    (* history: what the clients were last told of each switch       *)

vars == <<rule, sv, ended, shown>>

-----------------------------------------------------------------------------
(* Definitions named <Definition>_<Slip> are slips of the pen in the code a *)
(* definition models; the properties are checked to tell them apart.        *)

(* SwitchProperty::setValue.                                                *)
Put_Unmarked(s, p, val) ==
  [s EXCEPT !.on = IF val THEN @ \union {p} ELSE @ \ {p}]
Put(s, p, val) ==
  [s EXCEPT !.on = IF val THEN @ \union {p} ELSE @ \ {p},
            !.changed = @ \union {p}]

ApplyOneOfMany(s, p, val) ==
  IF ~val THEN Put(s, p, val)
  ELSE IF s.lastOn = NoSwitch THEN [s EXCEPT !.alive = FALSE]
  ELSE Put([Put(s, s.lastOn, FALSE) EXCEPT !.lastOn = p], p, val)

ApplyAtMostOne(s, p, val) ==
  LET cleared == IF val /\ s.lastOn # NoSwitch THEN Put(s, s.lastOn, FALSE) ELSE s
  IN  Put([cleared EXCEPT !.lastOn = IF val THEN p ELSE IF p = @ THEN NoSwitch ELSE @],
          p, val)

ApplyAnyOfMany(s, p, val) ==
  [Put(s, p, val) EXCEPT !.lastOn = IF val THEN p ELSE @]

(* applyRule: what setValue(p, val) does to the vector.                     *)
ApplyRule(s, p, val) ==
  CASE rule = "OneOfMany" -> ApplyOneOfMany(s, p, val)
    [] rule = "AtMostOne" -> ApplyAtMostOne(s, p, val)
    [] rule = "AnyOfMany" -> ApplyAnyOfMany(s, p, val)

(* setValue of every switch, in order.                                      *)
SetEach(s, val) ==
  LET r[n \in 0 .. Len(Order)] ==
        IF n = 0 THEN s
        ELSE IF r[n - 1].alive THEN ApplyRule(r[n - 1], Order[n], val) ELSE r[n - 1]
  IN  r[Len(Order)]

(* on() and off(); off() clears the cache too.                              *)
AllOn(s)  == SetEach(s, TRUE)
AllOff(s) == [SetEach(s, FALSE) EXCEPT !.lastOn = NoSwitch]

(* checkRule: what a request may not do.                                    *)
CheckRule_Unchecked(p, val) == TRUE
CheckRule(p, val) == ~(rule = "OneOfMany" /\ p = sv.lastOn /\ ~val)

(* updateLastOn, once the values are read: the cache holds the last switch  *)
(* that is on, whatever the repairs that follow do to the switches.         *)
LastOnOf(on) ==
  IF on = {} THEN NoSwitch
  ELSE Order[CHOOSE i \in DOMAIN Order :
               /\ Order[i] \in on
               /\ \A j \in DOMAIN Order : Order[j] \in on => j <= i]

Repaired(r, on) ==
  CASE r = "OneOfMany" /\ on = {}              -> [on |-> {Order[1]}, changed |-> {Order[1]}]
    [] r = "OneOfMany" /\ Cardinality(on) > 1  -> [on |-> {Order[1]}, changed |-> Switches]
    [] r = "AtMostOne" /\ Cardinality(on) > 1  -> [on |-> {}, changed |-> Switches]
    [] OTHER                                   -> [on |-> on, changed |-> {}]

Obeys(r, on) ==
  /\ r = "OneOfMany" => Cardinality(on) = 1
  /\ r = "AtMostOne" => Cardinality(on) <= 1

-----------------------------------------------------------------------------
(* The reader sets the rule, reads the values, and updates the cache.       *)
Init ==
  /\ rule \in Rules
  /\ \E on \in SUBSET Switches :
       /\ \/ Obeys(rule, on)
          \/ "none" \in FileErrors /\ on = {}
          \/ "several" \in FileErrors /\ Cardinality(on) > 1
       /\ sv = [on      |-> Repaired(rule, on).on,
                changed |-> Repaired(rule, on).changed,
                lastOn  |-> LastOnOf(on), alive |-> TRUE]
  /\ ended = FALSE
  /\ shown = [p \in Switches |-> "nothing"]

Running == sv.alive /\ ~ended

Value(on, p) == IF p \in on THEN "On" ELSE "Off"

(* indiSetProperty: the changed switches are sent and no longer changed.    *)
SendSet(s) ==
  /\ sv' = IF s.alive THEN [s EXCEPT !.changed = {}] ELSE s
  /\ shown' = [p \in Switches |->
                 IF s.alive /\ p \in s.changed THEN Value(s.on, p) ELSE shown[p]]
  /\ UNCHANGED <<rule, ended>>

(* indiDefProperty, in answer to a client's getProperties: all are sent.    *)
Define ==
  /\ Running
  /\ sv' = [sv EXCEPT !.changed = {}]
  /\ shown' = [p \in Switches |-> Value(sv.on, p)]
  /\ UNCHANGED <<rule, ended>>

(* A request for one switch that checkRule accepts; PluginBase::update.     *)
Accept(p, val) ==
  /\ Running /\ CheckRule(p, val)
  /\ SendSet(ApplyRule(sv, p, val))

(* A request checkRule refuses, or one that is not for one known switch, or *)
(* to a device without plug-in: all values are sent.                        *)
Forced(s) == [s EXCEPT !.changed = Switches]
Refuse ==
  /\ Running
  /\ SendSet(Forced(sv))

(* One with a value that is neither On nor Off would be refused likewise,   *)
(* but sState4Str() asserts that there is none.                             *)
Misread ==
  /\ Running
  /\ ended' = TRUE
  /\ UNCHANGED <<rule, sv, shown>>

(* The plug-in changes the vector, now or later followed by Send.           *)
SetValue(p, val) ==
  /\ Running /\ (val \/ rule \in TurnsOff)
  /\ sv' = ApplyRule(sv, p, val)
  /\ UNCHANGED <<rule, ended, shown>>

On ==
  /\ Running
  /\ sv' = AllOn(sv)
  /\ UNCHANGED <<rule, ended, shown>>

Off ==
  /\ Running /\ rule \in TurnsOff
  /\ sv' = AllOff(sv)
  /\ UNCHANGED <<rule, ended, shown>>

Send ==
  /\ Running
  /\ SendSet(sv)

(* indiDelProperty: the clients forget the vector.                          *)
Delete ==
  /\ Running
  /\ shown' = [p \in Switches |-> "nothing"]
  /\ UNCHANGED <<rule, sv, ended>>

Request ==
  \/ \E p \in Switches, val \in BOOLEAN : Accept(p, val)
  \/ Refuse \/ Misread

Next ==
  \/ Request
  \/ Define
  \/ \E p \in Switches, val \in BOOLEAN : SetValue(p, val)
  \/ On \/ Off \/ Send \/ Delete

Spec == Init /\ [][Next]_vars

-----------------------------------------------------------------------------
TypeOK ==
  /\ rule \in Rules
  /\ sv \in [on : SUBSET Switches, changed : SUBSET Switches,
             lastOn : Switches \union {NoSwitch}, alive : BOOLEAN]
  /\ ended \in BOOLEAN
  /\ shown \in [Switches -> {"nothing", "On", "Off"}]

(* What the rules are for: one switch of a OneOfMany vector is on, and at   *)
(* most one of an AtMostOne vector.                                         *)
RuleHolds == Obeys(rule, sv.on)

(* The cache agrees with the switches: turning one on turns the right one   *)
(* off, and the cache is never used while it is null.  With the other rule  *)
(* the last one turned on may be off again.                                 *)
LastOnRight ==
  /\ sv.alive
  /\ rule # "AnyOfMany" => sv.on = {sv.lastOn} \ {NoSwitch}

(* A switch without the changed flag is as the clients were last told, so   *)
(* leaving it out of the next message leaves them right.                    *)
ClientsKnow ==
  sv.alive => \A p \in Switches :
                p \in sv.changed \/ shown[p] \in {"nothing", Value(sv.on, p)}
=============================================================================
