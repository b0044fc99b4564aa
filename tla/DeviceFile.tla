----------------------------- MODULE DeviceFile -----------------------------
(***************************************************************************)
(* The file of a device: how a driver prints a device and all it holds     *)
(* (xmlSave, items/*.cpp) and how it reads one again at its next start     *)
(* (DeviceReader, driver/devreader.cpp).                                   *)
(*                                                                         *)
(* A file is the element its parser makes of it, or one it makes nothing   *)
(* of.  An element has a tag, those of its attributes that are there, the  *)
(* characters in it and its children.  Texts are known by what reading     *)
(* makes of them, numbers by what %g prints of them.                       *)
(*                                                                         *)
(* A reader function succeeds, fails, or is the end of the program: what   *)
(* it does not know trips an assertion, and a message of its own failure   *)
(* asks the item it never made for its name.                               *)
(***************************************************************************)
EXTENDS Integers, Sequences, FiniteSets

CONSTANTS
  NameOrder,    (* names of items, in the order a std::map has them          *)
  Trimmed,      (* what is left of each text when it is printed and read     *)
  Unprintable,  (* the texts that no longer are one between quotes or tags   *)
  Rounded,      (* the number that %g prints, of each number                 *)
  Tiny,         (* the numbers printed with an exponent below zero           *)
  Blank,        (* the empty string, for "no label" and "no group" too       *)
  Junk,         (* characters that are no number, no keyword                 *)
  NoContent     (* of a BLOB                                                 *)

Names == {NameOrder[i] : i \in DOMAIN NameOrder}
Texts == DOMAIN Trimmed
Numbers == DOMAIN Rounded
States == {"Idle", "Ok", "Busy", "Alert"}
Rules == {"OneOfMany", "AtMostOne", "AnyOfMany"}

ASSUME DeviceFileAssumption ==
  /\ NameOrder \in Seq(Names)
  /\ \A i, j \in DOMAIN NameOrder : NameOrder[i] = NameOrder[j] => i = j
  /\ Trimmed \in [Texts -> Texts] /\ Rounded \in [Numbers -> Numbers]
  /\ \A t \in Texts : Trimmed[Trimmed[t]] = Trimmed[t]
  /\ \A n \in Numbers : Rounded[Rounded[n]] = Rounded[n]
  /\ Blank \in Texts /\ Trimmed[Blank] = Blank /\ Blank \notin Unprintable
  /\ Numbers \subseteq Int /\ 0 \in Numbers /\ Rounded[0] = 0 /\ 0 \notin Tiny
  /\ Junk \notin Texts \union Numbers /\ Blank \notin Numbers

(* The names of a set in the order of the map they are in.                  *)
InOrder[S \in SUBSET Names] ==
  LET upTo[i \in 0 .. Len(NameOrder)] ==
        IF i = 0 THEN <<>>
        ELSE IF NameOrder[i] \in S THEN Append(upTo[i - 1], NameOrder[i]) ELSE upTo[i - 1]
  IN  upTo[Len(NameOrder)]

-----------------------------------------------------------------------------
(* Definitions named <Definition>_<Slip> are slips of the pen in the code a *)
(* definition models; the properties are checked to tell them apart.        *)

(* Printing.  An attribute with nothing to say is left out; a device's own  *)
(* label and the contents of BLOBs are never printed.                       *)
NothingToSay(a, value) ==
  \/ a \in {"label", "group"} /\ value = Blank
  \/ a = "timeout" /\ value = 0
Printed(which, at) == [a \in {b \in which : ~NothingToSay(b, at[b])} |-> at[a]]

Element(tag, at, pcdata, el) == [tag |-> tag, at |-> at, pcdata |-> pcdata, el |-> el]

(* A file that is not there, or is not well formed.                         *)
NoFile == Element("none", <<>>, Blank, <<>>)

DefTag == [light |-> "defLight", text |-> "defText", switch |-> "defSwitch",
           number |-> "defNumber", blob |-> "defBLOB"]
VectorTag == [light |-> "defLightVector", text |-> "defTextVector",
              switch |-> "defSwitchVector", number |-> "defNumberVector",
              blob |-> "defBLOBVector"]

SaveProperty(kind, n, p) ==
  Element(DefTag[kind], Printed({"name", "label"}, [name |-> n, label |-> p.label]), p.value, <<>>)

NumberAttrs(n, p) ==
  [name |-> n, label |-> p.label, format |-> p.format,
   min |-> Rounded[p.min], max |-> Rounded[p.max], step |-> Rounded[p.step]]

SaveNumber_NoStep(n, p) ==
  Element("defNumber", Printed({"name", "label", "format", "min", "max"}, NumberAttrs(n, p)),
          Rounded[p.value], <<>>)
SaveNumber(n, p) ==
  Element("defNumber", Printed({"name", "label", "format", "min", "max", "step"}, NumberAttrs(n, p)),
          Rounded[p.value], <<>>)

SaveBLOB(n, p) ==
  Element("defBLOB", Printed({"name", "label"}, [name |-> n, label |-> p.label]), NoContent, <<>>)

SaveMember(kind, n, p) ==
  CASE kind = "number" -> SaveNumber(n, p)
    [] kind = "blob"   -> SaveBLOB(n, p)
    [] OTHER           -> SaveProperty(kind, n, p)

PrintDefAttrs == {"name", "label", "group", "state"}
NoLightPrintDefAttrs == PrintDefAttrs \union {"perm", "timeout"}
SwitchPrintDefAttrs == NoLightPrintDefAttrs \union {"rule"}

VectorAttrs(n, v) ==
  [name |-> n, label |-> v.label, group |-> v.group, state |-> v.state, perm |-> v.perm,
   timeout |-> Rounded[v.timeout], rule |-> v.rule]

SaveChildren(saved) ==
  LET order == InOrder[DOMAIN saved] IN [i \in DOMAIN order |-> saved[order[i]]]

SaveVector(n, v) ==
  Element(VectorTag[v.kind],
          Printed(CASE v.kind = "light"  -> PrintDefAttrs
                    [] v.kind = "switch" -> SwitchPrintDefAttrs
                    [] OTHER             -> NoLightPrintDefAttrs, VectorAttrs(n, v)),
          Blank, SaveChildren([m \in DOMAIN v.members |-> SaveMember(v.kind, m, v.members[m])]))

(* What the file is once xmlSave of the device has closed it.               *)
Printable(d) ==
  \A v \in DOMAIN d.vectors :
    /\ {d.vectors[v].label, d.vectors[v].group} \intersect Unprintable = {}
    /\ \A m \in DOMAIN d.vectors[v].members :
         LET p == d.vectors[v].members[m]
         IN  /\ p.label \notin Unprintable
             /\ d.vectors[v].kind = "text" => p.value \notin Unprintable
             /\ d.vectors[v].kind = "number" => p.format \notin Unprintable

SaveDevice(d) ==
  IF Printable(d)
  THEN Element("defDevice", [name |-> d.name], Blank,
               SaveChildren([v \in DOMAIN d.vectors |-> SaveVector(v, d.vectors[v])]))
  ELSE NoFile

-----------------------------------------------------------------------------
(* Reading.                                                                 *)
Has(e, a) == a \in DOMAIN e.at

Success(item) == [result |-> "ok", item |-> item]
Failure == [result |-> "fails", item |-> Junk]
Death == [result |-> "dies", item |-> Junk]

(* readNameLabel: the name must be there, the label may.                    *)
Named(e) == Has(e, "name")
LabelOf(e) == IF Has(e, "label") THEN e.at.label ELSE Blank

(* The keywords the conversions know: the second "ro" stands for "wo".      *)
PState4Str(s) == s \in States
SState4Str(s) == s \in {"On", "Off"}
Rule4Str(s) == s \in Rules
Perm4Str(s) == s \in {"ro", "rw"}

(* f_scansexa blanks the first '-' it finds, an exponent's too.             *)
FScansexa(s) == s \in Numbers \ Tiny

ReadText(e) ==
  IF Named(e) THEN Success([label |-> LabelOf(e), value |-> Trimmed[e.pcdata]]) ELSE Death

ReadSwitch(e) ==
  IF Named(e) /\ SState4Str(e.pcdata)
  THEN Success([label |-> LabelOf(e), value |-> e.pcdata]) ELSE Death

ReadLight(e) ==
  IF Named(e) /\ PState4Str(e.pcdata)
  THEN Success([label |-> LabelOf(e), value |-> e.pcdata]) ELSE Death

(* One variable takes the value and then each attribute there is: sscanf    *)
(* leaves it as it was when there is no number, and says so only if there   *)
(* was nothing at all.                                                      *)
Sscanf(e, a, dvalue) == IF Has(e, a) /\ e.at[a] \in Numbers THEN e.at[a] ELSE dvalue
Limit(e, a, dvalue) == IF Has(e, a) /\ e.at[a] # Blank THEN dvalue ELSE 0

ReadNumber(e) ==
  IF Named(e) /\ FScansexa(e.pcdata) /\ Has(e, "format")
  THEN LET min == Sscanf(e, "min", e.pcdata)
           max == Sscanf(e, "max", min)
           step == Sscanf(e, "step", max)
       IN  Success([label |-> LabelOf(e), value |-> e.pcdata, format |-> e.at.format,
                    min |-> Limit(e, "min", min), max |-> Limit(e, "max", max),
                    step |-> Limit(e, "step", step)])
  ELSE Death

ReadBLOB(e) ==
  IF Named(e) THEN Success([label |-> LabelOf(e), value |-> NoContent]) ELSE Death

(* The attributes of a vector: how reading them ends, and what they set.    *)
ReadAttrsPV(e) == IF Has(e, "state") /\ ~PState4Str(e.at.state) THEN "dies" ELSE "ok"

ReadAttrsNLPV(e) ==
  IF ReadAttrsPV(e) = "dies" \/ (Has(e, "perm") /\ ~Perm4Str(e.at.perm)) THEN "dies"
  ELSE IF Has(e, "timeout") /\ e.at.timeout = Blank THEN "fails" ELSE "ok"

ReadRule(e) ==
  IF ~Has(e, "rule") THEN "fails" ELSE IF Rule4Str(e.at.rule) THEN "ok" ELSE "dies"

Given(e, a, default) == IF Has(e, a) THEN e.at[a] ELSE default

(* A timeout that is no number is whatever the variable held: Junk.  Lights *)
(* have neither permission nor timeout, and only switches a rule.           *)
NewVector(kind, e) ==
  [kind |-> kind, label |-> LabelOf(e), group |-> Given(e, "group", Blank),
   state |-> Given(e, "state", "Idle"),
   perm |-> IF kind = "light" THEN "ro" ELSE Given(e, "perm", "ro"),
   timeout |-> IF kind = "light" THEN 0
               ELSE Sscanf(e, "timeout", IF Has(e, "timeout") THEN Junk ELSE 0),
   rule |-> IF kind = "switch" THEN Given(e, "rule", "AnyOfMany") ELSE "AnyOfMany",
   lastOn |-> Blank, members |-> <<>>]

(* The children are read one by one until one is wrong: outcome says what   *)
(* becomes of each, the ones after it too.  Of those with one name the      *)
(* first is kept.                                                           *)
ReadChildren(e, outcome) ==
  LET wrong == {i \in DOMAIN outcome : outcome[i].result # "ok"}
      first(n) == CHOOSE i \in DOMAIN e.el :
                    e.el[i].at.name = n /\ \A j \in 1 .. i - 1 : e.el[j].at.name # n
  IN  IF wrong # {}
      THEN outcome[CHOOSE i \in wrong : \A j \in wrong : i <= j]
      ELSE Success([n \in {e.el[i].at.name : i \in DOMAIN e.el} |-> outcome[first(n)].item])

ReadMember(kind, c) ==
  IF c.tag # DefTag[kind] THEN Failure
  ELSE CASE kind = "light"  -> ReadLight(c)
         [] kind = "text"   -> ReadText(c)
         [] kind = "switch" -> ReadSwitch(c)
         [] kind = "number" -> ReadNumber(c)
         [] kind = "blob"   -> ReadBLOB(c)

ReadMembers(kind, e) ==
  ReadChildren(e, [i \in DOMAIN e.el |-> ReadMember(kind, e.el[i])])

WithMembers(vector, members) ==
  IF members.result = "ok" THEN Success([vector EXCEPT !.members = members.item]) ELSE members

ReadVector(e, attrs, vector, members) ==
  CASE ~Named(e) \/ attrs = "dies"   -> Death
    [] Named(e) /\ attrs = "fails"   -> Failure
    [] Named(e) /\ attrs = "ok"      -> WithMembers(vector, members)

ReadLightVector(e) ==
  ReadVector(e, ReadAttrsPV(e), NewVector("light", e), ReadMembers("light", e))

ReadTextVector(e) ==
  ReadVector(e, ReadAttrsNLPV(e), NewVector("text", e), ReadMembers("text", e))

ReadNumberVector(e) ==
  ReadVector(e, ReadAttrsNLPV(e), NewVector("number", e), ReadMembers("number", e))

ReadBLOBVector(e) ==
  ReadVector(e, ReadAttrsNLPV(e), NewVector("blob", e), ReadMembers("blob", e))

(* updateLastOn keeps the last switch found on, then turns switches on and  *)
(* off until the rule holds.  A vector without switches has no first one to *)
(* turn on; it is run whether they could all be read or not.                *)
On(members) == {m \in DOMAIN members : members[m].value = "On"}
First(S) == InOrder[S][1]
LastFound(members) ==
  LET on == InOrder[On(members)] IN IF on = <<>> THEN Blank ELSE on[Len(on)]
Turned(members, on) ==
  [m \in DOMAIN members |-> [members[m] EXCEPT !.value = IF m \in on THEN "On" ELSE "Off"]]

Repaired(rule, members) ==
  CASE rule = "OneOfMany" /\ Cardinality(On(members)) # 1 ->
         Turned(members, {First(DOMAIN members)})
    [] rule = "AtMostOne" /\ Cardinality(On(members)) > 1 -> Turned(members, {})
    [] OTHER -> members

UpdateLastOn(v) ==
  [v EXCEPT !.lastOn = LastFound(v.members), !.members = Repaired(v.rule, v.members)]

NoSwitchRead(e) == e.el = <<>> \/ e.el[1].tag # DefTag["switch"]

ReadSwitchVector(e) ==
  LET nlpv == ReadAttrsNLPV(e)
      attrs == IF nlpv = "ok" THEN ReadRule(e) ELSE nlpv
      read == ReadVector(e, attrs, NewVector("switch", e), ReadMembers("switch", e))
  IN  IF Named(e) /\ attrs = "ok" /\ e.at.rule = "OneOfMany" /\ NoSwitchRead(e) THEN Death
      ELSE IF read.result # "ok" THEN read
      ELSE Success(UpdateLastOn(read.item))

ReadAnyVector(e) ==
  CASE e.tag = "defLightVector"  -> ReadLightVector(e)
    [] e.tag = "defTextVector"   -> ReadTextVector(e)
    [] e.tag = "defSwitchVector" -> ReadSwitchVector(e)
    [] e.tag = "defNumberVector" -> ReadNumberVector(e)
    [] e.tag = "defBLOBVector"   -> ReadBLOBVector(e)
    [] OTHER                     -> Failure

(* A device is made before its children are read.                           *)
ReadDevice(e) ==
  LET read == ReadChildren(e, [i \in DOMAIN e.el |-> ReadAnyVector(e.el[i])])
  IN  IF ~Named(e) THEN Death
      ELSE IF read.result # "ok" THEN read
      ELSE Success([name |-> e.at.name, label |-> LabelOf(e), vectors |-> read.item])

ReadFile(f) == IF f.tag = "defDevice" THEN ReadDevice(f) ELSE Failure

-----------------------------------------------------------------------------
(* What there can be in files: elements in elements, and in those of devices*)
(* names and texts that are known.                                          *)
Children(e) == {e.el[i] : i \in DOMAIN e.el}
HasChildren(e) == e.el \in Seq(Children(e))
IsTree(e) ==
  /\ HasChildren(e)
  /\ \A c \in Children(e) : HasChildren(c) /\ \A d \in Children(c) : HasChildren(d)

NameKnown(e) == Named(e) => e.at.name \in Names
TextKnown(e) == e.tag = "defText" => e.pcdata \in Texts
IsDeviceTree(e) ==
  /\ HasChildren(e)
  /\ \A c \in Children(e) :
       /\ HasChildren(c) /\ NameKnown(c)
       /\ \A d \in Children(c) : NameKnown(d) /\ TextKnown(d)

-----------------------------------------------------------------------------
(* What a file keeps of a device, and which devices it is a file of.        *)
KeptMember(kind, p) ==
  CASE kind = "text"   -> [p EXCEPT !.value = Trimmed[@]]
    [] kind = "number" -> [p EXCEPT !.value = Rounded[@], !.min = Rounded[@],
                                    !.max = Rounded[@], !.step = Rounded[@]]
    [] kind = "blob"   -> [p EXCEPT !.value = NoContent]
    [] OTHER           -> p

KeptVector(v) ==
  [v EXCEPT !.timeout = Rounded[@],
            !.lastOn = IF v.kind = "switch" THEN LastFound(v.members) ELSE @,
            !.members = [m \in DOMAIN v.members |-> KeptMember(v.kind, v.members[m])]]

Kept(d) ==
  [d EXCEPT !.label = Blank,
            !.vectors = [v \in DOMAIN d.vectors |-> KeptVector(d.vectors[v])]]

Readable(v) ==
  /\ v.kind # "light" => v.perm # "wo" /\ v.timeout \in Numbers
  /\ v.kind = "number" => \A m \in DOMAIN v.members : Rounded[v.members[m].value] \notin Tiny
  /\ v.kind = "switch" => /\ v.rule = "OneOfMany" => Cardinality(On(v.members)) = 1
                          /\ v.rule = "AtMostOne" => Cardinality(On(v.members)) <= 1

IsRestorable(d) == Printable(d) /\ \A v \in DOMAIN d.vectors : Readable(d.vectors[v])
=============================================================================
