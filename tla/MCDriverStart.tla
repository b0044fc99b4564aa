--------------------------- MODULE MCDriverStart ---------------------------
(* Instances of DriverStart: a master file that asks for two devices, with  *)
(* device files right and wrong in every way a reader function tells apart. *)
EXTENDS DriverStart, TLC

CONSTANTS
  boss, d1, d2, va, vb, m1, m2, c1, c2,       (* names *)
  plain, padded, marked, p1, p2,              (* texts *)
  so, noSo, noEntry, badParams,               (* modules *)
  cText, mText, pText                         (* members of the manager's *)

MCNameOrder == <<boss, c1, c2, cText, d1, d2, m1, m2, mText, pText, va, vb>>
MCTrimmed ==
  [t \in {Blank, plain, padded, marked, p1, p2, so, noSo, noEntry, badParams, NullModule} |->
     IF t = padded THEN plain ELSE t]
MCUnprintable == {marked}
MCRounded == [n \in {-1, 0, 1, 2, 3} |-> IF n = 3 THEN 2 ELSE n]
MCTiny == {-1}
MCReadOnly == {p2}
MCLibrary ==
  [m \in {so, noSo, noEntry, badParams, NullModule} |->
     CASE m = noSo -> "noLibrary" [] m = noEntry -> "noFactory"
       [] m = badParams -> "badParameters" [] OTHER -> "plugin"]
MCNewValues ==
  [k \in {"light", "text", "switch", "number", "blob"} |->
     CASE k = "light" -> {"Busy"} [] k = "text" -> {padded, marked} [] k = "switch" -> {"On"}
       [] k = "number" -> {-1, 1, 3} [] k = "blob" -> {plain}]

-----------------------------------------------------------------------------
At(n) == [name |-> n]
TextAt(n, x) == Element("defText", At(n), x, <<>>)
Switch(n, x) == Element("defSwitch", At(n), x, <<>>)
Number(at, x) == Element("defNumber", at, x, <<>>)
Vector(tag, at, el) == Element(tag, at, Blank, el)
MCDevice(n, el) == Element("defDevice", [name |-> n, label |-> plain], Blank, el)

NumberAt == [name |-> m1, format |-> plain]
Limits == NumberAt @@ [min |-> 1, max |-> Junk, step |-> 2, label |-> plain]
RuleAt(r) == [name |-> va, rule |-> r]

(* What one device may hold: a vector, right or wrong.                      *)
MCVectors ==
  {Vector("defTextVector", at, <<TextAt(m1, padded), TextAt(m2, plain)>>) :
     at \in {At(va), At(va) @@ [perm |-> "rw", state |-> "Ok", timeout |-> 2, group |-> plain],
             At(va) @@ [timeout |-> Blank], At(va) @@ [perm |-> "wo"], <<>>}}
    \union {Vector("defTextVector", At(va), <<TextAt(m1, plain), TextAt(m1, Blank)>>),
            Vector("defTextVector", At(va), <<Switch(m1, "On"), TextAt(m2, plain)>>)}
    \union {Vector("defSwitchVector", RuleAt(r), <<Switch(m2, x), Switch(m1, y)>>) :
              r \in Rules, x \in {"On", "Off"}, y \in {"On", "Off", "Of"}}
    \union {Vector("defSwitchVector", At(va), <<Switch(m1, "On")>>),
            Vector("defSwitchVector", RuleAt("OneOfMany"), <<>>),
            Vector("defSwitchVector", RuleAt("OneOfMany"), <<TextAt(m1, plain)>>)}
    \union {Vector("defNumberVector", At(va), <<Number(at, x)>>) :
              at \in {NumberAt, Limits, Limits @@ [max |-> Blank], [format |-> plain], At(m1)},
              x \in {-1, 2, Junk}}
    \union {Vector("defLightVector", At(va), <<Element("defLight", At(m1), x, <<>>)>>) :
              x \in {"Idle", "Red"}}
    \union {Vector("defBLOBVector", At(va), <<Element("defBLOB", at, NoContent, <<>>)>>) :
              at \in {At(m1), <<>>}}
    \union {Vector("defSwitch", At(va), <<>>)}

Extra == Vector("defTextVector", At(vb), <<TextAt(m1, plain)>>)

MCFiles == {NoFile, Element("switch", <<>>, Blank, <<>>)} \union
  {MCDevice(d1, <<v>>) : v \in MCVectors} \union {MCDevice(d1, <<v, Extra>>) : v \in MCVectors}

-----------------------------------------------------------------------------
Loads(v, path, m) ==
  Vector("defTextVector", At(v), <<TextAt(cText, path), TextAt(mText, m), TextAt(pText, Blank)>>)
MCConfig(m, other) == MCDevice(boss, <<Loads(c1, p1, m), Loads(c2, p2, other)>>)

Prop(v, topic) == Element("property", [topic |-> topic], v, <<>>)
Observable(n, el) == Vector("observable", At(n), el)
Observer(n, el) == Vector("observer", At(n), el)

MCRelations ==
  Vector("relationships", <<>>,
    <<Observer(d2, <<Observable(d1, <<Prop(va, "value"), Prop(vb, "state"), Prop(va, "never"),
                                      Prop(vb, "state")>>)>>),
      Observer(m1, <<Observable(d1, <<Prop(va, "value")>>)>>),
      Vector("observable", At(d1), <<>>),
      Observer(d1, <<Observable(d2, <<Prop(va, "state"), Prop(vb, "value")>>),
                     Observable(m1, <<Prop(va, "value")>>), Observable(d2, <<>>)>>),
      Observer(d2, <<Observable(d1, <<Prop(va, "value")>>)>>)>>)

OtherFile == MCDevice(d2, <<Extra>>)
Disk(c, r, f, g) == [config |-> c, relations |-> r, devices |-> (p1 :> f) @@ (p2 :> g)]

MCDisks ==
  {Disk(MCConfig(so, NullModule), MCRelations, f, OtherFile) : f \in MCFiles}
    \union {Disk(MCConfig(m, so), r, MCDevice(d1, <<Extra>>), g) :
              m \in {noSo, noEntry, badParams, NullModule}, r \in {MCRelations, NoFile},
              g \in {OtherFile, MCDevice(d1, <<Extra>>), NoFile}}
    \union {Disk(c, MCRelations, NoFile, OtherFile) :
              c \in {NoFile, MCDevice(boss, <<>>), MCDevice(boss, <<Extra>>), MCDevice(boss, <<Vector("defLightVector", At(c1), <<>>)>>)}}
=============================================================================
