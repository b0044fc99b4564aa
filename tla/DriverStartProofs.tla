-------------------------- MODULE DriverStartProofs --------------------------
(***************************************************************************)
(* Theorems about DriverStart and DeviceFile, for any files, plug-ins and  *)
(* number of starts: what is saved is read again as it was, the manager    *)
(* tells the truth, and the relationships are the ones of their file.      *)
(***************************************************************************)
EXTENDS DriverStart, TLAPS, SequenceTheorems, FiniteSetTheorems, WellFoundedInduction

Kinds == {"light", "text", "switch", "number", "blob"}

(* What the readers make: members, vectors and devices.                     *)
IsMember(kind, p) ==
  /\ kind # "number" => p = [label |-> p.label, value |-> p.value]
  /\ kind = "text"   => p.value \in Texts
  /\ kind = "light"  => p.value \in States
  /\ kind = "switch" => p.value \in {"On", "Off"}
  /\ kind = "number" => /\ p = [label |-> p.label, value |-> p.value, format |-> p.format,
                                min |-> p.min, max |-> p.max, step |-> p.step]
                        /\ {p.value, p.min, p.max, p.step} \subseteq Numbers

IsVector(v) ==
  /\ v = [kind |-> v.kind, label |-> v.label, group |-> v.group, state |-> v.state,
          perm |-> v.perm, timeout |-> v.timeout, rule |-> v.rule, lastOn |-> v.lastOn,
          members |-> v.members]
  /\ v.kind \in Kinds /\ v.state \in States /\ v.perm \in {"ro", "rw"} /\ v.rule \in Rules
  /\ v.kind = "light" => v.perm = "ro" /\ v.timeout = 0
  /\ v.kind # "switch" => v.rule = "AnyOfMany" /\ v.lastOn = Blank
  /\ v.members = [m \in DOMAIN v.members |-> v.members[m]]
  /\ DOMAIN v.members \subseteq Names
  /\ \A m \in DOMAIN v.members : IsMember(v.kind, v.members[m])

IsDevice(d) ==
  /\ d = [name |-> d.name, label |-> d.label, vectors |-> d.vectors]
  /\ d.vectors = [v \in DOMAIN d.vectors |-> d.vectors[v]]
  /\ DOMAIN d.vectors \subseteq Names
  /\ \A v \in DOMAIN d.vectors : IsVector(d.vectors[v])

-----------------------------------------------------------------------------
(* Lemmas about iteration and the order of names.                           *)

(* What holds at first and is kept by every step holds in the end.          *)
LEMMA StaysIn ==
  ASSUME NEW f, NEW Q, NEW h \in Nat, f[0] \in Q[0],
         \A n \in 1 .. h : f[n - 1] \in Q[n - 1] => f[n] \in Q[n]
  PROVE  f[h] \in Q[h]
<1> DEFINE Bad == {l \in 0 .. h : f[l] \notin Q[l]}
<1>1. /\ Bad \in SUBSET Nat /\ Bad \subseteq 0 .. h
      /\ \A l \in 0 .. h : l \in Bad <=> f[l] \notin Q[l]
  OBVIOUS
<1> HIDE DEF Bad
<1>2. SUFFICES ASSUME Bad # {} PROVE FALSE
  BY <1>1
<1>3. PICK l \in Bad : \A m \in Bad : ~(<<m, l>> \in OpToRel(<, Nat))
  BY <1>1, <1>2, NatLessThanWellFounded, WFMin
<1>4. \A m \in Bad : ~(m < l)
  BY <1>1, <1>3 DEF OpToRel
<1>5. l \in 1 .. h
  BY <1>1
<1>6. l - 1 \in 0 .. h /\ l - 1 \notin Bad
  BY <1>4, <1>5
<1>7. QED
  BY <1>1, <1>5, <1>6

(* There is a function that starts with s and goes on by steps g.           *)
HasRun(S, s, h, g) ==
  \E f \in [0 .. h -> S] : f[0] = s /\ \A n \in 1 .. h : f[n] = g[n][f[n - 1]]

(* Every step function from S to S has such a run.                          *)
LEMMA Iterates ==
  ASSUME NEW S, NEW s, s \in S, NEW h, h \in Nat, NEW g, g \in [1 .. h -> [S -> S]]
  PROVE  HasRun(S, s, h, g)
<1> DEFINE Runs(f, l) == /\ f \in [0 .. l -> S] /\ f[0] = s
                         /\ \A n \in 1 .. l : f[n] = g[n][f[n - 1]]
           Can(l) == \E f : Runs(f, l)
           Is == [l \in 0 .. h |-> {x \in {0} : Can(l)}]
           z  == [l \in 0 .. h |-> 0]
<1>1. Can(0)
  <2> DEFINE e == [m \in 0 .. 0 |-> s]
  <2>1. Runs(e, 0)
    OBVIOUS
  <2>2. QED
    BY <2>1
<1>2. ASSUME NEW l \in 1 .. h, Can(l - 1) PROVE Can(l)
  <2>1. PICK f : Runs(f, l - 1)
    BY <1>2
  <2> DEFINE last == g[l][f[l - 1]]
             e == [m \in 0 .. l |-> IF m = l THEN last ELSE f[m]]
  <2>2. last \in S
    BY <2>1
  <2>3. /\ e[l] = last /\ \A m \in 0 .. l - 1 : e[m] = f[m]
        /\ e \in [0 .. l -> S]
    BY <2>1, <2>2
  <2> HIDE DEF e
  <2>4. e[0] = s
    BY <2>1, <2>3
  <2>5. ASSUME NEW n \in 1 .. l PROVE e[n] = g[n][e[n - 1]]
    <3>1. CASE n = l
      BY <2>3, <3>1
    <3>2. CASE n # l
      <4>1. n \in 1 .. l - 1 /\ n \in 0 .. l - 1 /\ n - 1 \in 0 .. l - 1
        BY <3>2
      <4>2. QED
        BY <2>1, <2>3, <4>1
    <3>3. QED
      BY <3>1, <3>2
  <2>6. Runs(e, l)
    BY <2>3, <2>4, <2>5
  <2>7. QED
    BY <2>6
<1>3. Can(h)
  <2> HIDE DEF Can
  <2>1. z[0] \in Is[0] /\ \A l \in 1 .. h : z[l - 1] \in Is[l - 1] => z[l] \in Is[l]
    BY <1>1, <1>2
  <2>2. z[h] \in Is[h] => Can(h)
    OBVIOUS
  <2> HIDE DEF Is, z
  <2>3. QED
    BY <2>1, <2>2, StaysIn
<1>4. QED
  BY <1>3 DEF HasRun

(* The smallest of a set of indices.                                        *)
LEMMA NatMin ==
  ASSUME NEW S \in SUBSET Nat, S # {}
  PROVE  \E x \in S : \A y \in S : x <= y
<1>1. PICK m \in S : \A y \in S : ~(<<y, m>> \in OpToRel(<, Nat))
  BY NatLessThanWellFounded, WFMin
<1>2. \A y \in S : ~(y < m)
  BY <1>1 DEF OpToRel
<1>3. QED
  BY <1>2

(* The names of a set in order: each of them, once.                         *)
LEMMA InOrderIs ==
  ASSUME NEW S \in SUBSET Names
  PROVE  /\ InOrder[S] \in Seq(Names)
         /\ ToSet(InOrder[S]) = S
         /\ \A i, j \in DOMAIN InOrder[S] : InOrder[S][i] = InOrder[S][j] => i = j
<1> DEFINE h == Len(NameOrder)
           Upto(n) == {NameOrder[m] : m \in 1 .. n} \intersect S
           Once(r) == \A i, j \in DOMAIN r : r[i] = r[j] => i = j
           g == [n \in 1 .. h |-> [r \in Seq(Names) |->
                   IF NameOrder[n] \in S THEN Append(r, NameOrder[n]) ELSE r]]
           Q == [n \in 0 .. h |-> {r \in Seq(Names) : ToSet(r) = Upto(n) /\ Once(r)}]
<1>1. /\ h \in Nat /\ DOMAIN NameOrder = 1 .. h /\ \A n \in 1 .. h : NameOrder[n] \in Names
      /\ \A i, j \in 1 .. h : NameOrder[i] = NameOrder[j] => i = j
  BY DeviceFileAssumption, LenProperties, ElementOfSeq
<1> HIDE DEF h
<1>2. g \in [1 .. h -> [Seq(Names) -> Seq(Names)]]
  <2>1. \A n \in 1 .. h : \A r \in Seq(Names) :
          (IF NameOrder[n] \in S THEN Append(r, NameOrder[n]) ELSE r) \in Seq(Names)
    BY <1>1, AppendProperties
  <2>2. QED
    BY <2>1
<1>3. <<>> \in Seq(Names) /\ <<>> \in Q[0]
  <2>1. <<>> \in Seq(Names) /\ DOMAIN <<>> = {}
    BY EmptySeq, LenProperties
  <2>2. ToSet(<<>>) = {} /\ Upto(0) = {} /\ Once(<<>>)
    BY <2>1 DEF ToSet
  <2>3. QED
    BY <1>1, <2>1, <2>2
<1>4. ASSUME NEW n \in 1 .. h, NEW r \in Q[n - 1] PROVE g[n][r] \in Q[n]
  <2>1. r \in Seq(Names) /\ ToSet(r) = Upto(n - 1) /\ Once(r)
    BY <1>1, <1>4
  <2>2. {NameOrder[m] : m \in 1 .. n} = {NameOrder[m] : m \in 1 .. n - 1} \union {NameOrder[n]}
    BY <1>1
  <2>3. CASE NameOrder[n] \notin S
    <3>1. Upto(n) = Upto(n - 1) /\ g[n][r] = r
      BY <2>1, <2>2, <2>3
    <3>2. r \in Q[n]
      <4> HIDE DEF Upto, Once
      <4>1. n \in 0 .. h
        BY <1>1
      <4>2. QED
        BY <2>1, <3>1, <4>1
    <3>3. QED
      BY <3>1, <3>2
  <2>4. CASE NameOrder[n] \in S
    <3> DEFINE t == Append(r, NameOrder[n])
    <3>0. g[n][r] = t
      BY <2>1, <2>4
    <3>1. Upto(n) = Upto(n - 1) \union {NameOrder[n]}
      BY <2>2, <2>4
    <3>2. /\ t \in Seq(Names) /\ Len(r) \in Nat
          /\ DOMAIN r = 1 .. Len(r) /\ DOMAIN t = 1 .. Len(r) + 1
          /\ t[Len(r) + 1] = NameOrder[n] /\ \A i \in 1 .. Len(r) : t[i] = r[i]
      BY <1>1, <2>1, AppendProperties, LenProperties
    <3> HIDE DEF t
    <3>3. ToSet(t) = ToSet(r) \union {NameOrder[n]}
      <4>1. \A i \in DOMAIN t : i \in 1 .. Len(r) \/ i = Len(r) + 1
        BY <3>2
      <4>2. Len(r) + 1 \in DOMAIN t /\ \A i \in 1 .. Len(r) : i \in DOMAIN t
        BY <3>2
      <4>3. \A x \in ToSet(t) : x \in ToSet(r) \union {NameOrder[n]}
        BY <3>2, <4>1 DEF ToSet
      <4>4. \A x \in ToSet(r) : x \in ToSet(t)
        BY <3>2, <4>2 DEF ToSet
      <4>5. NameOrder[n] \in ToSet(t)
        BY <3>2, <4>2 DEF ToSet
      <4>6. QED
        BY <4>3, <4>4, <4>5
    <3>4. NameOrder[n] \notin ToSet(r)
      <4>1. \A m \in 1 .. n - 1 : NameOrder[m] # NameOrder[n]
        BY <1>1
      <4>2. QED
        BY <2>1, <4>1
    <3>5. \A i \in 1 .. Len(r) : t[i] # NameOrder[n]
      BY <3>2, <3>4 DEF ToSet
    <3>6. Once(t)
      BY <2>1, <3>2, <3>5
    <3>7. t \in Q[n]
      <4> HIDE DEF Upto, Once
      <4>1. n \in 0 .. h
        BY <1>1
      <4>2. ToSet(t) = Upto(n)
        BY <2>1, <3>1, <3>3
      <4>3. QED
        BY <3>2, <3>6, <4>1, <4>2
    <3>8. QED
      BY <3>0, <3>7
  <2>5. QED
    BY <2>3, <2>4
<1> DEFINE Step(f, n) ==
      IF n = 0 THEN <<>>
      ELSE IF NameOrder[n] \in S THEN Append(f[n - 1], NameOrder[n]) ELSE f[n - 1]
<1>6. PICK f \in [0 .. h -> Seq(Names)] :
        f[0] = <<>> /\ \A n \in 1 .. h : f[n] = g[n][f[n - 1]]
  <2>1. h \in Nat /\ <<>> \in Seq(Names) /\ g \in [1 .. h -> [Seq(Names) -> Seq(Names)]]
    BY <1>1, <1>2, <1>3
  <2> HIDE DEF g
  <2>2. HasRun(Seq(Names), <<>>, h, g)
    BY <2>1, Iterates
  <2>3. QED
    BY <2>2 DEF HasRun
<1>7. f = [n \in 0 .. h |-> Step(f, n)]
  <2>1. ASSUME NEW n \in 0 .. h PROVE f[n] = Step(f, n)
    <3>1. CASE n # 0
      <4>1. n \in 1 .. h /\ f[n - 1] \in Seq(Names)
        BY <1>1, <3>1
      <4>2. QED
        BY <1>6, <3>1, <4>1
    <3>2. QED
      BY <1>6, <3>1
  <2>2. QED
    BY <2>1
<1> DEFINE w == CHOOSE e : e = [n \in 0 .. h |-> Step(e, n)]
<1>8. w = [n \in 0 .. h |-> Step(w, n)]
  BY <1>7
<1>9. InOrder[S] = w[h]
  BY DEF InOrder, h
<1>10. w[0] \in Q[0] /\ \A n \in 1 .. h : w[n - 1] \in Q[n - 1] => w[n] \in Q[n]
  <2>1. w[0] = <<>>
    <3>1. 0 \in 0 .. h /\ Step(w, 0) = <<>>
      BY <1>1
    <3> HIDE DEF w, Step
    <3>2. QED
      BY <1>8, <3>1
  <2>2. ASSUME NEW n \in 1 .. h, w[n - 1] \in Q[n - 1] PROVE w[n] \in Q[n]
    <3>1. w[n - 1] \in Seq(Names) /\ n \in 0 .. h /\ n # 0
      BY <1>1, <2>2
    <3>2. w[n] = g[n][w[n - 1]]
      <4>1. w[n] = Step(w, n)
        BY <1>8, <3>1
      <4> DEFINE r == w[n - 1]
      <4> HIDE DEF w, Q
      <4>2. Step(w, n) = IF NameOrder[n] \in S THEN Append(r, NameOrder[n]) ELSE r
        BY <3>1
      <4>3. g[n][r] = IF NameOrder[n] \in S THEN Append(r, NameOrder[n]) ELSE r
        BY <3>1
      <4> HIDE DEF g, Step
      <4>4. QED
        BY <4>1, <4>2, <4>3
    <3>3. QED
      BY <1>4, <2>2, <3>2
  <2>3. QED
    BY <1>3, <2>1, <2>2
<1>11. w[h] \in Q[h]
  <2> HIDE DEF w, Q
  <2>1. QED
    BY <1>1, <1>10, StaysIn
<1>12. Upto(h) = S
  BY <1>1 DEF Names
<1>13. w[h] \in Seq(Names) /\ ToSet(w[h]) = Upto(h) /\ Once(w[h])
  <2> HIDE DEF w, Upto, Once
  <2>1. QED
    BY <1>1, <1>11
<1>14. QED
  BY <1>9, <1>12, <1>13

(* The names are finitely many.                                             *)
LEMMA NamesFinite == IsFiniteSet(Names)
<1>1. DOMAIN NameOrder = 1 .. Len(NameOrder) /\ Len(NameOrder) \in Nat
  BY DeviceFileAssumption, LenProperties
<1>2. IsFiniteSet(DOMAIN NameOrder)
  BY <1>1, FS_Interval
<1> DEFINE f == [i \in DOMAIN NameOrder |-> NameOrder[i]]
<1>3. Names = {f[i] : i \in DOMAIN NameOrder}
  BY DEF Names
<1>4. f \in [DOMAIN NameOrder -> Names]
  BY <1>3
<1>5. f \in Surjection(DOMAIN NameOrder, Names)
  BY <1>3, <1>4 DEF Surjection
<1>6. QED
  BY <1>2, <1>5, FS_Surjection

-----------------------------------------------------------------------------
(* What is saved and read again.                                            *)

(* The children saved are the elements of the items, in order.              *)
LEMMA SavedChildren ==
  ASSUME NEW saves, DOMAIN saves \subseteq Names,
         NEW el, el = SaveChildren(saves), NEW order, order = InOrder[DOMAIN saves]
  PROVE  /\ DOMAIN el = DOMAIN order
         /\ \A i \in DOMAIN el : order[i] \in DOMAIN saves /\ el[i] = saves[order[i]]
         /\ \A n \in DOMAIN saves : \E i \in DOMAIN el : order[i] = n
<1>1. order \in Seq(Names) /\ ToSet(order) = DOMAIN saves
  BY InOrderIs
<1>2. Len(order) \in Nat /\ DOMAIN order = 1 .. Len(order)
  BY <1>1, LenProperties
<1>3. el = [i \in DOMAIN order |-> saves[order[i]]]
  BY DEF SaveChildren
<1>4. \A i \in DOMAIN order : order[i] \in DOMAIN saves
  BY <1>1 DEF ToSet
<1>5. \A n \in DOMAIN saves : \E i \in DOMAIN order : order[i] = n
  BY <1>1 DEF ToSet
<1>6. QED
  BY <1>3, <1>4, <1>5

(* Children that were saved, if each can be read, are read under the names  *)
(* they were saved under.                                                   *)
LEMMA ReadChildrenSaved ==
  ASSUME NEW saves, DOMAIN saves \subseteq Names, \A n \in DOMAIN saves : saves[n].at.name = n,
         NEW e, e.el = SaveChildren(saves), NEW outcome, DOMAIN outcome = DOMAIN e.el, NEW g,
         \A i \in DOMAIN e.el : outcome[i] = Success(g[e.el[i].at.name])
  PROVE  ReadChildren(e, outcome) = Success([n \in DOMAIN saves |-> g[n]])
<1> DEFINE order == InOrder[DOMAIN saves]
           wrong == {i \in DOMAIN outcome : outcome[i].result # "ok"}
           first(n) == CHOOSE i \in DOMAIN e.el :
                         e.el[i].at.name = n /\ \A j \in 1 .. i - 1 : e.el[j].at.name # n
           read == {e.el[i].at.name : i \in DOMAIN e.el}
<1>1. /\ order \in Seq(Names) /\ \A i, j \in DOMAIN order : order[i] = order[j] => i = j
      /\ Len(order) \in Nat /\ DOMAIN order = 1 .. Len(order)
  BY InOrderIs, LenProperties
<1>2. /\ DOMAIN e.el = DOMAIN order
      /\ \A i \in DOMAIN e.el : order[i] \in DOMAIN saves /\ e.el[i] = saves[order[i]]
      /\ \A n \in DOMAIN saves : \E i \in DOMAIN e.el : order[i] = n
  <2> DEFINE el == e.el
  <2>1. el = SaveChildren(saves) /\ order = InOrder[DOMAIN saves]
    OBVIOUS
  <2> HIDE DEF el, order
  <2>2. /\ DOMAIN el = DOMAIN order
        /\ \A i \in DOMAIN el : order[i] \in DOMAIN saves /\ el[i] = saves[order[i]]
        /\ \A n \in DOMAIN saves : \E i \in DOMAIN el : order[i] = n
    BY <2>1, SavedChildren
  <2>3. QED
    BY <2>2 DEF el
<1>3. \A i \in DOMAIN e.el : e.el[i].at.name = order[i]
  BY <1>2
<1> HIDE DEF order
<1>4. wrong = {}
  BY DEF Success
<1>5. read = DOMAIN saves
  <2>1. \A n \in read : n \in DOMAIN saves
    BY <1>2, <1>3
  <2>2. \A n \in DOMAIN saves : n \in read
    BY <1>2, <1>3
  <2>3. QED
    BY <2>1, <2>2
<1>6. \A n \in DOMAIN saves : outcome[first(n)].item = g[n]
  <2>1. SUFFICES ASSUME NEW n \in DOMAIN saves PROVE outcome[first(n)].item = g[n]
    OBVIOUS
  <2>2. PICK i \in DOMAIN e.el : order[i] = n
    BY <1>2
  <2>3. \A j \in 1 .. i - 1 : e.el[j].at.name # n
    BY <1>1, <1>2, <1>3, <2>2
  <2>4. first(n) \in DOMAIN e.el /\ e.el[first(n)].at.name = n
    BY <1>3, <2>2, <2>3
  <2> HIDE DEF first
  <2>5. QED
    BY <2>4 DEF Success
<1>7. ReadChildren(e, outcome) = Success([n \in read |-> outcome[first(n)].item])
  BY <1>4 DEF ReadChildren
<1> HIDE DEF first, read
<1>8. [n \in read |-> outcome[first(n)].item] = [n \in DOMAIN saves |-> g[n]]
  BY <1>5, <1>6
<1>9. QED
  BY <1>7, <1>8

(* A member is read as it was saved.                                        *)
LEMMA MemberSaved ==
  ASSUME NEW kind \in Kinds, NEW n, NEW p, IsMember(kind, p),
         kind = "number" => Rounded[p.value] \notin Tiny
  PROVE  /\ ReadMember(kind, SaveMember(kind, n, p)) = Success(KeptMember(kind, p))
         /\ SaveMember(kind, n, p).at.name = n
         /\ Named(SaveMember(kind, n, p))
         /\ SaveMember(kind, n, p).tag = DefTag[kind]
<1> DEFINE at == Printed({"name", "label"}, [name |-> n, label |-> p.label])
<1>1. /\ "name" \in DOMAIN at /\ at.name = n
      /\ "label" \in DOMAIN at <=> p.label # Blank
      /\ "label" \in DOMAIN at => at.label = p.label
  BY DEF Printed, NothingToSay
<1>2. \A tag, c : LET e == Element(tag, at, c, <<>>)
                  IN  Named(e) /\ LabelOf(e) = p.label /\ e.at.name = n /\ e.pcdata = c /\ e.tag = tag
  BY <1>1 DEF Element, Named, LabelOf, Has
<1> HIDE DEF at
<1>3. CASE kind \in {"light", "text", "switch"}
  <2> DEFINE e == Element(DefTag[kind], at, p.value, <<>>)
  <2>1. SaveMember(kind, n, p) = e
    BY <1>3 DEF SaveMember, SaveProperty, at
  <2>2. Named(e) /\ LabelOf(e) = p.label /\ e.at.name = n /\ e.pcdata = p.value /\ e.tag = DefTag[kind]
    BY <1>2
  <2> HIDE DEF e
  <2>3. CASE kind = "light"
    <3>1. ReadMember(kind, e) = Success([label |-> p.label, value |-> p.value])
      BY <2>2, <2>3 DEF ReadMember, ReadLight, PState4Str, IsMember
    <3>2. KeptMember(kind, p) = [label |-> p.label, value |-> p.value]
      BY <2>3 DEF KeptMember, IsMember
    <3>3. QED
      BY <2>1, <2>2, <3>1, <3>2
  <2>4. CASE kind = "switch"
    <3>1. ReadMember(kind, e) = Success([label |-> p.label, value |-> p.value])
      BY <2>2, <2>4 DEF ReadMember, ReadSwitch, SState4Str, IsMember
    <3>2. KeptMember(kind, p) = [label |-> p.label, value |-> p.value]
      BY <2>4 DEF KeptMember, IsMember
    <3>3. QED
      BY <2>1, <2>2, <3>1, <3>2
  <2>5. CASE kind = "text"
    <3>1. ReadMember(kind, e) = Success([label |-> p.label, value |-> Trimmed[p.value]])
      BY <2>2, <2>5 DEF ReadMember, ReadText, IsMember
    <3>2. p = [label |-> p.label, value |-> p.value]
      BY <2>5 DEF IsMember
    <3>3. [p EXCEPT !.value = Trimmed[@]] = [label |-> p.label, value |-> Trimmed[p.value]]
      BY <3>2
    <3>4. KeptMember(kind, p) = [label |-> p.label, value |-> Trimmed[p.value]]
      BY <2>5, <3>3 DEF KeptMember
    <3>5. QED
      BY <2>1, <2>2, <3>1, <3>4
  <2>6. QED
    BY <1>3, <2>3, <2>4, <2>5
<1>4. CASE kind = "blob"
  <2> DEFINE e == Element("defBLOB", at, NoContent, <<>>)
  <2>1. SaveMember(kind, n, p) = e /\ DefTag[kind] = "defBLOB"
    BY <1>4 DEF SaveMember, SaveBLOB, DefTag, at
  <2>2. Named(e) /\ LabelOf(e) = p.label /\ e.at.name = n /\ e.tag = "defBLOB"
    BY <1>2
  <2> HIDE DEF e
  <2>3. ReadMember(kind, e) = Success([label |-> p.label, value |-> NoContent])
    BY <1>4, <2>1, <2>2 DEF ReadMember, ReadBLOB
  <2>4. p = [label |-> p.label, value |-> p.value]
    BY <1>4 DEF IsMember
  <2>5. [p EXCEPT !.value = NoContent] = [label |-> p.label, value |-> NoContent]
    BY <2>4
  <2>6. KeptMember(kind, p) = [label |-> p.label, value |-> NoContent]
    BY <1>4, <2>5 DEF KeptMember
  <2>7. QED
    BY <2>1, <2>2, <2>3, <2>6
<1>5. CASE kind = "number"
  <2> DEFINE all == NumberAttrs(n, p)
             nat == Printed({"name", "label", "format", "min", "max", "step"}, all)
             e == Element("defNumber", nat, Rounded[p.value], <<>>)
  <2>1. SaveMember(kind, n, p) = e /\ DefTag[kind] = "defNumber"
    BY <1>5 DEF SaveMember, SaveNumber, DefTag
  <2>2. /\ {"name", "format", "min", "max", "step"} \subseteq DOMAIN nat
        /\ nat.name = n /\ nat.format = p.format
        /\ nat.min = Rounded[p.min] /\ nat.max = Rounded[p.max] /\ nat.step = Rounded[p.step]
        /\ "label" \in DOMAIN nat <=> p.label # Blank
        /\ "label" \in DOMAIN nat => nat.label = p.label
    BY DEF Printed, NothingToSay, NumberAttrs
  <2>3. e.at = nat /\ e.pcdata = Rounded[p.value] /\ e.tag = "defNumber"
    BY DEF Element
  <2> HIDE DEF e, nat
  <2>4. Named(e) /\ LabelOf(e) = p.label
    BY <2>2, <2>3 DEF Named, LabelOf, Has
  <2>5. /\ {p.value, p.min, p.max, p.step} \subseteq Numbers
        /\ p = [label |-> p.label, value |-> p.value, format |-> p.format,
                min |-> p.min, max |-> p.max, step |-> p.step]
    BY <1>5 DEF IsMember
  <2>6. /\ {Rounded[p.value], Rounded[p.min], Rounded[p.max], Rounded[p.step]} \subseteq Numbers
        /\ Blank \notin Numbers
    BY <2>5, DeviceFileAssumption
  <2>7. /\ Sscanf(e, "min", e.pcdata) = Rounded[p.min]
        /\ \A x : Sscanf(e, "max", x) = Rounded[p.max]
        /\ \A x : Sscanf(e, "step", x) = Rounded[p.step]
    BY <2>2, <2>3, <2>6 DEF Sscanf, Has
  <2>8. \A x : Limit(e, "min", x) = x /\ Limit(e, "max", x) = x /\ Limit(e, "step", x) = x
    BY <2>2, <2>3, <2>6 DEF Limit, Has
  <2>9. FScansexa(e.pcdata) /\ Has(e, "format")
    BY <1>5, <2>2, <2>3, <2>6 DEF FScansexa, Has
  <2> DEFINE kept == [label |-> p.label, value |-> Rounded[p.value], format |-> p.format,
                      min |-> Rounded[p.min], max |-> Rounded[p.max], step |-> Rounded[p.step]]
  <2>10. ReadNumber(e) = Success(kept)
    BY <2>2, <2>3, <2>4, <2>7, <2>8, <2>9 DEF ReadNumber
  <2>11. ReadMember(kind, e) = ReadNumber(e)
    BY <1>5, <2>1, <2>3 DEF ReadMember
  <2>12. KeptMember(kind, p) = kept
    <3> DEFINE q == [p EXCEPT !.value = Rounded[@], !.min = Rounded[@], !.max = Rounded[@],
                              !.step = Rounded[@]]
    <3>1. DOMAIN p = {"label", "value", "format", "min", "max", "step"}
      BY <2>5
    <3>2. /\ q = [a \in DOMAIN p |-> q[a]]
          /\ q.label = p.label /\ q.value = Rounded[p.value] /\ q.format = p.format
          /\ q.min = Rounded[p.min] /\ q.max = Rounded[p.max] /\ q.step = Rounded[p.step]
      BY <3>1
    <3> HIDE DEF q
    <3>3. q = kept
      BY <3>1, <3>2
    <3>4. QED
      BY <1>5, <3>3 DEF KeptMember, q
  <2>13. QED
    BY <2>1, <2>2, <2>3, <2>4, <2>10, <2>11, <2>12
<1>6. QED
  BY <1>3, <1>4, <1>5 DEF Kinds

(* What is kept of a vector, field by field.                                *)
LEMMA KeptVectorIs ==
  ASSUME NEW v, IsVector(v)
  PROVE  KeptVector(v) =
           [kind |-> v.kind, label |-> v.label, group |-> v.group, state |-> v.state,
            perm |-> v.perm, timeout |-> Rounded[v.timeout], rule |-> v.rule,
            lastOn |-> IF v.kind = "switch" THEN LastFound(v.members) ELSE v.lastOn,
            members |-> [m \in DOMAIN v.members |-> KeptMember(v.kind, v.members[m])]]
<1> DEFINE q == KeptVector(v)
           last == IF v.kind = "switch" THEN LastFound(v.members) ELSE v.lastOn
           kept == [m \in DOMAIN v.members |-> KeptMember(v.kind, v.members[m])]
<1>1. DOMAIN v = {"kind", "label", "group", "state", "perm", "timeout", "rule", "lastOn", "members"}
  BY DEF IsVector
<1>2. q = [[[v EXCEPT !.timeout = Rounded[@]] EXCEPT !.lastOn = last] EXCEPT !.members = kept]
  BY DEF KeptVector
<1> HIDE DEF last, kept
<1>3. /\ q = [a \in DOMAIN v |-> q[a]]
      /\ q.kind = v.kind /\ q.label = v.label /\ q.group = v.group /\ q.state = v.state
      /\ q.perm = v.perm /\ q.timeout = Rounded[v.timeout] /\ q.rule = v.rule
      /\ q.lastOn = last /\ q.members = kept
  <2> HIDE DEF q
  <2>1. QED
    BY <1>1, <1>2
<1> HIDE DEF q
<1>4. q = [kind |-> v.kind, label |-> v.label, group |-> v.group, state |-> v.state,
           perm |-> v.perm, timeout |-> Rounded[v.timeout], rule |-> v.rule,
           lastOn |-> last, members |-> kept]
  BY <1>1, <1>3
<1>5. QED
  BY <1>4 DEF q, last, kept

(* The attributes of a vector are read as they were saved.                  *)
LEMMA AttrsSaved ==
  ASSUME NEW v, IsVector(v), Readable(v), NEW n, NEW e, e = SaveVector(n, v)
  PROVE  /\ e.tag = VectorTag[v.kind] /\ Named(e) /\ e.at.name = n
         /\ ReadAttrsPV(e) = "ok"
         /\ v.kind # "light" => ReadAttrsNLPV(e) = "ok"
         /\ v.kind = "switch" => Has(e, "rule") /\ e.at.rule = v.rule
         /\ NewVector(v.kind, e) =
              [kind |-> v.kind, label |-> v.label, group |-> v.group, state |-> v.state,
               perm |-> v.perm, timeout |-> Rounded[v.timeout], rule |-> v.rule,
               lastOn |-> Blank, members |-> <<>>]
<1> DEFINE which == CASE v.kind = "light"  -> PrintDefAttrs
                      [] v.kind = "switch" -> SwitchPrintDefAttrs
                      [] OTHER             -> NoLightPrintDefAttrs
           at == e.at
<1>1. /\ v.kind \in Kinds /\ v.state \in States /\ v.perm \in {"ro", "rw"} /\ v.rule \in Rules
      /\ v.kind = "light" => v.perm = "ro" /\ v.timeout = 0
      /\ v.kind # "switch" => v.rule = "AnyOfMany"
      /\ v.kind # "light" => v.timeout \in Numbers
  BY DEF IsVector, Readable
<1>2. at = Printed(which, VectorAttrs(n, v)) /\ e.tag = VectorTag[v.kind]
  BY DEF SaveVector, Element
<1>3. /\ {"name", "label", "group", "state"} \subseteq which
      /\ "perm" \in which <=> v.kind # "light"
      /\ "timeout" \in which <=> v.kind # "light"
      /\ "rule" \in which <=> v.kind = "switch"
  BY <1>1 DEF PrintDefAttrs, NoLightPrintDefAttrs, SwitchPrintDefAttrs
<1> HIDE DEF which
<1>4. /\ "name" \in DOMAIN at /\ at.name = n
      /\ "state" \in DOMAIN at /\ at.state = v.state
      /\ "label" \in DOMAIN at <=> v.label # Blank
      /\ "label" \in DOMAIN at => at.label = v.label
      /\ "group" \in DOMAIN at <=> v.group # Blank
      /\ "group" \in DOMAIN at => at.group = v.group
      /\ "perm" \in DOMAIN at <=> v.kind # "light"
      /\ "perm" \in DOMAIN at => at.perm = v.perm
      /\ "timeout" \in DOMAIN at <=> v.kind # "light" /\ Rounded[v.timeout] # 0
      /\ "timeout" \in DOMAIN at => at.timeout = Rounded[v.timeout]
      /\ "rule" \in DOMAIN at <=> v.kind = "switch"
      /\ "rule" \in DOMAIN at => at.rule = v.rule
  <2> HIDE DEF at
  <2>1. QED
    BY <1>2, <1>3 DEF Printed, NothingToSay, VectorAttrs
<1>5. Has(e, "state") /\ e.at.state = v.state
  BY <1>4 DEF Has
<1>6. Named(e) /\ e.at.name = n /\ LabelOf(e) = v.label
  BY <1>4 DEF Named, Has, LabelOf
<1>7. Given(e, "group", Blank) = v.group /\ Given(e, "state", "Idle") = v.state
  BY <1>4 DEF Given, Has
<1>8. v.kind # "light" => /\ Has(e, "perm") /\ e.at.perm = v.perm
                          /\ Given(e, "perm", "ro") = v.perm
  BY <1>4 DEF Given, Has
<1>9. v.kind = "switch" => /\ Has(e, "rule") /\ e.at.rule = v.rule
                           /\ Given(e, "rule", "AnyOfMany") = v.rule
  BY <1>4 DEF Given, Has
<1>10. v.kind # "light" =>
         /\ Has(e, "timeout") => e.at.timeout # Blank
         /\ Sscanf(e, "timeout", IF Has(e, "timeout") THEN Junk ELSE 0) = Rounded[v.timeout]
  BY <1>1, <1>4, DeviceFileAssumption DEF Sscanf, Has
<1>11. Rounded[0] = 0
  BY DeviceFileAssumption
<1> HIDE DEF at
<1>12. ReadAttrsPV(e) = "ok"
  BY <1>1, <1>5 DEF ReadAttrsPV, PState4Str
<1>13. v.kind # "light" => ReadAttrsNLPV(e) = "ok"
  BY <1>1, <1>8, <1>10, <1>12 DEF ReadAttrsNLPV, Perm4Str
<1>14. NewVector(v.kind, e) =
         [kind |-> v.kind, label |-> v.label, group |-> v.group, state |-> v.state,
          perm |-> v.perm, timeout |-> Rounded[v.timeout], rule |-> v.rule,
          lastOn |-> Blank, members |-> <<>>]
  <2>1. (IF v.kind = "light" THEN "ro" ELSE Given(e, "perm", "ro")) = v.perm
    BY <1>1, <1>8
  <2>2. (IF v.kind = "light" THEN 0
         ELSE Sscanf(e, "timeout", IF Has(e, "timeout") THEN Junk ELSE 0)) = Rounded[v.timeout]
    BY <1>1, <1>10, <1>11
  <2>3. (IF v.kind = "switch" THEN Given(e, "rule", "AnyOfMany") ELSE "AnyOfMany") = v.rule
    BY <1>1, <1>9
  <2>4. QED
    BY <1>6, <1>7, <2>1, <2>2, <2>3, Zenon DEF NewVector
<1>15. QED
  BY <1>2, <1>6, <1>9, <1>12, <1>13, <1>14

(* So are its members.                                                      *)
LEMMA MembersSaved ==
  ASSUME NEW v, IsVector(v), Readable(v), NEW n, NEW e, e = SaveVector(n, v)
  PROVE  /\ ReadMembers(v.kind, e) =
              Success([m \in DOMAIN v.members |-> KeptMember(v.kind, v.members[m])])
         /\ v.members # <<>> => e.el # <<>> /\ e.el[1].tag = DefTag[v.kind]
<1> DEFINE saves == [m \in DOMAIN v.members |-> SaveMember(v.kind, m, v.members[m])]
           g == [m \in DOMAIN v.members |-> KeptMember(v.kind, v.members[m])]
           outcome == [i \in DOMAIN e.el |-> ReadMember(v.kind, e.el[i])]
           order == InOrder[DOMAIN saves]
<1>1. /\ v.kind \in Kinds /\ DOMAIN v.members \subseteq Names
      /\ v.members = [m \in DOMAIN v.members |-> v.members[m]]
      /\ \A m \in DOMAIN v.members :
           /\ IsMember(v.kind, v.members[m])
           /\ v.kind = "number" => Rounded[v.members[m].value] \notin Tiny
  BY DEF IsVector, Readable
<1>2. e.el = SaveChildren(saves)
  BY DEF SaveVector, Element
<1>3. DOMAIN saves = DOMAIN v.members
  OBVIOUS
<1>4. \A m \in DOMAIN saves :
        /\ ReadMember(v.kind, saves[m]) = Success(g[m])
        /\ saves[m].at.name = m
        /\ saves[m].tag = DefTag[v.kind]
  BY <1>1, MemberSaved
<1> HIDE DEF saves, g
<1>5. /\ DOMAIN e.el = DOMAIN order
      /\ \A i \in DOMAIN e.el : order[i] \in DOMAIN saves /\ e.el[i] = saves[order[i]]
      /\ \A m \in DOMAIN saves : \E i \in DOMAIN e.el : order[i] = m
  <2> DEFINE el == e.el
  <2>1. el = SaveChildren(saves) /\ order = InOrder[DOMAIN saves]
    BY <1>2
  <2> HIDE DEF el, order
  <2>2. /\ DOMAIN el = DOMAIN order
        /\ \A i \in DOMAIN el : order[i] \in DOMAIN saves /\ el[i] = saves[order[i]]
        /\ \A m \in DOMAIN saves : \E i \in DOMAIN el : order[i] = m
    BY <1>1, <1>3, <2>1, SavedChildren
  <2>3. QED
    BY <2>2 DEF el
<1>6. \A i \in DOMAIN e.el : outcome[i] = Success(g[e.el[i].at.name])
  BY <1>4, <1>5
<1>7. ReadChildren(e, outcome) = Success([m \in DOMAIN saves |-> g[m]])
  <2> HIDE DEF outcome, order
  <2>1. DOMAIN outcome = DOMAIN e.el
    BY DEF outcome
  <2>2. DOMAIN saves \subseteq Names /\ \A m \in DOMAIN saves : saves[m].at.name = m
    BY <1>1, <1>3, <1>4
  <2>3. QED
    BY <1>2, <1>6, <2>1, <2>2, ReadChildrenSaved
<1>8. [m \in DOMAIN saves |-> g[m]] = [m \in DOMAIN v.members |-> KeptMember(v.kind, v.members[m])]
  BY <1>3 DEF g
<1>9. ReadMembers(v.kind, e) = ReadChildren(e, outcome)
  BY DEF ReadMembers
<1>10. ASSUME v.members # <<>> PROVE e.el # <<>> /\ e.el[1].tag = DefTag[v.kind]
  <2>1. PICK m \in DOMAIN v.members : TRUE
    BY <1>1, <1>10
  <2>2. PICK i \in DOMAIN e.el : order[i] = m
    BY <1>3, <1>5
  <2>3. order \in Seq(Names)
    BY <1>1, <1>3, InOrderIs
  <2>4. Len(order) \in Nat /\ DOMAIN order = 1 .. Len(order)
    BY <2>3, LenProperties
  <2>5. 1 \in DOMAIN e.el
    BY <1>5, <2>2, <2>4
  <2>6. QED
    BY <1>4, <1>5, <2>5
<1>11. QED
  BY <1>7, <1>8, <1>9, <1>10

(* A vector is read as it was saved.                                        *)
LEMMA VectorSaved ==
  ASSUME NEW v, IsVector(v), Readable(v), NEW n
  PROVE  /\ ReadAnyVector(SaveVector(n, v)) = Success(KeptVector(v))
         /\ Named(SaveVector(n, v)) /\ SaveVector(n, v).at.name = n
<1> DEFINE e == SaveVector(n, v)
           kept == [m \in DOMAIN v.members |-> KeptMember(v.kind, v.members[m])]
           new == NewVector(v.kind, e)
           whole == [kind |-> v.kind, label |-> v.label, group |-> v.group, state |-> v.state,
                     perm |-> v.perm, timeout |-> Rounded[v.timeout], rule |-> v.rule,
                     lastOn |-> Blank, members |-> kept]
<1>1. /\ v.kind \in Kinds /\ v.rule \in Rules
      /\ v.kind # "switch" => v.lastOn = Blank
      /\ v.members = [m \in DOMAIN v.members |-> v.members[m]]
      /\ \A m \in DOMAIN v.members : IsMember(v.kind, v.members[m])
  BY DEF IsVector
<1>2. /\ e.tag = VectorTag[v.kind] /\ Named(e) /\ e.at.name = n
      /\ ReadAttrsPV(e) = "ok"
      /\ v.kind # "light" => ReadAttrsNLPV(e) = "ok"
      /\ v.kind = "switch" => Has(e, "rule") /\ e.at.rule = v.rule
      /\ new = [kind |-> v.kind, label |-> v.label, group |-> v.group, state |-> v.state,
                perm |-> v.perm, timeout |-> Rounded[v.timeout], rule |-> v.rule,
                lastOn |-> Blank, members |-> <<>>]
  BY AttrsSaved
<1>3. /\ ReadMembers(v.kind, e) = Success(kept)
      /\ v.members # <<>> => e.el # <<>> /\ e.el[1].tag = DefTag[v.kind]
  BY MembersSaved
<1> HIDE DEF e, kept, new
<1>4. ReadVector(e, "ok", new, ReadMembers(v.kind, e)) = Success(whole)
  <2>1. [new EXCEPT !.members = kept] = whole
    BY <1>2
  <2>2. ReadVector(e, "ok", new, Success(kept)) = WithMembers(new, Success(kept))
    BY <1>2 DEF ReadVector
  <2>3. WithMembers(new, Success(kept)) = Success([new EXCEPT !.members = kept])
    <3>1. Success(kept).result = "ok" /\ Success(kept).item = kept
      BY DEF Success
    <3>2. QED
      BY <3>1 DEF WithMembers
  <2>4. QED
    BY <1>3, <2>1, <2>2, <2>3
<1>5. KeptVector(v) = [kind |-> v.kind, label |-> v.label, group |-> v.group, state |-> v.state,
                       perm |-> v.perm, timeout |-> Rounded[v.timeout], rule |-> v.rule,
                       lastOn |-> IF v.kind = "switch" THEN LastFound(v.members) ELSE v.lastOn,
                       members |-> kept]
  BY KeptVectorIs DEF kept
<1>6. CASE v.kind # "switch"
  <2>1. KeptVector(v) = whole
    BY <1>1, <1>5, <1>6
  <2>2. ReadAnyVector(e) = ReadVector(e, "ok", new, ReadMembers(v.kind, e))
    <3>1. CASE v.kind = "light"
      BY <1>2, <3>1 DEF ReadAnyVector, ReadLightVector, VectorTag, new
    <3>2. CASE v.kind = "text"
      BY <1>2, <3>2 DEF ReadAnyVector, ReadTextVector, VectorTag, new
    <3>3. CASE v.kind = "number"
      BY <1>2, <3>3 DEF ReadAnyVector, ReadNumberVector, VectorTag, new
    <3>4. CASE v.kind = "blob"
      BY <1>2, <3>4 DEF ReadAnyVector, ReadBLOBVector, VectorTag, new
    <3>5. QED
      BY <1>1, <1>6, <3>1, <3>2, <3>3, <3>4 DEF Kinds
  <2>3. QED
    BY <1>2, <1>4, <2>1, <2>2 DEF e
<1>7. CASE v.kind = "switch"
  <2>1. kept = v.members
    <3>1. \A m \in DOMAIN v.members : KeptMember(v.kind, v.members[m]) = v.members[m]
      BY <1>7 DEF KeptMember
    <3>2. QED
      BY <1>1, <3>1 DEF kept
  <2>2. /\ v.rule = "OneOfMany" => Cardinality(On(v.members)) = 1
        /\ v.rule = "AtMostOne" => Cardinality(On(v.members)) <= 1
    BY <1>7 DEF Readable
  <2>3. Cardinality(On(v.members)) > 1 => v.rule # "AtMostOne"
    <3>1. CASE v.rule = "AtMostOne"
      <4>1. IsFiniteSet(On(v.members))
        <5>1. IsFiniteSet(Names)
          BY NamesFinite
        <5>2. On(v.members) \subseteq Names
          BY DEF On, IsVector
        <5>3. QED
          BY <5>1, <5>2, FS_Subset
      <4>2. Cardinality(On(v.members)) \in Nat
        BY <4>1, FS_CardinalityType
      <4>3. QED
        BY <2>2, <3>1, <4>2
    <3>2. QED
      BY <3>1
  <2>4. Repaired(v.rule, v.members) = v.members
    BY <2>2, <2>3 DEF Repaired
  <2>5. UpdateLastOn(whole) = KeptVector(v)
    <3>1. whole.members = v.members /\ whole.rule = v.rule
      BY <2>1
    <3>2. UpdateLastOn(whole) = [[whole EXCEPT !.lastOn = LastFound(v.members)] EXCEPT !.members = v.members]
      BY <2>4, <3>1 DEF UpdateLastOn
    <3>3. QED
      BY <1>5, <1>7, <2>1, <3>2
  <2>6. ~(v.rule = "OneOfMany" /\ NoSwitchRead(e))
    <3>1. SUFFICES ASSUME v.rule = "OneOfMany" PROVE ~NoSwitchRead(e)
      OBVIOUS
    <3>2. v.members # <<>>
      <4>1. SUFFICES ASSUME v.members = <<>> PROVE FALSE
        OBVIOUS
      <4>2. On(v.members) = {}
        BY <4>1 DEF On
      <4>3. QED
        BY <2>2, <3>1, <4>2, FS_EmptySet
    <3>3. QED
      BY <1>3, <1>7, <3>2 DEF NoSwitchRead
  <2>7. ReadRule(e) = "ok"
    BY <1>1, <1>2, <1>7 DEF ReadRule, Rule4Str
  <2>8. ReadAnyVector(e) = ReadSwitchVector(e)
    BY <1>2, <1>7 DEF ReadAnyVector, VectorTag
  <2>9. ReadVector(e, "ok", new, ReadMembers("switch", e)) = Success(whole)
    BY <1>4, <1>7
  <2> HIDE DEF whole
  <2>10. Success(whole).result = "ok" /\ Success(whole).item = whole
    BY DEF Success
  <2>11. ReadSwitchVector(e) = Success(UpdateLastOn(whole))
    <3>1. e.at.rule = v.rule /\ ReadAttrsNLPV(e) = "ok" /\ new = NewVector("switch", e)
      BY <1>2, <1>7 DEF new
    <3>2. QED
      BY <2>6, <2>7, <2>9, <2>10, <3>1 DEF ReadSwitchVector
  <2>12. QED
    BY <1>2, <2>5, <2>8, <2>11 DEF e
<1>8. QED
  BY <1>6, <1>7

(* What a driver saves, a driver reads: a device that can be restored is    *)
(* what its file keeps of it, once read again.                              *)
THEOREM ReadsWhatItSaved ==
  ASSUME NEW d, IsDevice(d), IsRestorable(d)
  PROVE  ReadFile(SaveDevice(d)) = Success(Kept(d))
<1> DEFINE saves == [v \in DOMAIN d.vectors |-> SaveVector(v, d.vectors[v])]
           g == [v \in DOMAIN d.vectors |-> KeptVector(d.vectors[v])]
           f == SaveDevice(d)
           outcome == [i \in DOMAIN f.el |-> ReadAnyVector(f.el[i])]
           order == InOrder[DOMAIN saves]
<1>1. /\ d = [name |-> d.name, label |-> d.label, vectors |-> d.vectors]
      /\ DOMAIN d.vectors \subseteq Names
      /\ \A v \in DOMAIN d.vectors : IsVector(d.vectors[v]) /\ Readable(d.vectors[v])
  BY DEF IsDevice, IsRestorable
<1>2. f = Element("defDevice", [name |-> d.name], Blank, SaveChildren(saves))
  BY DEF SaveDevice, IsRestorable
<1>3. f.tag = "defDevice" /\ f.at = [name |-> d.name] /\ f.el = SaveChildren(saves)
  BY <1>2 DEF Element
<1>4. DOMAIN saves = DOMAIN d.vectors
  OBVIOUS
<1>5. \A v \in DOMAIN saves : ReadAnyVector(saves[v]) = Success(g[v]) /\ saves[v].at.name = v
  BY <1>1, VectorSaved
<1> HIDE DEF saves, g, f
<1>6. /\ DOMAIN f.el = DOMAIN order
      /\ \A i \in DOMAIN f.el : order[i] \in DOMAIN saves /\ f.el[i] = saves[order[i]]
  <2> DEFINE el == f.el
  <2>1. el = SaveChildren(saves) /\ order = InOrder[DOMAIN saves]
    BY <1>3
  <2> HIDE DEF el, order
  <2>2. /\ DOMAIN el = DOMAIN order
        /\ \A i \in DOMAIN el : order[i] \in DOMAIN saves /\ el[i] = saves[order[i]]
    BY <1>1, <1>4, <2>1, SavedChildren
  <2>3. QED
    BY <2>2 DEF el
<1>7. \A i \in DOMAIN f.el : outcome[i] = Success(g[f.el[i].at.name])
  BY <1>5, <1>6
<1>8. ReadChildren(f, outcome) = Success([v \in DOMAIN saves |-> g[v]])
  <2> HIDE DEF outcome, order
  <2>1. DOMAIN outcome = DOMAIN f.el
    BY DEF outcome
  <2>2. DOMAIN saves \subseteq Names /\ \A n \in DOMAIN saves : saves[n].at.name = n
    BY <1>1, <1>4, <1>5
  <2>3. f.el = SaveChildren(saves)
    BY <1>3
  <2>4. QED
    BY <1>7, <2>1, <2>2, <2>3, ReadChildrenSaved
<1> DEFINE kept == [v \in DOMAIN d.vectors |-> KeptVector(d.vectors[v])]
<1>9. [v \in DOMAIN saves |-> g[v]] = kept
  BY <1>4 DEF g
<1> HIDE DEF kept
<1>10. Named(f) /\ LabelOf(f) = Blank
  BY <1>3 DEF Named, LabelOf, Has
<1>11. ReadDevice(f) = Success([name |-> d.name, label |-> Blank, vectors |-> kept])
  <2>1. ReadChildren(f, outcome) = Success(kept)
    BY <1>8, <1>9
  <2>2. Success(kept).result = "ok" /\ Success(kept).item = kept
    BY DEF Success
  <2>3. f.at.name = d.name
    BY <1>3
  <2> HIDE DEF outcome
  <2>4. QED
    BY <1>10, <2>1, <2>2, <2>3 DEF ReadDevice, outcome
<1>12. Kept(d) = [name |-> d.name, label |-> Blank, vectors |-> kept]
  <2>1. Kept(d) = [[d EXCEPT !.label = Blank] EXCEPT !.vectors = kept]
    BY DEF Kept, kept
  <2>2. QED
    BY <1>1, <2>1
<1>13. ReadFile(f) = ReadDevice(f)
  BY <1>3 DEF ReadFile
<1>14. QED
  BY <1>11, <1>12, <1>13 DEF f

-----------------------------------------------------------------------------
(* What the readers make has its type.                                      *)

(* Children are read if each of them is, each name once.                    *)
LEMMA ReadChildrenIs ==
  ASSUME NEW e, HasChildren(e), NEW outcome, DOMAIN outcome = DOMAIN e.el,
         NEW read, read = ReadChildren(e, outcome), read.result = "ok"
  PROVE  /\ read.item = [n \in DOMAIN read.item |-> read.item[n]]
         /\ \A i \in DOMAIN e.el : outcome[i].result = "ok"
         /\ \A n \in DOMAIN read.item : \E i \in DOMAIN e.el :
              e.el[i].at.name = n /\ read.item[n] = outcome[i].item
<1> DEFINE wrong == {i \in DOMAIN outcome : outcome[i].result # "ok"}
           first(n) == CHOOSE i \in DOMAIN e.el :
                         e.el[i].at.name = n /\ \A j \in 1 .. i - 1 : e.el[j].at.name # n
           names == {e.el[i].at.name : i \in DOMAIN e.el}
           item == [n \in names |-> outcome[first(n)].item]
<1>1. Len(e.el) \in Nat /\ DOMAIN e.el = 1 .. Len(e.el)
  BY LenProperties DEF HasChildren
<1>2. wrong = {}
  <2>1. SUFFICES ASSUME wrong # {} PROVE FALSE
    OBVIOUS
  <2>2. wrong \in SUBSET Nat
    BY <1>1
  <2>3. \E i \in wrong : \A j \in wrong : i <= j
    BY <2>1, <2>2, NatMin
  <2>4. read = outcome[CHOOSE i \in wrong : \A j \in wrong : i <= j]
    BY <2>1 DEF ReadChildren
  <2>5. (CHOOSE i \in wrong : \A j \in wrong : i <= j) \in wrong
    BY <2>3
  <2>6. QED
    BY <2>4, <2>5
<1>3. read = Success(item)
  BY <1>2 DEF ReadChildren
<1>4. read.item = item
  <2> HIDE DEF item
  <2>1. QED
    BY <1>3 DEF Success
<1>5. ASSUME NEW n \in names
      PROVE  first(n) \in DOMAIN e.el /\ e.el[first(n)].at.name = n
  <2> DEFINE S == {i \in DOMAIN e.el : e.el[i].at.name = n}
  <2>1. S \in SUBSET Nat /\ S # {}
    BY <1>1
  <2>2. PICK i \in S : \A j \in S : i <= j
    BY <2>1, NatMin
  <2>3. \A j \in 1 .. i - 1 : e.el[j].at.name # n
    BY <1>1, <2>2
  <2>4. QED
    BY <2>2, <2>3
<1>6. \A i \in DOMAIN e.el : outcome[i].result = "ok"
  BY <1>2
<1> HIDE DEF first, names
<1>7. QED
  BY <1>4, <1>5, <1>6

(* Members.                                                                 *)
LEMMA ReadMemberIs ==
  ASSUME NEW kind \in Kinds, NEW c, TextKnown(c), ReadMember(kind, c).result = "ok"
  PROVE  IsMember(kind, ReadMember(kind, c).item) /\ Named(c)
<1>1. Failure.result # "ok" /\ Death.result # "ok"
  BY DEF Failure, Death
<1>2. c.tag = DefTag[kind]
  BY <1>1 DEF ReadMember
<1>3. CASE kind = "light"
  BY <1>1, <1>2, <1>3 DEF ReadMember, ReadLight, Success, IsMember, PState4Str
<1>4. CASE kind = "text"
  <2>1. c.pcdata \in Texts
    BY <1>2, <1>4 DEF TextKnown, DefTag
  <2>2. Trimmed[c.pcdata] \in Texts
    BY <2>1, DeviceFileAssumption
  <2>3. QED
    BY <1>1, <1>2, <1>4, <2>2 DEF ReadMember, ReadText, Success, IsMember
<1>5. CASE kind = "switch"
  BY <1>1, <1>2, <1>5 DEF ReadMember, ReadSwitch, Success, IsMember, SState4Str
<1>6. CASE kind = "blob"
  BY <1>1, <1>2, <1>6 DEF ReadMember, ReadBLOB, Success, IsMember
<1>7. CASE kind = "number"
  <2>1. ReadMember(kind, c) = ReadNumber(c)
    BY <1>2, <1>7 DEF ReadMember
  <2>2. Named(c) /\ FScansexa(c.pcdata) /\ Has(c, "format")
    BY <1>1, <2>1 DEF ReadNumber
  <2>3. c.pcdata \in Numbers
    BY <2>2 DEF FScansexa
  <2> DEFINE min == Sscanf(c, "min", c.pcdata)
             max == Sscanf(c, "max", min)
             step == Sscanf(c, "step", max)
             p == [label |-> LabelOf(c), value |-> c.pcdata, format |-> c.at.format,
                   min |-> Limit(c, "min", min), max |-> Limit(c, "max", max),
                   step |-> Limit(c, "step", step)]
  <2>4. min \in Numbers /\ max \in Numbers /\ step \in Numbers /\ 0 \in Numbers
    BY <2>3, DeviceFileAssumption DEF Sscanf
  <2>5. ReadNumber(c) = Success(p)
    BY <2>2 DEF ReadNumber
  <2> HIDE DEF min, max, step
  <2>6. /\ Limit(c, "min", min) \in Numbers /\ Limit(c, "max", max) \in Numbers
        /\ Limit(c, "step", step) \in Numbers
    BY <2>4 DEF Limit
  <2>7. IsMember(kind, p)
    BY <1>7, <2>3, <2>6 DEF IsMember
  <2> HIDE DEF p
  <2>8. QED
    BY <2>1, <2>2, <2>5, <2>7 DEF Success
<1>8. QED
  BY <1>3, <1>4, <1>5, <1>6, <1>7 DEF Kinds

(* What a vector holds once its attributes are read, and nothing of its     *)
(* members.                                                                 *)
LEMMA NewVectorIs ==
  ASSUME NEW kind \in Kinds, NEW e, NEW members,
         ReadAttrsPV(e) = "ok", kind # "light" => ReadAttrsNLPV(e) = "ok",
         kind = "switch" => ReadRule(e) = "ok",
         members = [m \in DOMAIN members |-> members[m]], DOMAIN members \subseteq Names,
         \A m \in DOMAIN members : IsMember(kind, members[m])
  PROVE  LET v == [NewVector(kind, e) EXCEPT !.members = members]
         IN  IsVector(v) /\ v.kind = kind /\ v.members = members
<1> DEFINE w == NewVector(kind, e)
           v == [w EXCEPT !.members = members]
<1>1. w = [kind |-> w.kind, label |-> w.label, group |-> w.group, state |-> w.state,
           perm |-> w.perm, timeout |-> w.timeout, rule |-> w.rule, lastOn |-> w.lastOn,
           members |-> w.members]
  BY DEF NewVector
<1>2. w.kind = kind /\ w.lastOn = Blank
  BY DEF NewVector
<1>3. w.state \in States
  BY DEF NewVector, ReadAttrsPV, Given, PState4Str, States, Has
<1>4. w.perm \in {"ro", "rw"} /\ (kind = "light" => w.perm = "ro" /\ w.timeout = 0)
  BY DEF NewVector, ReadAttrsNLPV, Given, Perm4Str, Has
<1>5. w.rule \in Rules /\ (kind # "switch" => w.rule = "AnyOfMany")
  BY DEF NewVector, ReadRule, Given, Rule4Str, Has, Rules
<1> HIDE DEF w
<1>6. v = [kind |-> w.kind, label |-> w.label, group |-> w.group, state |-> w.state,
           perm |-> w.perm, timeout |-> w.timeout, rule |-> w.rule, lastOn |-> w.lastOn,
           members |-> members]
  BY <1>1
<1> HIDE DEF v
<1>7. /\ v.kind = w.kind /\ v.label = w.label /\ v.group = w.group /\ v.state = w.state
      /\ v.perm = w.perm /\ v.timeout = w.timeout /\ v.rule = w.rule /\ v.lastOn = w.lastOn
      /\ v.members = members
  BY <1>6
<1>8. v = [kind |-> v.kind, label |-> v.label, group |-> v.group, state |-> v.state,
           perm |-> v.perm, timeout |-> v.timeout, rule |-> v.rule, lastOn |-> v.lastOn,
           members |-> v.members]
  BY <1>6, <1>7
<1>9. IsVector(v)
  BY <1>2, <1>3, <1>4, <1>5, <1>7, <1>8, Zenon DEF IsVector
<1>10. QED
  BY <1>2, <1>7, <1>9 DEF v, w

(* The repairs of a switch vector.                                          *)
LEMMA UpdateLastOnIs ==
  ASSUME NEW v, IsVector(v), v.kind = "switch"
  PROVE  IsVector(UpdateLastOn(v))
<1> DEFINE w == UpdateLastOn(v)
           members == Repaired(v.rule, v.members)
           last == LastFound(v.members)
<1>1. /\ v.members = [m \in DOMAIN v.members |-> v.members[m]]
      /\ DOMAIN v.members \subseteq Names
      /\ \A m \in DOMAIN v.members : IsMember("switch", v.members[m])
  BY DEF IsVector
<1>2. \A on : /\ Turned(v.members, on) = [m \in DOMAIN v.members |-> Turned(v.members, on)[m]]
              /\ DOMAIN Turned(v.members, on) = DOMAIN v.members
              /\ \A m \in DOMAIN v.members : IsMember("switch", Turned(v.members, on)[m])
  <2>1. SUFFICES ASSUME NEW on, NEW m \in DOMAIN v.members
                 PROVE  IsMember("switch", Turned(v.members, on)[m])
    BY DEF Turned
  <2> DEFINE p == v.members[m]
  <2>2. p = [label |-> p.label, value |-> p.value]
    BY <1>1 DEF IsMember
  <2>3. Turned(v.members, on)[m] = [p EXCEPT !.value = IF m \in on THEN "On" ELSE "Off"]
    BY DEF Turned
  <2> HIDE DEF p
  <2>4. Turned(v.members, on)[m] = [label |-> p.label, value |-> IF m \in on THEN "On" ELSE "Off"]
    BY <2>2, <2>3
  <2>5. QED
    BY <2>4 DEF IsMember
<1>3. /\ members = [m \in DOMAIN members |-> members[m]] /\ DOMAIN members = DOMAIN v.members
      /\ \A m \in DOMAIN members : IsMember("switch", members[m])
  <2>1. (\E on : members = Turned(v.members, on)) \/ members = v.members
    BY DEF Repaired
  <2>2. QED
    BY <1>1, <1>2, <2>1
<1>4. w = [[v EXCEPT !.lastOn = last] EXCEPT !.members = members]
  BY DEF UpdateLastOn
<1>5. /\ v = [kind |-> v.kind, label |-> v.label, group |-> v.group, state |-> v.state,
              perm |-> v.perm, timeout |-> v.timeout, rule |-> v.rule, lastOn |-> v.lastOn,
              members |-> v.members]
      /\ v.kind \in Kinds /\ v.state \in States /\ v.perm \in {"ro", "rw"} /\ v.rule \in Rules
  BY DEF IsVector
<1> HIDE DEF w, members, last
<1>6. w = [kind |-> v.kind, label |-> v.label, group |-> v.group, state |-> v.state,
           perm |-> v.perm, timeout |-> v.timeout, rule |-> v.rule, lastOn |-> last,
           members |-> members]
  BY <1>4, <1>5
<1>7. IsVector(w)
  BY <1>1, <1>3, <1>5, <1>6 DEF IsVector
<1>8. QED
  BY <1>7 DEF w


(* Vectors.                                                                 *)
LEMMA ReadMembersIs ==
  ASSUME NEW kind \in Kinds, NEW e, HasChildren(e),
         \A c \in Children(e) : NameKnown(c) /\ TextKnown(c),
         NEW read, read = ReadMembers(kind, e), read.result = "ok"
  PROVE  /\ read.item = [m \in DOMAIN read.item |-> read.item[m]]
         /\ DOMAIN read.item \subseteq Names
         /\ \A m \in DOMAIN read.item : IsMember(kind, read.item[m])
<1> DEFINE outcome == [i \in DOMAIN e.el |-> ReadMember(kind, e.el[i])]
<1>1. /\ read = ReadChildren(e, outcome) /\ DOMAIN outcome = DOMAIN e.el
      /\ \A i \in DOMAIN e.el : outcome[i] = ReadMember(kind, e.el[i])
  BY DEF ReadMembers
<1> HIDE DEF outcome
<1>2. /\ read.item = [n \in DOMAIN read.item |-> read.item[n]]
      /\ \A i \in DOMAIN e.el : outcome[i].result = "ok"
      /\ \A n \in DOMAIN read.item : \E i \in DOMAIN e.el :
           e.el[i].at.name = n /\ read.item[n] = outcome[i].item
  BY <1>1, ReadChildrenIs
<1>3. ASSUME NEW m \in DOMAIN read.item
      PROVE  m \in Names /\ IsMember(kind, read.item[m])
  <2>1. PICK i \in DOMAIN e.el : e.el[i].at.name = m /\ read.item[m] = outcome[i].item
    BY <1>2
  <2>2. e.el[i] \in Children(e)
    BY DEF Children
  <2>3. IsMember(kind, ReadMember(kind, e.el[i]).item) /\ Named(e.el[i])
    BY <1>1, <1>2, <2>2, ReadMemberIs
  <2>4. QED
    BY <1>1, <2>1, <2>2, <2>3 DEF NameKnown
<1>4. QED
  BY <1>2, <1>3

(* A vector that is read has members of its kind, once its attributes are   *)
(* right.                                                                   *)
LEMMA ReadVectorIs ==
  ASSUME NEW kind \in Kinds, NEW e, HasChildren(e),
         \A c \in Children(e) : NameKnown(c) /\ TextKnown(c), NEW attrs,
         attrs = "ok" => /\ ReadAttrsPV(e) = "ok" /\ (kind # "light" => ReadAttrsNLPV(e) = "ok")
                         /\ (kind = "switch" => ReadRule(e) = "ok"),
         NEW read, read = ReadVector(e, attrs, NewVector(kind, e), ReadMembers(kind, e)),
         read.result = "ok", attrs \in {"ok", "dies", "fails"}
  PROVE  IsVector(read.item) /\ read.item.kind = kind /\ Named(e)
<1> DEFINE members == ReadMembers(kind, e)
           new == NewVector(kind, e)
<1>1. Failure.result # "ok" /\ Death.result # "ok"
  BY DEF Failure, Death
<1>2. Named(e) /\ attrs = "ok"
  BY <1>1 DEF ReadVector
<1>3. read = WithMembers(new, members)
  BY <1>2 DEF ReadVector
<1> HIDE DEF new, members
<1>4. members.result = "ok"
  BY <1>3 DEF WithMembers
<1>5. read.item = [new EXCEPT !.members = members.item]
  BY <1>3, <1>4 DEF WithMembers, Success
<1>6. /\ members.item = [m \in DOMAIN members.item |-> members.item[m]]
      /\ DOMAIN members.item \subseteq Names
      /\ \A m \in DOMAIN members.item : IsMember(kind, members.item[m])
  BY <1>4, ReadMembersIs DEF members
<1>7. IsVector(read.item) /\ read.item.kind = kind
  <2> DEFINE item == members.item
             v == [NewVector(kind, e) EXCEPT !.members = item]
  <2>1. /\ item = [m \in DOMAIN item |-> item[m]] /\ DOMAIN item \subseteq Names
        /\ \A m \in DOMAIN item : IsMember(kind, item[m])
    BY <1>6
  <2>2. read.item = v
    BY <1>5 DEF new
  <2> HIDE DEF item
  <2>3. /\ ReadAttrsPV(e) = "ok" /\ (kind # "light" => ReadAttrsNLPV(e) = "ok")
        /\ kind = "switch" => ReadRule(e) = "ok"
    BY <1>2
  <2>4. IsVector(v) /\ v.kind = kind
    BY <2>1, <2>3, NewVectorIs
  <2>5. QED
    BY <2>2, <2>4
<1>8. QED
  BY <1>2, <1>7

(* Whatever its tag, a vector that is read is one.                          *)
LEMMA ReadAnyVectorIs ==
  ASSUME NEW e, HasChildren(e), \A c \in Children(e) : NameKnown(c) /\ TextKnown(c),
         NEW read, read = ReadAnyVector(e), read.result = "ok"
  PROVE  IsVector(read.item) /\ Named(e)
<1>1. Failure.result # "ok" /\ Death.result # "ok"
  BY DEF Failure, Death
<1>2. /\ ReadAttrsPV(e) \in {"ok", "dies"} /\ ReadAttrsNLPV(e) \in {"ok", "dies", "fails"}
      /\ ReadRule(e) \in {"ok", "dies", "fails"}
      /\ ReadAttrsNLPV(e) = "ok" => ReadAttrsPV(e) = "ok"
  BY DEF ReadAttrsPV, ReadAttrsNLPV, ReadRule
<1>3. CASE e.tag = "defLightVector"
  <2>1. read = ReadVector(e, ReadAttrsPV(e), NewVector("light", e), ReadMembers("light", e))
    BY <1>3 DEF ReadAnyVector, ReadLightVector
  <2>2. QED
    BY <1>2, <2>1, ReadVectorIs DEF Kinds
<1>4. CASE e.tag = "defTextVector"
  <2>1. read = ReadVector(e, ReadAttrsNLPV(e), NewVector("text", e), ReadMembers("text", e))
    BY <1>4 DEF ReadAnyVector, ReadTextVector
  <2>2. QED
    BY <1>2, <2>1, ReadVectorIs DEF Kinds
<1>5. CASE e.tag = "defNumberVector"
  <2>1. read = ReadVector(e, ReadAttrsNLPV(e), NewVector("number", e), ReadMembers("number", e))
    BY <1>5 DEF ReadAnyVector, ReadNumberVector
  <2>2. QED
    BY <1>2, <2>1, ReadVectorIs DEF Kinds
<1>6. CASE e.tag = "defBLOBVector"
  <2>1. read = ReadVector(e, ReadAttrsNLPV(e), NewVector("blob", e), ReadMembers("blob", e))
    BY <1>6 DEF ReadAnyVector, ReadBLOBVector
  <2>2. QED
    BY <1>2, <2>1, ReadVectorIs DEF Kinds
<1>7. CASE e.tag = "defSwitchVector"
  <2> DEFINE nlpv == ReadAttrsNLPV(e)
             attrs == IF nlpv = "ok" THEN ReadRule(e) ELSE nlpv
             switches == ReadVector(e, attrs, NewVector("switch", e), ReadMembers("switch", e))
  <2>1. read = ReadSwitchVector(e)
    BY <1>7 DEF ReadAnyVector
  <2>2. switches.result = "ok" /\ read = Success(UpdateLastOn(switches.item))
    BY <1>1, <2>1 DEF ReadSwitchVector
  <2>3. attrs \in {"ok", "dies", "fails"} /\ (attrs = "ok" => nlpv = "ok" /\ ReadRule(e) = "ok")
    BY <1>2
  <2> HIDE DEF attrs
  <2>4. IsVector(switches.item) /\ switches.item.kind = "switch" /\ Named(e)
    BY <1>2, <2>2, <2>3, ReadVectorIs DEF Kinds
  <2>5. IsVector(UpdateLastOn(switches.item))
    BY <2>4, UpdateLastOnIs
  <2> HIDE DEF switches
  <2>6. QED
    BY <2>2, <2>4, <2>5 DEF Success
<1>8. QED
  BY <1>1, <1>3, <1>4, <1>5, <1>6, <1>7 DEF ReadAnyVector

(* Devices.                                                                 *)
LEMMA ReadFileIs ==
  ASSUME NEW f, IsDeviceTree(f), NEW read, read = ReadFile(f), read.result = "ok"
  PROVE  IsDevice(read.item) /\ read.item.name = f.at.name /\ f.tag = "defDevice" /\ Named(f)
<1> DEFINE outcome == [i \in DOMAIN f.el |-> ReadAnyVector(f.el[i])]
           vectors == ReadChildren(f, outcome)
<1>1. Failure.result # "ok" /\ Death.result # "ok"
  BY DEF Failure, Death
<1>2. f.tag = "defDevice" /\ read = ReadDevice(f)
  BY <1>1 DEF ReadFile
<1>3. /\ Named(f) /\ vectors.result = "ok"
      /\ read = Success([name |-> f.at.name, label |-> LabelOf(f), vectors |-> vectors.item])
  BY <1>1, <1>2 DEF ReadDevice
<1>4. HasChildren(f) /\ DOMAIN outcome = DOMAIN f.el
  BY DEF IsDeviceTree
<1>5. \A i \in DOMAIN f.el : outcome[i] = ReadAnyVector(f.el[i])
  OBVIOUS
<1> HIDE DEF outcome
<1>6. /\ vectors.item = [n \in DOMAIN vectors.item |-> vectors.item[n]]
      /\ \A i \in DOMAIN f.el : outcome[i].result = "ok"
      /\ \A n \in DOMAIN vectors.item : \E i \in DOMAIN f.el :
           f.el[i].at.name = n /\ vectors.item[n] = outcome[i].item
  BY <1>3, <1>4, ReadChildrenIs
<1> HIDE DEF vectors
<1>7. ASSUME NEW n \in DOMAIN vectors.item
      PROVE  n \in Names /\ IsVector(vectors.item[n])
  <2>1. PICK i \in DOMAIN f.el : f.el[i].at.name = n /\ vectors.item[n] = outcome[i].item
    BY <1>6
  <2>2. f.el[i] \in Children(f)
    BY DEF Children
  <2>3. /\ HasChildren(f.el[i]) /\ NameKnown(f.el[i])
        /\ \A c \in Children(f.el[i]) : NameKnown(c) /\ TextKnown(c)
    BY <2>2 DEF IsDeviceTree
  <2>4. IsVector(outcome[i].item) /\ Named(f.el[i])
    BY <1>5, <1>6, <2>3, ReadAnyVectorIs
  <2>5. QED
    BY <2>1, <2>3, <2>4 DEF NameKnown
<1>8. read.item = [name |-> f.at.name, label |-> LabelOf(f), vectors |-> vectors.item]
  BY <1>3 DEF Success
<1>9. QED
  BY <1>2, <1>3, <1>6, <1>7, <1>8 DEF IsDevice

(* A saved device is a file that can be read.                               *)
LEMMA SavedIsSeq ==
  ASSUME NEW saves, DOMAIN saves \subseteq Names, NEW e, e.el = SaveChildren(saves)
  PROVE  /\ HasChildren(e)
         /\ \A c \in Children(e) : \E n \in DOMAIN saves : c = saves[n]
<1> DEFINE order == InOrder[DOMAIN saves]
<1>1. order \in Seq(Names)
  BY InOrderIs
<1>2. Len(order) \in Nat /\ DOMAIN order = 1 .. Len(order)
  BY <1>1, LenProperties
<1>3. e.el = [i \in DOMAIN order |-> saves[order[i]]]
  BY DEF SaveChildren
<1>4. /\ DOMAIN e.el = DOMAIN order
      /\ \A i \in DOMAIN e.el : order[i] \in DOMAIN saves /\ e.el[i] = saves[order[i]]
  BY SavedChildren
<1>5. \A i \in 1 .. Len(order) : saves[order[i]] \in Children(e)
  BY <1>2, <1>4 DEF Children
<1> HIDE DEF order
<1>6. e.el \in Seq(Children(e))
  BY <1>2, <1>3, <1>5, IsASeq
<1>7. QED
  BY <1>4, <1>6 DEF HasChildren, Children

(* A file with nothing in it is a tree.                                     *)
LEMMA NoFileIs == IsDeviceTree(NoFile)
<1>1. NoFile.el = <<>> /\ DOMAIN <<>> = {}
  BY EmptySeq, LenProperties DEF NoFile, Element
<1>2. <<>> \in Seq(Children(NoFile)) /\ Children(NoFile) = {}
  BY <1>1 DEF Children
<1>3. QED
  BY <1>1, <1>2 DEF IsDeviceTree, HasChildren

(* What is saved of a device is a tree of known names and texts.            *)
LEMMA SavedIsTree ==
  ASSUME NEW d, IsDevice(d)
  PROVE  IsDeviceTree(SaveDevice(d))
<1> DEFINE saves == [v \in DOMAIN d.vectors |-> SaveVector(v, d.vectors[v])]
           f == SaveDevice(d)
<1>1. CASE ~Printable(d)
  BY <1>1, NoFileIs DEF SaveDevice
<1>2. CASE Printable(d)
  <2>1. f.el = SaveChildren(saves)
    BY <1>2 DEF SaveDevice, Element
  <2>2. /\ DOMAIN saves \subseteq Names
        /\ \A v \in DOMAIN saves : saves[v] = SaveVector(v, d.vectors[v]) /\ IsVector(d.vectors[v])
    BY DEF IsDevice
  <2> HIDE DEF saves, f
  <2>3. HasChildren(f) /\ \A c \in Children(f) : \E n \in DOMAIN saves : c = saves[n]
    BY <2>1, <2>2, SavedIsSeq
  <2>4. ASSUME NEW n \in Names, NEW v, IsVector(v), NEW e, e = SaveVector(n, v)
        PROVE  /\ HasChildren(e) /\ NameKnown(e)
               /\ \A c \in Children(e) : NameKnown(c) /\ TextKnown(c)
    <3> DEFINE members == [m \in DOMAIN v.members |-> SaveMember(v.kind, m, v.members[m])]
               which == CASE v.kind = "light"  -> PrintDefAttrs
                          [] v.kind = "switch" -> SwitchPrintDefAttrs
                          [] OTHER             -> NoLightPrintDefAttrs
               at == VectorAttrs(n, v)
    <3>1. e.el = SaveChildren(members) /\ e.at = Printed(which, at)
      BY <2>4 DEF SaveVector, Element
    <3>2. DOMAIN members \subseteq Names /\ v.kind \in Kinds
      BY <2>4 DEF IsVector
    <3>3. \A m \in DOMAIN members :
            members[m] = SaveMember(v.kind, m, v.members[m]) /\ IsMember(v.kind, v.members[m])
      BY <2>4 DEF IsVector
    <3>4. e.at.name = n
      <4>1. at.name = n /\ ~NothingToSay("name", at.name)
        BY DEF VectorAttrs, NothingToSay
      <4>2. "name" \in which
        BY DEF PrintDefAttrs, SwitchPrintDefAttrs, NoLightPrintDefAttrs
      <4> HIDE DEF which, at
      <4>3. "name" \in DOMAIN Printed(which, at) /\ Printed(which, at).name = at.name
        BY <4>1, <4>2 DEF Printed
      <4>4. QED
        BY <3>1, <4>1, <4>3
    <3> HIDE DEF members
    <3>5. HasChildren(e) /\ \A c \in Children(e) : \E m \in DOMAIN members : c = members[m]
      BY <3>1, <3>2, SavedIsSeq
    <3>6. ASSUME NEW m \in DOMAIN members
          PROVE  NameKnown(members[m]) /\ TextKnown(members[m])
      <4> DEFINE p == v.members[m]
                 c == members[m]
      <4>1. c = SaveMember(v.kind, m, p) /\ IsMember(v.kind, p) /\ m \in Names
        BY <3>2, <3>3
      <4>2. c.at.name = m
        <5> DEFINE two == [name |-> m, label |-> p.label]
                   six == NumberAttrs(m, p)
        <5>1. /\ two.name = m /\ ~NothingToSay("name", two.name)
              /\ six.name = m /\ ~NothingToSay("name", six.name)
          BY DEF NumberAttrs, NothingToSay
        <5>2. \/ c.at = Printed({"name", "label"}, two)
              \/ c.at = Printed({"name", "label", "format", "min", "max", "step"}, six)
          BY <4>1 DEF SaveMember, SaveNumber, SaveBLOB, SaveProperty, Element
        <5> HIDE DEF two, six, c
        <5>3. QED
          BY <5>1, <5>2 DEF Printed
      <4>3. c.tag = "defText" => c.pcdata \in Texts
        <5>1. c.tag = DefTag[v.kind]
          BY <3>2, <4>1 DEF SaveMember, SaveNumber, SaveBLOB, SaveProperty, Element, DefTag
        <5>2. c.tag = "defText" => v.kind = "text"
          BY <3>2, <5>1 DEF DefTag, Kinds
        <5>3. v.kind = "text" => c.pcdata = p.value
          BY <4>1 DEF SaveMember, SaveProperty, Element
        <5>4. v.kind = "text" => p.value \in Texts
          BY <4>1 DEF IsMember
        <5> HIDE DEF c
        <5>5. QED
          BY <5>2, <5>3, <5>4
      <4>4. QED
        BY <4>1, <4>2, <4>3 DEF NameKnown, TextKnown
    <3>7. QED
      BY <3>4, <3>5, <3>6 DEF NameKnown
  <2>5. ASSUME NEW c \in Children(f)
        PROVE  /\ HasChildren(c) /\ NameKnown(c)
               /\ \A d2 \in Children(c) : NameKnown(d2) /\ TextKnown(d2)
    <3>1. PICK n \in DOMAIN saves : c = saves[n]
      BY <2>3
    <3>2. c = SaveVector(n, d.vectors[n]) /\ IsVector(d.vectors[n]) /\ n \in Names
      BY <2>2, <3>1
    <3>3. QED
      BY <2>4, <3>2
  <2>6. QED
    BY <2>3, <2>5 DEF IsDeviceTree, f
<1>3. QED
  BY <1>1, <1>2

-----------------------------------------------------------------------------
(* The invariant.                                                           *)

(* What the tree has under a name: a device as a reader made it, with a file*)
(* unless it is the manager's, or one that was deleted.                     *)
IsItem(item) ==
  \/ item = Dangling
  \/ /\ item = [deleted |-> FALSE, device |-> item.device, fileName |-> item.fileName,
                imp |-> item.imp]
     /\ IsDevice(item.device)
     /\ item.fileName \in Paths \/ (item.fileName = Nothing /\ item.imp = NoImp)

TreeInv ==
  /\ \A n \in DOMAIN tree : IsItem(tree[n])
  /\ pc \notin {"init", "ended"} =>
       /\ Alive(manager) /\ tree[manager].fileName = Nothing /\ tree[manager].imp = NoImp
  /\ pc = "init" => tree = <<>>
  /\ pc = "saving" => saving \in Implemented

FilesInv ==
  /\ IsDisk(files)
  /\ DOMAIN saved = Paths
  /\ \A p \in Paths : saved[p] # Nothing =>
       IsDevice(saved[p]) /\ files.devices[p] = SaveDevice(saved[p])

(* While devices are loaded: every device but the manager's is the one of   *)
(* its file, and every vector seen to, strays aside, tells what became of   *)
(* its own.                                                                 *)
FileOf(path) == IF path \in Paths THEN files.devices[path] ELSE NoFile
TextOf(v, m) == Manager.vectors[v].members[m].value

Comes(n) ==
  /\ tree[n].fileName \in Paths
  /\ ReadFile(FileOf(tree[n].fileName)).result = "ok"
  /\ ReadFile(FileOf(tree[n].fileName)).item.name = n

SeenTo(v) ==
  LET read == ReadFile(FileOf(TextOf(v, ConfigText)))
  IN  /\ TextOf(v, ConfigText) \in Texts
      /\ read.result # "ok" => Manager.vectors[v].state = "Alert"
      /\ read.result = "ok" =>
           /\ Alive(read.item.name) /\ tree[read.item.name].fileName = TextOf(v, ConfigText)
           /\ Manager.vectors[v].state =
                IF TextOf(v, ModuleText) \in {tree[read.item.name].imp, NullModule}
                THEN "Ok" ELSE "Alert"

LoadInv ==
  pc \in {"load", "relations", "setup"} =>
    /\ loading \in Seq(DOMAIN Manager.vectors)
    /\ pc = "load" <=> loading # <<>>
    /\ \A i, j \in DOMAIN loading : loading[i] = loading[j] => i = j
    /\ \A n \in DOMAIN tree \ {manager} : Alive(n) => Comes(n)
    /\ \A v \in DOMAIN Manager.vectors \ (ToSet(loading) \union strays) : SeenTo(v)

Truthful ==
  \A v \in DOMAIN Manager.vectors \ strays :
    Manager.vectors[v].state = IF HasDevice(v) THEN "Ok" ELSE "Alert"

LoopInv == pc \in {"loop", "saving"} => Truthful

RelationsInv ==
  pc = "setup" => \E found : registered = Reverse(Relationships(files.relations, found))

IInv == FilesInv /\ TreeInv /\ LoadInv /\ LoopInv /\ RelationsInv

(* Steps that touch neither files nor devices.                              *)
LEMMA SameData ==
  ASSUME FilesInv, TreeInv, UNCHANGED <<files, tree, manager, saved>>,
         pc' # "init", pc' # "ended" => pc \notin {"init", "ended"},
         pc' = "saving" => pc = "saving" /\ saving' = saving
  PROVE  FilesInv' /\ TreeInv'
<1>1. Paths' = Paths /\ \A n : Alive(n)' <=> Alive(n)
  BY DEF Paths, Alive
<1>2. FilesInv'
  BY <1>1 DEF FilesInv
<1>3. \A item : IsItem(item)' <=> IsItem(item)
  BY <1>1 DEF IsItem
<1>4. Implemented' = Implemented
  BY <1>1 DEF Implemented
<1>5. TreeInv'
  BY <1>1, <1>3, <1>4 DEF TreeInv
<1>6. QED
  BY <1>2, <1>5

(* What the manager has seen to stays so while files and tree do not        *)
(* change.                                                                  *)
LEMMA SameLoad ==
  ASSUME LoadInv, LoopInv, UNCHANGED <<files, tree, manager, loading, strays>>,
         pc' \in {"load", "relations", "setup"} => pc' = pc,
         pc' \in {"loop", "saving"} => pc \in {"loop", "saving"}
  PROVE  LoadInv' /\ LoopInv'
<1>1. Paths' = Paths /\ Manager' = Manager /\ \A n : Alive(n)' <=> Alive(n)
  BY DEF Paths, Alive, Manager
<1>2. \A path : FileOf(path)' = FileOf(path)
  BY <1>1 DEF FileOf
<1>3. \A v, m : TextOf(v, m)' = TextOf(v, m)
  BY <1>1 DEF TextOf
<1>4. \A n : Comes(n)' <=> Comes(n)
  BY <1>1, <1>2 DEF Comes
<1>5. \A v : SeenTo(v)' <=> SeenTo(v)
  BY <1>1, <1>2, <1>3 DEF SeenTo
<1>6. LoadInv'
  BY <1>1, <1>4, <1>5 DEF LoadInv
<1>7. \A v : HasDevice(v)' <=> HasDevice(v)
  BY <1>1 DEF HasDevice
<1>8. LoopInv'
  BY <1>1, <1>7 DEF LoopInv, Truthful
<1>9. QED
  BY <1>6, <1>8

(* The driver starts as the invariant has it.                               *)
LEMMA InitInv ==
  Init => IInv
<1> SUFFICES ASSUME Init PROVE IInv
  OBVIOUS
<1>1. /\ pc = "init" /\ files \in Disks /\ tree = <<>> /\ saved = [p \in Paths |-> Nothing]
      /\ DOMAIN tree = {}
  BY EmptySeq, LenProperties DEF Init
<1>2. FilesInv
  BY <1>1, DriverStartAssumption DEF FilesInv
<1>3. TreeInv
  BY <1>1 DEF TreeInv
<1>4. QED
  BY <1>1, <1>2, <1>3 DEF IInv, LoadInv, LoopInv, RelationsInv

(* A new driver starts with an empty tree, on the files it is left.         *)
LEMMA RestartInv ==
  IInv /\ Restart => IInv'
<1> SUFFICES ASSUME IInv, Restart PROVE IInv'
  OBVIOUS
<1>1. pc' = "init" /\ tree' = <<>> /\ DOMAIN tree' = {} /\ UNCHANGED <<files, saved>>
  BY EmptySeq, LenProperties DEF Restart
<1>2. FilesInv'
  BY <1>1 DEF IInv, FilesInv, Paths
<1>3. TreeInv'
  BY <1>1 DEF TreeInv
<1>4. QED
  BY <1>1, <1>2, <1>3 DEF IInv, LoadInv, LoopInv, RelationsInv

(* What is written into the file of a device.                               *)
LEMMA WrittenInv ==
  ASSUME FilesInv, NEW path \in Paths, NEW f, IsDeviceTree(f), NEW s,
         s # Nothing => IsDevice(s) /\ f = SaveDevice(s),
         files' = [files EXCEPT !.devices[path] = f], saved' = [saved EXCEPT ![path] = s]
  PROVE  FilesInv' /\ Paths' = Paths
<1>1. /\ DOMAIN files = {"config", "relations", "devices"}
      /\ IsDeviceTree(files.config) /\ IsTree(files.relations)
      /\ \A p \in Paths : IsDeviceTree(files.devices[p])
  BY DEF FilesInv, IsDisk, Paths
<1>2. /\ DOMAIN files' = {"config", "relations", "devices"}
      /\ files'.config = files.config /\ files'.relations = files.relations
      /\ files'.devices = [files.devices EXCEPT ![path] = f]
  BY <1>1
<1>3. /\ Paths' = Paths /\ files'.devices[path] = f
      /\ \A p \in Paths \ {path} : files'.devices[p] = files.devices[p]
  BY <1>2 DEF Paths
<1>4. IsDisk(files')
  BY <1>1, <1>2, <1>3 DEF IsDisk, Paths
<1>5. /\ DOMAIN saved' = Paths /\ saved'[path] = s
      /\ \A p \in Paths \ {path} : saved'[p] = saved[p]
  BY DEF FilesInv
<1>6. FilesInv'
  BY <1>3, <1>4, <1>5 DEF FilesInv
<1>7. QED
  BY <1>3, <1>6

(* A file that is opened is no device's until it is closed.                 *)
LEMMA OpenToSaveInv ==
  ASSUME IInv, NEW n \in Implemented, OpenToSave(n)
  PROVE  IInv'
<1> DEFINE path == tree[n].fileName
<1>1. pc = "loop" /\ UNCHANGED <<tree, manager, loading, strays>>
  BY DEF OpenToSave
<1>2. path \in Paths
  BY DEF IInv, TreeInv, Implemented, Alive, IsItem, Dangling
<1>3. LoopInv'
  <2>1. Manager' = Manager /\ \A m : Alive(m)' <=> Alive(m)
    BY <1>1 DEF Alive, Manager
  <2>2. \A v : HasDevice(v)' <=> HasDevice(v)
    BY <1>1, <2>1 DEF HasDevice
  <2>3. QED
    BY <1>1, <2>1, <2>2 DEF IInv, LoopInv, Truthful
<1>4. CASE path \in ReadOnly
  <2>1. pc' = "ended" /\ UNCHANGED <<files, saved>>
    BY <1>4 DEF OpenToSave
  <2>2. FilesInv' /\ TreeInv'
    BY <1>1, <2>1, SameData DEF IInv
  <2>3. QED
    BY <1>3, <2>1, <2>2 DEF IInv, LoadInv, RelationsInv
<1>5. CASE path \notin ReadOnly
  <2>1. /\ pc' = "saving" /\ saving' = n /\ files' = [files EXCEPT !.devices[path] = NoFile]
        /\ saved' = [saved EXCEPT ![path] = Nothing]
    BY <1>5 DEF OpenToSave
  <2>2. FilesInv' /\ Paths' = Paths
    BY <1>2, <2>1, NoFileIs, WrittenInv DEF IInv
  <2>3. TreeInv'
    <3>1. \A m : Alive(m)' <=> Alive(m)
      BY <1>1 DEF Alive
    <3>2. Implemented' = Implemented
      BY <1>1, <3>1 DEF Implemented
    <3>3. \A item : IsItem(item)' <=> IsItem(item)
      BY <2>2 DEF IsItem
    <3>4. QED
      BY <1>1, <2>1, <3>1, <3>2, <3>3 DEF IInv, TreeInv
  <2>4. QED
    BY <1>3, <2>1, <2>2, <2>3 DEF IInv, LoadInv, RelationsInv
<1>6. QED
  BY <1>4, <1>5

(* A file that is closed is what its device is saved to.                    *)
LEMMA SaveInv ==
  IInv /\ Save => IInv'
<1> SUFFICES ASSUME IInv, Save PROVE IInv'
  OBVIOUS
<1> DEFINE d == tree[saving].device
           path == tree[saving].fileName
<1>1. /\ pc = "saving" /\ pc' = "loop" /\ UNCHANGED <<tree, manager, loading, strays>>
      /\ files' = [files EXCEPT !.devices[path] = SaveDevice(d)]
      /\ saved' = [saved EXCEPT ![path] = d]
  BY DEF Save
<1>2. path \in Paths /\ IsDevice(d)
  BY <1>1 DEF IInv, TreeInv, Implemented, Alive, IsItem, Dangling
<1>3. FilesInv' /\ Paths' = Paths
  <2>1. IsDeviceTree(SaveDevice(d))
    BY <1>2, SavedIsTree
  <2> HIDE DEF d, path
  <2>2. QED
    BY <1>1, <1>2, <2>1, WrittenInv DEF IInv
<1>4. Manager' = Manager /\ \A m : Alive(m)' <=> Alive(m)
  BY <1>1 DEF Alive, Manager
<1>5. \A v : HasDevice(v)' <=> HasDevice(v)
  BY <1>1, <1>4 DEF HasDevice
<1>6. LoopInv'
  BY <1>1, <1>4, <1>5 DEF IInv, LoopInv, Truthful
<1>7. \A item : IsItem(item)' <=> IsItem(item)
  BY <1>3 DEF IsItem
<1>8. TreeInv'
  BY <1>1, <1>4, <1>7 DEF IInv, TreeInv
<1>9. QED
  BY <1>1, <1>3, <1>6, <1>8 DEF IInv, LoadInv, RelationsInv

(* What plug-ins do to a vector leaves it one.                              *)
LEMMA SwitchedOnIs ==
  ASSUME NEW v, IsVector(v), v.kind = "switch", NEW m \in DOMAIN v.members
  PROVE  IsVector(SwitchedOn(v, m))
<1> DEFINE off == IF v.rule = "AnyOfMany" THEN {} ELSE {v.lastOn}
           on == (On(v.members) \ off) \union {m}
           members == Turned(v.members, on)
           w == SwitchedOn(v, m)
<1>1. /\ v = [kind |-> v.kind, label |-> v.label, group |-> v.group, state |-> v.state,
              perm |-> v.perm, timeout |-> v.timeout, rule |-> v.rule, lastOn |-> v.lastOn,
              members |-> v.members]
      /\ v.kind \in Kinds /\ v.state \in States /\ v.perm \in {"ro", "rw"} /\ v.rule \in Rules
      /\ DOMAIN v.members \subseteq Names
      /\ \A x \in DOMAIN v.members : IsMember("switch", v.members[x])
  BY DEF IsVector
<1>2. w = [[v EXCEPT !.lastOn = m] EXCEPT !.members = members]
  BY DEF SwitchedOn
<1> HIDE DEF w, on
<1>3. DOMAIN members = DOMAIN v.members /\ members = [x \in DOMAIN members |-> members[x]]
  BY DEF Turned
<1>4. ASSUME NEW x \in DOMAIN v.members PROVE IsMember("switch", members[x])
  <2> DEFINE p == v.members[x]
  <2>1. p = [label |-> p.label, value |-> p.value]
    BY <1>1 DEF IsMember
  <2>2. members[x] = [p EXCEPT !.value = IF x \in on THEN "On" ELSE "Off"]
    BY DEF Turned
  <2> HIDE DEF p, members
  <2>3. members[x] = [label |-> p.label, value |-> IF x \in on THEN "On" ELSE "Off"]
    BY <2>1, <2>2
  <2>4. QED
    BY <2>3 DEF IsMember
<1> HIDE DEF members
<1>5. w = [kind |-> v.kind, label |-> v.label, group |-> v.group, state |-> v.state,
           perm |-> v.perm, timeout |-> v.timeout, rule |-> v.rule, lastOn |-> m,
           members |-> members]
  BY <1>1, <1>2
<1>6. IsVector(w)
  BY <1>1, <1>3, <1>4, <1>5 DEF IsVector
<1>7. QED
  BY <1>6 DEF w

(* Setting a member of a vector without rules leaves it a vector.           *)
LEMMA MemberSetIs ==
  ASSUME NEW v, IsVector(v), v.kind # "switch", NEW m \in DOMAIN v.members,
         NEW x \in NewValues[v.kind], NEW w, w = [v EXCEPT !.members[m].value = x]
  PROVE  IsVector(w)
<1> DEFINE p == v.members[m]
           q == [p EXCEPT !.value = x]
           members == [v.members EXCEPT ![m] = q]
<1>1. /\ v = [kind |-> v.kind, label |-> v.label, group |-> v.group, state |-> v.state,
              perm |-> v.perm, timeout |-> v.timeout, rule |-> v.rule, lastOn |-> v.lastOn,
              members |-> v.members]
      /\ v.kind \in Kinds /\ v.state \in States /\ v.perm \in {"ro", "rw"} /\ v.rule \in Rules
      /\ v.kind = "light" => v.perm = "ro" /\ v.timeout = 0
      /\ v.rule = "AnyOfMany" /\ v.lastOn = Blank
      /\ DOMAIN v.members \subseteq Names /\ v.members = [y \in DOMAIN v.members |-> v.members[y]]
      /\ \A y \in DOMAIN v.members : IsMember(v.kind, v.members[y])
  BY DEF IsVector
<1>2. IsMember(v.kind, q)
  <2>1. CASE v.kind = "number"
    <3>1. /\ p = [label |-> p.label, value |-> p.value, format |-> p.format,
                  min |-> p.min, max |-> p.max, step |-> p.step]
          /\ {p.value, p.min, p.max, p.step} \subseteq Numbers
      BY <1>1, <2>1 DEF IsMember
    <3>2. x \in Numbers
      BY <2>1, DriverStartAssumption
    <3> HIDE DEF p
    <3>3. q = [label |-> p.label, value |-> x, format |-> p.format,
               min |-> p.min, max |-> p.max, step |-> p.step]
      BY <3>1
    <3>4. QED
      BY <2>1, <3>1, <3>2, <3>3 DEF IsMember
  <2>2. CASE v.kind # "number"
    <3>1. p = [label |-> p.label, value |-> p.value]
      BY <1>1, <2>2 DEF IsMember
    <3>2. (v.kind = "text" => x \in Texts) /\ (v.kind = "light" => x \in States)
      BY DriverStartAssumption
    <3> HIDE DEF p
    <3>3. q = [label |-> p.label, value |-> x]
      BY <3>1
    <3>4. QED
      BY <2>2, <3>2, <3>3 DEF IsMember
  <2>3. QED
    BY <2>1, <2>2
<1>3. w = [v EXCEPT !.members = members]
  OBVIOUS
<1> HIDE DEF q
<1>4. /\ members = [y \in DOMAIN members |-> members[y]] /\ DOMAIN members = DOMAIN v.members
      /\ \A y \in DOMAIN members : IsMember(v.kind, members[y])
  BY <1>1, <1>2
<1> HIDE DEF members
<1>5. w = [kind |-> v.kind, label |-> v.label, group |-> v.group, state |-> v.state,
           perm |-> v.perm, timeout |-> v.timeout, rule |-> v.rule, lastOn |-> v.lastOn,
           members |-> members]
  BY <1>1, <1>3
<1>6. QED
  BY <1>1, <1>4, <1>5 DEF IsVector

(* A device with one of its vectors changed.                                *)
LEMMA VectorSetIs ==
  ASSUME NEW d, IsDevice(d), NEW v \in DOMAIN d.vectors, NEW w, IsVector(w)
  PROVE  IsDevice([d EXCEPT !.vectors[v] = w])
<1> DEFINE vectors == [d.vectors EXCEPT ![v] = w]
           e == [d EXCEPT !.vectors[v] = w]
<1>1. /\ d = [name |-> d.name, label |-> d.label, vectors |-> d.vectors]
      /\ d.vectors = [x \in DOMAIN d.vectors |-> d.vectors[x]]
      /\ DOMAIN d.vectors \subseteq Names
      /\ \A x \in DOMAIN d.vectors : IsVector(d.vectors[x])
  BY DEF IsDevice
<1>2. e = [d EXCEPT !.vectors = vectors]
  OBVIOUS
<1>3. /\ vectors = [x \in DOMAIN vectors |-> vectors[x]] /\ DOMAIN vectors = DOMAIN d.vectors
      /\ \A x \in DOMAIN vectors : IsVector(vectors[x])
  BY <1>1
<1> HIDE DEF vectors, e
<1>4. e = [name |-> d.name, label |-> d.label, vectors |-> vectors]
  BY <1>1, <1>2
<1>5. IsDevice(e)
  BY <1>1, <1>3, <1>4 DEF IsDevice
<1>6. QED
  BY <1>5 DEF e

(* What has a device in the tree keeps its file and plug-in.                *)
LEMMA DeviceSetIs ==
  ASSUME NEW item, NEW e,
         item = [deleted |-> FALSE, device |-> item.device, fileName |-> item.fileName,
                 imp |-> item.imp]
  PROVE  [item EXCEPT !.device = e] =
           [deleted |-> FALSE, device |-> e, fileName |-> item.fileName, imp |-> item.imp]
<1> DEFINE no == FALSE
<1>1. item = [deleted |-> no, device |-> item.device, fileName |-> item.fileName,
              imp |-> item.imp]
  OBVIOUS
<1> HIDE DEF no
<1>2. [item EXCEPT !.device = e] =
        [deleted |-> no, device |-> e, fileName |-> item.fileName, imp |-> item.imp]
  BY <1>1
<1>3. QED
  BY <1>2 DEF no

(* What plug-ins set is of the kind of the vector, and not the manager's.   *)
LEMMA PluginChangesInv ==
  ASSUME IInv, NEW n \in Implemented, PluginChanges(n)
  PROVE  IInv'
<1>1. /\ pc = "loop" /\ UNCHANGED <<files, manager, loading, strays, registered, saving, saved>>
      /\ pc' \in {"loop", "ended"} /\ (pc' = "ended" => tree' = tree)
  BY DEF PluginChanges
<1>2. CASE pc' = "ended"
  <2>1. tree' = tree
    BY <1>1, <1>2
  <2>2. FilesInv' /\ TreeInv'
    BY <1>1, <1>2, <2>1, SameData DEF IInv
  <2>3. QED
    BY <1>2, <2>2 DEF IInv, LoadInv, LoopInv, RelationsInv
<1>3. CASE pc' = "loop"
  <2> DEFINE d == tree[n].device
  <2>1. /\ n \in DOMAIN tree /\ tree[n].imp # NoImp
        /\ tree[n] = [deleted |-> FALSE, device |-> d, fileName |-> tree[n].fileName,
                      imp |-> tree[n].imp]
        /\ IsDevice(d) /\ tree[n].fileName \in Paths
    BY DEF IInv, TreeInv, Implemented, Alive, IsItem, Dangling
  <2>2. \E v \in DOMAIN d.vectors : \E m \in DOMAIN d.vectors[v].members,
             x \in NewValues[d.vectors[v].kind] :
          tree' = [tree EXCEPT ![n].device.vectors[v] =
                     IF d.vectors[v].kind = "switch" THEN SwitchedOn(@, m)
                     ELSE [@ EXCEPT !.members[m].value = x]]
    BY <1>3 DEF PluginChanges
  <2>3. PICK v \in DOMAIN d.vectors : \E m \in DOMAIN d.vectors[v].members,
             x \in NewValues[d.vectors[v].kind] :
          tree' = [tree EXCEPT ![n].device.vectors[v] =
                     IF d.vectors[v].kind = "switch" THEN SwitchedOn(@, m)
                     ELSE [@ EXCEPT !.members[m].value = x]]
    BY <2>2
  <2>30. PICK m \in DOMAIN d.vectors[v].members, x \in NewValues[d.vectors[v].kind] :
          tree' = [tree EXCEPT ![n].device.vectors[v] =
                     IF d.vectors[v].kind = "switch" THEN SwitchedOn(@, m)
                     ELSE [@ EXCEPT !.members[m].value = x]]
    BY <2>3
  <2> DEFINE old == d.vectors[v]
             set == [old EXCEPT !.members[m].value = x]
             new == IF old.kind = "switch" THEN SwitchedOn(old, m) ELSE set
  <2>4. IsVector(new)
    <3>1. IsVector(old)
      BY <2>1 DEF IsDevice
    <3>2. old.kind = "switch" => IsVector(SwitchedOn(old, m))
      BY <3>1, SwitchedOnIs
    <3>3. old.kind # "switch" => IsVector(set)
      BY <3>1, MemberSetIs
    <3>4. QED
      BY <3>2, <3>3
  <2>5. tree' = [tree EXCEPT ![n].device.vectors[v] = new]
    BY <2>30
  <2> HIDE DEF new
  <2> DEFINE e == [d EXCEPT !.vectors[v] = new]
  <2>6. IsDevice(e)
    BY <2>1, <2>4, VectorSetIs
  <2>7. /\ DOMAIN tree' = DOMAIN tree /\ \A k \in DOMAIN tree \ {n} : tree'[k] = tree[k]
        /\ tree'[n] = [tree[n] EXCEPT !.device = e]
    BY <2>1, <2>5
  <2> HIDE DEF d, e
  <2>8. tree'[n] = [deleted |-> FALSE, device |-> e, fileName |-> tree[n].fileName,
                    imp |-> tree[n].imp]
    BY <2>1, <2>7, DeviceSetIs DEF d
  <2>9. n # manager
    BY <1>1, <2>1 DEF IInv, TreeInv
  <2>10. /\ Paths' = Paths /\ \A k : Alive(k)' <=> Alive(k)
         /\ \A k \in DOMAIN tree : Alive(k) =>
              tree'[k].fileName = tree[k].fileName /\ tree'[k].imp = tree[k].imp
    BY <1>1, <2>1, <2>7, <2>8 DEF Paths, Alive
  <2>11. FilesInv'
    BY <1>1, <2>10 DEF IInv, FilesInv
  <2>12. TreeInv'
    <3>1. ASSUME NEW k \in DOMAIN tree' PROVE (IsItem(tree[k]))'
      <4>1. CASE k = n
        BY <2>1, <2>6, <2>8, <2>10, <4>1 DEF IsItem
      <4>2. CASE k # n
        <5>1. tree'[k] = tree[k] /\ IsItem(tree[k])
          BY <2>7, <4>2 DEF IInv, TreeInv
        <5>2. QED
          BY <2>10, <5>1 DEF IsItem
      <4>3. QED
        BY <4>1, <4>2
    <3>2. Alive(manager) /\ tree[manager].fileName = Nothing /\ tree[manager].imp = NoImp
      BY <1>1 DEF IInv, TreeInv
    <3>3. QED
      BY <1>1, <1>3, <2>7, <2>9, <2>10, <3>1, <3>2 DEF TreeInv, Alive
  <2>13. LoopInv'
    <3>1. Manager' = Manager
      BY <1>1, <2>7, <2>9 DEF Manager, IInv, TreeInv, Alive
    <3>2. \A y : HasDevice(y)' <=> HasDevice(y)
      BY <2>7, <2>10, <3>1 DEF HasDevice, Alive
    <3>3. QED
      BY <1>1, <3>1, <3>2 DEF IInv, LoopInv, Truthful
  <2>14. LoadInv' /\ RelationsInv'
    BY <1>3 DEF LoadInv, RelationsInv
  <2>15. QED
    BY <2>11, <2>12, <2>13, <2>14 DEF IInv
<1>4. QED
  BY <1>1, <1>2, <1>3

(* The manager's device comes from the master file, and is the first of the *)
(* tree.                                                                    *)
LEMMA ReadConfigInv ==
  IInv /\ ReadConfig => IInv'
<1> SUFFICES ASSUME IInv, ReadConfig PROVE IInv'
  OBVIOUS
<1> DEFINE read == ReadFile(files.config)
           d == read.item
           name == d.name
           item == NewItem(d, Nothing)
<1>1. pc = "init" /\ tree = <<>> /\ DOMAIN tree = {} /\ UNCHANGED <<files, strays, saving, saved>>
  BY EmptySeq, LenProperties DEF ReadConfig, IInv, TreeInv
<1>2. Paths' = Paths /\ FilesInv'
  BY <1>1 DEF IInv, FilesInv, Paths
<1>3. CASE read.result = "ok"
  <2>1. /\ tree' = Inserted(tree, name, item) /\ manager' = name
        /\ loading' = InOrder[DOMAIN d.vectors]
        /\ pc' = IF DOMAIN d.vectors = {} THEN "relations" ELSE "load"
    BY <1>3 DEF ReadConfig
  <2>2. IsDevice(d)
    <3>1. IsDeviceTree(files.config)
      BY DEF IInv, FilesInv, IsDisk
    <3>2. QED
      BY <1>3, <3>1, ReadFileIs
  <2> HIDE DEF d
  <2>3. DOMAIN tree' = {name} /\ tree'[name] = item
    BY <1>1, <2>1 DEF Inserted
  <2>4. item = [deleted |-> FALSE, device |-> d, fileName |-> Nothing, imp |-> NoImp]
    BY DEF NewItem
  <2> HIDE DEF item, name
  <2>5. item.fileName = Nothing /\ item.imp = NoImp /\ item.device = d /\ ~item.deleted
    BY <2>4
  <2>6. \A x : x = item => IsItem(x)'
    BY <2>2, <2>4, <2>5 DEF IsItem
  <2>7. TreeInv'
    BY <2>1, <2>3, <2>5, <2>6 DEF TreeInv, Alive
  <2>8. DOMAIN d.vectors \in SUBSET Names /\ (Manager.vectors)' = d.vectors
    BY <2>1, <2>2, <2>3, <2>5 DEF IsDevice, Manager
  <2> DEFINE S == DOMAIN d.vectors
  <2>9. /\ loading' \in Seq(Names) /\ ToSet(loading') = S
        /\ \A i, j \in DOMAIN loading' : loading'[i] = loading'[j] => i = j
    BY <2>1, <2>8, InOrderIs
  <2>10. loading' \in Seq(S) /\ (S = {} <=> loading' = <<>>)
    <3>1. Len(loading') \in Nat /\ DOMAIN loading' = 1 .. Len(loading')
      BY <2>9, LenProperties
    <3>2. \A i \in 1 .. Len(loading') : loading'[i] \in S
      BY <2>9, <3>1 DEF ToSet
    <3>3. loading' = [i \in 1 .. Len(loading') |-> loading'[i]]
      BY <2>9, <3>1
    <3>4. loading' \in Seq(S)
      BY <3>1, <3>2, <3>3, IsASeq
    <3>5. loading' = <<>> <=> DOMAIN loading' = {}
      BY <2>9, <3>1, EmptySeq, LenProperties
    <3>6. QED
      BY <2>9, <3>4, <3>5 DEF ToSet
  <2> HIDE DEF S
  <2>11. LoadInv'
    <3>1. DOMAIN (Manager.vectors)' = S
      BY <2>8 DEF S
    <3>2. \A n \in DOMAIN tree' \ {manager'} : FALSE
      BY <2>1, <2>3
    <3>3. pc' = "load" <=> loading' # <<>>
      BY <2>1, <2>10 DEF S
    <3>4. QED
      BY <2>9, <2>10, <3>1, <3>2, <3>3 DEF LoadInv
  <2>12. LoopInv' /\ RelationsInv'
    BY <2>1 DEF LoopInv, RelationsInv
  <2>13. QED
    BY <1>2, <2>7, <2>11, <2>12 DEF IInv
<1>4. CASE read.result # "ok"
  <2>1. pc' = "ended" /\ UNCHANGED <<tree, manager>>
    BY <1>4 DEF ReadConfig
  <2>2. TreeInv'
    BY <1>1, <2>1, SameData DEF IInv
  <2>3. QED
    BY <1>2, <2>1, <2>2 DEF IInv, LoadInv, LoopInv, RelationsInv
<1>5. QED
  BY <1>3, <1>4

(* The manager tells of a vector.                                           *)
LEMMA ReportedIs ==
  ASSUME IInv, pc = "load", NEW s \in States, NEW t, t = Reported(tree, s)
  PROVE  /\ Head(loading) \in DOMAIN Manager.vectors
         /\ DOMAIN t = DOMAIN tree /\ \A n \in DOMAIN tree \ {manager} : t[n] = tree[n]
         /\ \A n : (n \in DOMAIN t /\ ~t[n].deleted) <=> Alive(n)
         /\ IsItem(t[manager]) /\ ~t[manager].deleted
         /\ t[manager].fileName = Nothing /\ t[manager].imp = NoImp
         /\ DOMAIN t[manager].device.vectors = DOMAIN Manager.vectors
         /\ \A v \in DOMAIN Manager.vectors :
              /\ t[manager].device.vectors[v].members = Manager.vectors[v].members
              /\ v # Head(loading) =>
                   t[manager].device.vectors[v].state = Manager.vectors[v].state
         /\ t[manager].device.vectors[Head(loading)].state = s
<1> DEFINE v0 == Head(loading)
           vec == Manager.vectors[v0]
           new == [vec EXCEPT !.state = s]
           d == [Manager EXCEPT !.vectors[v0] = new]
<1>1. loading \in Seq(DOMAIN Manager.vectors) /\ loading # <<>>
  BY DEF IInv, LoadInv
<1>2. v0 \in DOMAIN Manager.vectors
  BY <1>1, HeadTailProperties
<1>3. /\ manager \in DOMAIN tree /\ IsDevice(Manager)
      /\ tree[manager] = [deleted |-> FALSE, device |-> Manager, fileName |-> Nothing,
                          imp |-> NoImp]
  BY DEF IInv, TreeInv, Alive, IsItem, Dangling, Manager
<1>4. IsVector(vec)
  BY <1>2, <1>3 DEF IsDevice
<1>5. tree[manager].device = Manager
  BY DEF Manager
<1> HIDE DEF v0, vec
<1>6. new = [kind |-> vec.kind, label |-> vec.label, group |-> vec.group, state |-> s,
             perm |-> vec.perm, timeout |-> vec.timeout, rule |-> vec.rule,
             lastOn |-> vec.lastOn, members |-> vec.members]
  BY <1>4 DEF IsVector
<1>7. IsVector(new)
  BY <1>4, <1>6 DEF IsVector
<1>8. new.members = vec.members /\ new.state = s
  BY <1>6
<1>9. t = [tree EXCEPT ![manager].device.vectors[v0] = new]
  <2>1. t = [tree EXCEPT ![manager].device.vectors[v0].state = s]
    BY DEF Reported, v0
  <2>2. vec = tree[manager].device.vectors[v0]
    BY <1>5 DEF vec
  <2>3. QED
    BY <2>1, <2>2
<1> HIDE DEF new
<1>10. IsDevice(d)
  BY <1>2, <1>3, <1>7, VectorSetIs
<1>11. t[manager] = [tree[manager] EXCEPT !.device = d]
  BY <1>3, <1>5, <1>9
<1>12. DOMAIN t = DOMAIN tree /\ \A n \in DOMAIN tree \ {manager} : t[n] = tree[n]
  BY <1>9
<1>13. d.vectors = [Manager.vectors EXCEPT ![v0] = new]
  <2>1. Manager = [name |-> Manager.name, label |-> Manager.label, vectors |-> Manager.vectors]
    BY <1>3 DEF IsDevice
  <2>2. "vectors" \in DOMAIN Manager
    BY <2>1
  <2>3. QED
    BY <2>2
<1> HIDE DEF d
<1>14. t[manager] = [deleted |-> FALSE, device |-> d, fileName |-> Nothing, imp |-> NoImp]
  <2>1. /\ tree[manager].fileName = Nothing /\ tree[manager].imp = NoImp
        /\ tree[manager] = [deleted |-> FALSE, device |-> tree[manager].device,
                            fileName |-> tree[manager].fileName, imp |-> tree[manager].imp]
    BY <1>3
  <2>2. QED
    BY <1>11, <2>1, DeviceSetIs
<1>15. /\ ~t[manager].deleted /\ t[manager].device = d
       /\ t[manager].fileName = Nothing /\ t[manager].imp = NoImp
  BY <1>14
<1>16. IsItem(t[manager])
  BY <1>10, <1>14, <1>15 DEF IsItem
<1>17. \A n : (n \in DOMAIN t /\ ~t[n].deleted) <=> Alive(n)
  BY <1>3, <1>12, <1>15 DEF Alive
<1>18. /\ DOMAIN d.vectors = DOMAIN Manager.vectors
       /\ \A v \in DOMAIN Manager.vectors :
            /\ d.vectors[v].members = Manager.vectors[v].members
            /\ v # v0 => d.vectors[v].state = Manager.vectors[v].state
       /\ d.vectors[v0].state = s
  BY <1>2, <1>8, <1>13 DEF vec
<1>19. QED
  BY <1>2, <1>12, <1>15, <1>16, <1>17, <1>18 DEF v0

(* A vector is seen to: the manager tells s of it, and x may join the tree. *)
SeesTo(s, t, name, x) ==
  /\ pc = "load" /\ files' = files /\ manager' = manager
  /\ s \in States /\ IsItem(x) /\ t = Reported(tree, s)
  /\ DOMAIN t \subseteq DOMAIN tree' /\ DOMAIN tree' \subseteq DOMAIN t \union {name}
  /\ \A n \in DOMAIN t : tree'[n] = t[n]
  /\ name \in DOMAIN tree' \ DOMAIN t => tree'[name] = x
  /\ name \notin DOMAIN tree /\ ~x.deleted =>
       /\ x.fileName \in Paths /\ ReadFile(FileOf(x.fileName)).result = "ok"
       /\ ReadFile(FileOf(x.fileName)).item.name = name
  /\ loading' = Tail(loading) /\ strays \subseteq strays'
  /\ pc' = IF Tail(loading) = <<>> THEN "relations" ELSE pc
  /\ \A v : v = Head(loading) /\ v \notin strays' => SeenTo(v)'

(* One vector of the manager's is seen to, and those seen to before stay    *)
(* so.                                                                      *)
LEMMA VectorSeenTo ==
  ASSUME IInv, NEW s, NEW t, NEW name, NEW x, SeesTo(s, t, name, x)
  PROVE  TreeInv' /\ LoadInv'
<1> USE DEF SeesTo
<1>0. PICK v0 : v0 = Head(loading)
  OBVIOUS
<1>1. /\ v0 \in DOMAIN Manager.vectors
      /\ DOMAIN t = DOMAIN tree /\ \A n \in DOMAIN tree \ {manager} : t[n] = tree[n]
      /\ \A n : (n \in DOMAIN t /\ ~t[n].deleted) <=> Alive(n)
      /\ IsItem(t[manager]) /\ ~t[manager].deleted
      /\ t[manager].fileName = Nothing /\ t[manager].imp = NoImp
      /\ DOMAIN t[manager].device.vectors = DOMAIN Manager.vectors
      /\ \A v \in DOMAIN Manager.vectors :
           /\ t[manager].device.vectors[v].members = Manager.vectors[v].members
           /\ v # v0 => t[manager].device.vectors[v].state = Manager.vectors[v].state
  BY <1>0, ReportedIs
<1>2. /\ loading \in Seq(DOMAIN Manager.vectors) /\ loading # <<>>
      /\ \A i, j \in DOMAIN loading : loading[i] = loading[j] => i = j
      /\ \A n \in DOMAIN tree \ {manager} : Alive(n) => Comes(n)
      /\ \A v \in DOMAIN Manager.vectors \ (ToSet(loading) \union strays) : SeenTo(v)
  BY DEF IInv, LoadInv
<1>3. /\ Alive(manager) /\ tree[manager].fileName = Nothing /\ tree[manager].imp = NoImp
      /\ \A n \in DOMAIN tree : IsItem(tree[n])
  BY DEF IInv, TreeInv
<1>4. Paths' = Paths /\ \A path : FileOf(path)' = FileOf(path)
  BY DEF Paths, FileOf
<1>5. \A n : Alive(n) => /\ Alive(n)' /\ n \in DOMAIN tree
                         /\ tree'[n].fileName = tree[n].fileName /\ tree'[n].imp = tree[n].imp
  <2>1. SUFFICES ASSUME NEW n, Alive(n)
                 PROVE  /\ Alive(n)' /\ n \in DOMAIN tree
                        /\ tree'[n].fileName = tree[n].fileName /\ tree'[n].imp = tree[n].imp
    OBVIOUS
  <2>2. n \in DOMAIN tree /\ n \in DOMAIN t /\ ~t[n].deleted /\ tree'[n] = t[n]
    BY <1>1, <2>1 DEF Alive
  <2>3. Alive(n)'
    BY <2>2 DEF Alive
  <2>4. tree'[n].fileName = tree[n].fileName /\ tree'[n].imp = tree[n].imp
    BY <1>1, <1>3, <2>2
  <2>5. QED
    BY <2>2, <2>3, <2>4
<1>6. manager \in DOMAIN t /\ tree'[manager] = t[manager]
  BY <1>1, <1>3 DEF Alive
<1>7. Manager' = t[manager].device
  BY <1>6 DEF Manager
<1>8. \A v \in DOMAIN Manager.vectors : \A m : TextOf(v, m)' = TextOf(v, m)
  BY <1>1, <1>7 DEF TextOf
<1>9. ASSUME NEW n \in DOMAIN tree' PROVE (IsItem(tree[n]))'
  <2>1. IsItem(tree'[n])
    BY <1>1, <1>3, <1>6
  <2>2. QED
    BY <1>4, <2>1 DEF IsItem
<1>10. TreeInv'
  <2>1. pc' \notin {"init", "saving"}
    OBVIOUS
  <2>2. Alive(manager)' /\ tree'[manager].fileName = Nothing /\ tree'[manager].imp = NoImp
    BY <1>3, <1>5
  <2>3. QED
    BY <1>9, <2>1, <2>2 DEF TreeInv
<1>11. /\ Tail(loading) \in Seq(DOMAIN Manager.vectors)
       /\ \A i, j \in DOMAIN Tail(loading) : Tail(loading)[i] = Tail(loading)[j] => i = j
       /\ v0 \in ToSet(loading)
       /\ \A v \in ToSet(loading) : v = v0 \/ v \in ToSet(Tail(loading))
  <2> DEFINE u == Tail(loading)
             k == Len(loading)
  <2>1. /\ k \in Nat /\ k # 0 /\ DOMAIN loading = 1 .. k /\ u \in Seq(DOMAIN Manager.vectors)
        /\ Len(u) = k - 1 /\ \A i \in 1 .. k - 1 : u[i] = loading[i + 1]
        /\ v0 = loading[1]
    BY <1>0, <1>2, HeadTailProperties, LenProperties, EmptySeq
  <2>2. DOMAIN u = 1 .. k - 1
    BY <2>1, LenProperties
  <2> HIDE DEF u, k
  <2>3. \A i, j \in DOMAIN u : u[i] = u[j] => i = j
    <3>1. SUFFICES ASSUME NEW i \in DOMAIN u, NEW j \in DOMAIN u, u[i] = u[j] PROVE i = j
      OBVIOUS
    <3>2. /\ i \in Int /\ j \in Int /\ i + 1 \in DOMAIN loading /\ j + 1 \in DOMAIN loading
          /\ loading[i + 1] = loading[j + 1]
      BY <2>1, <2>2, <3>1
    <3>3. i + 1 = j + 1
      BY <1>2, <3>2
    <3>4. QED
      BY <3>2, <3>3
  <2>4. v0 \in ToSet(loading)
    BY <2>1 DEF ToSet
  <2>5. ASSUME NEW v \in ToSet(loading), v # v0 PROVE v \in ToSet(u)
    <3>1. PICK i \in DOMAIN loading : v = loading[i]
      BY DEF ToSet
    <3>2. i - 1 \in 1 .. k - 1
      BY <2>1, <2>5, <3>1
    <3>3. u[i - 1] = v
      BY <2>1, <3>1, <3>2
    <3>4. QED
      BY <2>2, <3>2, <3>3 DEF ToSet
  <2>6. QED
    BY <2>1, <2>3, <2>4, <2>5 DEF u
<1>12. ASSUME NEW n \in DOMAIN tree' \ {manager'}, Alive(n)' PROVE Comes(n)'
  <2>1. CASE n \in DOMAIN tree
    <3>1. Alive(n) /\ Comes(n)
      BY <1>1, <1>2, <1>12, <2>1 DEF Alive
    <3>2. tree'[n].fileName = tree[n].fileName
      BY <1>5, <3>1
    <3>3. QED
      BY <1>4, <3>1, <3>2 DEF Comes
  <2>2. CASE n \notin DOMAIN tree
    <3>1. n = name /\ tree'[n] = x /\ ~x.deleted
      BY <1>1, <1>12, <2>2 DEF Alive
    <3>2. QED
      BY <1>4, <2>2, <3>1 DEF Comes
  <2>3. QED
    BY <2>1, <2>2
<1>13. ASSUME NEW v \in DOMAIN Manager.vectors, v \notin ToSet(Tail(loading)), v \notin strays'
       PROVE  SeenTo(v)'
  <2>1. CASE v = v0
    BY <1>0, <1>13, <2>1
  <2>2. CASE v # v0
    <3>1. SeenTo(v)
      BY <1>2, <1>11, <1>13, <2>2
    <3>2. \A m : TextOf(v, m)' = TextOf(v, m)
      BY <1>8
    <3>3. Manager'.vectors[v].state = Manager.vectors[v].state
      BY <1>1, <1>7, <2>2
    <3>4. PICK p, m, read : /\ p = TextOf(v, ConfigText) /\ m = TextOf(v, ModuleText)
                            /\ read = ReadFile(FileOf(p))
      OBVIOUS
    <3>5. TextOf(v, ConfigText)' = p /\ TextOf(v, ModuleText)' = m
      BY <3>2, <3>4
    <3>6. FileOf(TextOf(v, ConfigText))' = FileOf(p)
      BY <1>4, <3>5 DEF FileOf
    <3>7. Manager.vectors[v].state' = Manager.vectors[v].state
      BY <3>3
    <3>8. /\ p \in Texts
          /\ read.result # "ok" => Manager.vectors[v].state = "Alert"
          /\ read.result = "ok" =>
               /\ Alive(read.item.name) /\ tree[read.item.name].fileName = p
               /\ Manager.vectors[v].state =
                    IF m \in {tree[read.item.name].imp, NullModule} THEN "Ok" ELSE "Alert"
      BY <3>1, <3>4 DEF SeenTo
    <3>9. read.result = "ok" =>
            /\ Alive(read.item.name)' /\ tree'[read.item.name].fileName = p
            /\ tree'[read.item.name].imp = tree[read.item.name].imp
      BY <1>5, <3>8
    <3>10. QED
      BY <3>4, <3>5, <3>6, <3>7, <3>8, <3>9 DEF SeenTo
  <2>3. QED
    BY <2>1, <2>2
<1>14. LoadInv'
  <2>1. DOMAIN (Manager.vectors)' = DOMAIN Manager.vectors
    BY <1>1, <1>7
  <2>2. pc' \in {"load", "relations"} /\ (pc' = "load" <=> loading' # <<>>)
    OBVIOUS
  <2>3. QED
    BY <1>11, <1>12, <1>13, <2>1, <2>2 DEF LoadInv
<1>15. QED
  BY <1>10, <1>14

(* However a device loads, its vector has been seen to.                     *)
LEMMA LoadDeviceInv ==
  IInv /\ LoadDevice => IInv'
<1> SUFFICES ASSUME IInv, LoadDevice PROVE IInv'
  OBVIOUS
<1>0. PICK v0 : v0 = Head(loading)
  OBVIOUS
<1> DEFINE vec == Manager.vectors[v0]
           read == ReadFile(FileAsked)
           d == read.item
           path == AskedText(ConfigText)
           module == AskedText(ModuleText)
<1>1. pc = "load" /\ UNCHANGED <<files, manager, registered, saving, saved>>
  BY DEF LoadDevice
<1>2. Paths' = Paths /\ FilesInv'
  BY <1>1 DEF IInv, FilesInv, Paths
<1>3. CASE ~LoadsOn
  <2>1. pc' = "ended" /\ UNCHANGED <<tree, strays, loading>>
    BY <1>3 DEF LoadDevice
  <2>2. TreeInv'
    BY <1>1, <2>1, SameData DEF IInv
  <2>3. QED
    BY <1>2, <2>1, <2>2 DEF IInv, LoadInv, LoopInv, RelationsInv
<1>4. CASE LoadsOn
  <2>1. /\ tree' = IF read.result = "ok" THEN Loaded(d) ELSE NotRead
        /\ strays' = IF read.result = "ok" /\ d.name \in DOMAIN tree
                     THEN strays \union {v0} ELSE strays
        /\ loading' = Tail(loading) /\ pc' = IF Tail(loading) = <<>> THEN "relations" ELSE pc
    BY <1>0, <1>4 DEF LoadDevice
  <2>2. LoopInv' /\ RelationsInv'
    BY <1>1, <2>1 DEF LoopInv, RelationsInv
  <2>3. /\ TextOf(v0, ConfigText) = path /\ TextOf(v0, ModuleText) = module
        /\ FileAsked = FileOf(path)
    BY <1>0 DEF TextOf, AskedText, Asked, FileAsked, FileOf
  <2>4. path \in Texts /\ (read.result = "ok" => module \in Texts)
    <3>1. IsDevice(Manager) /\ v0 \in DOMAIN Manager.vectors
      <4>1. IsDevice(Manager)
        BY <1>1 DEF IInv, TreeInv, Alive, IsItem, Dangling, Manager
      <4>2. loading \in Seq(DOMAIN Manager.vectors) /\ loading # <<>>
        BY <1>1 DEF IInv, LoadInv
      <4>3. QED
        BY <1>0, <4>1, <4>2, HeadTailProperties
    <3>2. /\ vec.kind = "text" /\ IsVector(vec) /\ ConfigText \in DOMAIN vec.members
          /\ read.result = "ok" => ModuleText \in DOMAIN vec.members
      BY <1>0, <1>4, <3>1 DEF LoadsOn, Asked, IsDevice
    <3>3. \A m \in DOMAIN vec.members : IsMember("text", vec.members[m])
      BY <3>2 DEF IsVector
    <3>4. \A m \in DOMAIN vec.members : AskedText(m) \in Texts
      BY <1>0, <3>3 DEF IsMember, AskedText, Asked
    <3> HIDE DEF vec, read
    <3>5. QED
      BY <3>2, <3>4
  <2>5. CASE read.result = "ok"
    <3> DEFINE s == IF module = NullModule \/ HasPlugin(module) THEN "Ok" ELSE "Alert"
               t == Reported(tree, s)
               x == Item(d)
    <3>1. tree' = Inserted(t, d.name, x) /\ s \in States
      BY <2>1, <2>5 DEF Loaded, States
    <3>2. path \in Paths
      BY <2>3, <2>5 DEF FileOf, ReadFile, NoFile, Element, Failure
    <3>3. IsDevice(d)
      <4>1. IsDeviceTree(FileAsked)
        BY <2>3, <3>2 DEF IInv, FilesInv, IsDisk, FileOf, Paths
      <4>2. QED
        BY <2>5, <4>1, ReadFileIs
    <3>4. x = [deleted |-> FALSE, device |-> d, fileName |-> path,
               imp |-> IF HasPlugin(module) THEN module ELSE NoImp]
      <4> DEFINE no == FALSE
      <4>1. NewItem(d, path) = [deleted |-> no, device |-> d, fileName |-> path, imp |-> NoImp]
        BY DEF NewItem
      <4>2. x = [NewItem(d, path) EXCEPT !.imp = IF HasPlugin(module) THEN module ELSE @]
        BY DEF Item
      <4> HIDE DEF no, x
      <4>3. x = [deleted |-> no, device |-> d, fileName |-> path,
                 imp |-> IF HasPlugin(module) THEN module ELSE NoImp]
        BY <4>1, <4>2
      <4>4. QED
        BY <4>3 DEF no
    <3> HIDE DEF x
    <3>5. /\ ~x.deleted /\ x.device = d /\ x.fileName = path
          /\ x.imp = IF HasPlugin(module) THEN module ELSE NoImp
      BY <3>4
    <3>6. IsItem(x)
      BY <3>2, <3>3, <3>4, <3>5 DEF IsItem
    <3> HIDE DEF t
    <3>7. /\ DOMAIN t = DOMAIN tree /\ manager \in DOMAIN tree
          /\ t[manager].device.vectors[v0].state = s
      BY <1>0, <1>1, <3>1, ReportedIs DEF t, IInv, TreeInv, Alive
    <3>8. /\ DOMAIN tree' = DOMAIN t \union {d.name} /\ \A n \in DOMAIN t : tree'[n] = t[n]
          /\ d.name \notin DOMAIN t => tree'[d.name] = x
      BY <3>1 DEF Inserted
    <3>9. v0 \notin strays' => SeenTo(v0)'
      <4>1. SUFFICES ASSUME v0 \notin strays' PROVE SeenTo(v0)'
        OBVIOUS
      <4>2. d.name \notin DOMAIN tree
        BY <2>1, <2>5, <4>1
      <4>3. tree'[d.name] = x /\ d.name \in DOMAIN tree'
        BY <3>7, <3>8, <4>2
      <4>4. /\ Manager'.vectors = t[manager].device.vectors
            /\ Manager'.vectors[v0].state = s
        BY <1>1, <3>7, <3>8 DEF Manager
      <4>5. \A m : TextOf(v0, m)' = TextOf(v0, m)
        <5>1. t[manager].device.vectors[v0].members = Manager.vectors[v0].members
          BY <1>0, <1>1, <3>1, ReportedIs DEF t
        <5>2. Manager'.vectors[v0].members = Manager.vectors[v0].members
          BY <4>4, <5>1
        <5>3. QED
          BY <5>2 DEF TextOf
      <4>6. PICK p, m, r : p = path /\ m = module /\ r = read
        OBVIOUS
      <4>7. TextOf(v0, ConfigText)' = p /\ TextOf(v0, ModuleText)' = m
        BY <2>3, <4>5, <4>6
      <4>8. ReadFile(FileOf(TextOf(v0, ConfigText)))' = r
        <5>1. FileOf(TextOf(v0, ConfigText))' = FileOf(p)
          BY <1>1, <1>2, <4>7 DEF FileOf
        <5>2. QED
          BY <2>3, <4>6, <5>1
      <4>9. /\ Alive(r.item.name)' /\ tree'[r.item.name].fileName = p
            /\ tree'[r.item.name].imp = IF HasPlugin(m) THEN m ELSE NoImp
        BY <3>5, <4>3, <4>6 DEF Alive
      <4>10. /\ Manager'.vectors[v0].state =
                  IF m \in {tree'[r.item.name].imp, NullModule} THEN "Ok" ELSE "Alert"
             /\ p \in Texts /\ m \in Texts
        BY <2>4, <2>5, <4>4, <4>6, <4>9, DriverStartAssumption DEF HasPlugin
      <4>11. QED
        BY <2>5, <4>6, <4>7, <4>8, <4>9, <4>10 DEF SeenTo
    <3>10. TreeInv' /\ LoadInv'
      <4>1. d.name \notin DOMAIN tree /\ ~x.deleted =>
              /\ x.fileName \in Paths /\ ReadFile(FileOf(x.fileName)).result = "ok"
              /\ ReadFile(FileOf(x.fileName)).item.name = d.name
        BY <2>3, <2>5, <3>2, <3>5
      <4>2. /\ DOMAIN t \subseteq DOMAIN tree' /\ DOMAIN tree' \subseteq DOMAIN t \union {d.name}
            /\ d.name \in DOMAIN tree' \ DOMAIN t => tree'[d.name] = x
        BY <3>8
      <4>3. strays \subseteq strays'
        BY <2>1
      <4>4. \A v : v = Head(loading) /\ v \notin strays' => SeenTo(v)'
        BY <1>0, <3>9
      <4>5. t = Reported(tree, s)
        BY DEF t
      <4>6. PICK s1, name1, x1, t1 : s1 = s /\ name1 = d.name /\ x1 = x /\ t1 = t
        OBVIOUS
      <4>7. /\ s1 \in States /\ IsItem(x1) /\ t1 = Reported(tree, s1)
            /\ DOMAIN t1 \subseteq DOMAIN tree' /\ DOMAIN tree' \subseteq DOMAIN t1 \union {name1}
            /\ \A n \in DOMAIN t1 : tree'[n] = t1[n]
            /\ name1 \in DOMAIN tree' \ DOMAIN t1 => tree'[name1] = x1
        BY <3>1, <3>6, <3>8, <4>2, <4>5, <4>6
      <4>8. name1 \notin DOMAIN tree /\ ~x1.deleted =>
              /\ x1.fileName \in Paths /\ ReadFile(FileOf(x1.fileName)).result = "ok"
              /\ ReadFile(FileOf(x1.fileName)).item.name = name1
        BY <4>1, <4>6
      <4>9. /\ pc = "load" /\ UNCHANGED <<files, manager>> /\ loading' = Tail(loading)
            /\ pc' = IF Tail(loading) = <<>> THEN "relations" ELSE pc
        BY <1>1, <2>1
      <4>10. SeesTo(s1, t1, name1, x1)
        BY <4>3, <4>4, <4>7, <4>8, <4>9 DEF SeesTo
      <4>11. QED
        BY <4>10, VectorSeenTo
    <3>11. QED
      BY <1>2, <2>2, <3>10 DEF IInv
  <2>6. CASE read.result # "ok"
    <3> DEFINE t == Reported(tree, "Alert")
               name == IF IsDeviceFile(FileAsked) THEN FileAsked.at.name ELSE manager
               x == Dangling
    <3>1. /\ tree' = IF IsDeviceFile(FileAsked) THEN Inserted(t, name, x) ELSE t
          /\ "Alert" \in States /\ strays' = strays
      BY <2>1, <2>6 DEF NotRead, States
    <3>2. x.deleted /\ IsItem(x)
      BY DEF Dangling, IsItem
    <3> HIDE DEF t
    <3>3. /\ DOMAIN t = DOMAIN tree /\ manager \in DOMAIN tree
          /\ t[manager].device.vectors[v0].state = "Alert"
          /\ t[manager].device.vectors[v0].members = Manager.vectors[v0].members
      BY <1>0, <1>1, <3>1, ReportedIs DEF t, IInv, TreeInv, Alive
    <3> HIDE DEF x
    <3>4. /\ DOMAIN t \subseteq DOMAIN tree' /\ DOMAIN tree' \subseteq DOMAIN t \union {name}
          /\ \A n \in DOMAIN t : tree'[n] = t[n]
          /\ name \in DOMAIN tree' \ DOMAIN t => tree'[name] = x
      BY <3>1 DEF Inserted
    <3> HIDE DEF name
    <3>5. SeenTo(v0)'
      <4>1. Manager' = t[manager].device
        BY <1>1, <3>3, <3>4 DEF Manager
      <4>2. /\ Manager'.vectors[v0].members = Manager.vectors[v0].members
            /\ Manager'.vectors[v0].state = "Alert"
        BY <3>3, <4>1
      <4>3. \A m : TextOf(v0, m)' = TextOf(v0, m)
        BY <4>2 DEF TextOf
      <4>4. PICK p, m, r : p = path /\ m = module /\ r = read
        OBVIOUS
      <4>5. TextOf(v0, ConfigText)' = p /\ TextOf(v0, ModuleText)' = m
        BY <2>3, <4>3, <4>4
      <4>6. ReadFile(FileOf(TextOf(v0, ConfigText)))' = r
        <5>1. FileOf(TextOf(v0, ConfigText))' = FileOf(p)
          BY <1>1, <1>2, <4>5 DEF FileOf
        <5>2. QED
          BY <2>3, <4>4, <5>1
      <4>7. r.result # "ok" /\ p \in Texts
        BY <2>4, <2>6, <4>4
      <4>8. QED
        BY <4>2, <4>5, <4>6, <4>7 DEF SeenTo
    <3>6. TreeInv' /\ LoadInv'
      <4>1. x.deleted
        BY <3>2
      <4>3. strays \subseteq strays'
        BY <3>1
      <4>4. \A v : v = Head(loading) /\ v \notin strays' => SeenTo(v)'
        BY <1>0, <3>5
      <4>5. t = Reported(tree, "Alert")
        BY DEF t
      <4>6. PICK s1, name1, x1, t1 : s1 = "Alert" /\ name1 = name /\ x1 = x /\ t1 = t
        OBVIOUS
      <4>7. /\ s1 \in States /\ IsItem(x1) /\ t1 = Reported(tree, s1)
            /\ DOMAIN t1 \subseteq DOMAIN tree' /\ DOMAIN tree' \subseteq DOMAIN t1 \union {name1}
            /\ \A n \in DOMAIN t1 : tree'[n] = t1[n]
            /\ name1 \in DOMAIN tree' \ DOMAIN t1 => tree'[name1] = x1
        BY <3>1, <3>2, <3>4, <4>5, <4>6
      <4>8. name1 \notin DOMAIN tree /\ ~x1.deleted =>
              /\ x1.fileName \in Paths /\ ReadFile(FileOf(x1.fileName)).result = "ok"
              /\ ReadFile(FileOf(x1.fileName)).item.name = name1
        BY <4>1, <4>6
      <4>9. /\ pc = "load" /\ UNCHANGED <<files, manager>> /\ loading' = Tail(loading)
            /\ pc' = IF Tail(loading) = <<>> THEN "relations" ELSE pc
        BY <1>1, <2>1
      <4>10. SeesTo(s1, t1, name1, x1)
        BY <4>3, <4>4, <4>7, <4>8, <4>9 DEF SeesTo
      <4>11. QED
        BY <4>10, VectorSeenTo
    <3>7. QED
      BY <1>2, <2>2, <3>6 DEF IInv
  <2>7. QED
    BY <2>5, <2>6
<1>5. QED
  BY <1>3, <1>4

(* The relationships depend on their file and on the tree only.             *)
LEMMA SameRelations ==
  ASSUME UNCHANGED <<files, tree>>, NEW found
  PROVE  Relationships(files.relations, found)' = Relationships(files.relations, found)
<1>1. \A n : Alive(n)' <=> Alive(n)
  BY DEF Alive
<1>2. \A e : /\ IsObservable(e)' <=> IsObservable(e)
             /\ IsObserver(e)' <=> IsObserver(e)
  BY DEF IsObservable, IsObserver
<1>3. \A e, p, n : Finds(e, p, n, found)' <=> Finds(e, p, n, found)
  BY <1>1 DEF Finds
<1>4. \A e, p, o, n : RelationsProperty(e, p, o, n, found)' = RelationsProperty(e, p, o, n, found)
  BY <1>3 DEF RelationsProperty
<1>5. \A e, i, j, o : RelationsObservable(e, i, j, o, found)' = RelationsObservable(e, i, j, o, found)
  BY <1>2, <1>4 DEF RelationsObservable
<1>6. \A e, i : RelationsObserver(e, i, found)' = RelationsObserver(e, i, found)
  BY <1>2, <1>5 DEF RelationsObserver
<1>7. \A f : Relationships(f, found)' = Relationships(f, found)
  BY <1>6 DEF Relationships
<1>8. PICK f : f = files.relations
  OBVIOUS
<1>9. Relationships(files.relations, found)' = Relationships(f, found)'
  BY <1>8 DEF Relationships
<1>10. QED
  BY <1>7, <1>8, <1>9

(* Reading the relationships.                                               *)
LEMMA ReadRelationshipsInv ==
  IInv /\ ReadRelationships => IInv'
<1> SUFFICES ASSUME IInv, ReadRelationships PROVE IInv'
  OBVIOUS
<1>1. /\ pc = "relations" /\ pc' \in {"setup", "ended"}
      /\ UNCHANGED <<files, tree, manager, loading, strays, saving, saved>>
      /\ pc' = "setup" =>
           \E found : registered' = Reverse(Relationships(files.relations, found))
  BY DEF ReadRelationships
<1>2. FilesInv' /\ TreeInv'
  BY <1>1, SameData DEF IInv
<1>3. LoadInv'
  <2>1. Paths' = Paths /\ Manager' = Manager /\ \A n : Alive(n)' <=> Alive(n)
    BY <1>1 DEF Paths, Alive, Manager
  <2>2. \A path : FileOf(path)' = FileOf(path)
    BY <1>1, <2>1 DEF FileOf
  <2>3. \A v, m : TextOf(v, m)' = TextOf(v, m)
    BY <2>1 DEF TextOf
  <2>4. \A n : Comes(n)' <=> Comes(n)
    BY <1>1, <2>1, <2>2 DEF Comes
  <2>5. \A v : SeenTo(v)' <=> SeenTo(v)
    BY <1>1, <2>1, <2>2, <2>3 DEF SeenTo
  <2>6. QED
    BY <1>1, <2>1, <2>4, <2>5 DEF IInv, LoadInv
<1>4. RelationsInv'
  <2>1. SUFFICES ASSUME pc' = "setup"
                 PROVE  \E found : registered' = Reverse(Relationships(files.relations, found)')
    BY DEF RelationsInv
  <2>2. PICK found : registered' = Reverse(Relationships(files.relations, found))
    BY <1>1, <2>1
  <2>3. Relationships(files.relations, found)' = Relationships(files.relations, found)
    BY <1>1, SameRelations
  <2>4. QED
    BY <2>2, <2>3
<1>5. LoopInv'
  BY <1>1 DEF LoopInv
<1>6. QED
  BY <1>2, <1>3, <1>4, <1>5 DEF IInv

(* Once every vector is seen to, what the manager tells is so.              *)
LEMMA AllSeenTo ==
  ASSUME IInv, pc \in {"relations", "setup"}
  PROVE  Truthful
<1>1. loading = <<>> /\ ToSet(loading) = {}
  BY EmptySeq, LenProperties DEF IInv, LoadInv, ToSet
<1>2. /\ \A n \in DOMAIN tree \ {manager} : Alive(n) => Comes(n)
      /\ \A v \in DOMAIN Manager.vectors \ strays : SeenTo(v)
  BY <1>1 DEF IInv, LoadInv
<1>3. tree[manager].fileName = Nothing
  BY DEF IInv, TreeInv
<1>4. SUFFICES ASSUME NEW v \in DOMAIN Manager.vectors \ strays
               PROVE  Manager.vectors[v].state = IF HasDevice(v) THEN "Ok" ELSE "Alert"
  BY DEF Truthful
<1> DEFINE path == TextOf(v, ConfigText)
           module == TextOf(v, ModuleText)
           read == ReadFile(FileOf(path))
<1>5. path \in Texts /\ path # Nothing
  BY <1>2, DriverStartAssumption DEF SeenTo
<1>6. HasDevice(v) <=> \E n \in DOMAIN tree :
        Alive(n) /\ tree[n].fileName = path /\ module \in {tree[n].imp, NullModule}
  BY DEF HasDevice, TextOf
<1>7. \A n \in DOMAIN tree : Alive(n) /\ tree[n].fileName = path =>
        read.result = "ok" /\ read.item.name = n
  BY <1>2, <1>3, <1>5 DEF Comes
<1>8. CASE read.result = "ok"
  <2>1. /\ Alive(read.item.name) /\ tree[read.item.name].fileName = path
        /\ read.item.name \in DOMAIN tree
        /\ Manager.vectors[v].state =
             IF module \in {tree[read.item.name].imp, NullModule} THEN "Ok" ELSE "Alert"
    BY <1>2, <1>8 DEF SeenTo, Alive
  <2> HIDE DEF read, path, module
  <2>2. HasDevice(v) <=> module \in {tree[read.item.name].imp, NullModule}
    BY <1>6, <1>7, <2>1
  <2>3. QED
    BY <2>1, <2>2
<1>9. CASE read.result # "ok"
  BY <1>2, <1>6, <1>7, <1>9 DEF SeenTo
<1>10. QED
  BY <1>8, <1>9

(* Every step keeps the invariant.                                          *)
LEMMA NextInv ==
  IInv /\ [Next]_vars => IInv'
<1> SUFFICES ASSUME IInv, [Next]_vars PROVE IInv'
  OBVIOUS
<1>1. CASE ReadConfig
  BY <1>1, ReadConfigInv
<1>2. CASE LoadDevice
  BY <1>2, LoadDeviceInv
<1>3. CASE ReadRelationships
  BY <1>3, ReadRelationshipsInv
<1>4. CASE SetUp
  <2>1. /\ pc = "setup" /\ pc' = "loop"
        /\ UNCHANGED <<files, tree, manager, loading, strays, saving, saved>>
    BY <1>4 DEF SetUp
  <2>2. FilesInv' /\ TreeInv'
    BY <2>1, SameData DEF IInv
  <2>3. Manager' = Manager /\ \A n : Alive(n)' <=> Alive(n)
    BY <2>1 DEF Alive, Manager
  <2>4. \A v : HasDevice(v)' <=> HasDevice(v)
    BY <2>1, <2>3 DEF HasDevice
  <2>5. Truthful'
    BY <2>1, <2>3, <2>4, AllSeenTo DEF Truthful
  <2>6. QED
    BY <2>1, <2>2, <2>5 DEF IInv, LoadInv, LoopInv, RelationsInv
<1>5. CASE PostInit
  <2>1. /\ pc = "loop" /\ pc' = pc
        /\ UNCHANGED <<files, tree, manager, loading, strays, saving, saved>>
    BY <1>5 DEF PostInit
  <2>2. FilesInv' /\ TreeInv' /\ LoadInv' /\ LoopInv'
    BY <2>1, SameData, SameLoad DEF IInv
  <2>3. QED
    BY <2>1, <2>2 DEF IInv, RelationsInv
<1>6. CASE \E n \in Implemented : PluginChanges(n)
  BY <1>6, PluginChangesInv
<1>7. CASE \E n \in Implemented : OpenToSave(n)
  BY <1>7, OpenToSaveInv
<1>8. CASE Save
  BY <1>8, SaveInv
<1>9. CASE Crash
  <2>1. pc' = "ended" /\ UNCHANGED <<files, tree, manager, loading, strays, saving, saved>>
    BY <1>9 DEF Crash
  <2>2. FilesInv' /\ TreeInv'
    BY <2>1, SameData DEF IInv
  <2>3. QED
    BY <2>1, <2>2 DEF IInv, LoadInv, LoopInv, RelationsInv
<1>10. CASE Restart
  BY <1>10, RestartInv
<1>11. CASE UNCHANGED vars
  <2>1. UNCHANGED <<pc, files, tree, manager, loading, strays, registered, saving, saved>>
    BY <1>11 DEF vars
  <2>2. Paths' = Paths /\ \A n : Alive(n)' <=> Alive(n)
    BY <2>1 DEF Paths, Alive
  <2>3. FilesInv'
    BY <2>1, <2>2 DEF IInv, FilesInv
  <2>4. \A item : IsItem(item)' <=> IsItem(item)
    BY <2>2 DEF IsItem
  <2>5. Implemented' = Implemented
    BY <2>1, <2>2 DEF Implemented
  <2>6. TreeInv'
    BY <2>1, <2>2, <2>4, <2>5 DEF IInv, TreeInv
  <2>7. LoadInv' /\ LoopInv'
    BY <2>1, SameLoad DEF IInv
  <2>8. RelationsInv'
    <3>1. SUFFICES ASSUME pc' = "setup"
                   PROVE  \E found : registered' = Reverse(Relationships(files.relations, found)')
      BY DEF RelationsInv
    <3>2. PICK found : registered = Reverse(Relationships(files.relations, found))
      BY <2>1, <3>1 DEF IInv, RelationsInv
    <3>3. Relationships(files.relations, found)' = Relationships(files.relations, found)
      BY <2>1, SameRelations
    <3>4. QED
      BY <2>1, <3>2, <3>3
  <2>9. QED
    BY <2>3, <2>6, <2>7, <2>8 DEF IInv
<1>12. QED
  BY <1>1, <1>2, <1>3, <1>4, <1>5, <1>6, <1>7, <1>8, <1>9, <1>10, <1>11 DEF Next

(* So it holds throughout.                                                  *)
LEMMA Invariant == Spec => []IInv
<1>1. QED
  BY InitInv, NextInv, PTL DEF Spec

(* Whatever the manager's vectors ask for and whatever is in the files, what*)
(* the manager tells of a device whose name was not taken is so.            *)
THEOREM ManagerIsTruthful == Spec => []ManagerTruthful
<1>1. IInv => ManagerTruthful
  BY AllSeenTo DEF IInv, LoopInv, ManagerTruthful, Truthful
<1>2. QED
  BY <1>1, Invariant, PTL

(* A device that was saved whole is there again, as it was saved.           *)
THEOREM SavedIsRestored == Spec => Restores
<1> DEFINE Step ==
      LoadDevice /\ Whole /\ AskedText(ConfigText) \in Paths /\ saved[AskedText(ConfigText)] # Nothing =>
        LET device == saved[AskedText(ConfigText)]
        IN  IsRestorable(device) /\ device.name \notin DOMAIN tree =>
              /\ device.name \in DOMAIN tree' /\ ~tree'[device.name].deleted
              /\ tree'[device.name].device = Kept(device)
<1>1. IInv /\ [Next]_vars => [Step]_vars
  <2> DEFINE path == AskedText(ConfigText)
             device == saved[path]
             read == ReadFile(FileAsked)
  <2>1. SUFFICES ASSUME IInv, LoadDevice, Whole, path \in Paths, device # Nothing,
                        IsRestorable(device), device.name \notin DOMAIN tree
                 PROVE  /\ device.name \in DOMAIN tree' /\ ~tree'[device.name].deleted
                        /\ tree'[device.name].device = Kept(device)
    OBVIOUS
  <2>2. IsDevice(device) /\ FileAsked = SaveDevice(device)
    BY <2>1 DEF IInv, FilesInv, FileAsked
  <2>3. read = Success(Kept(device))
    BY <2>1, <2>2, ReadsWhatItSaved
  <2>4. read.result = "ok" /\ read.item = Kept(device)
    BY <2>3 DEF Success
  <2>5. Kept(device).name = device.name
    <3>1. device = [name |-> device.name, label |-> device.label, vectors |-> device.vectors]
      BY <2>2 DEF IsDevice
    <3>2. QED
      BY <3>1 DEF Kept
  <2> HIDE DEF read, device
  <2> DEFINE s == IF AskedText(ModuleText) = NullModule \/ HasPlugin(AskedText(ModuleText))
                  THEN "Ok" ELSE "Alert"
             x == Item(Kept(device))
  <2>6. tree' = Inserted(Reported(tree, s), device.name, x)
    BY <2>1, <2>4, <2>5 DEF LoadDevice, LoadsOn, Whole, Loaded, read
  <2>7. DOMAIN Reported(tree, s) = DOMAIN tree
    BY DEF Reported
  <2>8. ~x.deleted /\ x.device = Kept(device)
    BY DEF Item, NewItem
  <2> HIDE DEF x, s
  <2>9. device.name \in DOMAIN tree' /\ tree'[device.name] = x
    BY <2>1, <2>6, <2>7 DEF Inserted
  <2>10. QED
    BY <2>8, <2>9
<1>2. QED
  BY <1>1, Invariant, PTL DEF Spec, Restores

-----------------------------------------------------------------------------
(* What FlattenSeq makes of a sequence of sequences: g lists s if it says   *)
(* what is at each place of s, by other names for the places.               *)
Lists(s, g) ==
  \E b \in Bijection(DOMAIN g, DOMAIN s) : \A x \in DOMAIN g : s[b[x]] = g[x]

Joined(gs, U) ==
  [x \in {y \in (DOMAIN gs) \X U : y[2] \in DOMAIN gs[y[1]]} |-> gs[x[1]][x[2]]]

(* A sequence says itself what is at each of its places.                    *)
LEMMA ListsItself ==
  ASSUME NEW s
  PROVE  Lists(s, s)
<1> DEFINE b == [x \in DOMAIN s |-> x]
<1>1. b \in Bijection(DOMAIN s, DOMAIN s)
  BY DEF Bijection, Injection, Surjection, IsInjective
<1>2. QED
  BY <1>1 DEF Lists

(* Pairs, as the provers need them.                                         *)
LEMMA PairIs ==
  ASSUME NEW A, NEW B
  PROVE  /\ \A i \in A, y \in B : <<i, y>> \in A \X B
         /\ \A x \in A \X B : x[1] \in A /\ x[2] \in B /\ x = <<x[1], x[2]>>
OBVIOUS

(* The places of sequences joined are pairs: which sequence, and where in   *)
(* it.                                                                      *)
LEMMA JoinedIs ==
  ASSUME NEW gs, NEW U
  PROVE  /\ \A x : x \in DOMAIN Joined(gs, U) <=>
                     \E i \in DOMAIN gs, y \in U : x = <<i, y>> /\ y \in DOMAIN gs[i]
         /\ \A i \in DOMAIN gs, y \in U :
              y \in DOMAIN gs[i] => Joined(gs, U)[<<i, y>>] = gs[i][y]
<1> DEFINE D == {y \in (DOMAIN gs) \X U : y[2] \in DOMAIN gs[y[1]]}
<1>1. /\ DOMAIN Joined(gs, U) = D
      /\ \A x \in D : Joined(gs, U)[x] = gs[x[1]][x[2]]
  BY DEF Joined
<1>2. ASSUME NEW i \in DOMAIN gs, NEW y \in U, y \in DOMAIN gs[i]
      PROVE  <<i, y>> \in D /\ Joined(gs, U)[<<i, y>>] = gs[i][y]
  <2>0. <<i, y>>[1] = i /\ <<i, y>>[2] = y /\ <<i, y>> \in (DOMAIN gs) \X U
    <3> HIDE DEF D
    <3> DEFINE A == DOMAIN gs
    <3>1. i \in A
      OBVIOUS
    <3> HIDE DEF A
    <3>2. <<i, y>> \in A \X U
      BY <3>1
    <3>3. QED
      BY <3>2 DEF A
  <2>1. <<i, y>> \in D
    BY <1>2, <2>0
  <2> HIDE DEF D
  <2>2. QED
    BY <1>1, <2>0, <2>1
<1>3. ASSUME NEW x \in D
      PROVE  \E i \in DOMAIN gs, y \in U : x = <<i, y>> /\ y \in DOMAIN gs[i]
  <2>0. x \in (DOMAIN gs) \X U /\ x[2] \in DOMAIN gs[x[1]]
    OBVIOUS
  <2>1. PICK i \in DOMAIN gs, y \in U : x = <<i, y>>
    BY <2>0, PairIs
  <2>2. x[1] = i /\ x[2] = y
    BY <2>1
  <2>3. QED
    BY <2>0, <2>1, <2>2
<1> HIDE DEF D
<1>4. QED
  BY <1>1, <1>2, <1>3

(* One sequence more.                                                       *)
LEMMA ListsOneMore ==
  ASSUME NEW T, NEW l \in Nat \ {0}, NEW s \in Seq(T), NEW r \in Seq(T), NEW U, NEW gs, NEW hs,
         DOMAIN gs = 1 .. l - 1, DOMAIN hs = 1 .. l, \A i \in 1 .. l - 1 : hs[i] = gs[i],
         Lists(s, Joined(gs, U)), Lists(r, hs[l]), DOMAIN hs[l] \subseteq U
  PROVE  Lists(s \o r, Joined(hs, U))
<1> DEFINE J == Joined(gs, U)
           K == Joined(hs, U)
           t == s \o r
<1>1. /\ Len(s) \in Nat /\ DOMAIN s = 1 .. Len(s) /\ Len(r) \in Nat /\ DOMAIN r = 1 .. Len(r)
      /\ Len(t) = Len(s) + Len(r) /\ DOMAIN t = 1 .. Len(s) + Len(r)
      /\ \A p \in 1 .. Len(s) : t[p] = s[p]
      /\ \A p \in 1 .. Len(r) : t[Len(s) + p] = r[p]
  BY LenProperties, ConcatProperties
<1>2. PICK b \in Bijection(DOMAIN J, 1 .. Len(s)) : \A x \in DOMAIN J : s[b[x]] = J[x]
  BY <1>1 DEF Lists
<1>3. PICK c \in Bijection(DOMAIN hs[l], 1 .. Len(r)) : \A y \in DOMAIN hs[l] : r[c[y]] = hs[l][y]
  BY <1>1 DEF Lists
<1>4. /\ b \in [DOMAIN J -> 1 .. Len(s)]
      /\ \A x, y \in DOMAIN J : b[x] = b[y] => x = y
      /\ \A p \in 1 .. Len(s) : \E x \in DOMAIN J : b[x] = p
  BY <1>2 DEF Bijection, Injection, Surjection, IsInjective
<1>5. /\ c \in [DOMAIN hs[l] -> 1 .. Len(r)]
      /\ \A x, y \in DOMAIN hs[l] : c[x] = c[y] => x = y
      /\ \A p \in 1 .. Len(r) : \E x \in DOMAIN hs[l] : c[x] = p
  BY <1>3 DEF Bijection, Injection, Surjection, IsInjective
<1>6. /\ \A x \in DOMAIN J : x \in DOMAIN K /\ K[x] = J[x] /\ x[1] # l
      /\ \A y \in DOMAIN hs[l] : /\ <<l, y>> \in DOMAIN K /\ K[<<l, y>>] = hs[l][y]
                                 /\ <<l, y>>[1] = l /\ <<l, y>>[2] = y
      /\ \A x \in DOMAIN K : x \in DOMAIN J \/ \E y \in DOMAIN hs[l] : x = <<l, y>>
  <2>1. \A i \in 1 .. l : i \in 1 .. l - 1 \/ i = l
    OBVIOUS
  <2>2. l \in 1 .. l /\ \A i \in 1 .. l - 1 : i \in 1 .. l /\ i # l
    OBVIOUS
  <2>3. ASSUME NEW x \in DOMAIN J PROVE x \in DOMAIN K /\ K[x] = J[x] /\ x[1] # l
    <3>1. PICK i \in 1 .. l - 1, y \in U : x = <<i, y>> /\ y \in DOMAIN gs[i]
      BY JoinedIs
    <3>2. QED
      BY <2>2, <3>1, JoinedIs
  <2>4. ASSUME NEW x \in DOMAIN K
        PROVE  x \in DOMAIN J \/ \E y \in DOMAIN hs[l] : x = <<l, y>>
    <3>1. PICK i \in 1 .. l, y \in U : x = <<i, y>> /\ y \in DOMAIN hs[i]
      BY JoinedIs
    <3>2. CASE i = l
      BY <3>1, <3>2
    <3>3. CASE i # l
      BY <2>1, <3>1, <3>3, JoinedIs
    <3>4. QED
      BY <3>2, <3>3
  <2>5. QED
    BY <2>2, <2>3, <2>4, JoinedIs
<1> HIDE DEF J, K, t
<1> DEFINE d == [x \in DOMAIN K |-> IF x[1] = l THEN Len(s) + c[x[2]] ELSE b[x]]
<1>7. /\ \A x \in DOMAIN J : d[x] = b[x] /\ d[x] \in 1 .. Len(s)
      /\ \A y \in DOMAIN hs[l] : /\ d[<<l, y>>] = Len(s) + c[y] /\ c[y] \in 1 .. Len(r)
  BY <1>4, <1>5, <1>6
<1>8. DOMAIN d = DOMAIN K /\ d = [x \in DOMAIN K |-> d[x]]
  OBVIOUS
<1> HIDE DEF d
<1>9. ASSUME NEW x \in DOMAIN K
      PROVE  d[x] \in 1 .. Len(s) + Len(r) /\ t[d[x]] = K[x]
  <2>1. CASE x \in DOMAIN J
    <3>1. d[x] = b[x] /\ b[x] \in 1 .. Len(s) /\ K[x] = J[x] /\ s[b[x]] = J[x]
      BY <1>2, <1>6, <1>7, <2>1
    <3>2. QED
      BY <1>1, <3>1
  <2>2. ASSUME NEW y \in DOMAIN hs[l], x = <<l, y>>
        PROVE  d[x] \in 1 .. Len(s) + Len(r) /\ t[d[x]] = K[x]
    <3>1. d[x] = Len(s) + c[y] /\ c[y] \in 1 .. Len(r) /\ K[x] = r[c[y]]
      BY <1>3, <1>6, <1>7, <2>2
    <3>2. QED
      BY <1>1, <3>1
  <2>3. QED
    BY <1>6, <2>1, <2>2
<1>10. ASSUME NEW x \in DOMAIN K, NEW z \in DOMAIN K, d[x] = d[z] PROVE x = z
  <2>1. CASE x \in DOMAIN J /\ z \in DOMAIN J
    BY <1>4, <1>7, <1>10, <2>1
  <2>2. ASSUME NEW y \in DOMAIN hs[l], x = <<l, y>> \/ z = <<l, y>>,
               x \in DOMAIN J \/ z \in DOMAIN J
        PROVE  FALSE
    <3>1. d[<<l, y>>] = Len(s) + c[y] /\ c[y] \in 1 .. Len(r)
      BY <1>7
    <3>2. d[<<l, y>>] > Len(s)
      BY <1>1, <3>1
    <3>3. <<l, y>> \notin DOMAIN J
      BY <1>1, <1>7, <3>2
    <3>4. QED
      BY <1>1, <1>7, <1>10, <2>2, <3>2, <3>3
  <2>3. ASSUME NEW y \in DOMAIN hs[l], NEW w \in DOMAIN hs[l], x = <<l, y>>, z = <<l, w>>
        PROVE  x = z
    <3>1. Len(s) + c[y] = Len(s) + c[w] /\ c[y] \in 1 .. Len(r) /\ c[w] \in 1 .. Len(r)
      BY <1>7, <1>10, <2>3
    <3>2. c[y] = c[w]
      BY <1>1, <3>1
    <3>3. QED
      BY <1>5, <2>3, <3>2
  <2>4. QED
    BY <1>6, <2>1, <2>2, <2>3
<1>11. ASSUME NEW p \in 1 .. Len(s) + Len(r) PROVE \E x \in DOMAIN K : d[x] = p
  <2>1. CASE p \in 1 .. Len(s)
    <3>1. PICK x \in DOMAIN J : b[x] = p
      BY <1>4, <2>1
    <3>2. d[x] = p
      BY <1>7, <3>1
    <3>3. x \in DOMAIN K
      BY <1>6
    <3>4. QED
      BY <3>2, <3>3
  <2>2. CASE p \notin 1 .. Len(s)
    <3>1. p - Len(s) \in 1 .. Len(r) /\ p = Len(s) + (p - Len(s))
      BY <1>1, <2>2
    <3>2. PICK y \in DOMAIN hs[l] : c[y] = p - Len(s)
      BY <1>5, <3>1
    <3>3. d[<<l, y>>] = p /\ <<l, y>> \in DOMAIN K
      BY <1>6, <1>7, <3>1, <3>2
    <3>4. QED
      BY <3>3
  <2>3. QED
    BY <2>1, <2>2
<1>12. d \in Bijection(DOMAIN K, DOMAIN t)
  BY <1>1, <1>8, <1>9, <1>10, <1>11 DEF Bijection, Injection, Surjection, IsInjective
<1>13. QED
  BY <1>9, <1>12 DEF Lists, K, t

(* All of them.                                                             *)
LEMMA FlattenLists ==
  ASSUME NEW T, NEW ss \in Seq(Seq(T)), NEW gs, DOMAIN gs = DOMAIN ss, NEW U,
         \A i \in DOMAIN ss : Lists(ss[i], gs[i]) /\ DOMAIN gs[i] \subseteq U
  PROVE  FlattenSeq(ss) \in Seq(T) /\ Lists(FlattenSeq(ss), Joined(gs, U))
<1> DEFINE h == Len(ss)
           part == [l \in 0 .. h |-> [i \in 1 .. l |-> gs[i]]]
           Q == [l \in 0 .. h |-> {s \in Seq(T) : Lists(s, Joined(part[l], U))}]
<1>1. /\ h \in Nat /\ DOMAIN ss = 1 .. h /\ \A n \in 1 .. h : ss[n] \in Seq(T)
  BY LenProperties, ElementOfSeq
<1> HIDE DEF h
<1>2. \A l \in 0 .. h : /\ DOMAIN part[l] = 1 .. l /\ \A i \in 1 .. l : part[l][i] = gs[i]
  OBVIOUS
<1>3. <<>> \in Seq(T) /\ <<>> \in Q[0]
  <2>1. <<>> \in Seq(T) /\ DOMAIN <<>> = {}
    BY EmptySeq, LenProperties
  <2>2. DOMAIN part[0] = {} /\ 0 \in 0 .. h
    BY <1>1
  <2>3. DOMAIN Joined(part[0], U) = {}
    BY <2>2, JoinedIs
  <2> DEFINE b == [x \in {} |-> 0]
  <2>4. b \in Bijection({}, {})
    BY DEF Bijection, Injection, Surjection, IsInjective
  <2>5. Lists(<<>>, Joined(part[0], U))
    BY <2>1, <2>3, <2>4 DEF Lists
  <2>6. QED
    BY <2>1, <2>2, <2>5
<1>4. ASSUME NEW n \in 1 .. h, NEW s \in Q[n - 1] PROVE s \o ss[n] \in Q[n]
  <2>1. n \in Nat \ {0} /\ n \in 0 .. h /\ n - 1 \in 0 .. h /\ n \in 1 .. n
    BY <1>1
  <2>2. s \in Seq(T) /\ Lists(s, Joined(part[n - 1], U))
    BY <2>1
  <2>3. ss[n] \in Seq(T) /\ Lists(ss[n], part[n][n]) /\ DOMAIN part[n][n] \subseteq U
    <3>1. part[n][n] = gs[n]
      BY <1>2, <2>1
    <3> HIDE DEF part
    <3>2. QED
      BY <1>1, <3>1
  <2>4. /\ DOMAIN part[n - 1] = 1 .. n - 1 /\ DOMAIN part[n] = 1 .. n
        /\ \A i \in 1 .. n - 1 : part[n][i] = part[n - 1][i]
    BY <1>2, <2>1
  <2> HIDE DEF part
  <2>5. Lists(s \o ss[n], Joined(part[n], U))
    BY <2>1, <2>2, <2>3, <2>4, ListsOneMore
  <2>6. s \o ss[n] \in Seq(T)
    BY <2>2, <2>3, ConcatProperties
  <2>7. QED
    BY <2>1, <2>5, <2>6
<1>5. gs = part[h] \/ DOMAIN gs = DOMAIN part[h]
  BY <1>1, <1>2
<1>6. Joined(part[h], U) = Joined(gs, U)
  <2>1. h \in 0 .. h /\ DOMAIN part[h] = DOMAIN gs /\ \A i \in DOMAIN gs : part[h][i] = gs[i]
    BY <1>1, <1>2
  <2> HIDE DEF part
  <2> DEFINE D == {y \in (DOMAIN gs) \X U : y[2] \in DOMAIN gs[y[1]]}
  <2>2. \A p \in (DOMAIN gs) \X U : p[1] \in DOMAIN gs
    BY PairIs, Zenon
  <2>3. \A p \in (DOMAIN gs) \X U : part[h][p[1]] = gs[p[1]]
    BY <2>1, <2>2
  <2>4. {y \in (DOMAIN gs) \X U : y[2] \in DOMAIN part[h][y[1]]} = D
    BY <2>3
  <2>5. Joined(gs, U) = [x \in D |-> gs[x[1]][x[2]]]
    BY DEF Joined
  <2>6. Joined(part[h], U) = [x \in D |-> part[h][x[1]][x[2]]]
    <3> HIDE DEF D
    <3>1. Joined(part[h], U) =
            [x \in {y \in (DOMAIN part[h]) \X U : y[2] \in DOMAIN part[h][y[1]]} |->
               part[h][x[1]][x[2]]]
      BY DEF Joined
    <3>2. {y \in (DOMAIN part[h]) \X U : y[2] \in DOMAIN part[h][y[1]]} = D
      BY <2>1, <2>4
    <3>3. QED
      BY <3>1, <3>2
  <2>7. \A x \in D : part[h][x[1]] = gs[x[1]]
    BY <2>3
  <2> HIDE DEF D
  <2>8. QED
    BY <2>5, <2>6, <2>7
<1>7. CASE h = 0
  <2>1. FlattenSeq(ss) = ss /\ ss = <<>>
    BY <1>7, EmptySeq DEF FlattenSeq, h
  <2>2. 0 \in 0 .. h
    BY <1>1
  <2>3. QED
    BY <1>3, <1>6, <1>7, <2>1, <2>2
<1>8. CASE h # 0
  <2> DEFINE g == [n \in 1 .. h |-> [s \in Seq(T) |-> s \o ss[n]]]
             Step(f, n) == IF n = 1 THEN ss[n] ELSE f[n - 1] \o ss[n]
  <2>1. g \in [1 .. h -> [Seq(T) -> Seq(T)]]
    <3>1. \A n \in 1 .. h : \A s \in Seq(T) : s \o ss[n] \in Seq(T)
      BY <1>1, ConcatProperties
    <3>2. QED
      BY <3>1
  <2>2. PICK f \in [0 .. h -> Seq(T)] : f[0] = <<>> /\ \A n \in 1 .. h : f[n] = g[n][f[n - 1]]
    <3>1. h \in Nat /\ <<>> \in Seq(T)
      BY <1>1, <1>3
    <3> HIDE DEF g
    <3>2. HasRun(Seq(T), <<>>, h, g)
      BY <2>1, <3>1, Iterates
    <3>3. QED
      BY <3>2 DEF HasRun
  <2>3. \A n \in 1 .. h : f[n] = f[n - 1] \o ss[n]
    <3>1. \A n \in 1 .. h : f[n - 1] \in Seq(T)
      BY <1>1, <2>2
    <3>2. QED
      BY <2>2, <3>1
  <2> DEFINE e == [n \in 1 .. h |-> f[n]]
  <2>4. e = [n \in 1 .. h |-> Step(e, n)]
    <3>1. ASSUME NEW n \in 1 .. h PROVE e[n] = Step(e, n)
      <4>1. CASE n = 1
        <5>1. f[1] = <<>> \o ss[1] /\ ss[1] \in Seq(T)
          <6>1. 1 \in 1 .. h /\ 1 - 1 = 0
            BY <1>1, <1>8
          <6> HIDE DEF g
          <6>2. QED
            BY <1>1, <2>2, <2>3, <6>1
        <5>2. <<>> \o ss[1] = ss[1]
          BY <5>1, ConcatEmptySeq
        <5>3. QED
          BY <4>1, <5>1, <5>2
      <4>2. CASE n # 1
        <5>1. n - 1 \in 1 .. h
          BY <1>1, <4>2
        <5>2. QED
          BY <2>3, <4>2, <5>1
      <4>3. QED
        BY <4>1, <4>2
    <3>2. QED
      BY <3>1
  <2> DEFINE w == CHOOSE k : k = [n \in 1 .. h |-> Step(k, n)]
  <2>5. w = [n \in 1 .. h |-> Step(w, n)]
    BY <2>4
  <2>6. FlattenSeq(ss) = w[h]
    BY <1>8 DEF FlattenSeq, h
  <2> HIDE DEF w
  <2> DEFINE z == [n \in 0 .. h |-> IF n = 0 THEN <<>> ELSE w[n]]
  <2>7. z[0] = <<>> /\ \A n \in 1 .. h : z[n] = w[n]
    BY <1>1
  <2>8. \A n \in 1 .. h : w[n] = Step(w, n)
    <3> HIDE DEF Step
    <3>1. QED
      BY <2>5
  <2> HIDE DEF z
  <2>9. z[0] \in Q[0] /\ \A n \in 1 .. h : z[n - 1] \in Q[n - 1] => z[n] \in Q[n]
    <3>1. ASSUME NEW n \in 1 .. h, z[n - 1] \in Q[n - 1] PROVE z[n] \in Q[n]
      <4>1. z[n] = z[n - 1] \o ss[n]
        <5>1. CASE n = 1
          <6>1. <<>> \o ss[1] = ss[1]
            BY <1>1, <5>1, ConcatEmptySeq
          <6>2. 1 \in 1 .. h /\ 1 - 1 = 0 /\ w[1] = ss[1]
            BY <2>8, <5>1
          <6>3. QED
            BY <2>7, <5>1, <6>1, <6>2
        <5>2. CASE n # 1
          <6>1. n - 1 \in 1 .. h
            BY <1>1, <5>2
          <6>2. QED
            BY <2>7, <2>8, <5>2, <6>1
        <5>3. QED
          BY <5>1, <5>2
      <4> HIDE DEF Q
      <4>2. QED
        BY <1>4, <3>1, <4>1
    <3> HIDE DEF Q
    <3>2. QED
      BY <1>3, <2>7, <3>1
  <2>10. z[h] \in Q[h]
    <3> HIDE DEF Q
    <3>1. QED
      BY <1>1, <2>9, StaysIn
  <2>11. z[h] = w[h] /\ h \in 0 .. h
    BY <1>1, <1>8, <2>7
  <2> HIDE DEF part
  <2>12. QED
    BY <1>6, <2>6, <2>10, <2>11
<1>9. QED
  BY <1>7, <1>8

(* How often what is listed is there.                                       *)
Places(g, r) == {x \in DOMAIN g : g[x] = r}

LEMMA ListsCounts ==
  ASSUME NEW s, NEW g, Lists(s, g), IsFiniteSet(DOMAIN s), NEW r
  PROVE  IsFiniteSet(Places(g, r)) /\ Cardinality(Places(s, r)) = Cardinality(Places(g, r))
<1> DEFINE X == {x \in DOMAIN g : g[x] = r}
           Y == {i \in DOMAIN s : s[i] = r}
<1>1. PICK b \in Bijection(DOMAIN g, DOMAIN s) : \A x \in DOMAIN g : s[b[x]] = g[x]
  BY DEF Lists
<1>2. /\ b \in [DOMAIN g -> DOMAIN s] /\ \A x, y \in DOMAIN g : b[x] = b[y] => x = y
      /\ \A i \in DOMAIN s : \E x \in DOMAIN g : b[x] = i
  BY <1>1 DEF Bijection, Injection, Surjection, IsInjective
<1> DEFINE c == [i \in Y |-> CHOOSE x \in DOMAIN g : b[x] = i]
<1>3. \A i \in Y : c[i] \in DOMAIN g /\ b[c[i]] = i
  BY <1>2
<1> HIDE DEF c
<1>4. \A i \in Y : c[i] \in X
  BY <1>1, <1>3
<1>5. \A x \in X : b[x] \in Y /\ c[b[x]] = x
  BY <1>1, <1>2, <1>3
<1>6. c \in [Y -> X]
  BY <1>4 DEF c
<1>7. c \in Bijection(Y, X)
  <2> HIDE DEF X, Y
  <2>1. QED
    BY <1>3, <1>5, <1>6 DEF Bijection, Injection, Surjection, IsInjective
<1>8. IsFiniteSet(Y)
  BY FS_Subset
<1>9. ExistsBijection(Y, X)
  BY <1>7 DEF ExistsBijection
<1>10. QED
  BY <1>8, <1>9, FS_Bijection DEF Places

-----------------------------------------------------------------------------
(* The relationships read are the mentions of them in the file.             *)
Proper == {r \in Registrations : r.vector \in DOMAIN tree[r.observable].device.vectors}
Told(V) ==
  {r \in [observer : DOMAIN tree, observable : DOMAIN tree, vector : V, topic : Topics] :
     Alive(r.observer) /\ Alive(r.observable) => r \in Proper}

IsMention(e, place, n, found) == IsProperty(e) /\ Finds(e, place, n, found)
Mentioned(e, o, n) == [observer |-> o, observable |-> n, vector |-> e.pcdata, topic |-> e.at.topic]

ListsObservable(e, i, j, o, found) ==
  IF IsObservable(e)
  THEN Joined([k \in DOMAIN e.el |->
                 RelationsProperty(e.el[k], <<i, j, k>>, o, e.at.name, found)], {1})
  ELSE <<>>
ListsObserver(e, i, found) ==
  IF IsObserver(e)
  THEN Joined([j \in DOMAIN e.el |-> ListsObservable(e.el[j], i, j, e.at.name, found)],
              Nat \X {1})
  ELSE <<>>
ListsRelations(f, found) ==
  Joined([i \in DOMAIN f.el |-> ListsObserver(f.el[i], i, found)], Nat \X (Nat \X {1}))

(* A property makes one registration, if it is a mention at all.            *)
LEMMA PropertyIs ==
  ASSUME IInv, NEW V, NEW e, e.pcdata \in V, NEW p, NEW found,
         NEW o \in DOMAIN tree, NEW n \in DOMAIN tree,
         NEW s, s = RelationsProperty(e, p, o, n, found)
  PROVE  /\ s \in Seq(Told(V)) /\ DOMAIN s \subseteq {1}
         /\ 1 \in DOMAIN s <=> IsMention(e, p, n, found)
         /\ IsMention(e, p, n, found) => s[1] = Mentioned(e, o, n)
<1> DEFINE r == Mentioned(e, o, n)
<1>1. CASE IsMention(e, p, n, found)
  <2>1. r \in Told(V)
    <3>1. /\ r.observer = o /\ r.observable = n /\ r.vector = e.pcdata
          /\ r \in [observer : DOMAIN tree, observable : DOMAIN tree, vector : V, topic : Topics]
      BY <1>1 DEF Mentioned, IsMention, IsProperty
    <3>2. ASSUME Alive(o), Alive(n) PROVE r \in Proper
      <4>1. IsDevice(tree[n].device)
        BY <3>2 DEF IInv, TreeInv, Alive, IsItem, Dangling
      <4>2. e.pcdata \in DOMAIN tree[n].device.vectors
        BY <1>1, <3>2 DEF IsMention, Finds
      <4>3. e.pcdata \in Names /\ e.at.topic \in Topics
        BY <1>1, <4>1, <4>2 DEF IsMention, IsProperty, IsDevice
      <4>4. r \in Registrations
        BY <3>2, <4>3 DEF Registrations, Mentioned
      <4> HIDE DEF r
      <4>5. QED
        BY <3>1, <4>2, <4>4 DEF Proper
    <3> HIDE DEF r
    <3>3. QED
      BY <3>1, <3>2 DEF Told
  <2>2. s = <<r>>
    BY <1>1 DEF RelationsProperty, IsMention, Mentioned
  <2> HIDE DEF r
  <2>3. s \in Seq(Told(V)) /\ DOMAIN s = {1} /\ s[1] = r
    BY <2>1, <2>2
  <2>4. QED
    BY <1>1, <2>3 DEF r
<1>2. CASE ~IsMention(e, p, n, found)
  <2>1. s = <<>>
    BY <1>2 DEF RelationsProperty, IsMention
  <2>2. DOMAIN s = {} /\ s \in Seq(Told(V))
    BY <2>1, EmptySeq, LenProperties
  <2>3. QED
    BY <1>2, <2>2
<1>3. QED
  BY <1>1, <1>2

(* A sequence of as many.                                                   *)
LEMMA EachIs ==
  ASSUME NEW e, HasChildren(e), NEW T, NEW ss, DOMAIN ss = DOMAIN e.el, ss = [i \in DOMAIN ss |-> ss[i]],
         \A i \in DOMAIN e.el : ss[i] \in Seq(T)
  PROVE  /\ ss \in Seq(Seq(T)) /\ DOMAIN e.el \subseteq Nat
<1>1. Len(e.el) \in Nat /\ DOMAIN e.el = 1 .. Len(e.el)
  BY LenProperties DEF HasChildren
<1>2. ss \in Seq(Seq(T))
  <2> DEFINE V == Seq(T)
  <2>1. \A i \in 1 .. Len(e.el) : ss[i] \in V
    BY <1>1
  <2>2. ss = [i \in 1 .. Len(e.el) |-> ss[i]]
    BY <1>1
  <2> HIDE DEF V
  <2>3. ss \in Seq(V)
    BY <1>1, <2>1, <2>2, IsASeq
  <2>4. QED
    BY <2>3 DEF V
<1>3. QED
  BY <1>1, <1>2

(* What an observable makes of its children.                                *)
ObservableTold(V, e, i, j, o, found, s, g) ==
  /\ s \in Seq(Told(V)) /\ Lists(s, g) /\ DOMAIN g \subseteq Nat \X {1}
  /\ \A x : x \in DOMAIN g <=>
       /\ IsObservable(e)
       /\ \E k \in DOMAIN e.el : x = <<k, 1>> /\ IsMention(e.el[k], <<i, j, k>>, e.at.name, found)
  /\ \A k \in DOMAIN e.el : IsObservable(e) /\ IsMention(e.el[k], <<i, j, k>>, e.at.name, found) =>
       g[<<k, 1>>] = Mentioned(e.el[k], o, e.at.name)

(* An observable makes one for every mention among its children.            *)
LEMMA ObservableIs ==
  ASSUME IInv, NEW V, NEW e, HasChildren(e), \A c \in Children(e) : c.pcdata \in V,
         NEW i, NEW j, NEW found, NEW o \in DOMAIN tree,
         NEW s, s = RelationsObservable(e, i, j, o, found),
         NEW g, g = ListsObservable(e, i, j, o, found)
  PROVE  ObservableTold(V, e, i, j, o, found, s, g)
<1> DEFINE n == e.at.name
           Here(k) == IsMention(e.el[k], <<i, j, k>>, n, found)
           ss == [k \in DOMAIN e.el |-> RelationsProperty(e.el[k], <<i, j, k>>, o, n, found)]
<1>1. CASE ~IsObservable(e)
  <2>1. s = <<>> /\ g = <<>>
    BY <1>1 DEF RelationsObservable, ListsObservable, IsObservable
  <2>2. DOMAIN g = {} /\ s \in Seq(Told(V))
    BY <2>1, EmptySeq, LenProperties
  <2>3. QED
    BY <1>1, <2>1, <2>2, ListsItself DEF ObservableTold
<1>2. CASE IsObservable(e)
  <2>1. n \in DOMAIN tree /\ \A k \in DOMAIN e.el : e.el[k].pcdata \in V
    BY <1>2 DEF IsObservable, Children
  <2>2. s = FlattenSeq(ss) /\ g = Joined(ss, {1})
    BY <1>2 DEF RelationsObservable, ListsObservable, IsObservable
  <2>3. ASSUME NEW k \in DOMAIN e.el
        PROVE  /\ ss[k] \in Seq(Told(V)) /\ Lists(ss[k], ss[k]) /\ DOMAIN ss[k] \subseteq {1}
               /\ 1 \in DOMAIN ss[k] <=> Here(k)
               /\ Here(k) => ss[k][1] = Mentioned(e.el[k], o, n)
    <3>1. ss[k] = RelationsProperty(e.el[k], <<i, j, k>>, o, n, found)
      OBVIOUS
    <3> HIDE DEF ss
    <3>2. /\ ss[k] \in Seq(Told(V)) /\ DOMAIN ss[k] \subseteq {1}
          /\ 1 \in DOMAIN ss[k] <=> Here(k)
          /\ Here(k) => ss[k][1] = Mentioned(e.el[k], o, n)
      BY <2>1, <3>1, PropertyIs
    <3>3. QED
      BY <3>2, ListsItself
  <2>4. DOMAIN ss = DOMAIN e.el /\ ss = [k \in DOMAIN ss |-> ss[k]]
    OBVIOUS
  <2> HIDE DEF ss, n, Here
  <2>5. ss \in Seq(Seq(Told(V))) /\ DOMAIN e.el \subseteq Nat
    BY <2>3, <2>4, EachIs
  <2>6. s \in Seq(Told(V)) /\ Lists(s, g)
    <3>1. \A k \in DOMAIN ss : Lists(ss[k], ss[k]) /\ DOMAIN ss[k] \subseteq {1}
      BY <2>3, <2>4
    <3>2. FlattenSeq(ss) \in Seq(Told(V)) /\ Lists(FlattenSeq(ss), Joined(ss, {1}))
      BY <2>5, <3>1, FlattenLists
    <3>3. QED
      BY <2>2, <3>2
  <2>7. \A x : x \in DOMAIN g <=> \E k \in DOMAIN e.el : x = <<k, 1>> /\ Here(k)
    BY <2>2, <2>3, <2>4, JoinedIs
  <2>8. \A k \in DOMAIN e.el : Here(k) => g[<<k, 1>>] = Mentioned(e.el[k], o, n)
    BY <2>2, <2>3, <2>4, JoinedIs
  <2>9. DOMAIN g \subseteq Nat \X {1}
    BY <2>5, <2>7
  <2>10. QED
    BY <1>2, <2>6, <2>7, <2>8, <2>9 DEF n, Here, ObservableTold
<1>3. QED
  BY <1>1, <1>2

(* What an observer makes of its observables.                               *)
ObserverTold(V, e, i, found, s, g) ==
  /\ s \in Seq(Told(V)) /\ Lists(s, g) /\ DOMAIN g \subseteq Nat \X (Nat \X {1})
  /\ \A x : x \in DOMAIN g <=>
       /\ IsObserver(e)
       /\ \E j \in DOMAIN e.el : \E k \in DOMAIN e.el[j].el :
            /\ x = <<j, <<k, 1>>>> /\ IsObservable(e.el[j])
            /\ IsMention(e.el[j].el[k], <<i, j, k>>, e.el[j].at.name, found)
  /\ \A j \in DOMAIN e.el : \A k \in DOMAIN e.el[j].el :
       <<j, <<k, 1>>>> \in DOMAIN g =>
         g[<<j, <<k, 1>>>>] = Mentioned(e.el[j].el[k], e.at.name, e.el[j].at.name)

(* An observer makes one for every mention among its observables.           *)
LEMMA ObserverIs ==
  ASSUME IInv, NEW V, NEW e, HasChildren(e),
         \A c \in Children(e) : HasChildren(c) /\ \A d \in Children(c) : d.pcdata \in V,
         NEW i, NEW found, NEW s, s = RelationsObserver(e, i, found),
         NEW g, g = ListsObserver(e, i, found)
  PROVE  ObserverTold(V, e, i, found, s, g)
<1> DEFINE o == e.at.name
           ss == [j \in DOMAIN e.el |-> RelationsObservable(e.el[j], i, j, o, found)]
           gs == [j \in DOMAIN e.el |-> ListsObservable(e.el[j], i, j, o, found)]
           U == Nat \X {1}
<1>1. CASE ~IsObserver(e)
  <2>1. s = <<>> /\ g = <<>>
    BY <1>1 DEF RelationsObserver, ListsObserver, IsObserver
  <2>2. DOMAIN g = {} /\ s \in Seq(Told(V))
    BY <2>1, EmptySeq, LenProperties
  <2>3. QED
    BY <1>1, <2>1, <2>2, ListsItself DEF ObserverTold
<1>2. CASE IsObserver(e)
  <2>1. o \in DOMAIN tree
    BY <1>2 DEF IsObserver
  <2>2. s = FlattenSeq(ss) /\ g = Joined(gs, U)
    BY <1>2 DEF RelationsObserver, ListsObserver, IsObserver
  <2>3. ASSUME NEW j \in DOMAIN e.el
        PROVE  /\ ss[j] \in Seq(Told(V)) /\ Lists(ss[j], gs[j]) /\ DOMAIN gs[j] \subseteq U
               /\ \A x : x \in DOMAIN gs[j] <=>
                    /\ IsObservable(e.el[j])
                    /\ \E k \in DOMAIN e.el[j].el :
                         x = <<k, 1>> /\ IsMention(e.el[j].el[k], <<i, j, k>>, e.el[j].at.name, found)
               /\ \A k \in DOMAIN e.el[j].el :
                    IsObservable(e.el[j]) /\ IsMention(e.el[j].el[k], <<i, j, k>>, e.el[j].at.name, found) =>
                      gs[j][<<k, 1>>] = Mentioned(e.el[j].el[k], o, e.el[j].at.name)
    <3>1. ss[j] = RelationsObservable(e.el[j], i, j, o, found) /\ gs[j] = ListsObservable(e.el[j], i, j, o, found)
      OBVIOUS
    <3>2. HasChildren(e.el[j]) /\ \A c \in Children(e.el[j]) : c.pcdata \in V
      BY DEF Children
    <3> HIDE DEF ss, gs, o
    <3>3. ObservableTold(V, e.el[j], i, j, o, found, ss[j], gs[j])
      BY <2>1, <3>1, <3>2, ObservableIs
    <3>4. QED
      BY <3>3 DEF ObservableTold
  <2>4. DOMAIN ss = DOMAIN e.el /\ ss = [k \in DOMAIN ss |-> ss[k]] /\ DOMAIN gs = DOMAIN e.el
    OBVIOUS
  <2> HIDE DEF ss, gs, o, U
  <2>5. ss \in Seq(Seq(Told(V))) /\ DOMAIN e.el \subseteq Nat
    BY <2>3, <2>4, EachIs
  <2>6. s \in Seq(Told(V)) /\ Lists(s, g)
    <3>1. \A j \in DOMAIN ss : Lists(ss[j], gs[j]) /\ DOMAIN gs[j] \subseteq U
      BY <2>3, <2>4
    <3>2. FlattenSeq(ss) \in Seq(Told(V)) /\ Lists(FlattenSeq(ss), Joined(gs, U))
      BY <2>4, <2>5, <3>1, FlattenLists
    <3>3. QED
      BY <2>2, <3>2
  <2>7. \A x : x \in DOMAIN g <=> \E j \in DOMAIN e.el, y \in U : x = <<j, y>> /\ y \in DOMAIN gs[j]
    BY <2>2, <2>4, JoinedIs
  <2>8. \A x : x \in DOMAIN g <=>
          \E j \in DOMAIN e.el : \E k \in DOMAIN e.el[j].el :
            /\ x = <<j, <<k, 1>>>> /\ IsObservable(e.el[j])
            /\ IsMention(e.el[j].el[k], <<i, j, k>>, e.el[j].at.name, found)
    <3>1. ASSUME NEW x \in DOMAIN g
          PROVE  \E j \in DOMAIN e.el : \E k \in DOMAIN e.el[j].el :
                   /\ x = <<j, <<k, 1>>>> /\ IsObservable(e.el[j])
                   /\ IsMention(e.el[j].el[k], <<i, j, k>>, e.el[j].at.name, found)
      <4>1. PICK j \in DOMAIN e.el, y \in U : x = <<j, y>> /\ y \in DOMAIN gs[j]
        BY <2>7
      <4>2. QED
        BY <2>3, <4>1
    <3>2. ASSUME NEW j \in DOMAIN e.el, NEW k \in DOMAIN e.el[j].el, IsObservable(e.el[j]),
                 IsMention(e.el[j].el[k], <<i, j, k>>, e.el[j].at.name, found)
          PROVE  <<j, <<k, 1>>>> \in DOMAIN g
      <4>1. <<k, 1>> \in DOMAIN gs[j] /\ <<k, 1>> \in U
        BY <2>3, <3>2
      <4>2. QED
        BY <2>7, <4>1
    <3>3. QED
      BY <3>1, <3>2
  <2>9. ASSUME NEW j \in DOMAIN e.el, NEW k \in DOMAIN e.el[j].el, <<j, <<k, 1>>>> \in DOMAIN g
        PROVE  g[<<j, <<k, 1>>>>] = Mentioned(e.el[j].el[k], o, e.el[j].at.name)
    <3>1. <<k, 1>> \in DOMAIN gs[j] /\ <<k, 1>> \in U
      <4>1. PICK l \in DOMAIN e.el, y \in U : <<j, <<k, 1>>>> = <<l, y>> /\ y \in DOMAIN gs[l]
        BY <2>7, <2>9
      <4>2. l = j /\ y = <<k, 1>>
        BY <4>1
      <4>3. QED
        BY <4>1, <4>2
    <3>2. g[<<j, <<k, 1>>>>] = gs[j][<<k, 1>>]
      BY <2>2, <2>4, <3>1, JoinedIs
    <3>3. IsObservable(e.el[j]) /\ IsMention(e.el[j].el[k], <<i, j, k>>, e.el[j].at.name, found)
      <4>1. PICK l \in DOMAIN e.el[j].el :
              <<k, 1>> = <<l, 1>> /\ IsMention(e.el[j].el[l], <<i, j, l>>, e.el[j].at.name, found)
        BY <2>3, <3>1
      <4>2. l = k
        BY <4>1
      <4>3. QED
        BY <2>3, <3>1, <4>1, <4>2
    <3>4. QED
      BY <2>3, <3>2, <3>3
  <2>10. DOMAIN g \subseteq Nat \X U
    BY <2>5, <2>7
  <2>11. QED
    BY <1>2, <2>6, <2>8, <2>9, <2>10 DEF o, U, ObserverTold
<1>3. QED
  BY <1>1, <1>2

(* What the properties of a file are called.                                *)
Asks(f) == UNION {UNION {{d.pcdata : d \in Children(c)} : c \in Children(e)} : e \in Children(f)}

(* What mention i, j, k of a file says, if it says anything.                *)
MentionAt(f, i, j, k, found, r) ==
  /\ IsObserver(f.el[i]) /\ IsObservable(f.el[i].el[j])
  /\ IsMention(f.el[i].el[j].el[k], <<i, j, k>>, f.el[i].el[j].at.name, found)
  /\ r = Mentioned(f.el[i].el[j].el[k], f.el[i].at.name, f.el[i].el[j].at.name)

(* The file makes one for every mention in it, at the place of the mention. *)
LEMMA RelationsAre ==
  ASSUME IInv, NEW f, IsTree(f), f.tag = "relationships", NEW V, V = Asks(f), NEW found,
         NEW s, s = Relationships(f, found), NEW g, g = ListsRelations(f, found)
  PROVE  /\ s \in Seq(Told(V)) /\ Lists(s, g)
         /\ \A x, r : x \in DOMAIN g /\ g[x] = r <=>
              \E i \in DOMAIN f.el : \E j \in DOMAIN f.el[i].el :
                \E k \in DOMAIN f.el[i].el[j].el :
                  x = <<i, <<j, <<k, 1>>>>>> /\ MentionAt(f, i, j, k, found, r)
<1> DEFINE ss == [i \in DOMAIN f.el |-> RelationsObserver(f.el[i], i, found)]
           gs == [i \in DOMAIN f.el |-> ListsObserver(f.el[i], i, found)]
           U == Nat \X (Nat \X {1})
<1>1. s = FlattenSeq(ss) /\ g = Joined(gs, U)
  BY DEF Relationships, ListsRelations
<1>2. ASSUME NEW i \in DOMAIN f.el
      PROVE  /\ ss[i] \in Seq(Told(V)) /\ Lists(ss[i], gs[i]) /\ DOMAIN gs[i] \subseteq U
             /\ \A x : x \in DOMAIN gs[i] <=>
                  /\ IsObserver(f.el[i])
                  /\ \E j \in DOMAIN f.el[i].el : \E k \in DOMAIN f.el[i].el[j].el :
                       /\ x = <<j, <<k, 1>>>> /\ IsObservable(f.el[i].el[j])
                       /\ IsMention(f.el[i].el[j].el[k], <<i, j, k>>, f.el[i].el[j].at.name, found)
             /\ \A j \in DOMAIN f.el[i].el : \A k \in DOMAIN f.el[i].el[j].el :
                  <<j, <<k, 1>>>> \in DOMAIN gs[i] =>
                    gs[i][<<j, <<k, 1>>>>] =
                      Mentioned(f.el[i].el[j].el[k], f.el[i].at.name, f.el[i].el[j].at.name)
  <2>1. ss[i] = RelationsObserver(f.el[i], i, found) /\ gs[i] = ListsObserver(f.el[i], i, found)
    OBVIOUS
  <2>2. f.el[i] \in Children(f)
    BY DEF Children
  <2>3. /\ HasChildren(f.el[i])
        /\ \A c \in Children(f.el[i]) : HasChildren(c) /\ \A d \in Children(c) : d.pcdata \in V
    BY <2>2 DEF IsTree, Asks
  <2> HIDE DEF ss, gs
  <2>4. ObserverTold(V, f.el[i], i, found, ss[i], gs[i])
    BY <2>1, <2>3, ObserverIs
  <2>5. QED
    BY <2>4 DEF ObserverTold
<1>3. DOMAIN ss = DOMAIN f.el /\ ss = [k \in DOMAIN ss |-> ss[k]] /\ DOMAIN gs = DOMAIN f.el
  OBVIOUS
<1> HIDE DEF ss, gs, U
<1>4. HasChildren(f)
  BY DEF IsTree
<1>5. ss \in Seq(Seq(Told(V)))
  BY <1>2, <1>3, <1>4, EachIs
<1>6. s \in Seq(Told(V)) /\ Lists(s, g)
  <2>1. \A i \in DOMAIN ss : Lists(ss[i], gs[i]) /\ DOMAIN gs[i] \subseteq U
    BY <1>2, <1>3
  <2>2. FlattenSeq(ss) \in Seq(Told(V)) /\ Lists(FlattenSeq(ss), Joined(gs, U))
    BY <1>3, <1>5, <2>1, FlattenLists
  <2>3. QED
    BY <1>1, <2>2
<1>7. /\ \A x : x \in DOMAIN g <=> \E i \in DOMAIN f.el, y \in U : x = <<i, y>> /\ y \in DOMAIN gs[i]
      /\ \A i \in DOMAIN f.el, y \in U : y \in DOMAIN gs[i] => g[<<i, y>>] = gs[i][y]
  BY <1>1, <1>3, JoinedIs
<1>8. ASSUME NEW x \in DOMAIN g
      PROVE  \E i \in DOMAIN f.el : \E j \in DOMAIN f.el[i].el :
                \E k \in DOMAIN f.el[i].el[j].el :
                  x = <<i, <<j, <<k, 1>>>>>> /\ MentionAt(f, i, j, k, found, g[x])
  <2>1. PICK i \in DOMAIN f.el, y \in U : x = <<i, y>> /\ y \in DOMAIN gs[i]
    BY <1>7
  <2>2. g[x] = gs[i][y]
    BY <1>7, <2>1
  <2>3. /\ IsObserver(f.el[i])
        /\ \E j \in DOMAIN f.el[i].el : \E k \in DOMAIN f.el[i].el[j].el :
             /\ y = <<j, <<k, 1>>>> /\ IsObservable(f.el[i].el[j])
             /\ IsMention(f.el[i].el[j].el[k], <<i, j, k>>, f.el[i].el[j].at.name, found)
    BY <1>2, <2>1
  <2>4. PICK j \in DOMAIN f.el[i].el : \E k \in DOMAIN f.el[i].el[j].el :
          /\ y = <<j, <<k, 1>>>> /\ IsObservable(f.el[i].el[j])
          /\ IsMention(f.el[i].el[j].el[k], <<i, j, k>>, f.el[i].el[j].at.name, found)
    BY <2>3
  <2>5. PICK k \in DOMAIN f.el[i].el[j].el :
          /\ y = <<j, <<k, 1>>>> /\ IsObservable(f.el[i].el[j])
          /\ IsMention(f.el[i].el[j].el[k], <<i, j, k>>, f.el[i].el[j].at.name, found)
    BY <2>4
  <2>6. gs[i][y] = Mentioned(f.el[i].el[j].el[k], f.el[i].at.name, f.el[i].el[j].at.name)
    BY <1>2, <2>1, <2>5
  <2>7. MentionAt(f, i, j, k, found, g[x]) /\ x = <<i, <<j, <<k, 1>>>>>>
    BY <2>1, <2>2, <2>3, <2>5, <2>6 DEF MentionAt
  <2>8. QED
    BY <2>7
<1>9. ASSUME NEW i \in DOMAIN f.el, NEW j \in DOMAIN f.el[i].el,
             NEW k \in DOMAIN f.el[i].el[j].el, NEW r, MentionAt(f, i, j, k, found, r)
      PROVE  <<i, <<j, <<k, 1>>>>>> \in DOMAIN g /\ g[<<i, <<j, <<k, 1>>>>>>] = r
  <2> DEFINE y == <<j, <<k, 1>>>>
  <2>1. y \in DOMAIN gs[i]
    BY <1>2, <1>9 DEF MentionAt
  <2>2. y \in U /\ gs[i][y] = r
    BY <1>2, <1>9, <2>1 DEF MentionAt
  <2> HIDE DEF y
  <2>3. <<i, y>> \in DOMAIN g /\ g[<<i, y>>] = r
    BY <1>7, <2>1, <2>2
  <2>4. QED
    BY <2>3 DEF y
<1>10. QED
  BY <1>6, <1>8, <1>9

(* The mentions RelationsEstablished counts are those places.               *)
LEMMA MentionsAre ==
  ASSUME NEW f, f = files.relations, NEW found, NEW r \in Proper, NEW t
  PROVE  t \in Mentions(r) <=>
           \E i \in DOMAIN f.el : \E j \in DOMAIN f.el[i].el : \E k \in DOMAIN f.el[i].el[j].el :
             t = <<i, j, k>> /\ MentionAt(f, i, j, k, found, r)
<1>1. /\ r = [observer |-> r.observer, observable |-> r.observable, vector |-> r.vector,
              topic |-> r.topic]
      /\ Alive(r.observer) /\ Alive(r.observable) /\ r.topic \in Topics
      /\ r.vector \in DOMAIN tree[r.observable].device.vectors
  BY DEF Proper, Registrations
<1> DEFINE Is(e, tag, name) == e.tag = tag /\ "name" \in DOMAIN e.at /\ e.at.name = name
           Of(e) == e.tag = "property" /\ "topic" \in DOMAIN e.at /\ e.at.topic = r.topic
                      /\ e.pcdata = r.vector
<1> HIDE DEF Is, Of
<1> DEFINE Here(i, j, k) == /\ Is(f.el[i], "observer", r.observer)
                            /\ Is(f.el[i].el[j], "observable", r.observable)
                            /\ Of(f.el[i].el[j].el[k])
           K(i, j) == {<<i, j, k>> : k \in {l \in DOMAIN f.el[i].el[j].el : Of(f.el[i].el[j].el[l])}}
           J(i) == {j \in DOMAIN f.el[i].el : Is(f.el[i].el[j], "observable", r.observable)}
           I == {i \in DOMAIN f.el : Is(f.el[i], "observer", r.observer)}
<1>2. t \in Mentions(r) <=>
        \E i \in DOMAIN f.el : \E j \in DOMAIN f.el[i].el : \E k \in DOMAIN f.el[i].el[j].el :
          t = <<i, j, k>> /\ Here(i, j, k)
  <2>1. Mentions(r) = UNION {UNION {K(i, j) : j \in J(i)} : i \in I}
    BY DEF Mentions, Is, Of
  <2>2. \A i, j : t \in K(i, j) <=>
          \E k \in DOMAIN f.el[i].el[j].el : t = <<i, j, k>> /\ Of(f.el[i].el[j].el[k])
    OBVIOUS
  <2> HIDE DEF K
  <2>3. \A i : t \in UNION {K(i, j) : j \in J(i)} <=> \E j \in J(i) : t \in K(i, j)
    OBVIOUS
  <2>4. t \in Mentions(r) <=> \E i \in I : t \in UNION {K(i, j) : j \in J(i)}
    BY <2>1
  <2>5. t \in Mentions(r) <=> \E i \in I : \E j \in J(i) : t \in K(i, j)
    BY <2>3, <2>4
  <2>6. ASSUME NEW i \in DOMAIN f.el, NEW j \in DOMAIN f.el[i].el,
               NEW k \in DOMAIN f.el[i].el[j].el, t = <<i, j, k>> /\ Here(i, j, k)
        PROVE  t \in Mentions(r)
    BY <2>2, <2>5, <2>6
  <2>7. ASSUME NEW i \in I, NEW j \in J(i), t \in K(i, j)
        PROVE  \E k \in DOMAIN f.el[i].el[j].el : t = <<i, j, k>> /\ Here(i, j, k)
    BY <2>2, <2>7
  <2>8. \A i \in I : i \in DOMAIN f.el /\ \A j \in J(i) : j \in DOMAIN f.el[i].el
    OBVIOUS
  <2> HIDE DEF I, J, Here
  <2>9. QED
    BY <2>5, <2>6, <2>7, <2>8
<1>3. ASSUME NEW a, NEW b, NEW c, NEW p
      PROVE  (Is(a, "observer", r.observer) /\ Is(b, "observable", r.observable) /\ Of(c)) <=>
             (/\ IsObserver(a) /\ IsObservable(b) /\ IsMention(c, p, b.at.name, found)
              /\ r = Mentioned(c, a.at.name, b.at.name))
  <2>1. r = Mentioned(c, a.at.name, b.at.name) <=>
          /\ r.observer = a.at.name /\ r.observable = b.at.name
          /\ r.vector = c.pcdata /\ r.topic = c.at.topic
    BY <1>1 DEF Mentioned
  <2>2. QED
    BY <1>1, <2>1 DEF IsObserver, IsObservable, IsMention, IsProperty, Finds, Alive, Named, Has,
       Is, Of
<1>4. ASSUME NEW i, NEW j, NEW k
      PROVE  Here(i, j, k) <=> MentionAt(f, i, j, k, found, r)
  <2>1. PICK a, b, c, p : /\ a = f.el[i] /\ b = f.el[i].el[j] /\ c = f.el[i].el[j].el[k]
                          /\ p = <<i, j, k>>
    OBVIOUS
  <2>2. Here(i, j, k) <=>
          Is(a, "observer", r.observer) /\ Is(b, "observable", r.observable) /\ Of(c)
    BY <2>1
  <2>3. MentionAt(f, i, j, k, found, r) <=>
          /\ IsObserver(a) /\ IsObservable(b) /\ IsMention(c, p, b.at.name, found)
          /\ r = Mentioned(c, a.at.name, b.at.name)
    BY <2>1 DEF MentionAt
  <2> HIDE DEF Here
  <2>4. QED
    BY <1>3, <2>2, <2>3
<1> HIDE DEF Here
<1>5. QED
  BY <1>2, <1>4

(* The latest first: as many of each.                                       *)
LEMMA ReversedLists ==
  ASSUME NEW T, NEW s \in Seq(T)
  PROVE  /\ Lists(Reverse(s), s) /\ IsFiniteSet(DOMAIN s) /\ IsFiniteSet(DOMAIN Reverse(s))
         /\ \A i \in DOMAIN Reverse(s) : Reverse(s)[i] \in T
<1> DEFINE n == Len(s)
           z == Reverse(s)
           b == [x \in DOMAIN s |-> n - x + 1]
<1>1. n \in Nat /\ DOMAIN s = 1 .. n /\ \A i \in 1 .. n : s[i] \in T
  BY LenProperties, ElementOfSeq
<1>2. DOMAIN z = 1 .. n /\ \A i \in 1 .. n : z[i] = s[n - i + 1]
  BY <1>1 DEF Reverse
<1> HIDE DEF n, z
<1>3. b \in Bijection(DOMAIN s, DOMAIN z)
  <2>1. b \in [1 .. n -> 1 .. n] /\ \A x, y \in 1 .. n : b[x] = b[y] => x = y
    BY <1>1
  <2>2. \A y \in 1 .. n : \E x \in 1 .. n : b[x] = y
    <3>1. SUFFICES ASSUME NEW y \in 1 .. n PROVE \E x \in 1 .. n : b[x] = y
      OBVIOUS
    <3>2. n - y + 1 \in 1 .. n /\ n - (n - y + 1) + 1 = y
      BY <1>1
    <3>3. QED
      BY <1>1, <3>2
  <2> HIDE DEF b
  <2>3. QED
    BY <1>1, <1>2, <2>1, <2>2 DEF Bijection, Injection, Surjection, IsInjective
<1>4. \A x \in DOMAIN s : z[b[x]] = s[x]
  <2>1. SUFFICES ASSUME NEW x \in 1 .. n PROVE z[b[x]] = s[x]
    BY <1>1
  <2>2. n - x + 1 \in 1 .. n /\ n - (n - x + 1) + 1 = x /\ b[x] = n - x + 1
    BY <1>1
  <2>3. QED
    BY <1>2, <2>2
<1>5. \A i \in DOMAIN z : z[i] \in T
  <2>1. \A i \in 1 .. n : n - i + 1 \in 1 .. n
    BY <1>1
  <2>2. QED
    BY <1>1, <1>2, <2>1
<1>6. Lists(z, s)
  <2>1. \A x \in DOMAIN s : z[b[x]] = s[x]
    BY <1>4
  <2> HIDE DEF b
  <2>2. QED
    BY <1>3, <2>1 DEF Lists
<1>7. IsFiniteSet(DOMAIN s) /\ IsFiniteSet(DOMAIN z)
  BY <1>1, <1>2, FS_Interval
<1>8. QED
  BY <1>5, <1>6, <1>7 DEF z

(* Every mention in the file is registered, once, and nothing else is: for  *)
(* any file, devices and mistakes in it.                                    *)
THEOREM RelationsAreEstablished == Spec => []RelationsEstablished
<1>1. IInv => RelationsEstablished
  <2> DEFINE f == files.relations
  <2>1. SUFFICES ASSUME IInv, pc = "setup", f.tag = "relationships" PROVE RelationsEstablished
    BY DEF RelationsEstablished
  <2>0. PICK found : registered = Reverse(Relationships(f, found))
    BY <2>1 DEF IInv, RelationsInv
  <2> DEFINE s == Relationships(f, found)
             g == ListsRelations(f, found)
             V == Asks(f)
  <2>2. registered = Reverse(s)
    BY <2>0
  <2>3. IsTree(f)
    BY <2>1 DEF IInv, FilesInv, IsDisk
  <2> HIDE DEF f
  <2>4. /\ s \in Seq(Told(V)) /\ Lists(s, g)
        /\ \A x, r : x \in DOMAIN g /\ g[x] = r <=>
             \E i \in DOMAIN f.el : \E j \in DOMAIN f.el[i].el :
               \E k \in DOMAIN f.el[i].el[j].el :
                 x = <<i, <<j, <<k, 1>>>>>> /\ MentionAt(f, i, j, k, found, r)
    BY <2>1, <2>3, RelationsAre
  <2> HIDE DEF s, g, V
  <2>5. /\ Lists(registered, s) /\ IsFiniteSet(DOMAIN s) /\ IsFiniteSet(DOMAIN registered)
        /\ \A i \in DOMAIN registered : registered[i] \in Told(V)
    BY <2>2, <2>4, ReversedLists
  <2>6. ASSUME NEW r \in Proper
        PROVE  Cardinality({i \in DOMAIN registered : registered[i] = r}) = Cardinality(Mentions(r))
    <3> DEFINE X == {x \in DOMAIN g : g[x] = r}
               M == Mentions(r)
               h == [x \in X |-> <<x[1], x[2][1], x[2][2][1]>>]
    <3>1. /\ Cardinality({i \in DOMAIN registered : registered[i] = r}) = Cardinality(X)
          /\ IsFiniteSet(X)
      <4>1. Cardinality(Places(registered, r)) = Cardinality(Places(s, r))
        BY <2>5, ListsCounts
      <4>2. Cardinality(Places(s, r)) = Cardinality(Places(g, r)) /\ IsFiniteSet(Places(g, r))
        <5>1. Lists(s, g) /\ IsFiniteSet(DOMAIN s)
          BY <2>4, <2>5
        <5>2. QED
          BY <5>1, ListsCounts
      <4>3. /\ Places(registered, r) = {i \in DOMAIN registered : registered[i] = r}
            /\ Places(g, r) = X
        BY DEF Places
      <4> HIDE DEF X
      <4>4. QED
        BY <4>1, <4>2, <4>3
    <3>2. \A x : x \in X <=>
            \E i \in DOMAIN f.el : \E j \in DOMAIN f.el[i].el :
              \E k \in DOMAIN f.el[i].el[j].el :
                x = <<i, <<j, <<k, 1>>>>>> /\ MentionAt(f, i, j, k, found, r)
      BY <2>4
    <3>3. \A t : t \in M <=>
            \E i \in DOMAIN f.el : \E j \in DOMAIN f.el[i].el :
              \E k \in DOMAIN f.el[i].el[j].el :
                t = <<i, j, k>> /\ MentionAt(f, i, j, k, found, r)
      BY MentionsAre DEF f
    <3> HIDE DEF X, M
    <3>4. \A i, j, k : <<i, <<j, <<k, 1>>>>>> \in X => h[<<i, <<j, <<k, 1>>>>>>] = <<i, j, k>>
      OBVIOUS
    <3>5. DOMAIN h = X /\ h = [x \in DOMAIN h |-> h[x]]
      OBVIOUS
    <3> HIDE DEF h
    <3>6. ASSUME NEW x \in X PROVE h[x] \in M
      <4>1. PICK i \in DOMAIN f.el : \E j \in DOMAIN f.el[i].el :
              \E k \in DOMAIN f.el[i].el[j].el :
                x = <<i, <<j, <<k, 1>>>>>> /\ MentionAt(f, i, j, k, found, r)
        BY <3>2
      <4>2. PICK j \in DOMAIN f.el[i].el : \E k \in DOMAIN f.el[i].el[j].el :
              x = <<i, <<j, <<k, 1>>>>>> /\ MentionAt(f, i, j, k, found, r)
        BY <4>1
      <4>3. PICK k \in DOMAIN f.el[i].el[j].el :
              x = <<i, <<j, <<k, 1>>>>>> /\ MentionAt(f, i, j, k, found, r)
        BY <4>2
      <4>4. h[x] = <<i, j, k>>
        BY <3>4, <4>3
      <4>5. QED
        BY <3>3, <4>3, <4>4
    <3>7. ASSUME NEW x \in X, NEW y \in X, h[x] = h[y] PROVE x = y
      <4>1. PICK i, j, k : x = <<i, <<j, <<k, 1>>>>>>
        BY <3>2
      <4>2. PICK a, b, c : y = <<a, <<b, <<c, 1>>>>>>
        BY <3>2
      <4>3. <<i, j, k>> = <<a, b, c>>
        BY <3>4, <3>7, <4>1, <4>2
      <4>4. i = a /\ j = b /\ k = c
        BY <4>3
      <4>5. QED
        BY <4>1, <4>2, <4>4
    <3>8. ASSUME NEW t \in M PROVE \E x \in X : h[x] = t
      <4>1. PICK i \in DOMAIN f.el : \E j \in DOMAIN f.el[i].el :
              \E k \in DOMAIN f.el[i].el[j].el : t = <<i, j, k>> /\ MentionAt(f, i, j, k, found, r)
        BY <3>3
      <4>2. PICK j \in DOMAIN f.el[i].el : \E k \in DOMAIN f.el[i].el[j].el :
              t = <<i, j, k>> /\ MentionAt(f, i, j, k, found, r)
        BY <4>1
      <4>3. PICK k \in DOMAIN f.el[i].el[j].el : t = <<i, j, k>> /\ MentionAt(f, i, j, k, found, r)
        BY <4>2
      <4>4. <<i, <<j, <<k, 1>>>>>> \in X
        BY <3>2, <4>3
      <4>5. QED
        BY <3>4, <4>3, <4>4
    <3>9. h \in Bijection(X, M)
      BY <3>5, <3>6, <3>7, <3>8 DEF Bijection, Injection, Surjection, IsInjective
    <3>10. Cardinality(X) = Cardinality(M)
      BY <3>1, <3>9, FS_Bijection DEF ExistsBijection
    <3>11. QED
      BY <3>1, <3>10 DEF M
  <2>7. QED
    <3>1. ASSUME NEW i \in DOMAIN registered, NEW r, r = registered[i]
          PROVE  /\ {r.observer, r.observable} \subseteq DOMAIN tree
                 /\ Alive(r.observer) /\ Alive(r.observable)
                      => r \in Registrations /\ r.vector \in DOMAIN tree[r.observable].device.vectors
      BY <2>5, <3>1 DEF Told, Proper
    <3>2. \A r \in Registrations : r.vector \in DOMAIN tree[r.observable].device.vectors =>
            Cardinality({i \in DOMAIN registered : registered[i] = r}) = Cardinality(Mentions(r))
      BY <2>6 DEF Proper
    <3>3. QED
      BY <3>1, <3>2 DEF RelationsEstablished
<1>2. QED
  BY <1>1, Invariant, PTL
=============================================================================
