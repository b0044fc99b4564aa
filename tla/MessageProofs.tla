---------------------------- MODULE MessageProofs ----------------------------
(***************************************************************************)
(* Theorems about messages: whatever characters come, the parser has what  *)
(* it trusts to be there (LilXML, XMLRelay); and what becomes of requests, *)
(* for any devices, vectors and requests (Requests).                       *)
(***************************************************************************)
EXTENDS Requests, XMLRelay, TLAPS, SequenceTheorems, WellFoundedInduction

(* Characters, and what is nested in elements, may be anything: of these the*)
(* parser compares some, and trusts none.                                   *)
Strings(I) == Seq(I)
Atts(I) == [name : Strings(I), valu : Strings(I)]
Elements(I) == [tag : Strings(I), at : Seq(Atts(I)), el : Seq(I), pcdata : Strings(I)]

Parsers(I) ==
  [cs : States, ce : Seq(Elements(I)), endtag : Seq(Characters) \union {NullString},
   delim : I \union {""}, lastc : I \union {""}, skipping : BOOLEAN]

Sound(p) == (\E I : p \in Parsers(I)) /\ Structure(p)

(* What oneXMLchar leaves when it has neither an error nor an element.      *)
Good(r) == r.s \in {-1, 0, 1} /\ (r.s = 0 => Sound(r.p))

-----------------------------------------------------------------------------
(* Every nonempty set of naturals has a smallest member.                    *)
LEMMA NatMin ==
  ASSUME NEW S \in SUBSET Nat, S # {}
  PROVE  \E x \in S : \A y \in S : x <= y
<1>1. PICK x \in S : \A y \in S : ~(<<y, x>> \in OpToRel(<, Nat))
  BY NatLessThanWellFounded, WFMin
<1>2. \A y \in S : ~(y < x)
  BY <1>1 DEF OpToRel
<1>3. QED
  BY <1>2

(* Every nonempty bounded set of naturals has a largest member.             *)
LEMMA NatMax ==
  ASSUME NEW S \in SUBSET Nat, S # {}, NEW n \in Nat, \A y \in S : y <= n
  PROVE  \E x \in S : \A y \in S : y <= x
<1> DEFINE T == {n - y : y \in S}
<1>1. T \in SUBSET Nat /\ T # {}
  <2>1. \A y \in S : n - y \in Nat
    OBVIOUS
  <2>2. QED
    BY <2>1
<1>2. PICK m \in T : \A k \in T : ~(<<k, m>> \in OpToRel(<, Nat))
  BY <1>1, NatLessThanWellFounded, WFMin
<1>3. PICK x \in S : m = n - x
  BY <1>2
<1>4. \A y \in S : ~(n - y < n - x)
  BY <1>1, <1>2, <1>3 DEF OpToRel
<1>5. QED
  BY <1>4

(* Chomp cuts its string off somewhere.                                     *)
LEMMA ChompString ==
  ASSUME NEW I, NEW s \in Strings(I)
  PROVE  Chomp(s) \in Strings(I)
<1>1. CASE \A i \in DOMAIN s : s[i] # "\n"
  BY <1>1 DEF Chomp
<1>2. CASE ~ \A i \in DOMAIN s : s[i] # "\n"
  <2> DEFINE N == {i \in 1 .. Len(s) : s[i] = "\n"}
             B == {i \in 1 .. Len(s) : s[i] # " "}
  <2>1. DOMAIN s = 1 .. Len(s) /\ Len(s) \in Nat
    BY DEF Strings
  <2>2. PICK k \in N : TRUE
    BY <1>2, <2>1
  <2>3. \E m \in N : \A y \in N : m <= y
    <3>1. N \in SUBSET Nat /\ N # {}
      BY <2>1, <2>2
    <3>2. QED
      BY <3>1, NatMin
  <2>4. FirstNewline(s) \in 1 .. Len(s)
    <3>1. PICK m \in N : \A y \in N : m <= y
      BY <2>3
    <3>2. m \in DOMAIN s /\ s[m] = "\n" /\ \A j \in 1 .. m - 1 : s[j] # "\n"
      BY <3>1, <2>1
    <3>3. QED
      BY <3>2, <2>1 DEF FirstNewline
  <2>5. \E m \in B : \A y \in B : y <= m
    <3>1. k \in B
      BY <2>2
    <3>2. \A y \in B : y \in 1 .. Len(s)
      OBVIOUS
    <3>3. B \in SUBSET Nat /\ B # {} /\ \A y \in B : y <= Len(s)
      <4> HIDE DEF B
      <4> QED BY <2>1, <3>1, <3>2
    <3>4. QED
      BY <3>3, <2>1, NatMax
  <2>6. LastNonBlank(s) \in 1 .. Len(s)
    <3>1. PICK m \in B : \A y \in B : y <= m
      BY <2>5
    <3>2. m \in 1 .. Len(s)
      OBVIOUS
    <3>3. ASSUME NEW j \in m + 1 .. Len(s)
          PROVE  s[j] = " "
      <4>1. j \in 1 .. Len(s) /\ ~(j <= m)
        <5> HIDE DEF B
        <5> QED BY <3>2, <2>1
      <4>2. QED
        BY <4>1, <3>1
    <3>4. s[m] # " "
      OBVIOUS
    <3>5. QED
      BY <3>2, <3>3, <3>4, <2>1, Zenon DEF LastNonBlank
  <2>7. \A n \in 0 .. Len(s) : SubSeq(s, 1, n) \in Strings(I)
    BY <2>1 DEF Strings
  <2>8. QED
    BY <1>2, <2>4, <2>6, <2>7, <2>1 DEF Chomp
<1>3. QED
  BY <1>1, <1>2

(* A string that has grown is one, and not empty.                           *)
LEMMA AppendString ==
  ASSUME NEW I, NEW s \in Strings(I), NEW c \in I
  PROVE  Append(s, c) \in Strings(I) /\ Append(s, c) # <<>>
<1>1. Append(s, c) \in Strings(I)
  BY DEF Strings
<1>2. Len(Append(s, c)) = Len(s) + 1 /\ Len(s) \in Nat
  BY DEF Strings
<1>3. Len(<<>>) = 0 /\ Len(Append(s, c)) # 0
  BY <1>2
<1>4. QED
  BY <1>1, <1>3

(* What is made of some things is made of more.                             *)
LEMMA MoreElements ==
  ASSUME NEW I, NEW J, I \subseteq J
  PROVE  Elements(I) \subseteq Elements(J)
<1>1. Strings(I) \subseteq Strings(J)
  BY SeqMonotonic DEF Strings
<1>2. Atts(I) \subseteq Atts(J)
  BY <1>1 DEF Atts
<1>3. Seq(Atts(I)) \subseteq Seq(Atts(J)) /\ Seq(I) \subseteq Seq(J)
  BY <1>2, SeqMonotonic
<1>4. QED
  BY <1>1, <1>3 DEF Elements

(* A parser over some characters is one over more.                          *)
LEMMA MoreParsers ==
  ASSUME NEW I, NEW J, I \subseteq J
  PROVE  Parsers(I) \subseteq Parsers(J)
<1>1. Seq(Elements(I)) \subseteq Seq(Elements(J))
  BY MoreElements, SeqMonotonic
<1>2. QED
  BY <1>1 DEF Parsers

(* The elements under construction are a sequence.                          *)
LEMMA Nesting ==
  ASSUME NEW I, NEW p \in Parsers(I)
  PROVE  p.ce \in Seq(Elements(I)) /\ Len(p.ce) \in Nat /\ DOMAIN p.ce = 1 .. Len(p.ce)
<1>1. p.ce \in Seq(Elements(I))
  BY DEF Parsers
<1>2. QED
  BY <1>1, LenProperties

(* Replacing the element under construction touches nothing else.           *)
LEMMA ChangeKeeps ==
  ASSUME NEW I, NEW p \in Parsers(I), p.ce # <<>>, NEW e \in Elements(I)
  PROVE  /\ Change(p, e) \in Parsers(I)
         /\ Current(Change(p, e)) = e
         /\ Len(Change(p, e).ce) = Len(p.ce) /\ Change(p, e).ce # <<>>
         /\ \A i \in DOMAIN p.ce : i < Len(p.ce) => Change(p, e).ce[i] = p.ce[i]
         /\ Change(p, e).cs = p.cs /\ Change(p, e).endtag = p.endtag
<1>1. p.ce \in Seq(Elements(I)) /\ Len(p.ce) \in Nat /\ Len(p.ce) > 0 /\ DOMAIN p.ce = 1 .. Len(p.ce)
  <2>1. p.ce \in Seq(Elements(I))
    BY DEF Parsers
  <2>2. QED
    BY <2>1, EmptySeq, LenProperties
<1> DEFINE q == [p.ce EXCEPT ![Len(p.ce)] = e]
<1>2. q \in Seq(Elements(I)) /\ Len(q) = Len(p.ce) /\ q # <<>> /\ q[Len(p.ce)] = e
        /\ \A i \in DOMAIN p.ce : i < Len(p.ce) => q[i] = p.ce[i]
  BY <1>1
<1>3. Change(p, e) = [p EXCEPT !.ce = q]
  BY DEF Change
<1>4. Change(p, e).ce = q /\ Change(p, e).cs = p.cs /\ Change(p, e).endtag = p.endtag
  BY <1>3 DEF Parsers
<1>5. Change(p, e) \in Parsers(I)
  BY <1>2, <1>3 DEF Parsers
<1>6. QED
  BY <1>2, <1>4, <1>5 DEF Current

(* The element under construction, where there is one.                      *)
LEMMA CurrentElement ==
  ASSUME NEW I, NEW p \in Parsers(I), p.ce # <<>>
  PROVE  Current(p) \in Elements(I) /\ Len(p.ce) \in Nat /\ Len(p.ce) > 0
         /\ DOMAIN p.ce = 1 .. Len(p.ce)
<1>1. p.ce \in Seq(Elements(I))
  BY DEF Parsers
<1>2. Len(p.ce) \in Nat /\ Len(p.ce) > 0 /\ DOMAIN p.ce = 1 .. Len(p.ce)
  BY <1>1, EmptySeq, LenProperties
<1>3. QED
  BY <1>1, <1>2, ElementOfSeq DEF Current

(* A state follows from another when the structure it needs is there.       *)
LEMMA GoGood ==
  ASSUME NEW I, NEW p \in Parsers(I), NEW cs \in States,
         \A i \in DOMAIN p.ce : cs # "LOOK4TAG" \/ i < Len(p.ce) => p.ce[i].tag # <<>>,
         cs # "LOOK4START", p.ce # <<>>,
         cs \in {"INATTRN", "LOOK4ATTRV", "INATTRV"} => LastAttr(p) > 0,
         cs = "INCON" => Current(p).pcdata # <<>>,
         cs = "INCLOSETAG" => p.endtag # NullString
  PROVE  Good(Go(p, cs))
<1> DEFINE q == [p EXCEPT !.cs = cs]
<1>1. q \in Parsers(I) /\ q.cs = cs /\ q.ce = p.ce /\ q.endtag = p.endtag
  BY DEF Parsers
<1>2. Current(q) = Current(p) /\ LastAttr(q) = LastAttr(p)
  BY <1>1 DEF Current, LastAttr
<1>3. Structure(q)
  <2> HIDE DEF q
  <2> QED BY <1>1, <1>2 DEF Structure
<1>4. Go(p, cs).p = q /\ Go(p, cs).s = 0
  BY DEF Go
<1>5. QED
  BY <1>1, <1>3, <1>4 DEF Good, Sound

(* Errors and closures leave the parser to be started afresh.               *)
LEMMA BogusGood == \A p : Good(Bogus(p))
BY DEF Bogus, Good

(* A parser that has given up is good.                                      *)
LEMMA ClosedGood == \A p : Good(Closed(p))
BY DEF Closed, Good

(* The parser may stay as it is.                                            *)
LEMMA StayGood == \A p : Sound(p) => Good(Stay(p))
BY DEF Stay, Good

(* An element that has grown is one still.                                  *)
LEMMA TagGrown ==
  ASSUME NEW I, NEW d \in Elements(I), NEW c \in I,
         NEW e, e = [d EXCEPT !.tag = Append(@, c)]
  PROVE  e \in Elements(I) /\ e.tag # <<>>
<1>1. Append(d.tag, c) \in Strings(I) /\ Append(d.tag, c) # <<>>
  BY AppendString DEF Elements
<1>2. QED
  BY <1>1 DEF Elements

(* Growing the content of the current element keeps the structure.          *)
LEMMA PCDataGrown ==
  ASSUME NEW I, NEW d \in Elements(I), NEW c \in I,
         NEW e, e = [d EXCEPT !.pcdata = Append(@, c)]
  PROVE  e \in Elements(I) /\ e.tag = d.tag /\ e.pcdata # <<>>
<1>1. Append(d.pcdata, c) \in Strings(I) /\ Append(d.pcdata, c) # <<>>
  BY AppendString DEF Elements
<1>2. QED
  BY <1>1 DEF Elements

(* So does trimming it.                                                     *)
LEMMA PCDataChomped ==
  ASSUME NEW I, NEW d \in Elements(I), NEW e, e = [d EXCEPT !.pcdata = Chomp(@)]
  PROVE  e \in Elements(I) /\ e.tag = d.tag
<1>1. Chomp(d.pcdata) \in Strings(I)
  BY ChompString DEF Elements
<1>2. QED
  BY <1>1 DEF Elements

(* An element with a new attribute, or one that has grown, is one still.    *)
LEMMA AttributeAdded ==
  ASSUME NEW I, NEW d \in Elements(I), NEW c \in I,
         NEW e, e = [d EXCEPT !.at = Append(@, NewAttribute(c))]
  PROVE  e \in Elements(I) /\ e.tag = d.tag /\ Len(e.at) > 0
<1>1. d.at \in Seq(Atts(I)) /\ Len(d.at) \in Nat
  BY DEF Elements
<1>2. NewAttribute(c) \in Atts(I)
  BY EmptySeq DEF NewAttribute, Atts, Strings
<1>3. Append(d.at, NewAttribute(c)) \in Seq(Atts(I)) /\ Len(Append(d.at, NewAttribute(c))) > 0
  BY <1>1, <1>2
<1>4. QED
  BY <1>3 DEF Elements

LastGrown(d, e, c) ==
  \/ e = [d EXCEPT !.at[Len(d.at)].name = Append(@, c)]
  \/ e = [d EXCEPT !.at[Len(d.at)].valu = Append(@, c)]

(* So does growing its last attribute.                                      *)
LEMMA AttributeGrown ==
  ASSUME NEW I, NEW d \in Elements(I), NEW c \in I, Len(d.at) > 0, NEW e, LastGrown(d, e, c)
  PROVE  e \in Elements(I) /\ e.tag = d.tag /\ Len(e.at) > 0
<1>1. d.at \in Seq(Atts(I)) /\ Len(d.at) \in Nat
  BY DEF Elements
<1> DEFINE a == d.at[Len(d.at)]
<1>2. a \in Atts(I)
  BY <1>1
<1>3. PICK b \in Atts(I) : e = [d EXCEPT !.at[Len(d.at)] = b]
  <2>1. [a EXCEPT !.name = Append(@, c)] \in Atts(I) /\ [a EXCEPT !.valu = Append(@, c)] \in Atts(I)
    BY <1>2, AppendString DEF Atts
  <2>2. QED
    BY <2>1 DEF LastGrown
<1>4. [d.at EXCEPT ![Len(d.at)] = b] \in Seq(Atts(I)) /\ Len([d.at EXCEPT ![Len(d.at)] = b]) > 0
  BY <1>1, ExceptSeq
<1>5. QED
  BY <1>3, <1>4 DEF Elements

(* A new element comes after those it is in.                                *)
LEMMA Pushed ==
  ASSUME NEW I, NEW p \in Parsers(I), NEW tag \in Strings(I)
  PROVE  /\ PushXMLEle(p, tag) \in Parsers(I)
         /\ PushXMLEle(p, tag).ce # <<>>
         /\ \A i \in DOMAIN PushXMLEle(p, tag).ce :
              PushXMLEle(p, tag).ce[i] =
                IF i < Len(PushXMLEle(p, tag).ce) THEN p.ce[i] ELSE NewElement(tag)
         /\ Len(PushXMLEle(p, tag).ce) = Len(p.ce) + 1
<1>1. p.ce \in Seq(Elements(I)) /\ Len(p.ce) \in Nat
  BY Nesting
<1>2. NewElement(tag) \in Elements(I)
  BY DEF NewElement, Elements, Strings
<1> DEFINE q == Append(p.ce, NewElement(tag))
<1>3. q \in Seq(Elements(I)) /\ Len(q) = Len(p.ce) + 1 /\ q # <<>> /\ DOMAIN q = 1 .. Len(q)
        /\ \A i \in DOMAIN q : q[i] = IF i < Len(q) THEN p.ce[i] ELSE NewElement(tag)
  BY <1>1, <1>2
<1>4. PushXMLEle(p, tag) \in Parsers(I) /\ PushXMLEle(p, tag).ce = q
  <2> HIDE DEF q
  <2>1. PushXMLEle(p, tag) = [p EXCEPT !.ce = q, !.endtag = NullString]
    BY DEF PushXMLEle, q
  <2>2. QED
    BY <1>3, <2>1 DEF Parsers
<1>5. QED
  BY <1>3, <1>4

(* A closed element is its parent's child, which keeps its tag.             *)
LEMMA Popped ==
  ASSUME NEW I, NEW p \in Parsers(I), Len(p.ce) > 1
  PROVE  \E J : /\ PopXMLEle(p) \in Parsers(J)
                /\ PopXMLEle(p).ce # <<>>
                /\ \A i \in DOMAIN PopXMLEle(p).ce :
                     i \in DOMAIN p.ce /\ PopXMLEle(p).ce[i].tag = p.ce[i].tag
<1> DEFINE J == I \union Elements(I)
           n == Len(p.ce)
           r == SubSeq(p.ce, 1, n - 2)
           e == [p.ce[n - 1] EXCEPT !.el = Append(@, p.ce[n])]
           q == Append(r, e)
<1>1. p.ce \in Seq(Elements(I)) /\ n \in Nat /\ n > 1 /\ DOMAIN p.ce = 1 .. n
  BY Nesting
<1>2. r \in Seq(Elements(I)) /\ Len(r) = n - 2 /\ \A i \in 1 .. n - 2 : r[i] = p.ce[i]
  BY <1>1
<1>3. Elements(I) \subseteq Elements(J)
  BY MoreElements
<1>4. r \in Seq(Elements(J))
  BY <1>2, <1>3, SeqMonotonic
<1>5. p.ce[n - 1] \in Elements(I) /\ p.ce[n] \in Elements(I)
  BY <1>1
<1>6. e \in Elements(J) /\ e.tag = p.ce[n - 1].tag
  <2>1. p.ce[n - 1] \in Elements(J) /\ p.ce[n] \in J
    BY <1>3, <1>5
  <2> HIDE DEF J, n
  <2>2. Append(p.ce[n - 1].el, p.ce[n]) \in Seq(J)
    BY <2>1 DEF Elements
  <2>3. QED
    BY <2>1, <2>2 DEF Elements
<1>7. q \in Seq(Elements(J)) /\ Len(q) = n - 1 /\ DOMAIN q = 1 .. n - 1
        /\ \A i \in 1 .. n - 1 : q[i].tag = p.ce[i].tag
  <2> HIDE DEF e, r, J, n
  <2>1. q \in Seq(Elements(J)) /\ Len(q) = (n - 2) + 1 /\ DOMAIN q = 1 .. Len(q)
    BY <1>2, <1>4, <1>6
  <2>2. ASSUME NEW i \in 1 .. n - 1 PROVE q[i] = IF i = n - 1 THEN e ELSE r[i]
    BY <1>1, <1>2, <1>4, <1>6
  <2>3. Len(q) = n - 1
    BY <2>1, <1>1
  <2>4. ASSUME NEW i \in 1 .. n - 1 PROVE q[i].tag = p.ce[i].tag
    BY <2>2, <1>1, <1>2, <1>6
  <2>5. QED
    BY <2>1, <2>3, <2>4
<1>8. q # <<>>
  <2> HIDE DEF q
  <2> QED BY <1>1, <1>7
<1>9. PopXMLEle(p) \in Parsers(J) /\ PopXMLEle(p).ce = q
  <2>1. PopXMLEle(p) = [p EXCEPT !.ce = q, !.endtag = NullString]
    BY DEF PopXMLEle
  <2>2. p \in Parsers(J)
    BY MoreParsers
  <2> HIDE DEF q, J
  <2>3. QED
    BY <1>7, <2>1, <2>2 DEF Parsers
<1>10. \A i \in DOMAIN q : i \in DOMAIN p.ce /\ q[i].tag = p.ce[i].tag
  <2> HIDE DEF q
  <2> QED BY <1>1, <1>7
<1>11. QED
  <2> HIDE DEF q, J
  <2> QED BY <1>8, <1>9, <1>10

(* To stay is to go where one is.                                           *)
LEMMA StayIsGo ==
  ASSUME NEW I, NEW p \in Parsers(I)
  PROVE  Stay(p) = Go(p, p.cs)
<1>1. [p EXCEPT !.cs = p.cs] = p
  BY DEF Parsers
<1>2. QED
  BY <1>1 DEF Stay, Go

-----------------------------------------------------------------------------
(* From one state to another, with the element under construction as it is, *)
(* changed, closed, or followed by a nested one.                            *)
LEMMA Moved ==
  ASSUME NEW I, NEW p \in Parsers(I), Structure(p), p.ce # <<>>, p.cs # "LOOK4TAG",
         NEW cs \in States \ {"LOOK4START"},
         cs \in {"INATTRN", "LOOK4ATTRV", "INATTRV"} => LastAttr(p) > 0,
         cs = "INCON" => Current(p).pcdata # <<>>,
         cs = "INCLOSETAG" => p.endtag # NullString
  PROVE  Good(Go(p, cs))
<1>1. \A i \in DOMAIN p.ce : p.ce[i].tag # <<>>
  BY DEF Structure
<1>2. QED
  BY <1>1, GoGood

(* The current element may change, and the parser go on where it is         *)
(* complete enough.                                                         *)
LEMMA Changed ==
  ASSUME NEW I, NEW p \in Parsers(I), Structure(p), p.ce # <<>>,
         NEW e \in Elements(I), e.tag # <<>>,
         NEW cs \in States \ {"LOOK4START"},
         cs \in {"INATTRN", "LOOK4ATTRV", "INATTRV"} => Len(e.at) > 0,
         cs = "INCON" => e.pcdata # <<>>,
         cs = "INCLOSETAG" => p.endtag # NullString
  PROVE  Good(Go(Change(p, e), cs))
<1> DEFINE q == Change(p, e)
<1>1. /\ q \in Parsers(I) /\ Current(q) = e /\ q.ce # <<>>
      /\ Len(q.ce) = Len(p.ce) /\ q.endtag = p.endtag
      /\ \A i \in DOMAIN p.ce : i < Len(p.ce) => q.ce[i] = p.ce[i]
  BY ChangeKeeps
<1> HIDE DEF q
<1>2. DOMAIN q.ce = DOMAIN p.ce /\ DOMAIN p.ce = 1 .. Len(p.ce) /\ Len(p.ce) \in Nat
  BY <1>1, Nesting
<1>3. ASSUME NEW i \in DOMAIN q.ce PROVE q.ce[i].tag # <<>>
  <2>1. CASE i < Len(p.ce)
    BY <2>1, <1>1, <1>2 DEF Structure
  <2>2. CASE ~(i < Len(p.ce))
    <3>1. i = Len(q.ce)
      BY <2>2, <1>1, <1>2
    <3>2. QED
      BY <3>1, <1>1 DEF Current
  <2>3. QED
    BY <2>1, <2>2
<1>4. LastAttr(q) = Len(e.at)
  BY <1>1 DEF LastAttr
<1>5. Good(Go(q, cs))
  BY <1>1, <1>3, <1>4, GoGood
<1>6. QED
  BY <1>5 DEF q

(* A new element may be begun in another.                                   *)
LEMMA Nested ==
  ASSUME NEW I, NEW p \in Parsers(I), Structure(p), p.cs # "LOOK4TAG",
         NEW tag \in Strings(I), NEW cs \in {"LOOK4TAG", "INTAG"},
         cs = "LOOK4TAG" \/ tag # <<>>
  PROVE  Good(Go(PushXMLEle(p, tag), cs))
<1> DEFINE q == PushXMLEle(p, tag)
<1>1. /\ q \in Parsers(I) /\ q.ce # <<>> /\ Len(q.ce) = Len(p.ce) + 1
      /\ \A i \in DOMAIN q.ce : q.ce[i] = IF i < Len(q.ce) THEN p.ce[i] ELSE NewElement(tag)
  BY Pushed
<1> HIDE DEF q
<1>2. DOMAIN q.ce = 1 .. Len(q.ce) /\ DOMAIN p.ce = 1 .. Len(p.ce) /\ Len(p.ce) \in Nat
  BY <1>1, Nesting
<1>3. ASSUME NEW i \in DOMAIN q.ce, cs # "LOOK4TAG" \/ i < Len(q.ce)
      PROVE  q.ce[i].tag # <<>>
  <2>1. CASE i < Len(q.ce)
    <3>1. i \in DOMAIN p.ce
      BY <2>1, <1>1, <1>2
    <3>2. QED
      BY <3>1, <2>1, <1>1 DEF Structure
  <2>2. CASE ~(i < Len(q.ce))
    BY <2>2, <1>1, <1>3 DEF NewElement
  <2>3. QED
    BY <2>1, <2>2
<1>4. cs \in States
  BY DEF States
<1>5. Good(Go(q, cs))
  BY <1>1, <1>3, <1>4, GoGood
<1>6. QED
  BY <1>5 DEF q

(* And an element that is finished left for the one it is in.               *)
LEMMA Finished ==
  ASSUME NEW I, NEW p \in Parsers(I), Structure(p), p.ce # <<>>, p.cs # "LOOK4TAG", ~Outermost(p)
  PROVE  Good(Go(PopXMLEle(p), "LOOK4CON"))
<1>1. Len(p.ce) > 1
  <2> DEFINE n == Len(p.ce)
  <2>1. p.ce \in Seq(Elements(I))
    BY Nesting
  <2>2. n \in Nat /\ n > 0
    BY <2>1, EmptySeq, LenProperties
  <2>3. n # 1
    BY DEF Outermost
  <2> HIDE DEF n
  <2>4. n > 1
    BY <2>2, <2>3
  <2>5. QED
    BY <2>4 DEF n
<1>2. PICK J : /\ PopXMLEle(p) \in Parsers(J) /\ PopXMLEle(p).ce # <<>>
               /\ \A i \in DOMAIN PopXMLEle(p).ce :
                    i \in DOMAIN p.ce /\ PopXMLEle(p).ce[i].tag = p.ce[i].tag
  BY <1>1, Popped
<1>3. \A i \in DOMAIN PopXMLEle(p).ce : PopXMLEle(p).ce[i].tag # <<>>
  BY <1>2 DEF Structure
<1> DEFINE q == PopXMLEle(p)
<1>4. q \in Parsers(J) /\ q.ce # <<>> /\ \A i \in DOMAIN q.ce : q.ce[i].tag # <<>>
  BY <1>2, <1>3
<1> HIDE DEF q
<1>5. ASSUME NEW cs \in States, cs = "LOOK4CON" PROVE Good(Go(q, cs))
  BY <1>4, <1>5, GoGood
<1>6. Good(Go(q, "LOOK4CON"))
  BY <1>5 DEF States
<1>7. QED
  BY <1>6 DEF q

-----------------------------------------------------------------------------
(* State by state.                                                          *)
LEMMA InElement ==
  ASSUME NEW I, NEW p \in Parsers(I), Structure(p), p.cs # "LOOK4START"
  PROVE  /\ p.ce # <<>> /\ Current(p) \in Elements(I)
         /\ p.cs # "LOOK4TAG" => Current(p).tag # <<>>
         /\ p.cs = "INCON" => Current(p).pcdata # <<>>
<1>1. p.ce # <<>>
  BY DEF Structure
<1>2. Current(p) \in Elements(I) /\ Len(p.ce) \in DOMAIN p.ce
  BY <1>1, CurrentElement
<1>3. QED
  BY <1>1, <1>2 DEF Structure, Current

LEMMA Look4StartGood ==
  ASSUME NEW I, NEW p \in Parsers(I), Structure(p), p.cs = "LOOK4START", NEW c \in I
  PROVE  Good(InLook4Start(p, c))
<1>1. CASE c = "<"
  <2>1. <<>> \in Strings(I)
    BY DEF Strings
  <2>2. Good(Go(PushXMLEle(p, <<>>), "LOOK4TAG"))
    BY <2>1, Nested
  <2>3. QED
    BY <1>1, <2>2 DEF InLook4Start
<1>2. CASE c # "<"
  BY <1>2, StayGood DEF InLook4Start, Sound
<1>3. QED
  BY <1>1, <1>2

LEMMA Look4TagGood ==
  ASSUME NEW I, NEW p \in Parsers(I), Structure(p), p.cs = "LOOK4TAG", NEW c \in I
  PROVE  Good(InLook4Tag(p, c))
<1> DEFINE d == Current(p)
           e == [d EXCEPT !.tag = Append(@, c)]
<1>0. p.ce # <<>> /\ d \in Elements(I)
  BY InElement
<1>1. p.ce # <<>> /\ e \in Elements(I) /\ e.tag # <<>>
  <2>1. e = [d EXCEPT !.tag = Append(@, c)]
    OBVIOUS
  <2> HIDE DEF d, e
  <2>2. QED
    BY <1>0, <2>1, TagGrown
<1>2. Good(Go(GrowTag(p, c), "INTAG"))
  <2> HIDE DEF e
  <2>1. "INTAG" \in States \ {"LOOK4START"}
    BY DEF States
  <2>2. Good(Go(Change(p, e), "INTAG"))
    BY <1>1, <2>1, Changed
  <2>3. QED
    BY <2>2 DEF GrowTag, d, e
<1>3. Good(Stay(p))
  BY StayGood DEF Sound
<1>4. QED
  BY <1>2, <1>3, BogusGood DEF InLook4Tag

LEMMA TagGood ==
  ASSUME NEW I, NEW p \in Parsers(I), Structure(p), p.cs = "INTAG", NEW c \in I
  PROVE  Good(InTag(p, c))
<1> DEFINE d == Current(p)
           e == [d EXCEPT !.tag = Append(@, c)]
<1>0. p.ce # <<>> /\ d \in Elements(I)
  BY InElement
<1>1. p.ce # <<>> /\ e \in Elements(I) /\ e.tag # <<>>
  <2>1. e = [d EXCEPT !.tag = Append(@, c)]
    OBVIOUS
  <2> HIDE DEF d, e
  <2>2. QED
    BY <1>0, <2>1, TagGrown
<1>2. Good(Stay(GrowTag(p, c)))
  <2> HIDE DEF e
  <2>1. "INTAG" \in States \ {"LOOK4START"}
    BY DEF States
  <2>2. Good(Go(Change(p, e), "INTAG"))
    BY <1>1, <2>1, Changed
  <2>3. Change(p, e) \in Parsers(I) /\ Change(p, e).cs = "INTAG"
    BY <1>1, ChangeKeeps
  <2>4. Stay(Change(p, e)) = Go(Change(p, e), "INTAG")
    BY <2>3, StayIsGo
  <2>5. QED
    BY <2>2, <2>4 DEF GrowTag, d, e
<1>3. Good(Go(p, "LOOK4CON")) /\ Good(Go(p, "SAWSLASH")) /\ Good(Go(p, "LOOK4ATTRN"))
  BY <1>1, Moved DEF States
<1>4. QED
  BY <1>2, <1>3, BogusGood DEF InTag

LEMMA Look4AttrNGood ==
  ASSUME NEW I, NEW p \in Parsers(I), Structure(p), p.cs = "LOOK4ATTRN", NEW c \in I
  PROVE  Good(InLook4AttrN(p, c))
<1> DEFINE d == Current(p)
           e == [d EXCEPT !.at = Append(@, NewAttribute(c))]
<1>0. p.ce # <<>> /\ d \in Elements(I) /\ d.tag # <<>>
  BY InElement
<1>1. p.ce # <<>> /\ e \in Elements(I) /\ e.tag # <<>> /\ Len(e.at) > 0
  <2>1. e = [d EXCEPT !.at = Append(@, NewAttribute(c))]
    OBVIOUS
  <2> HIDE DEF d, e
  <2>2. QED
    BY <1>0, <2>1, AttributeAdded
<1>2. Good(Go(AddAttr(p, c), "INATTRN"))
  <2> HIDE DEF e
  <2>1. "INATTRN" \in States \ {"LOOK4START"}
    BY DEF States
  <2>2. Good(Go(Change(p, e), "INATTRN"))
    BY <1>1, <2>1, Changed
  <2>3. QED
    BY <2>2 DEF AddAttr, d, e
<1>3. Good(Go(p, "LOOK4CON")) /\ Good(Go(p, "SAWSLASH")) /\ Good(Stay(p))
  BY <1>1, Moved, StayGood DEF States, Sound
<1>4. QED
  BY <1>2, <1>3, BogusGood DEF InLook4AttrN

LEMMA SawSlashGood ==
  ASSUME NEW I, NEW p \in Parsers(I), Structure(p), p.cs = "SAWSLASH", NEW c \in I
  PROVE  Good(InSawSlash(p, c))
<1>1. p.ce # <<>>
  BY InElement
<1>2. ~Outermost(p) => Good(Go(PopXMLEle(p), "LOOK4CON"))
  BY <1>1, Finished
<1>3. QED
  BY <1>2, BogusGood, ClosedGood DEF InSawSlash

LEMMA AttrNGood ==
  ASSUME NEW I, NEW p \in Parsers(I), Structure(p), p.cs = "INATTRN", NEW c \in I
  PROVE  Good(InAttrN(p, c))
<1> DEFINE d == Current(p)
           e == [d EXCEPT !.at[Len(d.at)].name = Append(@, c)]
<1>0. p.ce # <<>> /\ d \in Elements(I) /\ d.tag # <<>> /\ LastAttr(p) > 0 /\ LastAttr(p) = Len(d.at)
  BY InElement DEF Structure, LastAttr
<1>1. p.ce # <<>> /\ e \in Elements(I) /\ e.tag # <<>> /\ Len(e.at) > 0 /\ LastAttr(p) > 0
  <2>1. LastGrown(d, e, c)
    BY DEF LastGrown
  <2>2. Len(d.at) > 0
    BY <1>0
  <2> HIDE DEF d, e
  <2>3. e \in Elements(I) /\ e.tag = d.tag /\ Len(e.at) > 0
    BY <1>0, <2>1, <2>2, AttributeGrown
  <2>4. QED
    BY <1>0, <2>3
<1>2. Good(Stay(GrowName(p, c)))
  <2> HIDE DEF e
  <2>1. "INATTRN" \in States \ {"LOOK4START"}
    BY DEF States
  <2>2. Good(Go(Change(p, e), "INATTRN"))
    BY <1>1, <2>1, Changed
  <2>3. Change(p, e) \in Parsers(I) /\ Change(p, e).cs = "INATTRN"
    BY <1>1, ChangeKeeps
  <2>4. Stay(Change(p, e)) = Go(Change(p, e), "INATTRN")
    BY <2>3, StayIsGo
  <2>5. QED
    BY <2>2, <2>4 DEF GrowName, LastAttr, d, e
<1>3. Good(Go(p, "LOOK4ATTRV"))
  BY <1>1, Moved DEF States
<1>4. QED
  BY <1>2, <1>3, BogusGood DEF InAttrN

LEMMA Look4AttrVGood ==
  ASSUME NEW I, NEW p \in Parsers(I), Structure(p), p.cs = "LOOK4ATTRV", NEW c \in I
  PROVE  Good(InLook4AttrV(p, c))
<1> DEFINE q == [p EXCEPT !.delim = c]
<1>1. q \in Parsers(I) /\ q.cs = p.cs /\ q.ce = p.ce /\ q.endtag = p.endtag
  BY DEF Parsers
<1>2. Good(Go(q, "INATTRV"))
  <2> HIDE DEF q
  <2>1. p.ce # <<>> /\ LastAttr(p) > 0
    BY InElement DEF Structure
  <2>2. Structure(q) /\ LastAttr(q) > 0 /\ q.ce # <<>>
    BY <1>1, <2>1 DEF Structure, LastAttr, Current
  <2>3. QED
    BY <1>1, <2>2, Moved DEF States
<1>3. Good(Stay(p))
  BY StayGood DEF Sound
<1>4. QED
  BY <1>2, <1>3, BogusGood DEF InLook4AttrV

LEMMA AttrVGood ==
  ASSUME NEW I, NEW p \in Parsers(I), Structure(p), p.cs = "INATTRV", NEW c \in I
  PROVE  Good(InAttrV(p, c))
<1> DEFINE d == Current(p)
           e == [d EXCEPT !.at[Len(d.at)].valu = Append(@, c)]
<1>0. p.ce # <<>> /\ d \in Elements(I) /\ d.tag # <<>> /\ LastAttr(p) > 0 /\ LastAttr(p) = Len(d.at)
  BY InElement DEF Structure, LastAttr
<1>1. p.ce # <<>> /\ e \in Elements(I) /\ e.tag # <<>> /\ Len(e.at) > 0
  <2>1. LastGrown(d, e, c)
    BY DEF LastGrown
  <2>2. Len(d.at) > 0
    BY <1>0
  <2> HIDE DEF d, e
  <2>3. e \in Elements(I) /\ e.tag = d.tag /\ Len(e.at) > 0
    BY <1>0, <2>1, <2>2, AttributeGrown
  <2>4. QED
    BY <1>0, <2>3
<1>2. Good(Stay(GrowValu(p, c)))
  <2> HIDE DEF e
  <2>1. "INATTRV" \in States \ {"LOOK4START"}
    BY DEF States
  <2>2. Good(Go(Change(p, e), "INATTRV"))
    BY <1>1, <2>1, Changed
  <2>3. Change(p, e) \in Parsers(I) /\ Change(p, e).cs = "INATTRV"
    BY <1>1, ChangeKeeps
  <2>4. Stay(Change(p, e)) = Go(Change(p, e), "INATTRV")
    BY <2>3, StayIsGo
  <2>5. QED
    BY <2>2, <2>4 DEF GrowValu, LastAttr, d, e
<1>3. Good(Go(p, "LOOK4ATTRN")) /\ Good(Stay(p))
  BY <1>1, Moved, StayGood DEF States, Sound
<1>4. QED
  BY <1>2, <1>3 DEF InAttrV

LEMMA Look4ConGood ==
  ASSUME NEW I, NEW p \in Parsers(I), Structure(p), p.cs = "LOOK4CON", NEW c \in I
  PROVE  Good(InLook4Con(p, c))
<1> DEFINE d == Current(p)
           e == [d EXCEPT !.pcdata = Append(@, c)]
<1>0. p.ce # <<>> /\ d \in Elements(I) /\ d.tag # <<>>
  BY InElement
<1>1. p.ce # <<>> /\ e \in Elements(I) /\ e.tag # <<>> /\ e.pcdata # <<>>
  <2>1. e = [d EXCEPT !.pcdata = Append(@, c)]
    OBVIOUS
  <2> HIDE DEF d, e
  <2>2. QED
    BY <1>0, <2>1, PCDataGrown
<1>2. Good(Go(GrowPCData(p, c), "INCON"))
  <2> HIDE DEF e
  <2>1. "INCON" \in States \ {"LOOK4START"}
    BY DEF States
  <2>2. Good(Go(Change(p, e), "INCON"))
    BY <1>1, <2>1, Changed
  <2>3. QED
    BY <2>2 DEF GrowPCData, d, e
<1>3. Good(Go(p, "LTINCON")) /\ Good(Stay(p))
  BY <1>1, Moved, StayGood DEF States, Sound
<1>4. QED
  BY <1>2, <1>3 DEF InLook4Con

LEMMA ConGood ==
  ASSUME NEW I, NEW p \in Parsers(I), Structure(p), p.cs = "INCON", NEW c \in I
  PROVE  Good(InCon(p, c))
<1> DEFINE b == Current(p)
           d == [b EXCEPT !.pcdata = Chomp(@)]
           e == [b EXCEPT !.pcdata = Append(@, c)]
<1>0. p.ce # <<>> /\ b \in Elements(I) /\ b.tag # <<>>
  BY InElement
<1>1. /\ p.ce # <<>> /\ d \in Elements(I) /\ d.tag # <<>>
      /\ e \in Elements(I) /\ e.tag # <<>> /\ e.pcdata # <<>>
  <2>1. d = [b EXCEPT !.pcdata = Chomp(@)]
    OBVIOUS
  <2>2. e = [b EXCEPT !.pcdata = Append(@, c)]
    OBVIOUS
  <2> HIDE DEF b, d, e
  <2>3. d \in Elements(I) /\ d.tag # <<>>
    BY <1>0, <2>1, PCDataChomped
  <2>4. e \in Elements(I) /\ e.tag # <<>> /\ e.pcdata # <<>>
    BY <1>0, <2>2, PCDataGrown
  <2>5. QED
    BY <1>0, <2>3, <2>4
<1> HIDE DEF b, d, e
<1>2. Good(Go(Change(p, d), "LTINCON"))
  <2>1. "LTINCON" \in States \ {"LOOK4START"}
    BY DEF States
  <2>2. QED
    BY <1>1, <2>1, Changed
<1>3. Good(Stay(Change(p, e)))
  <2>1. "INCON" \in States \ {"LOOK4START"}
    BY DEF States
  <2>2. Good(Go(Change(p, e), "INCON"))
    BY <1>1, <2>1, Changed
  <2>3. Change(p, e) \in Parsers(I) /\ Change(p, e).cs = "INCON"
    BY <1>1, ChangeKeeps
  <2>4. QED
    BY <2>2, <2>3, StayIsGo
<1>4. QED
  BY <1>2, <1>3 DEF InCon, GrowPCData, b, d, e

LEMMA LtInConGood ==
  ASSUME NEW I, NEW p \in Parsers(I), Structure(p), p.cs = "LTINCON", NEW c \in I
  PROVE  Good(InLtInCon(p, c))
<1> DEFINE q == [p EXCEPT !.endtag = NullString]
<1>1. p.ce # <<>>
  BY InElement
<1>2. Good(Go(q, "LOOK4CLOSETAG"))
  <2>1. q \in Parsers(I) /\ q.cs = p.cs /\ q.ce = p.ce
    BY DEF Parsers
  <2> HIDE DEF q
  <2>2. Structure(q) /\ q.ce # <<>>
    BY <1>1, <2>1 DEF Structure, LastAttr, Current
  <2>3. QED
    BY <2>1, <2>2, Moved DEF States
<1>3. <<c>> \in Strings(I) /\ <<c>> # <<>> /\ <<>> \in Strings(I)
  BY DEF Strings
<1>4. Good(Go(PushXMLEle(p, <<c>>), "INTAG")) /\ Good(Go(PushXMLEle(p, <<>>), "LOOK4TAG"))
  BY <1>3, Nested
<1>5. QED
  BY <1>2, <1>4 DEF InLtInCon

LEMMA Look4CloseTagGood ==
  ASSUME NEW I, NEW p \in Parsers(I), Structure(p), p.cs = "LOOK4CLOSETAG", NEW c \in I
  PROVE  Good(InLook4CloseTag(p, c))
<1> DEFINE q == [p EXCEPT !.endtag = <<c>>]
<1>1. ASSUME IsTokenChar(TRUE, c) PROVE Good(Go(q, "INCLOSETAG"))
  <2>1. p.ce # <<>>
    BY InElement
  <2>2. <<c>> \in Seq(Characters)
    BY <1>1 DEF IsTokenChar, Characters
  <2>3. q \in Parsers(I) /\ q.cs = p.cs /\ q.ce = p.ce /\ q.endtag = <<c>>
    BY <2>2 DEF Parsers
  <2>4. q.endtag # NullString
    BY <2>2, <2>3, LilXMLAssumption
  <2> HIDE DEF q
  <2>5. Structure(q) /\ q.ce # <<>>
    BY <2>1, <2>3 DEF Structure, LastAttr, Current
  <2>6. QED
    BY <2>3, <2>4, <2>5, Moved DEF States
<1>2. Good(Stay(p))
  BY StayGood DEF Sound
<1>3. QED
  BY <1>1, <1>2, BogusGood DEF InLook4CloseTag

LEMMA CloseTagGood ==
  ASSUME NEW I, NEW p \in Parsers(I), Structure(p), p.cs = "INCLOSETAG", NEW c \in I
  PROVE  Good(InCloseTag(p, c))
<1> DEFINE q == [p EXCEPT !.endtag = Append(@, c)]
<1>1. p.ce # <<>> /\ p.endtag # NullString /\ p.endtag \in Seq(Characters)
  BY InElement DEF Structure, Parsers
<1>2. ASSUME IsTokenChar(FALSE, c) PROVE Good(Stay(q))
  <2>1. Append(p.endtag, c) \in Seq(Characters)
    BY <1>1, <1>2 DEF IsTokenChar, Characters
  <2>2. q \in Parsers(I) /\ q.cs = p.cs /\ q.ce = p.ce /\ q.endtag = Append(p.endtag, c)
    BY <2>1 DEF Parsers
  <2>3. q.endtag # NullString
    BY <2>1, <2>2, LilXMLAssumption
  <2> HIDE DEF q
  <2>4. Structure(q)
    BY <2>2, <2>3 DEF Structure, LastAttr, Current
  <2>5. QED
    BY <2>2, <2>4, StayGood DEF Sound
<1>3. Good(Stay(p))
  BY StayGood DEF Sound
<1>4. ~Outermost(p) => Good(Go(PopXMLEle(p), "LOOK4CON"))
  BY <1>1, Finished
<1> HIDE DEF q
<1>5. IsTokenChar(FALSE, c) => c # ">" /\ c \notin Blanks
  BY LilXMLAssumption DEF IsTokenChar, Marks
<1>6. CASE IsTokenChar(FALSE, c)
  <2>1. InCloseTag(p, c) = Stay(q)
    BY <1>5, <1>6 DEF InCloseTag, q
  <2>2. QED
    BY <2>1, <1>2, <1>6
<1>7. CASE c = ">"
  <2>1. c \notin Blanks
    BY <1>7, LilXMLAssumption DEF Blanks
  <2>2. InCloseTag(p, c) = IF Current(p).tag # p.endtag THEN Bogus(p)
                           ELSE IF Outermost(p) THEN Closed(p)
                           ELSE Go(PopXMLEle(p), "LOOK4CON")
    BY <2>1, <1>5, <1>7 DEF InCloseTag
  <2>3. QED
    BY <2>2, <1>4, BogusGood, ClosedGood
<1>8. CASE ~IsTokenChar(FALSE, c) /\ c # ">"
  BY <1>3, <1>8, BogusGood DEF InCloseTag
<1>9. QED
  BY <1>6, <1>7, <1>8

(* Together: oneXMLchar keeps the structure, for every state and character. *)
LEMMA OneXMLCharGood ==
  ASSUME NEW p, Sound(p), NEW c
  PROVE  Good(OneXMLChar(p, c))
<1>0. PICK J : p \in Parsers(J)
  BY DEF Sound
<1> DEFINE I == J \union {c}
<1>1. p \in Parsers(I) /\ c \in I
  BY <1>0, MoreParsers
<1> HIDE DEF I
<1>2. Structure(p) /\ p.cs \in States
  BY DEF Sound, Structure
<1>3. CASE p.cs = "LOOK4START"
  BY <1>1, <1>2, <1>3, Look4StartGood DEF OneXMLChar
<1>4. CASE p.cs = "LOOK4TAG"
  BY <1>1, <1>2, <1>4, Look4TagGood DEF OneXMLChar
<1>5. CASE p.cs = "INTAG"
  BY <1>1, <1>2, <1>5, TagGood DEF OneXMLChar
<1>6. CASE p.cs = "LOOK4ATTRN"
  BY <1>1, <1>2, <1>6, Look4AttrNGood DEF OneXMLChar
<1>7. CASE p.cs = "SAWSLASH"
  BY <1>1, <1>2, <1>7, SawSlashGood DEF OneXMLChar
<1>8. CASE p.cs = "INATTRN"
  BY <1>1, <1>2, <1>8, AttrNGood DEF OneXMLChar
<1>9. CASE p.cs = "LOOK4ATTRV"
  BY <1>1, <1>2, <1>9, Look4AttrVGood DEF OneXMLChar
<1>10. CASE p.cs = "INATTRV"
  BY <1>1, <1>2, <1>10, AttrVGood DEF OneXMLChar
<1>11. CASE p.cs = "LOOK4CON"
  BY <1>1, <1>2, <1>11, Look4ConGood DEF OneXMLChar
<1>12. CASE p.cs = "INCON"
  BY <1>1, <1>2, <1>12, ConGood DEF OneXMLChar
<1>13. CASE p.cs = "LTINCON"
  BY <1>1, <1>2, <1>13, LtInConGood DEF OneXMLChar
<1>14. CASE p.cs = "LOOK4CLOSETAG"
  BY <1>1, <1>2, <1>14, Look4CloseTagGood DEF OneXMLChar
<1>15. CASE p.cs = "INCLOSETAG"
  BY <1>1, <1>2, <1>15, CloseTagGood DEF OneXMLChar
<1>16. QED
  BY <1>2, <1>3, <1>4, <1>5, <1>6, <1>7, <1>8, <1>9, <1>10, <1>11, <1>12, <1>13, <1>14, <1>15
     DEF States

-----------------------------------------------------------------------------
(* A '<' never closes an element, so that readXMLEle may ignore what        *)
(* oneXMLchar says of a pending one that is no error.                       *)
THEOREM LtClosesNothing ==
  ASSUME NEW p, p.cs \in States
  PROVE  OneXMLChar(p, "<").s < 1
<1> DEFINE Open(r) == r.s < 1
<1>1. (\A q, cs : Open(Go(q, cs))) /\ (\A q : Open(Stay(q)) /\ Open(Bogus(q)))
  BY DEF Go, Stay, Bogus
<1> HIDE DEF Open
<1>2. p.cs = "LOOK4START" => Open(OneXMLChar(p, "<"))
  BY <1>1 DEF OneXMLChar, InLook4Start
<1>3. p.cs = "LOOK4TAG" => Open(OneXMLChar(p, "<"))
  BY <1>1 DEF OneXMLChar, InLook4Tag
<1>4. p.cs = "INTAG" => Open(OneXMLChar(p, "<"))
  BY <1>1 DEF OneXMLChar, InTag
<1>5. p.cs = "LOOK4ATTRN" => Open(OneXMLChar(p, "<"))
  BY <1>1 DEF OneXMLChar, InLook4AttrN
<1>6. p.cs = "SAWSLASH" => Open(OneXMLChar(p, "<"))
  BY <1>1 DEF OneXMLChar, InSawSlash
<1>7. p.cs = "INATTRN" => Open(OneXMLChar(p, "<"))
  BY <1>1 DEF OneXMLChar, InAttrN
<1>8. p.cs = "LOOK4ATTRV" => Open(OneXMLChar(p, "<"))
  BY <1>1 DEF OneXMLChar, InLook4AttrV
<1>9. p.cs = "INATTRV" => Open(OneXMLChar(p, "<"))
  BY <1>1 DEF OneXMLChar, InAttrV
<1>10. p.cs = "LOOK4CON" => Open(OneXMLChar(p, "<"))
  BY <1>1 DEF OneXMLChar, InLook4Con
<1>11. p.cs = "INCON" => Open(OneXMLChar(p, "<"))
  BY <1>1 DEF OneXMLChar, InCon
<1>12. p.cs = "LTINCON" => Open(OneXMLChar(p, "<"))
  BY <1>1 DEF OneXMLChar, InLtInCon
<1>13. p.cs = "LOOK4CLOSETAG" => Open(OneXMLChar(p, "<"))
  BY <1>1 DEF OneXMLChar, InLook4CloseTag
<1>14. p.cs = "INCLOSETAG" => Open(OneXMLChar(p, "<"))
  BY <1>1 DEF OneXMLChar, InCloseTag
<1>15. Open(OneXMLChar(p, "<"))
  BY <1>2, <1>3, <1>4, <1>5, <1>6, <1>7, <1>8, <1>9, <1>10, <1>11, <1>12, <1>13, <1>14
     DEF States
<1>16. QED
  BY <1>15 DEF Open

(* A parser just started is sound.                                          *)
LEMMA InitSound == Sound(InitParser)
<1>1. InitParser \in Parsers({})
  BY DEF InitParser, Parsers, States
<1>2. Structure(InitParser)
  BY DEF InitParser, Structure, States
<1>3. QED
  BY <1>1, <1>2 DEF Sound

(* What oneXMLchar does not look at may change.                             *)
LEMMA Remembered ==
  ASSUME NEW p, Sound(p), NEW c, NEW b \in BOOLEAN
  PROVE  Sound([p EXCEPT !.skipping = b, !.lastc = c]) /\ Sound([p EXCEPT !.lastc = c])
<1>0. PICK J : p \in Parsers(J)
  BY DEF Sound
<1> DEFINE I == J \union {c}
<1>1. p \in Parsers(I) /\ c \in I
  BY <1>0, MoreParsers
<1> HIDE DEF I
<1>2. ASSUME NEW q \in Parsers(I), q.cs = p.cs, q.ce = p.ce, q.endtag = p.endtag
      PROVE  Sound(q)
  BY <1>2 DEF Sound, Structure, LastAttr, Current
<1> DEFINE q1 == [p EXCEPT !.skipping = b, !.lastc = c]
           q2 == [p EXCEPT !.lastc = c]
<1>3. q1 \in Parsers(I) /\ q1.cs = p.cs /\ q1.ce = p.ce /\ q1.endtag = p.endtag
  BY <1>1 DEF Parsers
<1>4. q2 \in Parsers(I) /\ q2.cs = p.cs /\ q2.ce = p.ce /\ q2.endtag = p.endtag
  BY <1>1 DEF Parsers
<1>5. QED
  <2> HIDE DEF q1, q2
  <2>1. Sound(q1) /\ Sound(q2)
    BY <1>2, <1>3, <1>4
  <2>2. QED
    BY <2>1 DEF q1, q2

(* readXMLEle never reaches for an element, an attribute or a string that   *)
(* is not there: whatever characters it is given, it leaves a parser with   *)
(* the structure the next one trusts.                                       *)
THEOREM ParserSound ==
  /\ Sound(InitParser)
  /\ \A p : Sound(p) =>
       \A c : Sound(ReadXMLEle(p, c).p)
<1>1. Sound(InitParser)
  BY InitSound
<1>2. ASSUME NEW p, Sound(p), NEW c
      PROVE  Sound(ReadXMLEle(p, c).p)
  <2>1. Sound(Fails.p) /\ \A e : Sound(Returns(e).p)
    BY <1>1 DEF Fails, Returns
  <2>2. \A q : Reads(q).p = q
    BY DEF Reads
  <2>3. CASE c = EndOfFile
    BY <2>1, <2>3 DEF ReadXMLEle
  <2>4. CASE c # EndOfFile
    <3>2. Sound(Process(p, c).p)
      <4> DEFINE q == PendingLt(p)
                 r == OneXMLChar(q.p, c)
      <4>1. q.s < 0 \/ Sound(q.p)
        <5>1. CASE p.lastc = "<"
          <6>2. Good(OneXMLChar(p, "<")) /\ OneXMLChar(p, "<").s < 1
            BY <1>2, OneXMLCharGood, LtClosesNothing DEF Sound, Structure
          <6>3. q = OneXMLChar(p, "<")
            BY <5>1 DEF PendingLt
          <6>4. QED
            BY <6>2, <6>3 DEF Good
        <5>2. CASE p.lastc # "<"
          BY <1>2, <5>2 DEF PendingLt, Stay
        <5>3. QED
          BY <5>1, <5>2
      <4>2. q.s < 0 \/ (r.s < 0 \/ (r.s = 0 /\ Sound(r.p)) \/ r.s = 1)
        BY <4>1, OneXMLCharGood DEF Good
      <4>3. r.s = 0 /\ Sound(r.p) => Sound([r.p EXCEPT !.lastc = c])
        BY Remembered
      <4> HIDE DEF q, r
      <4>4. Process(p, c) = IF q.s < 0 \/ r.s < 0 THEN Fails
                            ELSE IF r.s = 0 THEN Reads([r.p EXCEPT !.lastc = c])
                            ELSE Returns(Current(r.p))
        BY DEF Process, q, r
      <4>5. QED
        BY <2>1, <2>2, <4>2, <4>3, <4>4
    <3>3. /\ \A b \in BOOLEAN : Sound([p EXCEPT !.skipping = b, !.lastc = c])
          /\ Sound([p EXCEPT !.lastc = c])
      BY <1>2, Remembered
    <3>4. QED
      BY <2>2, <2>4, <3>2, <3>3 DEF ReadXMLEle
  <2>5. QED
    BY <2>3, <2>4
<1>3. QED
  BY <1>1, <1>2

-----------------------------------------------------------------------------
(* Both parsers are as they trust themselves to be, whatever peers write.   *)
ParsersSound == Sound(server) /\ Sound(driver)

(* A server and a driver that read characters from anyone never use an      *)
(* element, an attribute or a string that is not there.                     *)
THEOREM NothingMissing == RelaySpec => []NeverNull
<1>1. RelayInit => ParsersSound
  BY InitSound DEF RelayInit, ParsersSound
<1>2. ParsersSound /\ [RelayNext]_relayVars => ParsersSound'
  <2>1. SUFFICES ASSUME ParsersSound, [RelayNext]_relayVars PROVE ParsersSound'
    OBVIOUS
  <2>2. CASE Write
    BY <2>1, <2>2 DEF Write, ParsersSound
  <2>3. CASE ServerReads
    <3>1. server' = ReadXMLEle(server, Head(input)).p /\ driver' = driver
      BY <2>3 DEF ServerReads
    <3>2. QED
      BY <2>1, <3>1, ParserSound DEF ParsersSound
  <2>4. CASE DriverReads
    <3>1. driver' = ReadXMLEle(driver, Head(wire)).p /\ server' = server
      BY <2>4 DEF DriverReads
    <3>2. QED
      BY <2>1, <3>1, ParserSound DEF ParsersSound
  <2>5. CASE UNCHANGED relayVars
    BY <2>1, <2>5 DEF relayVars, ParsersSound
  <2>6. QED
    BY <2>1, <2>2, <2>3, <2>4, <2>5 DEF RelayNext
<1>3. ParsersSound => NeverNull
  BY DEF ParsersSound, Sound, NeverNull
<1>4. QED
  BY <1>1, <1>2, <1>3, PTL DEF RelaySpec

-----------------------------------------------------------------------------
(* What a vector and its clients are to each other: what is in it, what has *)
(* changed, and what they were shown.                                       *)
Contents == [value   : [Properties -> Data \union {Freed}],
           changed : SUBSET Properties,
           shown   : [Properties -> Data \union {Freed, Nothing}]]

(* ClientsKnow, of any state of the vectors.                                *)
Known(s) ==
  \A p \in Properties :
    Kind[p[1]] # "blob" /\ p \notin s.changed /\ s.shown[p] # Nothing
      => s.shown[p] = Shows(p, s.value[p])

Consistent(s) == s \in Contents /\ Known(s)

-----------------------------------------------------------------------------
(* The properties of a vector, and the vector of a property.                *)
LEMMA MembersOfAVector ==
  ASSUME NEW v \in Vectors
  PROVE  /\ Of(v) \subseteq Properties
         /\ \A p \in Of(v) : p[1] = v /\ p[2] \in Members[v]
BY DEF Of, Properties

LEMMA PropertiesHaveVectors ==
  ASSUME NEW p \in Properties
  PROVE  p[1] \in Vectors /\ p \in Of(p[1])
BY DEF Of, Properties

(* Of the items for a property there is a last, and it is one of them.      *)
LEMMA LastDatumIsAsked ==
  ASSUME NEW v \in Vectors, NEW items \in Seq(Items(v)), NEW p \in Named(v, items)
  PROVE  \E i \in DOMAIN items : items[i].name = p[2] /\ LastDatum(items, p) = items[i].datum
<1> DEFINE I == Naming(items, p)
<1>1. DOMAIN items = 1 .. Len(items) /\ Len(items) \in Nat
  BY LenProperties
<1>2. I # {} /\ I \in SUBSET Nat /\ \A i \in I : i <= Len(items)
  BY <1>1 DEF Named, Naming
<1> HIDE DEF I
<1>3. \E i \in I : \A j \in I : j <= i
  BY <1>1, <1>2, NatMax
<1> DEFINE k == CHOOSE i \in I : \A j \in I : j <= i
<1>4. k \in I
  BY <1>3
<1>5. LastDatum(items, p) = items[k].datum
  BY DEF LastDatum, I
<1> HIDE DEF k
<1>6. QED
  BY <1>4, <1>5 DEF I, Naming

(* It is a datum clients may send.                                          *)
LEMMA LastDatumType ==
  ASSUME NEW v \in Vectors, NEW items \in Seq(Items(v)), NEW p \in Named(v, items)
  PROVE  LastDatum(items, p) \in Data
<1>1. PICK i \in DOMAIN items : LastDatum(items, p) = items[i].datum
  BY LastDatumIsAsked
<1>2. items[i] \in Items(v)
  BY <1>1, ElementOfSeq, LenProperties
<1>3. QED
  BY <1>1, <1>2 DEF Items

-----------------------------------------------------------------------------
(* Whatever is printed or set, clients know what is not marked.             *)

(* What is printed is as good a value as what is not.                       *)
LEMMA PrintType ==
  ASSUME NEW p, NEW x \in Data \union {Freed}
  PROVE  Shows(p, x) \in Data \union {Freed}
BY RequestsAssumption DEF Shows, Data

LEMMA SetPropertySound ==
  ASSUME NEW s, Consistent(s), NEW v \in Vectors
  PROVE  Consistent(SetProperty(s, v)) /\ SetProperty(s, v).value = s.value
<1> DEFINE t == SetProperty(s, v)
<1>1. /\ t.value = s.value /\ t.changed = s.changed \ Of(v)
      /\ t.shown = [p \in Properties |->
                      IF p \in Of(v) \intersect s.changed
                        THEN Shows(p, s.value[p]) ELSE s.shown[p]]
  BY DEF SetProperty, Consistent, Contents
<1>2. \A p \in Properties : Shows(p, s.value[p]) \in Data \union {Freed}
  BY PrintType DEF Consistent, Contents
<1>3. t \in Contents
  <2> DEFINE w == t.shown
             c == t.changed
  <2>1. w \in [Properties -> Data \union {Freed, Nothing}]
    BY <1>1, <1>2 DEF Consistent, Contents
  <2>2. c \in SUBSET Properties
    BY <1>1 DEF Consistent, Contents
  <2>3. t = [s EXCEPT !.shown = w, !.changed = c]
    BY DEF SetProperty, Consistent, Contents
  <2> HIDE DEF w, c, t
  <2>4. QED
    BY <2>1, <2>2, <2>3 DEF Consistent, Contents
<1> HIDE DEF t
<1>4. Known(t)
  BY <1>1 DEF Consistent, Contents, Known
<1>5. QED
  BY <1>1, <1>3, <1>4 DEF Consistent, t

LEMMA DefPropertySound ==
  ASSUME NEW s, Consistent(s), NEW vs \in SUBSET Vectors
  PROVE  Consistent(DefProperty(s, vs)) /\ DefProperty(s, vs).value = s.value
<1> DEFINE t == DefProperty(s, vs)
<1>1. /\ t.value = s.value /\ t.changed = {p \in s.changed : p[1] \notin vs}
      /\ t.shown = [p \in Properties |->
                      IF p[1] \in vs /\ Kind[p[1]] # "blob"
                        THEN Shows(p, s.value[p]) ELSE s.shown[p]]
  BY DEF DefProperty, Consistent, Contents
<1>2. \A p \in Properties : Shows(p, s.value[p]) \in Data \union {Freed}
  BY PrintType DEF Consistent, Contents
<1>3. t \in Contents
  <2> DEFINE w == t.shown
             c == t.changed
  <2>1. w \in [Properties -> Data \union {Freed, Nothing}]
    BY <1>1, <1>2 DEF Consistent, Contents
  <2>2. c \in SUBSET Properties
    BY <1>1 DEF Consistent, Contents
  <2>3. t = [s EXCEPT !.shown = w, !.changed = c]
    BY DEF DefProperty, Consistent, Contents
  <2> HIDE DEF w, c, t
  <2>4. QED
    BY <2>1, <2>2, <2>3 DEF Consistent, Contents
<1> HIDE DEF t
<1>4. Known(t)
  BY <1>1 DEF Consistent, Contents, Known
<1>5. QED
  BY <1>1, <1>3, <1>4 DEF Consistent, t

LEMMA TellAllSound ==
  ASSUME NEW s, Consistent(s), NEW v \in Vectors
  PROVE  Consistent(TellAll(s, v)) /\ TellAll(s, v).value = s.value
<1> DEFINE t == [s EXCEPT !.changed = @ \union Of(v)]
<1>1. t.value = s.value /\ t.changed = s.changed \union Of(v) /\ t.shown = s.shown
  BY DEF Consistent, Contents
<1>2. t \in Contents
  BY MembersOfAVector DEF Consistent, Contents
<1>3. TellAll(s, v) = SetProperty(t, v)
  BY DEF TellAll
<1> HIDE DEF t
<1>4. Consistent(t)
  BY <1>1, <1>2 DEF Consistent, Known
<1>5. QED
  BY <1>1, <1>3, <1>4, SetPropertySound

LEMMA SetValuesSound ==
  ASSUME NEW s, Consistent(s), NEW v \in Vectors, NEW items \in Seq(Items(v))
  PROVE  Consistent(SetValues(s, v, items))
<1> DEFINE f == [p \in Properties |->
                  IF p \in Named(v, items) THEN LastDatum(items, p) ELSE s.value[p]]
           t == [s EXCEPT !.value = f, !.changed = @ \union Named(v, items)]
<1>1. SetValues(s, v, items) = t
  BY DEF SetValues
<1>2. Named(v, items) \subseteq Properties
  BY MembersOfAVector DEF Named
<1>3. f \in [Properties -> Data \union {Freed}]
  BY LastDatumType DEF Consistent, Contents
<1>4. \A p \in Properties \ Named(v, items) : f[p] = s.value[p]
  OBVIOUS
<1> HIDE DEF f
<1>5. t \in Contents /\ t.value = f /\ t.changed = s.changed \union Named(v, items)
        /\ t.shown = s.shown
  BY <1>2, <1>3 DEF Consistent, Contents
<1> HIDE DEF t
<1>6. Known(t)
  BY <1>4, <1>5 DEF Consistent, Known
<1>7. QED
  BY <1>1, <1>5, <1>6 DEF Consistent

LEMMA DeleteElementSound ==
  ASSUME NEW s, Consistent(s), NEW v \in Vectors, NEW items
  PROVE  Consistent(DeleteElement(s, v, items))
<1> DEFINE t == DeleteElement(s, v, items)
<1>1. CASE Kind[v] # "blob"
  BY <1>1 DEF DeleteElement
<1>2. CASE Kind[v] = "blob"
  <2>1. /\ t.value = [p \in Properties |->
                        IF p \in Named(v, items) THEN Freed ELSE s.value[p]]
        /\ t.changed = s.changed /\ t.shown = s.shown
    BY <1>2 DEF DeleteElement, Consistent, Contents
  <2>2. t \in Contents
    BY <1>2, <2>1 DEF DeleteElement, Consistent, Contents
  <2>3. \A p \in Named(v, items) : Kind[p[1]] = "blob"
    BY <1>2, MembersOfAVector DEF Named
  <2> HIDE DEF t
  <2>4. Known(t)
    BY <2>1, <2>3 DEF Consistent, Known
  <2>5. QED
    BY <2>2, <2>4 DEF Consistent, t
<1>3. QED
  BY <1>1, <1>2

LEMMA SetSound ==
  ASSUME NEW s, Consistent(s), NEW p \in Properties, NEW x \in Data
  PROVE  Consistent(Set(s, p, x))
<1> DEFINE t == Set(s, p, x)
<1>1. /\ t.value = [s.value EXCEPT ![p] = x]
      /\ t.changed = s.changed \union {p} /\ t.shown = s.shown
  BY DEF Set, Consistent, Contents
<1>2. t \in Contents
  BY <1>1 DEF Set, Consistent, Contents
<1> HIDE DEF t
<1>3. Known(t)
  BY <1>1 DEF Consistent, Contents, Known
<1>4. QED
  BY <1>2, <1>3 DEF Consistent, t

-----------------------------------------------------------------------------
(* The current state, and what it becomes.                                  *)
LEMMA StateIs ==
  /\ State.value = value /\ State.changed = changed /\ State.shown = shown
  /\ TypeOK /\ ClientsKnow => Consistent(State)
BY DEF State, TypeOK, ClientsKnow, Consistent, Contents, Known

Rest ==
  /\ refuses \in BOOLEAN /\ reading \in BOOLEAN
  /\ request \in Asked \union {Nothing} /\ (~reading => request = Nothing)
  /\ ended \in BOOLEAN
  /\ answer \subseteq {"message", "values", "definitions"}

LEMMA BecomesSound ==
  ASSUME NEW s, Consistent(s), Become(s), Rest'
  PROVE  (TypeOK /\ ClientsKnow)'
<1>1. TypeOK'
  BY DEF Consistent, Contents, Become, Rest, TypeOK
<1>2. ClientsKnow'
  BY DEF Consistent, Known, Become, ClientsKnow
<1>3. QED
  BY <1>1, <1>2

LEMMA StaysSound ==
  ASSUME TypeOK, ClientsKnow, UNCHANGED properties, Rest'
  PROVE  (TypeOK /\ ClientsKnow)'
BY DEF TypeOK, ClientsKnow, properties, Rest

(* A request the handlers look into is of a kind they know.                 *)
LEMMA NewVectorKnown ==
  ASSUME TypeOK, request # Nothing, request.tag = "new", ~ForOthers(request),
         MayWrite(request)
  PROVE  /\ request.vector \in Vectors /\ request.items \in Seq(Items(request.vector))
         /\ request.device = DeviceOf[request.vector]
<1>1. request \in Asked
  BY DEF TypeOK
<1>2. IsNewVector(request)
  BY <1>1, RequestsAssumption DEF IsGetProperties
<1>3. request.vector \in Vectors
  BY RequestsAssumption DEF MayWrite
<1>4. request.device \in Devices
  BY <1>2, RequestsAssumption DEF IsNewVector, ForOthers
<1>5. QED
  BY <1>2, <1>3, <1>4 DEF IsNewVector

LEMMA UpdateSound ==
  ASSUME TypeOK, ClientsKnow, NEW v \in Vectors, NEW items \in Seq(Items(v)),
         Update(v, items), UNCHANGED refuses, request # Nothing
  PROVE  (TypeOK /\ ClientsKnow)'
<1>1. Rest'
  BY DEF TypeOK, Rest, Update, Answers
<1>2. Consistent(State)
  BY StateIs
<1>3. CASE DeviceOf[v] \in Implemented
  <2> DEFINE s == SetProperty(SetValues(State, v, items), v)
  <2>1. Consistent(s)
    BY <1>2, SetValuesSound, SetPropertySound
  <2>2. Consistent(DeleteElement(s, v, items))
    BY <2>1, DeleteElementSound
  <2>3. QED
    BY <1>1, <1>3, <2>2, BecomesSound DEF Update
<1>4. CASE DeviceOf[v] \notin Implemented
  BY <1>1, <1>2, <1>4, TellAllSound, BecomesSound DEF Update
<1>5. QED
  BY <1>3, <1>4

(* Types, and ClientsKnow: what clients show is true unless it is marked to *)
(* be sent (the changed flags of property.h and all that set, clear and use *)
(* them).  Together they are inductive, because a mark is only taken away   *)
(* where the value is printed.                                              *)
THEOREM ClientsAreTold == Spec => [](TypeOK /\ ClientsKnow)
<1>1. Init => TypeOK /\ ClientsKnow
  <2> SUFFICES ASSUME Init PROVE TypeOK /\ ClientsKnow
    OBVIOUS
  <2>1. value \in [Properties -> Data \union {Freed}]
    BY RequestsAssumption DEF Init, Data
  <2>2. TypeOK
    BY <2>1 DEF Init, TypeOK
  <2>3. ClientsKnow
    BY DEF Init, ClientsKnow
  <2>4. QED
    BY <2>2, <2>3
<1>2. TypeOK /\ ClientsKnow /\ [Next]_vars => (TypeOK /\ ClientsKnow)'
  <2> SUFFICES ASSUME TypeOK, ClientsKnow, [Next]_vars PROVE (TypeOK /\ ClientsKnow)'
    OBVIOUS
  <2>1. Consistent(State)
    BY StateIs
  <2>2. CASE ReadRequests
    BY <2>2, StaysSound DEF ReadRequests, TypeOK, Rest
  <2>3. CASE ReadElement
    BY <2>3, StaysSound DEF ReadElement, TypeOK, Rest
  <2>4. CASE EndOfRead
    BY <2>4, StaysSound DEF EndOfRead, TypeOK, Rest
  <2>5. CASE HandleNewVector
    <3>1. CASE ForOthers(request) \/ ~MayWrite(request)
      BY <2>5, <3>1, StaysSound DEF HandleNewVector, Handles, Answers, TypeOK, Rest
    <3>2. CASE ~ForOthers(request) /\ MayWrite(request)
      <4>1. request.vector \in Vectors /\ request.items \in Seq(Items(request.vector))
        BY <2>5, <3>2, NewVectorKnown DEF HandleNewVector, Handles
      <4>2. CASE ItemsRight(request.vector, request.items)
        BY <2>5, <3>2, <4>1, <4>2, UpdateSound DEF HandleNewVector, Handles
      <4>3. CASE ~ItemsRight(request.vector, request.items)
        <5>1. Become(TellAll(State, request.vector))
          BY <2>5, <3>2, <4>3 DEF HandleNewVector, Handles
        <5>2. Rest'
          BY <2>5, <3>2, <4>3 DEF HandleNewVector, Handles, Answers, TypeOK, Rest
        <5>3. QED
          BY <2>1, <4>1, <5>1, <5>2, TellAllSound, BecomesSound
      <4>4. QED
        BY <4>2, <4>3
    <3>3. QED
      BY <3>1, <3>2
  <2>6. CASE HandleGetProperties
    <3>1. CASE request.version = "ours"
      <4> DEFINE vs == {v \in Vectors : request.device \in {Missing, DeviceOf[v]}}
      <4>1. Become(DefProperty(State, vs)) /\ Rest'
        BY <2>6, <3>1 DEF HandleGetProperties, Handles, Answers, TypeOK, Rest
      <4> HIDE DEF vs
      <4>2. vs \in SUBSET Vectors
        BY DEF vs
      <4>3. QED
        BY <2>1, <4>1, <4>2, DefPropertySound, BecomesSound
    <3>2. CASE request.version # "ours"
      BY <2>6, <3>2, StaysSound DEF HandleGetProperties, Handles, Answers, TypeOK, Rest
    <3>3. QED
      BY <3>1, <3>2
  <2>7. CASE HandleUnknown
    BY <2>7, StaysSound DEF HandleUnknown, Handles, Answers, TypeOK, Rest
  <2>8. ASSUME NEW p \in Properties, NEW x \in Settings, PluginSets(p, x)
        PROVE  (TypeOK /\ ClientsKnow)'
    <3>1. Rest'
      BY <2>8 DEF PluginSets, TypeOK, Rest
    <3>2. p[1] \in Vectors /\ x \in Data
      BY PropertiesHaveVectors, RequestsAssumption DEF Data
    <3>3. Consistent(Set(State, p, x)) /\ Consistent(SetProperty(Set(State, p, x), p[1]))
      BY <2>1, <3>2, SetSound, SetPropertySound
    <3>4. QED
      BY <2>8, <3>1, <3>3, BecomesSound DEF PluginSets
  <2>9. ASSUME NEW v \in Vectors, PluginSends(v)
        PROVE  (TypeOK /\ ClientsKnow)'
    <3>1. Rest'
      BY <2>9 DEF PluginSends, TypeOK, Rest
    <3>2. QED
      BY <2>1, <2>9, <3>1, SetPropertySound, BecomesSound DEF PluginSends
  <2>10. CASE GetElsewhere
    BY <2>10, StaysSound DEF GetElsewhere, TypeOK, Rest
  <2>11. CASE UNCHANGED vars
    BY <2>11 DEF vars, properties, TypeOK, ClientsKnow
  <2>12. QED
    BY <2>2, <2>3, <2>4, <2>5, <2>6, <2>7, <2>8, <2>9, <2>10, <2>11 DEF Next
<1>3. QED
  BY <1>1, <1>2, PTL DEF Spec

-----------------------------------------------------------------------------
Taken(v, items) ==
  [p \in Properties |->
     IF p \notin Named(v, items) THEN value[p]
     ELSE IF Kind[p[1]] = "blob" THEN Freed
     ELSE LastDatum(items, p)]

(* A request that passed the checks is taken in full by the plug-in.        *)
LEMMA UpdateTakesAll ==
  ASSUME TypeOK, NEW v \in Vectors, NEW items, Update(v, items),
         DeviceOf[v] \in Implemented
  PROVE  value' = Taken(v, items)
<1> DEFINE f == [p \in Properties |->
                  IF p \in Named(v, items) THEN LastDatum(items, p) ELSE value[p]]
           s == SetProperty(SetValues(State, v, items), v)
           t == DeleteElement(s, v, items)
<1>1. s.value = f
  BY DEF SetProperty, SetValues, State
<1>2. value' = t.value
  BY DEF Update, Become
<1>3. \A p \in Named(v, items) : p[1] = v /\ p \in Properties
  BY MembersOfAVector DEF Named
<1>4. CASE Kind[v] = "blob"
  <2>1. s = [s EXCEPT !.value = s.value]
    BY DEF SetProperty, SetValues, State
  <2>2. t.value = [p \in Properties |-> IF p \in Named(v, items) THEN Freed ELSE f[p]]
    BY <1>1, <1>4, <2>1 DEF DeleteElement, SetProperty, SetValues, State
  <2> HIDE DEF t, s
  <2>3. \A p \in Properties : t.value[p] = Taken(v, items)[p]
    BY <1>3, <1>4, <2>2 DEF Taken
  <2>4. QED
    BY <1>2, <2>2, <2>3 DEF Taken
<1>5. CASE Kind[v] # "blob"
  <2>1. t.value = f
    BY <1>1, <1>5 DEF DeleteElement
  <2> HIDE DEF t, s
  <2>2. \A p \in Properties : f[p] = Taken(v, items)[p]
    BY <1>3, <1>5 DEF Taken
  <2>3. QED
    BY <1>2, <2>1, <2>2 DEF Taken
<1>6. QED
  BY <1>4, <1>5

(* Every other step that ends a request leaves the values alone.            *)
LEMMA OthersLeaveValues ==
  ASSUME TypeOK, ClientsKnow, Next, Handled, value' # value
  PROVE  /\ request.tag = "new" /\ ~ForOthers(request) /\ MayWrite(request)
         /\ ItemsRight(request.vector, request.items)
         /\ DeviceOf[request.vector] \in Implemented
         /\ Update(request.vector, request.items)
<1>1. Consistent(State) /\ State.value = value
  BY StateIs
<1>2. CASE HandleNewVector
  <2>1. ~ForOthers(request) /\ MayWrite(request) /\ request.tag = "new"
    BY <1>2 DEF HandleNewVector, Handles, properties
  <2>2. request.vector \in Vectors
    BY <2>1, NewVectorKnown DEF Handled
  <2>3. ItemsRight(request.vector, request.items)
    BY <1>1, <1>2, <2>1, <2>2, TellAllSound DEF HandleNewVector, Handles, Become
  <2>4. Update(request.vector, request.items)
    BY <1>2, <2>1, <2>3 DEF HandleNewVector, Handles
  <2>5. DeviceOf[request.vector] \in Implemented
    BY <1>1, <2>2, <2>4, TellAllSound DEF Update, Become
  <2>6. QED
    BY <2>1, <2>3, <2>4, <2>5
<1>3. CASE HandleGetProperties
  <2> DEFINE vs == {v \in Vectors : request.device \in {Missing, DeviceOf[v]}}
  <2>1. value' = DefProperty(State, vs).value \/ UNCHANGED properties
    BY <1>3 DEF HandleGetProperties, Handles, Become
  <2> HIDE DEF vs
  <2>2. vs \in SUBSET Vectors
    BY DEF vs
  <2>3. QED
    BY <1>1, <2>1, <2>2, DefPropertySound DEF properties
<1>4. CASE HandleUnknown
  BY <1>4 DEF HandleUnknown, Handles, properties
<1>5. CASE ReadRequests \/ ReadElement \/ EndOfRead \/ GetElsewhere
  BY <1>5 DEF ReadRequests, ReadElement, EndOfRead, GetElsewhere, properties
<1>6. CASE \E p \in Properties, x \in Settings : PluginSets(p, x)
  BY <1>6 DEF PluginSets, Handled
<1>7. CASE \E v \in Vectors : PluginSends(v)
  BY <1>7 DEF PluginSends, Handled
<1>8. QED
  BY <1>2, <1>3, <1>4, <1>5, <1>6, <1>7 DEF Next

(* AllOrNothing: a request changes all the properties it names, as it asks, *)
(* or none (PropertyVectorHandler::handle and the setData of its kinds).    *)
THEOREM RequestsAreAtomic == Spec => AllOrNothing
<1>1. TypeOK /\ ClientsKnow /\ [Next]_vars =>
        [Handled =>
           \/ value' = value
           \/ /\ Acceptable(request)
              /\ value' = [p \in Properties |->
                             IF p \notin Named(request.vector, request.items) THEN value[p]
                             ELSE IF Kind[p[1]] = "blob" THEN Freed
                             ELSE LastDatum(request.items, p)]]_vars
  <2> SUFFICES ASSUME TypeOK, ClientsKnow, Next, Handled, value' # value
               PROVE  /\ Acceptable(request)
                      /\ value' = Taken(request.vector, request.items)
    BY DEF Taken
  <2> DEFINE v == request.vector  items == request.items
  <2>1. /\ request.tag = "new" /\ ~ForOthers(request) /\ MayWrite(request)
        /\ ItemsRight(v, items) /\ DeviceOf[v] \in Implemented /\ Update(v, items)
    BY OthersLeaveValues
  <2>2. v \in Vectors /\ items \in Seq(Items(v)) /\ request.device = DeviceOf[v]
    BY <2>1, NewVectorKnown DEF Handled
  <2>3. ASSUME NEW i \in DOMAIN items
        PROVE  /\ items[i].tag = "one" /\ items[i].name \in Members[v]
               /\ Kind[v] = "number" => items[i].datum \in Min .. Max
    <3>1. items[i] \in Items(v)
      BY <2>2, <2>3, ElementOfSeq, LenProperties
    <3>2. items[i].datum \in Values \union {Junk}
      BY <3>1 DEF Items, Data
    <3>3. ItemRight(v, items[i])
      BY <2>1, <2>3 DEF ItemsRight
    <3>4. items[i].tag = "one" /\ items[i].name \in Members[v]
      BY <3>3 DEF ItemRight
    <3>5. CASE Kind[v] = "number"
      <4>1. items[i].datum # Junk /\ items[i].datum >= Min /\ items[i].datum <= Max
        BY <3>3, <3>5 DEF ItemRight, DatumRight
      <4>2. items[i].datum \in Int /\ Min \in Int /\ Max \in Int
        BY <3>2, <4>1, RequestsAssumption
      <4>3. QED
        BY <3>4, <4>1, <4>2
    <3>6. QED
      BY <3>4, <3>5
  <2>4. Acceptable(request)
    BY <2>1, <2>2, <2>3 DEF Acceptable, MayWrite
  <2>5. QED
    BY <2>1, <2>2, <2>4, UpdateTakesAll
<1>2. Spec => [](TypeOK /\ ClientsKnow)
  BY ClientsAreTold
<1>3. QED
  BY <1>1, <1>2, PTL DEF Spec, AllOrNothing

-----------------------------------------------------------------------------
(* What clients are shown in answer.                                        *)

(* Only the handlers finish a request.                                      *)
LEMMA WhoHandles ==
  ASSUME Next, Handled
  PROVE  \/ HandleNewVector /\ request.tag = "new"
         \/ HandleGetProperties /\ request.tag = "getProperties"
         \/ HandleUnknown /\ request.tag = "unknown"
BY DEF Next, Handled, Handles, ReadRequests, ReadElement, EndOfRead, HandleNewVector,
       HandleGetProperties, GetElsewhere, HandleUnknown, PluginSets, PluginSends

(* All that is marked is printed.                                           *)
LEMMA SetPropertyShows ==
  ASSUME NEW s, Consistent(s), NEW v \in Vectors, NEW p \in Of(v) \intersect s.changed
  PROVE  /\ SetProperty(s, v).shown[p] = Shows(p, s.value[p])
         /\ SetProperty(s, v).value = s.value
<1> DEFINE f == [q \in Properties |->
                  IF q \in Of(v) \intersect s.changed
                    THEN Shows(q, s.value[q]) ELSE s.shown[q]]
<1>1. SetProperty(s, v) = [s EXCEPT !.shown = f, !.changed = @ \ Of(v)]
  BY DEF SetProperty
<1>2. p \in Properties
  BY MembersOfAVector
<1>3. f[p] = Shows(p, s.value[p])
  BY <1>2
<1> HIDE DEF f
<1>4. SetProperty(s, v).shown = f /\ SetProperty(s, v).value = s.value
  BY <1>1 DEF Consistent, Contents
<1>5. QED
  BY <1>3, <1>4

(* What is forced is printed, all of it.                                    *)
LEMMA TellAllShows ==
  ASSUME NEW s, Consistent(s), NEW v \in Vectors, NEW p \in Of(v)
  PROVE  TellAll(s, v).shown[p] = Shows(p, TellAll(s, v).value[p])
<1> DEFINE t == [s EXCEPT !.changed = @ \union Of(v)]
<1>1. t.value = s.value /\ t.changed = s.changed \union Of(v) /\ t.shown = s.shown
  BY DEF Consistent, Contents
<1>2. t \in Contents
  BY MembersOfAVector DEF Consistent, Contents
<1>3. TellAll(s, v) = SetProperty(t, v)
  BY DEF TellAll
<1> HIDE DEF t
<1>4. Consistent(t)
  BY <1>1, <1>2 DEF Consistent, Known
<1>5. p \in Of(v) \intersect t.changed
  BY <1>1
<1>6. QED
  BY <1>3, <1>4, <1>5, SetPropertyShows

(* A definition prints every value but those of BLOBs.                      *)
LEMMA DefPropertyShows ==
  ASSUME NEW s, Consistent(s), NEW vs \in SUBSET Vectors, NEW p \in Properties,
         p[1] \in vs, Kind[p[1]] # "blob"
  PROVE  DefProperty(s, vs).shown[p] = Shows(p, DefProperty(s, vs).value[p])
<1> DEFINE f == [q \in Properties |->
                  IF q[1] \in vs /\ Kind[q[1]] # "blob"
                    THEN Shows(q, s.value[q]) ELSE s.shown[q]]
           c == {q \in s.changed : q[1] \notin vs}
<1>1. DefProperty(s, vs) = [s EXCEPT !.shown = f, !.changed = c]
  BY DEF DefProperty
<1>2. f[p] = Shows(p, s.value[p])
  OBVIOUS
<1> HIDE DEF f, c
<1>3. DefProperty(s, vs).shown = f /\ DefProperty(s, vs).value = s.value
  BY <1>1 DEF Consistent, Contents
<1>4. QED
  BY <1>2, <1>3

(* What a plug-in takes it shows, as asked.                                 *)
LEMMA UpdateShows ==
  ASSUME TypeOK, ClientsKnow, NEW v \in Vectors, NEW items \in Seq(Items(v)),
         Update(v, items), DeviceOf[v] \in Implemented, NEW p \in Named(v, items)
  PROVE  /\ shown'[p] = Shows(p, LastDatum(items, p))
         /\ Kind[p[1]] # "blob" => shown'[p] = Shows(p, value'[p])
<1> DEFINE f == [q \in Properties |->
                  IF q \in Named(v, items) THEN LastDatum(items, q) ELSE value[q]]
           s == SetValues(State, v, items)
           t == SetProperty(s, v)
           u == DeleteElement(t, v, items)
<1>1. p \in Of(v) /\ p \in Properties /\ p[1] = v
  BY MembersOfAVector DEF Named
<1>2. Consistent(s)
  BY StateIs, SetValuesSound
<1>3. s.value = f /\ s.changed = changed \union Named(v, items)
  BY DEF SetValues, State
<1>4. f[p] = LastDatum(items, p)
  BY <1>1
<1>5. u.shown = t.shown
  BY DEF DeleteElement, SetProperty, SetValues, State
<1>6. Kind[v] # "blob" => u = t
  BY DEF DeleteElement
<1>7. shown' = u.shown /\ value' = u.value
  BY DEF Update, Become
<1> HIDE DEF f, s
<1>8. t.shown[p] = Shows(p, s.value[p]) /\ t.value = s.value
  BY <1>1, <1>2, <1>3, SetPropertyShows
<1> HIDE DEF t, u
<1>9. QED
  BY <1>1, <1>3, <1>4, <1>5, <1>6, <1>7, <1>8

(* RequestsAnswered: a client that asks for new values of one of the        *)
(* driver's devices is shown what it asked for, or told why not, and shown  *)
(* what holds (PropertyVectorHandler::handle and Device::update).           *)
THEOREM RequestsGetAnswers == Spec => RequestsAnswered
<1>1. TypeOK /\ ClientsKnow /\ [Next]_vars =>
        [Handled /\ request.tag = "new" /\ request.device \in Devices =>
           /\ \/ "message" \in answer'
              \/ request.vector \in Vectors /\ Kind[request.vector] = "text"
                    /\ DeviceOf[request.vector] \notin Implemented
              \/ \A p \in Named(request.vector, request.items) :
                   shown'[p] = Shows(p, LastDatum(request.items, p))
           /\ request.vector \in Writable =>
                \A p \in Named(request.vector, request.items) :
                  Kind[p[1]] # "blob" => shown'[p] = Shows(p, value'[p])]_vars
  <2> DEFINE v == request.vector  items == request.items
  <2> SUFFICES ASSUME TypeOK, ClientsKnow, Next, Handled, request.tag = "new",
                      request.device \in Devices
               PROVE  /\ \/ "message" \in answer'
                         \/ v \in Vectors /\ Kind[v] = "text" /\ DeviceOf[v] \notin Implemented
                         \/ \A p \in Named(v, items) : shown'[p] = Shows(p, LastDatum(items, p))
                      /\ v \in Writable =>
                           \A p \in Named(v, items) : Kind[p[1]] # "blob" => shown'[p] = Shows(p, value'[p])
    OBVIOUS
  <2>1. HandleNewVector /\ ~ForOthers(request)
    BY WhoHandles, RequestsAssumption DEF ForOthers
  <2>2. CASE ~MayWrite(request)
    BY <2>1, <2>2 DEF HandleNewVector, Handles, Answers, MayWrite
  <2>3. CASE MayWrite(request)
    <3>1. v \in Vectors /\ items \in Seq(Items(v))
      BY <2>1, <2>3, NewVectorKnown DEF Handled
    <3>2. Consistent(State)
      BY StateIs
    <3>3. \A p \in Named(v, items) : p \in Of(v)
      BY DEF Named
    <3>4. ASSUME Become(TellAll(State, v))
          PROVE  \A p \in Named(v, items) : shown'[p] = Shows(p, value'[p])
      BY <3>1, <3>2, <3>3, <3>4, TellAllShows DEF Become
    <3>5. CASE ItemsRight(v, items)
      <4>1. Update(v, items)
        BY <2>1, <2>3, <3>5 DEF HandleNewVector, Handles
      <4>2. CASE DeviceOf[v] \in Implemented
        BY <3>1, <4>1, <4>2, UpdateShows
      <4>3. CASE DeviceOf[v] \notin Implemented
        <5>1. /\ Become(TellAll(State, v))
              /\ Kind[v] = "text" \/ answer' = {"values", "message"}
          BY <4>1, <4>3 DEF Update, Answers
        <5>2. QED
          BY <3>1, <3>4, <4>3, <5>1
      <4>4. QED
        BY <4>2, <4>3
    <3>6. CASE ~ItemsRight(v, items)
      <4>1. Become(TellAll(State, v)) /\ answer' = {"values", "message"}
        BY <2>1, <2>3, <3>6 DEF HandleNewVector, Handles, Answers
      <4>2. QED
        BY <3>4, <4>1
    <3>7. QED
      BY <3>5, <3>6
  <2>4. QED
    BY <2>2, <2>3
<1>2. QED
  BY <1>1, ClientsAreTold, PTL DEF Spec, RequestsAnswered

(* DefinitionsComplete: who asks for the properties is shown them all, but  *)
(* for BLOBs, whatever has been shown before (INDIHandler::handle and       *)
(* indiDefProperty).                                                        *)
THEOREM DefinitionsShowAll == Spec => DefinitionsComplete
<1>1. TypeOK /\ ClientsKnow /\ [Next]_vars =>
        [Handled /\ request.tag = "getProperties" /\ request.version = "ours" =>
           \A p \in Properties :
             Kind[p[1]] # "blob" /\ request.device \in {Missing, DeviceOf[p[1]]}
               => shown'[p] = Shows(p, value'[p])]_vars
  <2> SUFFICES ASSUME TypeOK, ClientsKnow, Next, Handled, request.tag = "getProperties",
                      request.version = "ours", NEW p \in Properties,
                      Kind[p[1]] # "blob", request.device \in {Missing, DeviceOf[p[1]]}
               PROVE  shown'[p] = Shows(p, value'[p])
    OBVIOUS
  <2> DEFINE vs == {v \in Vectors : request.device \in {Missing, DeviceOf[v]}}
  <2>1. Become(DefProperty(State, vs))
    BY WhoHandles DEF HandleGetProperties, Handles
  <2>2. p[1] \in vs /\ vs \in SUBSET Vectors
    BY PropertiesHaveVectors
  <2> HIDE DEF vs
  <2>3. QED
    BY <2>1, <2>2, StateIs, DefPropertyShows DEF Become
<1>2. QED
  BY <1>1, ClientsAreTold, PTL DEF Spec, DefinitionsComplete

=============================================================================
