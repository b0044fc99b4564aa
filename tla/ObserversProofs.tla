-------------------------- MODULE ObserversProofs --------------------------
(***************************************************************************)
(* Theorems about Observers, for any devices, vectors and lists.           *)
(***************************************************************************)
EXTENDS Observers, TLAPS, SequenceTheorems, WellFoundedInduction

(* What the handlers make of the vectors and the pipe.                      *)
Stores ==
  [datum : [Keys -> Data], pipe : {q \in Seq(Keys) : Len(q) <= Capacity},
   fresh : SUBSET Keys, blocked : BOOLEAN]

(* From s to t no more than n events were written, one for every change     *)
(* that observers are to find out about, unless the pipe was full.          *)
Tells(s, t, n) ==
  /\ s.blocked => t.blocked
  /\ ~t.blocked =>
       /\ ToSet(s.pipe) \subseteq ToSet(t.pipe)
       /\ \A k \in t.fresh : \/ observers[k] = <<>> \/ k \in ToSet(t.pipe)
                             \/ k \in s.fresh /\ t.datum[k] = s.datum[k]
  /\ ~s.blocked /\ Len(s.pipe) + n <= Capacity
       => ~t.blocked /\ Len(t.pipe) <= Len(s.pipe) + n

(* A plug-in that answers an update with a change, and lists with one such. *)
Answers(d) == d \in Implemented /\ Reacts[d] # {}
OneAnswer(q) == \A i, j \in DOMAIN q : Answers(q[i]) /\ Answers(q[j]) => i = j

-----------------------------------------------------------------------------
(* Lemmas about iteration and sequences.                                    *)

(* What holds at first and is kept by every step holds in the end.          *)
LEMMA StaysIn ==
  ASSUME NEW f, NEW Q, NEW h \in Nat, f[0] \in Q[0],
         \A n \in 1 .. h : f[n - 1] \in Q[n - 1] => f[n] \in Q[n]
  PROVE  f[h] \in Q[h]
<1> DEFINE Bad == {l \in 0 .. h : f[l] \notin Q[l]}
<1>1. /\ Bad \in SUBSET Nat /\ Bad \subseteq 0 .. h
      /\ \A l \in 0 .. h : l \in Bad <=> f[l] \notin Q[l]
  OBVIOUS
<1> HIDE DEF Bad
<1>2. SUFFICES ASSUME Bad # {} PROVE FALSE
  BY <1>1
<1>3. PICK l \in Bad : \A m \in Bad : ~(<<m, l>> \in OpToRel(<, Nat))
  BY <1>1, <1>2, NatLessThanWellFounded, WFMin
<1>4. \A m \in Bad : ~(m < l)
  BY <1>1, <1>3 DEF OpToRel
<1>5. l \in 1 .. h
  BY <1>1
<1>6. l - 1 \in 0 .. h /\ l - 1 \notin Bad
  BY <1>4, <1>5
<1>7. QED
  BY <1>1, <1>5, <1>6

(* There is a function that starts with s and goes on by steps g.           *)
LEMMA Iterates ==
  ASSUME NEW S, NEW s \in S, NEW h \in Nat, NEW g \in [1 .. h -> [S -> S]]
  PROVE  \E f \in [0 .. h -> S] : f[0] = s /\ \A n \in 1 .. h : f[n] = g[n][f[n - 1]]
<1> DEFINE Runs(f, l) == /\ f \in [0 .. l -> S] /\ f[0] = s
                         /\ \A n \in 1 .. l : f[n] = g[n][f[n - 1]]
           Can(l) == \E f : Runs(f, l)
           Is == [l \in 0 .. h |-> {x \in {0} : Can(l)}]
           z  == [l \in 0 .. h |-> 0]
<1>1. Can(0)
  <2> DEFINE e == [m \in 0 .. 0 |-> s]
  <2>1. Runs(e, 0)
    OBVIOUS
  <2>2. QED
    BY <2>1
<1>2. ASSUME NEW l \in 1 .. h, Can(l - 1) PROVE Can(l)
  <2>1. PICK f : Runs(f, l - 1)
    BY <1>2
  <2> DEFINE last == g[l][f[l - 1]]
             e == [m \in 0 .. l |-> IF m = l THEN last ELSE f[m]]
  <2>2. last \in S
    BY <2>1
  <2>3. /\ e[l] = last /\ \A m \in 0 .. l - 1 : e[m] = f[m]
        /\ e \in [0 .. l -> S]
    BY <2>1, <2>2
  <2> HIDE DEF e
  <2>4. e[0] = s
    BY <2>1, <2>3
  <2>5. ASSUME NEW n \in 1 .. l PROVE e[n] = g[n][e[n - 1]]
    <3>1. CASE n = l
      BY <2>3, <3>1
    <3>2. CASE n # l
      <4>1. n \in 1 .. l - 1 /\ n \in 0 .. l - 1 /\ n - 1 \in 0 .. l - 1
        BY <3>2
      <4>2. QED
        BY <2>1, <2>3, <4>1
    <3>3. QED
      BY <3>1, <3>2
  <2>6. Runs(e, l)
    BY <2>3, <2>4, <2>5
  <2>7. QED
    BY <2>6
<1>3. Can(h)
  <2> HIDE DEF Can
  <2>1. z[0] \in Is[0] /\ \A l \in 1 .. h : z[l - 1] \in Is[l - 1] => z[l] \in Is[l]
    BY <1>1, <1>2
  <2>2. z[h] \in Is[h] => Can(h)
    OBVIOUS
  <2> HIDE DEF Is, z
  <2>3. QED
    BY <2>1, <2>2, StaysIn
<1>4. QED
  BY <1>3

(* The members of a sequence that grows or shrinks.                         *)
LEMMA ToSetAppend ==
  ASSUME NEW T, NEW q \in Seq(T), NEW e \in T
  PROVE  ToSet(Append(q, e)) = ToSet(q) \union {e}
<1>1. /\ Len(q) \in Nat /\ DOMAIN q = 1 .. Len(q) /\ DOMAIN Append(q, e) = 1 .. Len(q) + 1
      /\ Append(q, e)[Len(q) + 1] = e
      /\ \A i \in 1 .. Len(q) : Append(q, e)[i] = q[i]
  BY AppendProperties, LenProperties
<1>2. QED
  BY <1>1 DEF ToSet

(* So do those of one that loses its first.                                 *)
LEMMA ToSetTail ==
  ASSUME NEW T, NEW q \in Seq(T), q # <<>>
  PROVE  /\ Head(q) \in T /\ Tail(q) \in Seq(T) /\ Len(Tail(q)) = Len(q) - 1
         /\ ToSet(q) = {Head(q)} \union ToSet(Tail(q))
<1>1. /\ Len(q) \in Nat /\ DOMAIN q = 1 .. Len(q) /\ Len(q) # 0
      /\ Head(q) \in T /\ Tail(q) \in Seq(T) /\ Len(Tail(q)) = Len(q) - 1
      /\ Head(q) = q[1] /\ \A i \in 1 .. Len(Tail(q)) : Tail(q)[i] = q[i + 1]
  BY HeadTailProperties, LenProperties, EmptySeq
<1>2. DOMAIN Tail(q) = 1 .. Len(q) - 1
  BY <1>1, LenProperties
<1>3. QED
  <2>1. ASSUME NEW x \in ToSet(q) PROVE x = Head(q) \/ x \in ToSet(Tail(q))
    <3>1. PICK i \in 1 .. Len(q) : x = q[i]
      BY <1>1 DEF ToSet
    <3>2. CASE i # 1
      <4>1. i - 1 \in 1 .. Len(q) - 1 /\ Tail(q)[i - 1] = x
        BY <1>1, <3>1, <3>2
      <4>2. QED
        BY <1>2, <4>1 DEF ToSet
    <3>3. QED
      BY <1>1, <3>1, <3>2
  <2>2. ASSUME NEW x \in ToSet(Tail(q)) PROVE x \in ToSet(q)
    <3>1. PICK i \in 1 .. Len(q) - 1 : x = Tail(q)[i]
      BY <1>2 DEF ToSet
    <3>2. i + 1 \in DOMAIN q /\ x = q[i + 1]
      BY <1>1, <3>1
    <3>3. QED
      BY <3>2 DEF ToSet
  <2>3. Head(q) \in ToSet(q)
    BY <1>1 DEF ToSet
  <2>4. QED
    BY <1>1, <2>1, <2>2, <2>3

(* Taking every mention of a device off a list.                             *)
LEMMA WithoutIs ==
  ASSUME NEW q \in Seq(Devices), NEW d
  PROVE  /\ Without(q, d) \in Seq(Devices)
         /\ ToSet(Without(q, d)) = ToSet(q) \ {d}
         /\ OneAnswer(q) => OneAnswer(Without(q, d))
<1> DEFINE h == Len(q)
           Upto(n) == {q[m] : m \in 1 .. n} \ {d}
           g == [n \in 1 .. h |-> [r \in Seq(Devices) |-> IF q[n] = d THEN r ELSE Append(r, q[n])]]
           Q == [n \in 0 .. h |-> {r \in Seq(Devices) : /\ ToSet(r) = Upto(n)
                                                        /\ OneAnswer(q) => OneAnswer(r)}]
<1>1. h \in Nat /\ DOMAIN q = 1 .. h /\ \A n \in 1 .. h : q[n] \in Devices
  BY LenProperties, ElementOfSeq
<1> HIDE DEF h
<1>2. g \in [1 .. h -> [Seq(Devices) -> Seq(Devices)]]
  <2>1. \A n \in 1 .. h : \A r \in Seq(Devices) :
          (IF q[n] = d THEN r ELSE Append(r, q[n])) \in Seq(Devices)
    BY <1>1, AppendProperties
  <2>2. QED
    BY <2>1
<1>3. <<>> \in Seq(Devices) /\ <<>> \in Q[0]
  <2>1. <<>> \in Seq(Devices) /\ DOMAIN <<>> = {}
    BY EmptySeq, LenProperties
  <2>2. ToSet(<<>>) = {} /\ Upto(0) = {} /\ OneAnswer(<<>>)
    BY <2>1 DEF ToSet, OneAnswer
  <2>3. QED
    BY <1>1, <2>1, <2>2
<1>4. ASSUME NEW n \in 1 .. h, NEW r \in Q[n - 1] PROVE g[n][r] \in Q[n]
  <2>1. /\ r \in Seq(Devices) /\ ToSet(r) = Upto(n - 1)
        /\ OneAnswer(q) => OneAnswer(r)
    BY <1>1, <1>4
  <2>2. {q[m] : m \in 1 .. n} = {q[m] : m \in 1 .. n - 1} \union {q[n]}
    BY <1>1
  <2>3. CASE q[n] = d
    <3>1. Upto(n) = Upto(n - 1) /\ g[n][r] = r
      BY <2>1, <2>2, <2>3
    <3>2. r \in Q[n]
      <4> HIDE DEF Upto
      <4>1. n \in 0 .. h
        BY <1>1
      <4>2. QED
        BY <2>1, <3>1, <4>1
    <3>3. QED
      BY <3>1, <3>2
  <2>4. CASE q[n] # d
    <3> DEFINE t == Append(r, q[n])
    <3>0. g[n][r] = t
      BY <2>1, <2>4
    <3>1. Upto(n) = Upto(n - 1) \union {q[n]}
      BY <2>2, <2>4
    <3>2. t \in Seq(Devices) /\ ToSet(t) = ToSet(r) \union {q[n]}
      BY <1>1, <2>1, AppendProperties, ToSetAppend
    <3>3. ASSUME OneAnswer(q) PROVE OneAnswer(t)
      <4>1. /\ Len(r) \in Nat /\ DOMAIN r = 1 .. Len(r) /\ DOMAIN t = 1 .. Len(r) + 1
            /\ t[Len(r) + 1] = q[n] /\ \A i \in 1 .. Len(r) : t[i] = r[i]
        BY <1>1, <2>1, AppendProperties, LenProperties
      <4> HIDE DEF t
      <4>2. ASSUME NEW i \in 1 .. Len(r), Answers(t[i]) PROVE ~Answers(q[n])
        <5>1. t[i] \in ToSet(r)
          BY <4>1 DEF ToSet
        <5>2. PICK m \in 1 .. n - 1 : t[i] = q[m]
          BY <2>1, <5>1
        <5>3. m \in DOMAIN q /\ n \in DOMAIN q /\ m # n
          BY <1>1
        <5>4. QED
          BY <3>3, <4>2, <5>2, <5>3 DEF OneAnswer
      <4>3. \A i, j \in 1 .. Len(r) : Answers(t[i]) /\ Answers(t[j]) => i = j
        BY <2>1, <3>3, <4>1 DEF OneAnswer
      <4>4. \A i \in DOMAIN t : i \in 1 .. Len(r) \/ i = Len(r) + 1
        BY <4>1
      <4>5. QED
        BY <4>1, <4>2, <4>3, <4>4 DEF OneAnswer
    <3>4. t \in Q[n]
      <4> HIDE DEF t, Upto
      <4>1. n \in 0 .. h
        BY <1>1
      <4>2. ToSet(t) = Upto(n)
        BY <2>1, <3>1, <3>2
      <4>3. OneAnswer(q) => OneAnswer(t)
        BY <3>3
      <4>4. QED
        BY <3>2, <4>1, <4>2, <4>3
    <3>5. QED
      BY <3>0, <3>4
  <2>5. QED
    BY <2>3, <2>4
<1>5. Q \in [0 .. h -> SUBSET Seq(Devices)]
  OBVIOUS
<1> DEFINE Step(f, n) == IF n = 0 THEN <<>>
                         ELSE IF q[n] = d THEN f[n - 1] ELSE Append(f[n - 1], q[n])
<1>6. PICK f \in [0 .. h -> Seq(Devices)] :
        f[0] = <<>> /\ \A n \in 1 .. h : f[n] = g[n][f[n - 1]]
  <2> DEFINE S == Seq(Devices)
             e == <<>>
  <2>0. h \in Nat
    BY <1>1
  <2>1. e \in S /\ g \in [1 .. h -> [S -> S]]
    BY <1>2, <1>3
  <2> HIDE DEF g, S, e
  <2>2. \E f \in [0 .. h -> S] : f[0] = e /\ \A n \in 1 .. h : f[n] = g[n][f[n - 1]]
    BY SMTT(30), <2>1, <2>0, Iterates
  <2>3. QED
    BY <2>2 DEF S, e
<1>7. f = [n \in 0 .. h |-> Step(f, n)]
  <2>1. ASSUME NEW n \in 0 .. h PROVE f[n] = Step(f, n)
    <3>1. CASE n # 0
      <4>1. n \in 1 .. h /\ f[n - 1] \in Seq(Devices)
        BY <1>1, <3>1
      <4>2. QED
        BY <1>6, <3>1, <4>1
    <3>2. QED
      BY <1>6, <3>1
  <2>2. QED
    BY <2>1
<1> DEFINE w == CHOOSE e : e = [n \in 0 .. h |-> Step(e, n)]
<1>8. w = [n \in 0 .. h |-> Step(w, n)]
  BY <1>7
<1>9. Without(q, d) = w[h]
  BY DEF Without, h
<1>10. w[0] \in Q[0] /\ \A n \in 1 .. h : w[n - 1] \in Q[n - 1] => w[n] \in Q[n]
  <2>1. w[0] = <<>>
    <3>1. 0 \in 0 .. h /\ Step(w, 0) = <<>>
      BY <1>1
    <3> HIDE DEF w, Step
    <3>2. QED
      BY <1>8, <3>1
  <2>2. ASSUME NEW n \in 1 .. h, w[n - 1] \in Q[n - 1] PROVE w[n] \in Q[n]
    <3>1. w[n - 1] \in Seq(Devices) /\ n \in 0 .. h /\ n # 0
      BY <1>1, <2>2
    <3>2. w[n] = g[n][w[n - 1]]
      <4>1. w[n] = Step(w, n)
        BY <1>8, <3>1
      <4>2. QED
        BY <3>1, <4>1
    <3>3. QED
      BY <1>4, <2>2, <3>2
  <2>3. QED
    BY <1>3, <2>1, <2>2
<1>11. w[h] \in Q[h]
  <2> HIDE DEF w, Q
  <2>1. QED
    BY <1>1, <1>10, StaysIn
<1>12. Upto(h) = ToSet(q) \ {d}
  BY <1>1 DEF ToSet, h
<1>13. w[h] \in Seq(Devices) /\ ToSet(w[h]) = Upto(h) /\ (OneAnswer(q) => OneAnswer(w[h]))
  <2> HIDE DEF w, Upto
  <2>1. QED
    BY <1>1, <1>11
<1>14. QED
  BY <1>9, <1>12, <1>13

-----------------------------------------------------------------------------
(* What is written to the pipe.                                             *)

(* Nothing happens.                                                         *)
LEMMA NoChangeTells ==
  ASSUME NEW s \in Stores
  PROVE  Tells(s, s, 0)
<1>1. Len(s.pipe) \in Nat
  BY LenProperties DEF Stores
<1>2. QED
  BY <1>1 DEF Tells

(* One thing happens after another.                                         *)
LEMMA TellsOnward ==
  ASSUME NEW s \in Stores, NEW t \in Stores, NEW u \in Stores, NEW m \in Nat, NEW n \in Nat,
         ObserversAssumption, Tells(s, t, m), Tells(t, u, n)
  PROVE  Tells(s, u, m + n)
<1>1. /\ Len(s.pipe) \in Nat /\ Len(t.pipe) \in Nat /\ Len(u.pipe) \in Nat /\ Capacity \in Nat
  BY LenProperties DEF Stores, ObserversAssumption
<1>2. s.blocked => u.blocked
  BY DEF Tells
<1>3. ASSUME ~u.blocked
      PROVE  /\ ToSet(s.pipe) \subseteq ToSet(u.pipe)
             /\ \A k \in u.fresh : \/ observers[k] = <<>> \/ k \in ToSet(u.pipe)
                                   \/ k \in s.fresh /\ u.datum[k] = s.datum[k]
  <2>1. ~t.blocked
    BY <1>3 DEF Tells
  <2>2. ToSet(s.pipe) \subseteq ToSet(t.pipe) /\ ToSet(t.pipe) \subseteq ToSet(u.pipe)
    BY <1>3, <2>1 DEF Tells
  <2>3. QED
    BY <1>3, <2>1, <2>2 DEF Tells
<1>4. ASSUME ~s.blocked, Len(s.pipe) + (m + n) <= Capacity
      PROVE  ~u.blocked /\ Len(u.pipe) <= Len(s.pipe) + (m + n)
  <2> DEFINE a == Len(s.pipe)
             b == Len(t.pipe)
             c == Len(u.pipe)
  <2>1. /\ ~s.blocked /\ a + m <= Capacity => ~t.blocked /\ b <= a + m
        /\ ~t.blocked /\ b + n <= Capacity => ~u.blocked /\ c <= b + n
    BY DEF Tells
  <2>2. /\ a \in Nat /\ b \in Nat /\ c \in Nat /\ Capacity \in Nat
        /\ ~s.blocked /\ a + (m + n) <= Capacity
    BY <1>1, <1>4
  <2> HIDE DEF a, b, c
  <2>3. ~t.blocked /\ b <= a + m
    BY <2>1, <2>2
  <2>4. ~u.blocked /\ c <= b + n
    BY <2>1, <2>2, <2>3
  <2>5. c <= a + (m + n)
    BY <2>2, <2>3, <2>4
  <2>6. QED
    BY <2>4, <2>5 DEF a, c
<1>5. QED
  BY <1>2, <1>3, <1>4 DEF Tells

(* A change writes one event, or blocks.                                    *)
LEMMA ChangeTells ==
  ASSUME NEW s \in Stores, NEW k \in Keys, NEW x \in Data
  PROVE  Change(s, k, x) \in Stores /\ Tells(s, Change(s, k, x), 1)
<1> DEFINE c == [s EXCEPT !.datum[k] = x, !.fresh = @ \union {k}]
           t == Change(s, k, x)
<1>1. /\ Len(s.pipe) \in Nat /\ s.pipe \in Seq(Keys) /\ Len(s.pipe) <= Capacity
      /\ Capacity \in Nat
  BY ObserversAssumption, LenProperties DEF Stores
<1>2. /\ c \in Stores /\ c.pipe = s.pipe /\ c.blocked = s.blocked
      /\ c.fresh = s.fresh \union {k}
      /\ \A l \in Keys : l # k => c.datum[l] = s.datum[l]
  BY DEF Stores
<1> HIDE DEF c
<1>3. CASE s.blocked
  <2>1. t = s
    BY <1>3 DEF Change
  <2>2. QED
    BY <1>3, <2>1 DEF Tells
<1>4. CASE ~s.blocked
  <2>1. t = GenerateEvent(c, k)
    BY <1>4 DEF Change, c
  <2>2. CASE observers[k] = <<>>
    <3>1. t = c
      BY <2>1, <2>2 DEF GenerateEvent
    <3>2. QED
      BY <1>1, <1>2, <1>4, <2>2, <3>1 DEF Tells, Stores
  <2>3. CASE observers[k] # <<>> /\ Len(s.pipe) = Capacity
    <3>1. t = [c EXCEPT !.blocked = TRUE]
      BY <1>2, <2>1, <2>3 DEF GenerateEvent
    <3>2. t \in Stores /\ t.blocked
      BY <1>2, <3>1 DEF Stores
    <3>3. QED
      BY <1>1, <2>3, <3>2 DEF Tells
  <2>4. CASE observers[k] # <<>> /\ Len(s.pipe) # Capacity
    <3> DEFINE p == Append(s.pipe, k)
    <3>1. t = [c EXCEPT !.pipe = p]
      BY <1>2, <2>1, <2>4 DEF GenerateEvent
    <3>2. p \in Seq(Keys) /\ Len(p) = Len(s.pipe) + 1 /\ ToSet(p) = ToSet(s.pipe) \union {k}
      BY <1>1, AppendProperties, ToSetAppend
    <3> HIDE DEF p
    <3>3. p \in {q \in Seq(Keys) : Len(q) <= Capacity}
      BY <1>1, <2>4, <3>2
    <3>4. t \in Stores /\ t.pipe = p /\ t.datum = c.datum /\ t.fresh = c.fresh /\ ~t.blocked
      BY <1>2, <1>4, <3>1, <3>3 DEF Stores
    <3>5. \A l \in t.fresh : l \in Keys
      BY <3>4 DEF Stores
    <3> HIDE DEF t
    <3>6. Tells(s, t, 1)
      BY <1>1, <1>2, <1>4, <3>2, <3>4, <3>5 DEF Tells
    <3>7. QED
      BY <3>4, <3>6 DEF t
  <2>5. QED
    BY <2>2, <2>3, <2>4
<1>5. QED
  BY <1>3, <1>4

(* What changes without an event is no longer to be found out about.        *)
LEMMA SilenceTells ==
  ASSUME NEW s \in Stores, NEW v \in Vectors, NEW x \in Data
  PROVE  SetSilently(s, v, x) \in Stores /\ Tells(s, SetSilently(s, v, x), 0)
<1> DEFINE k == <<v, "value">>
           t == SetSilently(s, v, x)
<1>1. k \in Keys /\ Len(s.pipe) \in Nat
  BY LenProperties DEF Keys, Topics, Stores
<1>2. /\ t \in Stores /\ t.pipe = s.pipe /\ t.blocked = s.blocked
      /\ t.fresh = s.fresh \ {k}
      /\ \A l \in Keys : l # k => t.datum[l] = s.datum[l]
  BY <1>1 DEF Stores, SetSilently
<1>3. \A l \in t.fresh : l \in Keys /\ l # k /\ l \in s.fresh
  BY <1>2 DEF Stores
<1> HIDE DEF t
<1>4. Tells(s, t, 0)
  BY <1>1, <1>2, <1>3 DEF Tells
<1>5. QED
  BY <1>2, <1>4 DEF t

(* Changes one after another write so many events.                          *)
LEMMA ChangesTell ==
  ASSUME NEW s \in Stores, NEW h \in Nat, NEW key \in [1 .. h -> Keys], NEW x \in Data,
         NEW w, w[0] = s, \A n \in 1 .. h : w[n] = Change(w[n - 1], key[n], x)
  PROVE  w[h] \in Stores /\ Tells(s, w[h], h)
<1> DEFINE Q == [n \in 0 .. h |-> {t \in Stores : Tells(s, t, n)}]
<1>1. w[0] \in Q[0]
  BY NoChangeTells
<1>2. ASSUME NEW n \in 1 .. h, w[n - 1] \in Q[n - 1] PROVE w[n] \in Q[n]
  <2> DEFINE t == w[n - 1]
             u == w[n]
  <2>1. /\ n - 1 \in 0 .. h /\ n \in 0 .. h /\ n - 1 \in Nat /\ n - 1 + 1 = n
        /\ t \in Stores /\ Tells(s, t, n - 1)
    BY <1>2
  <2>2. u = Change(t, key[n], x)
    OBVIOUS
  <2> HIDE DEF t, u, Q
  <2>3. u \in Stores /\ Tells(t, u, 1)
    BY <2>1, <2>2, ChangeTells
  <2>4. Tells(s, u, n - 1 + 1)
    BY <2>1, <2>3, ObserversAssumption, TellsOnward
  <2>5. QED
    BY <2>1, <2>3, <2>4 DEF u, Q
<1>3. w[h] \in Q[h]
  <2> HIDE DEF Q
  <2>1. QED
    BY <1>1, <1>2, StaysIn
<1>4. QED
  BY <1>3

(* There is such a sequence of changes.                                     *)
LEMMA ChangesCan ==
  ASSUME NEW s \in Stores, NEW h \in Nat, NEW key \in [1 .. h -> Keys], NEW x \in Data
  PROVE  \E f \in [0 .. h -> Stores] :
           f[0] = s /\ \A n \in 1 .. h : f[n] = Change(f[n - 1], key[n], x)
<1> DEFINE g == [n \in 1 .. h |-> [t \in Stores |-> Change(t, key[n], x)]]
<1>1. g \in [1 .. h -> [Stores -> Stores]]
  BY ChangeTells
<1>2. PICK f \in [0 .. h -> Stores] :
        f[0] = s /\ \A n \in 1 .. h : f[n] = g[n][f[n - 1]]
  <2> DEFINE S == Stores
  <2>1. s \in S /\ h \in Nat /\ g \in [1 .. h -> [S -> S]]
    BY <1>1
  <2> HIDE DEF g, S
  <2>2. \E f \in [0 .. h -> S] : f[0] = s /\ \A n \in 1 .. h : f[n] = g[n][f[n - 1]]
    BY SMTT(30), <2>1, Iterates
  <2>3. QED
    BY <2>2 DEF S
<1>3. ASSUME NEW n \in 1 .. h PROVE f[n] = Change(f[n - 1], key[n], x)
  <2>1. f[n - 1] \in Stores
    OBVIOUS
  <2>2. QED
    BY <1>2, <2>1
<1>4. QED
  BY <1>2, <1>3

(* on() and off() write an event for every switch at most,                  *)
LEMMA AllSwitchesTell ==
  ASSUME NEW s \in Stores, NEW v \in Vectors, NEW x \in Data
  PROVE  AllSwitches(s, v, x) \in Stores /\ Tells(s, AllSwitches(s, v, x), Members)
<1> DEFINE h == Members
           key == [n \in 1 .. h |-> <<v, "value">>]
           Step(f, n) == IF n = 0 THEN s ELSE SetValue(f[n - 1], v, x)
           w == CHOOSE f : f = [n \in 0 .. h |-> Step(f, n)]
<1>1. h \in Nat /\ key \in [1 .. h -> Keys]
  BY ObserversAssumption DEF Keys, Topics
<1>2. PICK f \in [0 .. h -> Stores] :
        f[0] = s /\ \A n \in 1 .. h : f[n] = Change(f[n - 1], key[n], x)
  <2> HIDE DEF h, key
  <2>1. QED
    BY <1>1, ChangesCan
<1>3. f = [n \in 0 .. h |-> Step(f, n)]
  <2>1. ASSUME NEW n \in 0 .. h PROVE f[n] = Step(f, n)
    <3>1. n # 0 => n \in 1 .. h
      BY <1>1
    <3>2. QED
      BY <1>2, <3>1 DEF SetValue
  <2>2. QED
    BY <2>1
<1>4. w = [n \in 0 .. h |-> Step(w, n)]
  BY <1>3
<1>5. AllSwitches(s, v, x) = w[h]
  BY DEF AllSwitches
<1>6. w[0] = s /\ \A n \in 1 .. h : w[n] = Change(w[n - 1], key[n], x)
  <2>1. 0 \in 0 .. h /\ Step(w, 0) = s
    BY <1>1
  <2>2. \A n \in 1 .. h : n \in 0 .. h /\ Step(w, n) = Change(w[n - 1], key[n], x)
    BY <1>1 DEF SetValue
  <2> HIDE DEF w, Step, h, key
  <2>3. QED
    BY <1>4, <2>1, <2>2
<1>7. w[h] \in Stores /\ Tells(s, w[h], h)
  <2> HIDE DEF w, h, key
  <2>1. QED
    BY <1>1, <1>6, ChangesTell
<1>8. QED
  BY <1>5, <1>7

(* and a new status one for every vector of the device.                     *)
LEMMA StatusTells ==
  ASSUME NEW s \in Stores, NEW d \in Devices, NEW x \in Data
  PROVE  /\ Len(Held[d]) \in Nat
         /\ Status(s, d, x) \in Stores /\ Tells(s, Status(s, d, x), Len(Held[d]))
<1> DEFINE h == Len(Held[d])
           key == [n \in 1 .. h |-> <<Held[d][n], "state">>]
           Step(f, n) == IF n = 0 THEN s ELSE SetState(f[n - 1], Held[d][n], x)
           w == CHOOSE f : f = [n \in 0 .. h |-> Step(f, n)]
<1>1. h \in Nat /\ key \in [1 .. h -> Keys]
  <2>1. Held[d] \in Seq(Vectors)
    BY ObserversAssumption
  <2>2. h \in Nat /\ \A n \in 1 .. h : Held[d][n] \in Vectors
    BY <2>1, LenProperties, ElementOfSeq
  <2>3. QED
    BY <2>2 DEF Keys, Topics
<1>2. PICK f \in [0 .. h -> Stores] :
        f[0] = s /\ \A n \in 1 .. h : f[n] = Change(f[n - 1], key[n], x)
  <2> HIDE DEF h, key
  <2>1. QED
    BY <1>1, ChangesCan
<1>3. f = [n \in 0 .. h |-> Step(f, n)]
  <2>1. ASSUME NEW n \in 0 .. h PROVE f[n] = Step(f, n)
    <3>1. n # 0 => n \in 1 .. h
      BY <1>1
    <3>2. QED
      BY <1>2, <3>1 DEF SetState
  <2>2. QED
    BY <2>1
<1>4. w = [n \in 0 .. h |-> Step(w, n)]
  BY <1>3
<1>5. Status(s, d, x) = w[h]
  BY DEF Status
<1>6. w[0] = s /\ \A n \in 1 .. h : w[n] = Change(w[n - 1], key[n], x)
  <2>1. 0 \in 0 .. h /\ Step(w, 0) = s
    BY <1>1
  <2>2. \A n \in 1 .. h : n \in 0 .. h /\ Step(w, n) = Change(w[n - 1], key[n], x)
    BY <1>1 DEF SetState
  <2> HIDE DEF w, Step, h, key
  <2>3. QED
    BY <1>4, <2>1, <2>2
<1>7. w[h] \in Stores /\ Tells(s, w[h], h)
  <2> HIDE DEF w, h, key
  <2>1. QED
    BY <1>1, <1>6, ChangesTell
<1>8. QED
  BY <1>1, <1>5, <1>7

-----------------------------------------------------------------------------
(* What observers find out.                                                 *)

(* Types, and SeenOrOwed until the driver is blocked: a change whose event  *)
(* the pipe did not take is owed to nobody.                                 *)
Inv == TypeOK /\ (NeverBlocked => SeenOrOwed)

(* Nothing is a member of an empty sequence.                                *)
LEMMA NoMembers == ToSet(<<>>) = {} /\ OneAnswer(<<>>)
BY DEF ToSet, OneAnswer

(* What the handlers begin with.                                            *)
LEMMA StoreIs ==
  ASSUME TypeOK
  PROVE  /\ Store \in Stores /\ Store.datum = datum /\ Store.pipe = pipe
         /\ Store.fresh = fresh /\ Store.blocked = FALSE
BY DEF TypeOK, Store, Stores

(* Whoever has to find out about a change did so, or will, after it.        *)
LEMMA ToldOrPiped ==
  ASSUME Inv, pc # "blocked", NEW s \in Stores, NEW n \in Nat, Tells(Store, s, n), ~s.blocked,
         NEW k \in s.fresh, NEW d \in ToSet(observers[k]) \intersect Implemented
  PROVE  \/ k \in ToSet(s.pipe)
         \/ told[d][k] = s.datum[k] /\ s.datum[k] = datum[k]
         \/ pc # "loop" /\ topic = k /\ d \in ToSet(left) /\ s.datum[k] = datum[k]
<1>1. /\ Store.datum = datum /\ Store.pipe = pipe /\ Store.fresh = fresh
  BY StoreIs DEF Inv
<1>2. /\ ToSet(pipe) \subseteq ToSet(s.pipe)
      /\ \/ observers[k] = <<>> \/ k \in ToSet(s.pipe)
         \/ k \in fresh /\ s.datum[k] = datum[k]
  <2>1. /\ ToSet(Store.pipe) \subseteq ToSet(s.pipe)
        /\ \/ observers[k] = <<>> \/ k \in ToSet(s.pipe)
           \/ k \in Store.fresh /\ s.datum[k] = Store.datum[k]
    BY DEF Tells
  <2>2. QED
    BY <1>1, <2>1
<1>3. observers[k] # <<>>
  BY NoMembers
<1>4. ASSUME k \in fresh, s.datum[k] = datum[k]
      PROVE  told[d][k] = datum[k] \/ Owed(d, k)
  BY <1>4 DEF Inv, NeverBlocked, SeenOrOwed
<1>5. QED
  BY <1>2, <1>3, <1>4 DEF Owed

(* A plug-in's turn keeps it,                                               *)
LEMMA TurnStep ==
  ASSUME Inv, AtLeisure, NEW s \in Stores, NEW n \in Nat, Tells(Store, s, n), Turn(s)
  PROVE  Inv'
<1>1. /\ datum' = s.datum /\ pipe' = s.pipe /\ fresh' = s.fresh
      /\ pc' = (IF s.blocked THEN "blocked" ELSE pc) /\ pc = "loop"
      /\ UNCHANGED <<observers, topic, left, told>>
  BY DEF Turn, Becomes, AtLeisure
<1>2. TypeOK'
  BY <1>1 DEF Inv, TypeOK, Stores
<1>3. ASSUME pc' # "blocked" PROVE SeenOrOwed'
  <2>1. ~s.blocked /\ pc # "blocked"
    BY <1>1, <1>3
  <2>2. ASSUME NEW k \in s.fresh, NEW d \in ToSet(observers[k]) \intersect Implemented
        PROVE  told[d][k] = s.datum[k] \/ k \in ToSet(s.pipe)
    BY <1>1, <2>1, ToldOrPiped
  <2>3. QED
    BY <1>1, <2>2 DEF SeenOrOwed, Owed
<1>4. QED
  BY <1>2, <1>3 DEF Inv, NeverBlocked

(* as does the call of an observer,                                         *)
LEMMA UpdateStep ==
  ASSUME Inv, Update
  PROVE  Inv'
<1> DEFINE d0 == Head(left)
<1>1. /\ pc = "notify" /\ left # <<>> /\ left' = Tail(left)
      /\ UNCHANGED <<observers, topic>>
      /\ told' = IF d0 \in Implemented
                 THEN [told EXCEPT ![d0][topic] = datum[topic]] ELSE told
  BY DEF Update
<1>2. PICK s \in Reactions(d0) :
        datum' = s.datum /\ pipe' = s.pipe /\ fresh' = s.fresh
        /\ pc' = IF s.blocked THEN "blocked" ELSE pc
  BY DEF Update, Becomes
<1>3. s \in Stores /\ Tells(Store, s, 1)
  <2>1. Store \in Stores /\ 1 \in Nat
    BY StoreIs DEF Inv
  <2>2. CASE s = Store
    <3>1. Len(s.pipe) \in Nat
      BY <2>1, <2>2, LenProperties DEF Stores
    <3>2. QED
      BY <2>1, <2>2, <3>1 DEF Tells
  <2>3. ASSUME NEW v \in Reacts[d0], NEW x \in Data, d0 \in Implemented,
               s = SetValue(Store, v, x)
        PROVE  s \in Stores /\ Tells(Store, s, 1)
    <3>1. v \in Vectors
      BY <2>3, ObserversAssumption
    <3>2. <<v, "value">> \in Keys
      BY <3>1 DEF Keys, Topics
    <3>3. QED
      BY <2>1, <2>3, <3>2, ChangeTells DEF SetValue
  <2>4. QED
    BY <1>2, <2>2, <2>3 DEF Reactions
<1>4. /\ d0 \in Devices /\ Tail(left) \in Seq(Devices)
      /\ ToSet(left) = {d0} \union ToSet(Tail(left))
  BY <1>1, ToSetTail DEF Inv, TypeOK
<1>5. TypeOK'
  <2>1. datum[topic] \in Data
    BY DEF Inv, TypeOK
  <2>2. told' \in [Devices -> [Keys -> Data \union {NotYet}]]
    BY <1>1, <1>4, <2>1 DEF Inv, TypeOK
  <2>3. QED
    BY <1>1, <1>2, <1>3, <1>4, <2>2 DEF Inv, TypeOK, Stores
<1>6. ASSUME pc' # "blocked" PROVE SeenOrOwed'
  <2>1. ~s.blocked /\ pc # "blocked" /\ pc' = "notify"
    BY <1>1, <1>2, <1>6
  <2>2. ASSUME NEW k \in s.fresh, NEW d \in ToSet(observers[k]) \intersect Implemented
        PROVE  \/ told'[d][k] = s.datum[k]
               \/ k \in ToSet(s.pipe)
               \/ topic = k /\ d \in ToSet(Tail(left))
    <3>0. k \in Keys /\ d \in Devices
      BY <1>3, ObserversAssumption DEF Stores
    <3>1. CASE k \in ToSet(s.pipe)
      BY <3>1
    <3>2. CASE told[d][k] = s.datum[k] /\ s.datum[k] = datum[k]
      BY <1>1, <1>4, <3>0, <3>2 DEF Inv, TypeOK
    <3>3. CASE pc # "loop" /\ topic = k /\ d \in ToSet(left) /\ s.datum[k] = datum[k]
      <4>1. CASE d = d0
        BY <1>1, <1>4, <3>0, <3>3, <4>1 DEF Inv, TypeOK
      <4>2. QED
        BY <1>4, <3>3, <4>1
    <3>4. QED
      BY <1>3, <2>1, <3>1, <3>2, <3>3, ToldOrPiped
  <2>3. QED
    BY <1>1, <1>2, <2>1, <2>2 DEF SeenOrOwed, Owed
<1>7. QED
  BY <1>5, <1>6 DEF Inv, NeverBlocked

(* the reading of an event,                                                 *)
LEMMA ReadEventStep ==
  ASSUME Inv, ReadEvent
  PROVE  Inv'
<1>1. /\ pc = "loop" /\ pipe # <<>> /\ pipe' = Tail(pipe) /\ topic' = Head(pipe)
      /\ left' = observers[Head(pipe)] /\ pc' = "notify"
      /\ UNCHANGED <<datum, observers, told, fresh>>
  BY DEF ReadEvent
<1>2. /\ Head(pipe) \in Keys /\ Tail(pipe) \in Seq(Keys) /\ Len(Tail(pipe)) = Len(pipe) - 1
      /\ ToSet(pipe) = {Head(pipe)} \union ToSet(Tail(pipe))
  BY <1>1, ToSetTail DEF Inv, TypeOK
<1>3. Len(pipe) \in Nat /\ Capacity \in Nat
  BY LenProperties, ObserversAssumption DEF Inv, TypeOK
<1>4. TypeOK'
  BY <1>1, <1>2, <1>3 DEF Inv, TypeOK
<1>5. SeenOrOwed'
  <2>1. SeenOrOwed
    BY <1>1 DEF Inv, NeverBlocked
  <2>2. QED
    BY <1>1, <1>2, <2>1 DEF SeenOrOwed, Owed
<1>6. QED
  BY <1>4, <1>5 DEF Inv

(* the end of a walk,                                                       *)
LEMMA EndNotifyStep ==
  ASSUME Inv, EndNotify
  PROVE  Inv'
<1>1. TypeOK'
  BY DEF EndNotify, Inv, TypeOK
<1>2. SeenOrOwed'
  <2>1. SeenOrOwed /\ ToSet(left) = {}
    BY NoMembers DEF EndNotify, Inv, NeverBlocked
  <2>2. QED
    BY <2>1 DEF EndNotify, SeenOrOwed, Owed
<1>3. QED
  BY <1>1, <1>2 DEF Inv

(* and the removal of an observer.                                          *)
LEMMA RemoveStep ==
  ASSUME Inv, NEW d0, NEW k0 \in Keys, RemoveObserver(d0, k0)
  PROVE  Inv'
<1>1. /\ pc # "blocked"
      /\ observers' = [observers EXCEPT ![k0] = Without(observers[k0], d0)]
      /\ left' = IF k0 = topic THEN Without(left, d0) ELSE left
      /\ UNCHANGED <<pc, datum, pipe, topic, told, fresh>>
  BY DEF RemoveObserver
<1>2. /\ Without(observers[k0], d0) \in Seq(Devices)
      /\ ToSet(Without(observers[k0], d0)) = ToSet(observers[k0]) \ {d0}
  <2>1. observers[k0] \in Seq(Devices)
    BY DEF Inv, TypeOK
  <2>2. QED
    BY <2>1, WithoutIs
<1>3. left' \in Seq(Devices) /\ ToSet(left') = ToSet(left) \ (IF k0 = topic THEN {d0} ELSE {})
  <2>1. left \in Seq(Devices)
    BY DEF Inv, TypeOK
  <2>2. QED
    BY <1>1, <2>1, WithoutIs
<1>4. pc = "loop" => left' = <<>>
  <2>1. ASSUME pc = "loop" PROVE left' = <<>>
    <3>1. ToSet(left') = {}
      BY <1>3, <2>1, NoMembers DEF Inv, TypeOK
    <3>2. Len(left') \in Nat /\ DOMAIN left' = 1 .. Len(left')
      BY <1>3, LenProperties
    <3>3. Len(left') = 0
      <4>1. 1 \in DOMAIN left' => left'[1] \in ToSet(left')
        BY DEF ToSet
      <4>2. QED
        BY <3>1, <3>2, <4>1
    <3>4. QED
      BY <1>3, <3>3, EmptySeq
  <2>2. QED
    BY <2>1
<1>5. TypeOK'
  BY <1>1, <1>2, <1>3, <1>4 DEF Inv, TypeOK
<1>6. SeenOrOwed'
  <2>1. SeenOrOwed /\ fresh \subseteq Keys
    BY <1>1 DEF Inv, NeverBlocked, TypeOK
  <2>2. ASSUME NEW k \in fresh, NEW d \in ToSet(observers'[k]) \intersect Implemented
        PROVE  told[d][k] = datum[k] \/ Owed(d, k)'
    <3>1. d \in ToSet(observers[k]) /\ (k = k0 => d # d0)
      BY <1>1, <1>2, <2>1 DEF Inv, TypeOK
    <3>2. told[d][k] = datum[k] \/ Owed(d, k)
      BY <2>1, <3>1 DEF SeenOrOwed
    <3>3. QED
      BY <1>1, <1>3, <3>1, <3>2 DEF Owed
  <2>3. QED
    BY <1>1, <2>2 DEF SeenOrOwed
<1>7. QED
  BY <1>5, <1>6 DEF Inv

(* A turn is one of those that set a value or state, or several.            *)
LEMMA Turns ==
  ASSUME TypeOK, \/ PluginSetsValue \/ PluginSetsSwitches \/ PluginSetsSilently
                 \/ PluginSetsState \/ PluginSetsStatus
  PROVE  /\ AtLeisure
         /\ \E s \in Stores, n \in {0, 1, Members} \union {Len(Held[d]) : d \in Devices} :
              n \in Nat /\ Tells(Store, s, n) /\ Turn(s)
<1>1. Store \in Stores /\ Members \in Nat
  BY StoreIs, ObserversAssumption
<1>2. \A v \in Vectors : <<v, "value">> \in Keys /\ <<v, "state">> \in Keys
  BY DEF Keys, Topics
<1>3. CASE PluginSetsValue
  <2>1. PICK v \in Vectors, x \in Data : AtLeisure /\ Turn(SetValue(Store, v, x))
    BY <1>3 DEF PluginSetsValue
  <2> DEFINE s == SetValue(Store, v, x)
  <2>2. s \in Stores /\ Tells(Store, s, 1)
    BY <1>1, <1>2, ChangeTells DEF SetValue
  <2> HIDE DEF s
  <2>3. QED
    BY <2>1, <2>2 DEF s
<1>4. CASE PluginSetsSwitches
  <2>1. PICK v \in Vectors, x \in Data : AtLeisure /\ Turn(AllSwitches(Store, v, x))
    BY <1>4 DEF PluginSetsSwitches
  <2> DEFINE s == AllSwitches(Store, v, x)
  <2>2. s \in Stores /\ Tells(Store, s, Members)
    BY <1>1, AllSwitchesTell
  <2>3. AtLeisure /\ Turn(s)
    BY <2>1
  <2> HIDE DEF s
  <2>4. QED
    BY <1>1, <2>2, <2>3
<1>5. CASE PluginSetsSilently
  <2>1. PICK v \in Vectors, x \in Data : AtLeisure /\ Turn(SetSilently(Store, v, x))
    BY <1>5 DEF PluginSetsSilently
  <2> DEFINE s == SetSilently(Store, v, x)
  <2>2. s \in Stores /\ Tells(Store, s, 0)
    BY <1>1, SilenceTells
  <2>3. AtLeisure /\ Turn(s)
    BY <2>1
  <2> HIDE DEF s
  <2>4. QED
    BY <2>2, <2>3
<1>6. CASE PluginSetsState
  <2>1. PICK v \in Vectors, x \in Data : AtLeisure /\ Turn(SetState(Store, v, x))
    BY <1>6 DEF PluginSetsState
  <2> DEFINE s == SetState(Store, v, x)
  <2>2. s \in Stores /\ Tells(Store, s, 1)
    BY <1>1, <1>2, ChangeTells DEF SetState
  <2>3. AtLeisure /\ Turn(s)
    BY <2>1
  <2> HIDE DEF s
  <2>4. QED
    BY <2>2, <2>3
<1>7. CASE PluginSetsStatus
  <2>1. PICK d \in Devices, x \in Data : AtLeisure /\ Turn(Status(Store, d, x))
    BY <1>7 DEF PluginSetsStatus
  <2> DEFINE s == Status(Store, d, x)
  <2>2. s \in Stores /\ Tells(Store, s, Len(Held[d])) /\ Len(Held[d]) \in Nat
    BY <1>1, StatusTells
  <2>3. AtLeisure /\ Turn(s)
    BY <2>1
  <2> HIDE DEF s
  <2>4. QED
    BY <2>2, <2>3
<1>8. QED
  BY <1>3, <1>4, <1>5, <1>6, <1>7

(* Whom plug-ins take off which list.                                       *)
LEMMA Removals ==
  ASSUME NEW l \in Leavers
  PROVE  l[2] \in Keys
BY ObserversAssumption

(* Nothing has changed at the start.                                        *)
LEMMA InvInit == Init => Inv
<1> SUFFICES ASSUME Init PROVE Inv
  OBVIOUS
<1>1. Keys # {}
  <2>1. PICK v \in Vectors : TRUE
    BY ObserversAssumption
  <2>2. <<v, "value">> \in Keys
    BY <2>1 DEF Keys, Topics
  <2>3. QED
    BY <2>2
<1>2. topic \in Keys
  BY <1>1 DEF Init
<1>3. /\ pc = "loop" /\ datum = [k \in Keys |-> Initial] /\ observers = Lists
      /\ pipe = <<>> /\ left = <<>> /\ fresh = {}
      /\ told = [d \in Devices |-> [k \in Keys |-> NotYet]]
  BY DEF Init
<1>4. pipe \in Seq(Keys) /\ Len(pipe) = 0 /\ left \in Seq(Devices)
  BY <1>3, EmptySeq
<1>5. TypeOK
  BY <1>2, <1>3, <1>4, ObserversAssumption DEF TypeOK
<1>6. SeenOrOwed
  BY <1>3 DEF SeenOrOwed
<1>7. QED
  BY <1>5, <1>6 DEF Inv

(* Every step keeps it.                                                     *)
LEMMA InvStep == Inv /\ [Next]_vars => Inv'
<1> SUFFICES ASSUME Inv, [Next]_vars PROVE Inv'
  OBVIOUS
<1>1. CASE \/ PluginSetsValue \/ PluginSetsSwitches \/ PluginSetsSilently
           \/ PluginSetsState \/ PluginSetsStatus
  BY <1>1, Turns, TurnStep DEF Inv
<1>2. ASSUME NEW l \in Leavers, RemoveObserver(l[1], l[2]) PROVE Inv'
  BY <1>2, Removals, RemoveStep
<1>3. CASE UNCHANGED vars
  BY <1>3 DEF vars, Inv, TypeOK, NeverBlocked, SeenOrOwed, Owed
<1>4. QED
  BY <1>1, <1>2, <1>3, ReadEventStep, UpdateStep, EndNotifyStep DEF Next

(* SeenOrOwed: as long as the driver does not wait on its own pipe, every   *)
(* observer has found out about the last change, or will, whatever is       *)
(* changed meanwhile and whoever is taken off the lists.                    *)
(* (PropertyVector::generateEvent, PipeEventSource::changed)                *)
THEOREM ObserversFindOut == Spec => [](NeverBlocked => SeenOrOwed)
<1>1. Inv => (NeverBlocked => SeenOrOwed)
  BY DEF Inv
<1>2. QED
  BY <1>1, InvInit, InvStep, PTL DEF Spec

-----------------------------------------------------------------------------
(* The driver and its pipe.                                                 *)

(* No list has two observers that answer with a change, and what a turn     *)
(* writes fits behind the events that may wait then.                        *)
Modest ==
  /\ \A k \in Keys : OneAnswer(Lists[k])
  /\ Calm <= Capacity /\ Calm + Members <= Capacity + 1
  /\ \A d \in Devices : Calm + Len(Held[d]) <= Capacity + 1

(* Whoever answers the event that was read has the room it left.            *)
Roomy ==
  /\ NeverBlocked /\ \A k \in Keys : OneAnswer(observers[k])
  /\ OneAnswer(left)
  /\ pc = "notify" /\ (\E d \in ToSet(left) : Answers(d)) => Len(pipe) < Capacity

(* A turn fits,                                                             *)
LEMMA TurnFits ==
  ASSUME Modest, TypeOK, Roomy,
         \/ PluginSetsValue \/ PluginSetsSwitches \/ PluginSetsSilently
         \/ PluginSetsState \/ PluginSetsStatus
  PROVE  Roomy'
<1>1. PICK s \in Stores, n \in {0, 1, Members} \union {Len(Held[d]) : d \in Devices} :
        AtLeisure /\ n \in Nat /\ Tells(Store, s, n) /\ Turn(s)
  BY Turns
<1> DEFINE a == Len(pipe)
<1>2. a \in Nat /\ Capacity \in Nat /\ Calm \in Nat /\ a < Calm
  BY <1>1, ObserversAssumption, LenProperties DEF TypeOK, AtLeisure
<1>3. Calm + n <= Capacity + 1
  BY <1>1, <1>2 DEF Modest
<1>4. Store.blocked = FALSE /\ Len(Store.pipe) = a
  BY StoreIs
<1> HIDE DEF a
<1>5. a + n <= Capacity
  BY <1>1, <1>2, <1>3
<1>6. ~s.blocked
  BY <1>1, <1>4, <1>5 DEF Tells
<1>7. pc = "loop" /\ pc' = "loop" /\ UNCHANGED <<observers, left>>
  BY <1>1, <1>6 DEF Turn, AtLeisure
<1>8. QED
  BY <1>7 DEF Roomy, NeverBlocked

(* and so does the one answer to an event.                                  *)
LEMMA UpdateFits ==
  ASSUME TypeOK, Roomy, Update
  PROVE  Roomy'
<1> DEFINE d0 == Head(left)
           t == Tail(left)
<1>1. /\ pc = "notify" /\ left # <<>> /\ left' = t
      /\ UNCHANGED observers
  BY DEF Update
<1>2. /\ left \in Seq(Devices) /\ d0 \in Devices /\ t \in Seq(Devices)
      /\ ToSet(left) = {d0} \union ToSet(t)
  BY <1>1, ToSetTail DEF TypeOK
<1>3. /\ Len(left) \in Nat \ {0} /\ DOMAIN left = 1 .. Len(left) /\ left[1] = d0
      /\ DOMAIN t = 1 .. Len(left) - 1
      /\ \A i \in 1 .. Len(left) - 1 : t[i] = left[i + 1]
  BY <1>1, <1>2, LenProperties, HeadTailProperties, EmptySeq
<1> HIDE DEF d0, t
<1>4. OneAnswer(left)
  BY DEF Roomy
<1>5. OneAnswer(t)
  <2>1. \A i \in DOMAIN t : i \in Int /\ i + 1 \in DOMAIN left /\ t[i] = left[i + 1]
    BY <1>3
  <2>2. QED
    BY <1>4, <2>1 DEF OneAnswer
<1>6. Answers(d0) => \A d \in ToSet(t) : ~Answers(d)
  <2>1. ASSUME Answers(d0), NEW d \in ToSet(t), Answers(d) PROVE FALSE
    <3>1. PICK i \in 1 .. Len(left) - 1 : d = left[i + 1]
      BY <1>3, <2>1 DEF ToSet
    <3>2. 1 \in DOMAIN left /\ i + 1 \in DOMAIN left /\ i + 1 # 1
      BY <1>3, <3>1
    <3>3. QED
      BY <1>3, <1>4, <2>1, <3>1, <3>2 DEF OneAnswer
  <2>2. QED
    BY <2>1
<1>7. CASE datum' = datum /\ pipe' = pipe /\ pc' = pc
  BY <1>1, <1>2, <1>5, <1>7 DEF Roomy, NeverBlocked
<1>8. ASSUME Answers(d0), NEW v \in Reacts[d0], NEW x \in Data,
             Becomes(SetValue(Store, v, x)),
             pc' = IF SetValue(Store, v, x).blocked THEN "blocked" ELSE pc
      PROVE  Roomy'
  <2>1. <<v, "value">> \in Keys
    <3>1. v \in Vectors
      BY <1>2, <1>8, ObserversAssumption
    <3>2. QED
      BY <3>1 DEF Keys, Topics
  <2>2. Tells(Store, SetValue(Store, v, x), 1)
    BY <2>1, StoreIs, ChangeTells DEF SetValue
  <2>3. Len(pipe) < Capacity /\ Len(pipe) \in Nat /\ Capacity \in Nat
    BY <1>1, <1>2, <1>8, LenProperties, ObserversAssumption DEF Roomy, TypeOK
  <2>4. Store.blocked = FALSE /\ Len(Store.pipe) = Len(pipe)
    BY StoreIs
  <2>5. Len(Store.pipe) + 1 <= Capacity
    BY <2>3, <2>4
  <2>6. ~SetValue(Store, v, x).blocked
    BY <2>2, <2>4, <2>5 DEF Tells
  <2>7. pc' = "notify"
    BY <1>1, <1>8, <2>6
  <2>8. QED
    BY <1>1, <1>5, <1>6, <1>8, <2>7 DEF Roomy, NeverBlocked
<1>9. QED
  <2>1. PICK s \in Reactions(d0) : Becomes(s) /\ pc' = IF s.blocked THEN "blocked" ELSE pc
    BY DEF Update, d0
  <2>2. CASE s = Store
    BY <1>7, <2>1, <2>2, StoreIs DEF Becomes
  <2>3. ASSUME NEW v \in Reacts[d0], NEW x \in Data, d0 \in Implemented,
               s = SetValue(Store, v, x)
        PROVE  Roomy'
    BY <1>8, <2>1, <2>3 DEF Answers
  <2>4. QED
    BY <2>1, <2>2, <2>3 DEF Reactions

(* Every step leaves the room for what may be written next.                 *)
LEMMA RoomyStep ==
  ASSUME Modest, TypeOK, Roomy, [Next]_vars
  PROVE  Roomy'
<1>1. CASE ReadEvent
  <2>1. /\ pc = "loop" /\ pipe # <<>> /\ pipe' = Tail(pipe)
        /\ left' = observers[Head(pipe)] /\ pc' = "notify" /\ UNCHANGED observers
    BY <1>1 DEF ReadEvent
  <2>2. Head(pipe) \in Keys /\ Len(Tail(pipe)) = Len(pipe) - 1
    BY <2>1, ToSetTail DEF TypeOK
  <2>3. Len(pipe) \in Nat /\ Capacity \in Nat /\ Len(pipe) <= Capacity
    BY LenProperties, ObserversAssumption DEF TypeOK
  <2>4. Len(pipe') < Capacity
    BY <2>1, <2>2, <2>3
  <2>5. QED
    BY <2>1, <2>2, <2>4 DEF Roomy, NeverBlocked
<1>2. CASE EndNotify
  BY <1>2 DEF EndNotify, Roomy, NeverBlocked
<1>3. ASSUME NEW l \in Leavers, RemoveObserver(l[1], l[2]) PROVE Roomy'
  <2> DEFINE d == l[1]
             k == l[2]
  <2>1. k \in Keys /\ observers[k] \in Seq(Devices) /\ left \in Seq(Devices)
    BY Removals DEF TypeOK
  <2>2. /\ observers' = [observers EXCEPT ![k] = Without(observers[k], d)]
        /\ left' = IF k = topic THEN Without(left, d) ELSE left
        /\ UNCHANGED <<pc, pipe>>
    BY <1>3 DEF RemoveObserver
  <2> HIDE DEF d, k
  <2>3. OneAnswer(Without(observers[k], d))
    BY <2>1, WithoutIs DEF Roomy
  <2>4. OneAnswer(left') /\ ToSet(left') \subseteq ToSet(left)
    BY <2>1, <2>2, WithoutIs DEF Roomy
  <2>5. \A m \in Keys : OneAnswer(observers'[m])
    BY <2>1, <2>2, <2>3 DEF Roomy, TypeOK
  <2>6. QED
    BY <2>2, <2>4, <2>5 DEF Roomy, NeverBlocked
<1>4. CASE UNCHANGED vars
  BY <1>4 DEF vars, Roomy, NeverBlocked
<1>5. QED
  BY <1>1, <1>2, <1>3, <1>4, TurnFits, UpdateFits DEF Next

(* NeverBlocked: the driver never waits on its own pipe if an event is      *)
(* answered by one change at most and turns leave room for what they write, *)
(* however long the chains of answers (PipeEventSource::generate).          *)
THEOREM PipeHasRoom ==
  ASSUME Modest
  PROVE  Spec => []NeverBlocked
<1>1. Init => Roomy
  BY NoMembers DEF Init, Roomy, NeverBlocked, Modest
<1>2. TypeOK /\ Roomy /\ [Next]_vars => Roomy'
  BY RoomyStep
<1>3. Inv => TypeOK
  BY DEF Inv
<1>4. Roomy => NeverBlocked
  BY DEF Roomy
<1>5. QED
  BY <1>1, <1>2, <1>3, <1>4, InvInit, InvStep, PTL DEF Spec
=============================================================================
