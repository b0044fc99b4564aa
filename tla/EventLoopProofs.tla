--------------------------- MODULE EventLoopProofs ---------------------------
(***************************************************************************)
(* Theorems about EventLoop, for every value of its constants.             *)
(***************************************************************************)
EXTENDS EventLoop, TLAPS, SequenceTheorems, FiniteSetTheorems, WellFoundedInduction

-----------------------------------------------------------------------------
(* The slot arrays of callbacks and work procedures.                        *)

(* Every nonempty set of naturals has a smallest member.                    *)
LEMMA NatMin ==
  ASSUME NEW S \in SUBSET Nat, S # {}
  PROVE  \E x \in S : \A y \in S : x <= y
<1>1. PICK x \in S : \A y \in S : ~(<<y, x>> \in OpToRel(<, Nat))
  BY NatLessThanWellFounded, WFMin
<1>2. \A y \in S : ~(y < x)
  BY <1>1 DEF OpToRel
<1>3. QED
  BY <1>2

(* Every nonempty bounded set of naturals has a largest member.             *)
LEMMA NatMax ==
  ASSUME NEW S \in SUBSET Nat, S # {}, NEW n \in Nat, \A y \in S : y <= n
  PROVE  \E x \in S : \A y \in S : y <= x
<1> DEFINE T == {n - y : y \in S}
<1>1. T \in SUBSET Nat /\ T # {}
  <2>1. \A y \in S : n - y \in Nat
    OBVIOUS
  <2>2. QED
    BY <2>1
<1>2. PICK m \in T : \A k \in T : ~(<<k, m>> \in OpToRel(<, Nat))
  BY <1>1, NatLessThanWellFounded, WFMin
<1>3. PICK x \in S : m = n - x
  BY <1>2
<1>4. \A y \in S : ~(n - y < n - x)
  BY <1>1, <1>2, <1>3 DEF OpToRel
<1>5. QED
  BY <1>4

(* An add call takes a slot that is not in use, at most one past the end.   *)
LEMMA FreeSlotIsFree ==
  ASSUME NEW S, NEW slots \in Seq(S)
  PROVE  /\ FreeSlot(slots) \in 1 .. Len(slots) + 1
         /\ FreeSlot(slots) \notin InUse(slots)
<1> DEFINE T == (1 .. Len(slots) + 1) \ InUse(slots)
<1>1. Len(slots) \in Nat /\ DOMAIN slots = 1 .. Len(slots)
  BY LenProperties
<1>2. Len(slots) + 1 \in T
  BY <1>1 DEF InUse
<1>3. T \in SUBSET Nat /\ T # {}
  BY <1>1, <1>2
<1> HIDE DEF T
<1>4. PICK k \in T : \A j \in T : k <= j
  BY <1>3, NatMin
<1>5. /\ k \in 1 .. Len(slots) + 1 /\ k \notin InUse(slots)
      /\ \A j \in 1 .. k - 1 : j \in InUse(slots)
  BY <1>1, <1>4 DEF T
<1>6. QED
  BY <1>5 DEF FreeSlot

(* The slots in use are finitely many.                                      *)
LEMMA InUseFinite ==
  ASSUME NEW S, NEW slots \in Seq(S)
  PROVE  IsFiniteSet(InUse(slots)) /\ Cardinality(InUse(slots)) \in Nat
<1>1. Len(slots) \in Nat /\ InUse(slots) \subseteq 1 .. Len(slots)
  BY LenProperties DEF InUse
<1>2. IsFiniteSet(1 .. Len(slots))
  BY <1>1, FS_Interval
<1>3. QED
  BY <1>1, <1>2, FS_Subset, FS_CardinalityType

(* Putting a slot in use keeps the array an array, and makes the count of   *)
(* slots in use one larger.                                                 *)
LEMMA PutSlotAddsOne ==
  ASSUME NEW S, NEW slots \in Seq(S), NEW s \in S, s.in_use
  PROVE  /\ PutSlot(slots, s) \in Seq(S)
         /\ Cardinality(InUse(PutSlot(slots, s))) = Cardinality(InUse(slots)) + 1
<1> DEFINE k == FreeSlot(slots)
           n == IF k > Len(slots) THEN k ELSE Len(slots)
           new == PutSlot(slots, s)
<1>1. /\ Len(slots) \in Nat /\ DOMAIN slots = 1 .. Len(slots)
      /\ \A i \in 1 .. Len(slots) : slots[i] \in S
  BY LenProperties, ElementOfSeq
<1>2. k \in 1 .. Len(slots) + 1 /\ k \notin InUse(slots)
  BY FreeSlotIsFree
<1> HIDE DEF k
<1>3. new = [i \in 1 .. n |-> IF i = k THEN s ELSE slots[i]]
  BY DEF PutSlot, k
<1>4. n \in Nat /\ k \in 1 .. n /\ \A i \in 1 .. n : i # k => i \in 1 .. Len(slots)
  BY <1>1, <1>2
<1> HIDE DEF new, n
<1>5. new \in [1 .. n -> S]
  BY <1>1, <1>3, <1>4
<1>6. new \in Seq(S)
  BY <1>4, <1>5, SeqDef
<1>7. InUse(new) = InUse(slots) \union {k}
  <2>1. DOMAIN new = 1 .. n /\ DOMAIN slots \subseteq 1 .. n
    BY <1>1, <1>3, <1>4 DEF n
  <2>2. \A i \in 1 .. n : i # k => new[i] = slots[i] /\ i \in DOMAIN slots
    BY <1>1, <1>3, <1>4
  <2>3. new[k].in_use
    BY <1>3, <1>4
  <2>4. QED
    BY <1>4, <2>1, <2>2, <2>3 DEF InUse
<1>8. QED
  BY <1>2, <1>6, <1>7, InUseFinite, FS_AddElement DEF new

(* Freeing a slot in use makes the count one smaller.                       *)
LEMMA FreedSlotRemovesOne ==
  ASSUME NEW S, NEW slots \in Seq(S), NEW i \in InUse(slots),
         \A x \in S : /\ [x EXCEPT !.in_use = FALSE] \in S
                      /\ ~[x EXCEPT !.in_use = FALSE].in_use
  PROVE  /\ FreedSlot(slots, i) \in Seq(S)
         /\ Cardinality(InUse(FreedSlot(slots, i))) = Cardinality(InUse(slots)) - 1
<1> DEFINE new == FreedSlot(slots, i)
<1>1. /\ Len(slots) \in Nat /\ DOMAIN slots = 1 .. Len(slots)
      /\ i \in 1 .. Len(slots) /\ slots[i] \in S
  BY LenProperties, ElementOfSeq DEF InUse
<1>2. new = [slots EXCEPT ![i] = [slots[i] EXCEPT !.in_use = FALSE]]
  BY DEF FreedSlot
<1>3. new \in Seq(S)
  BY <1>1, <1>2, ExceptSeq
<1>4. InUse(new) = InUse(slots) \ {i}
  <2>1. DOMAIN new = DOMAIN slots /\ \A j \in DOMAIN slots : j # i => new[j] = slots[j]
    BY <1>2
  <2>2. ~new[i].in_use
    BY <1>1, <1>2
  <2>3. QED
    BY <2>1, <2>2 DEF InUse
<1>5. QED
  BY <1>3, <1>4, InUseFinite, FS_RemoveElement DEF new

(* The slot a scan is at is a C index of the table.                         *)
LEMMA ModIsNat ==
  ASSUME NEW a \in Int, NEW n \in Nat \ {0}
  PROVE  a % n \in 0 .. n - 1
OBVIOUS

(* A scan that has a slot to stop at stops at one.                          *)
LEMMA NextInTurnIsMember ==
  ASSUME NEW n \in Nat, NEW S \in SUBSET (1 .. n), S # {}, NEW last \in Nat
  PROVE  NextInTurn(S, last, n) \in S
<1> DEFINE d(i) == (i - last - 2) % n
           D == {d(i) : i \in S}
<1>1. n \in Nat \ {0}
  <2>1. PICK i \in S : TRUE
    OBVIOUS
  <2>2. i \in 1 .. n
    BY <2>1
  <2>3. QED
    BY <2>2
<1>2. ASSUME NEW i \in S PROVE d(i) \in Nat
  <2>1. i - last - 2 \in Int
    OBVIOUS
  <2>2. QED
    BY <1>1, <2>1, ModIsNat
<1>3. D \subseteq Nat /\ D # {}
  BY <1>2
<1>4. PICK m \in D : \A k \in D : m <= k
  BY <1>3, NatMin
<1>5. PICK i \in S : m = d(i)
  BY <1>4
<1>6. \A j \in S : d(i) <= d(j)
  BY <1>4, <1>5
<1>7. QED
  BY <1>5, <1>6 DEF NextInTurn
-----------------------------------------------------------------------------
(* The timer list.                                                          *)

(* The entries the bubble stops behind: the new timer lands after the last  *)
(* one that is not due sooner.                                              *)
LEMMA InsertAfterIsLast ==
  ASSUME NEW T, \A x \in T : x.tgo \in Int, NEW tf \in Seq(T), NEW tgo \in Int
  PROVE  /\ InsertAfter(tf, tgo) \in 0 .. Len(tf)
         /\ InsertAfter(tf, tgo) > 0 => tf[InsertAfter(tf, tgo)].tgo >= tgo
         /\ \A i \in 1 .. Len(tf) : i > InsertAfter(tf, tgo) => tf[i].tgo < tgo
<1> DEFINE K == KeepsAhead(tf, tgo)
<1>1. /\ Len(tf) \in Nat /\ DOMAIN tf = 1 .. Len(tf)
      /\ \A i \in 1 .. Len(tf) : tf[i].tgo \in Int
  BY LenProperties, ElementOfSeq
<1>2. /\ K \in SUBSET Nat /\ K \subseteq 1 .. Len(tf)
      /\ \A i \in 1 .. Len(tf) : i \in K <=> tf[i].tgo >= tgo
  BY <1>1 DEF KeepsAhead
<1> HIDE DEF K
<1>3. CASE K = {}
  <2>1. InsertAfter(tf, tgo) = 0
    BY <1>3 DEF InsertAfter, K
  <2>2. QED
    BY <1>1, <1>2, <1>3, <2>1
<1>4. CASE K # {}
  <2> DEFINE m == InsertAfter(tf, tgo)
  <2>1. \A y \in K : y <= Len(tf)
    BY <1>1, <1>2
  <2>2. \E x \in K : \A y \in K : y <= x
    BY <1>1, <1>2, <1>4, <2>1, NatMax
  <2>3. m \in K /\ \A y \in K : y <= m
    BY <1>4, <2>2 DEF InsertAfter, K
  <2> HIDE DEF m
  <2>4. m \in 1 .. Len(tf)
    BY <1>2, <2>3
  <2>5. ASSUME NEW i \in 1 .. Len(tf), i > m PROVE tf[i].tgo < tgo
    <3>1. ~(i <= m)
      BY <1>1, <2>4, <2>5
    <3>2. i \notin K
      BY <2>3, <3>1
    <3>3. ~(tf[i].tgo >= tgo) /\ tf[i].tgo \in Int
      BY <1>1, <1>2, <3>2
    <3>4. QED
      BY <3>3
  <2>6. tf[m].tgo >= tgo
    BY <1>2, <2>3, <2>4
  <2>7. QED
    BY <1>1, <2>4, <2>5, <2>6 DEF m
<1>5. QED
  BY <1>3, <1>4

(* addTimer yields a list with one more entry: the old ones in their order  *)
(* and the new one among them.                                              *)
LEMMA InsertedIsSeq ==
  ASSUME NEW T, \A x \in T : x.tgo \in Int, NEW tf \in Seq(T), NEW t \in T
  PROVE  /\ Inserted(tf, t) \in Seq(T)
         /\ Len(Inserted(tf, t)) = Len(tf) + 1
         /\ \A i \in 1 .. Len(tf) + 1 :
              Inserted(tf, t)[i] =
                LET p == InsertAfter(tf, t.tgo)
                IN  IF i <= p THEN tf[i] ELSE IF i = p + 1 THEN t ELSE tf[i - 1]
<1> DEFINE p == InsertAfter(tf, t.tgo)
           new == Inserted(tf, t)
<1>1. Len(tf) \in Nat /\ \A i \in 1 .. Len(tf) : tf[i] \in T
  BY LenProperties, ElementOfSeq
<1>2. p \in 0 .. Len(tf)
  BY InsertAfterIsLast
<1>3. new = [i \in 1 .. Len(tf) + 1 |->
               IF i <= p THEN tf[i] ELSE IF i = p + 1 THEN t ELSE tf[i - 1]]
  BY DEF Inserted
<1> HIDE DEF p, new
<1>4. \A i \in 1 .. Len(tf) + 1 :
        (IF i <= p THEN tf[i] ELSE IF i = p + 1 THEN t ELSE tf[i - 1]) \in T
  BY <1>1, <1>2
<1>5. new \in [1 .. Len(tf) + 1 -> T]
  BY <1>3, <1>4
<1>6. new \in Seq(T)
  BY <1>1, <1>5, SeqDef
<1>7. Len(new) = Len(tf) + 1
  BY <1>1, <1>5, <1>6, LenProperties
<1>8. QED
  BY <1>3, <1>6, <1>7 DEF p, new

(* It keeps the list in order.                                              *)
LEMMA InsertedSorted ==
  ASSUME NEW T, \A x \in T : x.tgo \in Int, NEW tf \in Seq(T), NEW t \in T,
         \A i, j \in 1 .. Len(tf) : i < j => tf[i].tgo >= tf[j].tgo
  PROVE  \A i, j \in 1 .. Len(tf) + 1 :
           i < j => Inserted(tf, t)[i].tgo >= Inserted(tf, t)[j].tgo
<1> DEFINE p == InsertAfter(tf, t.tgo)
           new == Inserted(tf, t)
<1>1. /\ Len(tf) \in Nat
      /\ \A i \in 1 .. Len(tf) : tf[i].tgo \in Int
      /\ t.tgo \in Int
  BY LenProperties, ElementOfSeq
<1>2. /\ p \in 0 .. Len(tf)
      /\ p > 0 => tf[p].tgo >= t.tgo
      /\ \A i \in 1 .. Len(tf) : i > p => tf[i].tgo < t.tgo
  BY <1>1, InsertAfterIsLast
<1>3. \A i \in 1 .. Len(tf) + 1 :
        new[i] = IF i <= p THEN tf[i] ELSE IF i = p + 1 THEN t ELSE tf[i - 1]
  BY InsertedIsSeq
<1> HIDE DEF p, new
<1>4. \A i \in 1 .. p : tf[i].tgo >= t.tgo
  BY <1>1, <1>2
<1>5. SUFFICES ASSUME NEW i \in 1 .. Len(tf) + 1, NEW j \in 1 .. Len(tf) + 1, i < j
               PROVE  new[i].tgo >= new[j].tgo
  BY DEF new
<1>6. CASE j <= p
  BY SMTT(30), <1>1, <1>2, <1>3, <1>5, <1>6
<1>7. CASE j = p + 1
  BY <1>1, <1>2, <1>3, <1>4, <1>5, <1>7
<1>8. CASE i = p + 1 /\ j > p + 1
  <2>1. new[i] = t /\ new[j] = tf[j - 1]
    <3>1. i \in Int /\ j \in Int /\ p \in Int
      BY <1>1, <1>2
    <3>2. ~(i <= p) /\ ~(j <= p) /\ j # p + 1
      BY <1>8, <3>1
    <3>3. QED
      BY <1>3, <1>8, <3>2
  <2>2. j - 1 \in 1 .. Len(tf) /\ j - 1 > p
    BY <1>1, <1>2, <1>8
  <2>3. tf[j - 1].tgo < t.tgo /\ tf[j - 1].tgo \in Int
    BY <1>1, <1>2, <2>2
  <2>4. QED
    BY <1>1, <2>1, <2>3
<1>9. CASE i > p + 1
  <2>1. i \in Int /\ j \in Int /\ p \in Int /\ Len(tf) \in Int
    BY <1>1, <1>2
  <2>2. ~(i <= p) /\ i # p + 1 /\ ~(j <= p) /\ j # p + 1
    BY <1>5, <1>9, <2>1
  <2>3. new[i] = tf[i - 1] /\ new[j] = tf[j - 1]
    BY <1>3, <2>2
  <2>4. i - 1 \in 1 .. Len(tf) /\ j - 1 \in 1 .. Len(tf) /\ i - 1 < j - 1
    BY <1>2, <1>5, <1>9, <2>1
  <2>5. QED
    BY <2>3, <2>4
<1>10. CASE i <= p /\ j > p + 1
  BY SMTT(30), <1>1, <1>2, <1>3, <1>5, <1>10
<1>11. QED
  BY <1>1, <1>2, <1>6, <1>7, <1>8, <1>9, <1>10

(* rmTimer removes the entry it found.                                      *)
LEMMA ShiftedIsSeq ==
  ASSUME NEW T, NEW tf \in Seq(T), NEW k \in 1 .. Len(tf)
  PROVE  /\ Shifted(tf, k) \in Seq(T)
         /\ Len(Shifted(tf, k)) = Len(tf) - 1
         /\ \A i \in 1 .. Len(tf) - 1 :
              Shifted(tf, k)[i] = IF i < k THEN tf[i] ELSE tf[i + 1]
<1> DEFINE new == Shifted(tf, k)
<1>1. /\ Len(tf) \in Nat /\ Len(tf) - 1 \in Nat
      /\ \A i \in 1 .. Len(tf) : tf[i] \in T
  BY LenProperties, ElementOfSeq
<1>2. new = [i \in 1 .. Len(tf) - 1 |-> IF i < k THEN tf[i] ELSE tf[i + 1]]
  BY DEF Shifted
<1> HIDE DEF new
<1>3. \A i \in 1 .. Len(tf) - 1 : (IF i < k THEN tf[i] ELSE tf[i + 1]) \in T
  BY <1>1
<1>4. new \in [1 .. Len(tf) - 1 -> T]
  BY <1>2, <1>3
<1>5. new \in Seq(T)
  BY <1>1, <1>4, SeqDef
<1>6. Len(new) = Len(tf) - 1
  BY <1>1, <1>4, <1>5, LenProperties
<1>7. QED
  BY <1>2, <1>5, <1>6 DEF new

(* checkTimer drops the last entry.                                         *)
LEMMA DropLastIsSeq ==
  ASSUME NEW T, NEW tf \in Seq(T)
  PROVE  /\ DropLast(tf) \in Seq(T)
         /\ tf # <<>> => Len(DropLast(tf)) = Len(tf) - 1
         /\ tf = <<>> => DropLast(tf) = <<>>
         /\ \A i \in 1 .. Len(tf) - 1 : DropLast(tf)[i] = tf[i]
<1> DEFINE new == DropLast(tf)
<1>1. /\ Len(tf) \in Nat /\ \A i \in 1 .. Len(tf) : tf[i] \in T
  BY LenProperties, ElementOfSeq
<1>2. new = [i \in 1 .. Len(tf) - 1 |-> tf[i]]
  BY DEF DropLast
<1> HIDE DEF new
<1>3. CASE tf = <<>>
  <2>1. Len(tf) = 0
    BY <1>3, EmptySeq
  <2>2. new = [i \in 1 .. 0 |-> tf[i]] /\ 1 .. 0 = {}
    BY <1>2, <2>1
  <2>3. new \in [1 .. 0 -> T]
    BY <2>2
  <2>4. new \in Seq(T)
    BY <2>3, SeqDef
  <2>5. Len(new) = 0
    BY <2>3, <2>4, LenProperties
  <2>6. new = <<>>
    BY <2>4, <2>5, EmptySeq
  <2>7. QED
    BY <1>3, <2>1, <2>4, <2>6 DEF new
<1>4. CASE tf # <<>>
  <2>1. Len(tf) - 1 \in Nat
    BY <1>1, <1>4, EmptySeq
  <2>2. new \in [1 .. Len(tf) - 1 -> T]
    BY <1>1, <1>2, <2>1
  <2>3. new \in Seq(T)
    BY <2>1, <2>2, SeqDef
  <2>4. Len(new) = Len(tf) - 1
    BY <2>1, <2>2, <2>3, LenProperties
  <2>5. QED
    BY <1>2, <1>4, <2>3, <2>4 DEF new
<1>5. QED
  BY <1>3, <1>4

-----------------------------------------------------------------------------
(* ToInt yields an integer.                                                 *)
LEMMA ToIntIsInt == ASSUME NEW x \in Int PROVE ToInt(x) \in Int
<1>1. 2 * IntHalf \in Nat \ {0} /\ x + IntHalf \in Int /\ IntHalf \in Int
  BY EventLoopAssumption
<1>2. (x + IntHalf) % (2 * IntHalf) \in Int
  BY <1>1, ModIsNat
<1>3. QED
  BY <1>1, <1>2 DEF ToInt

(* EPOCHDT is an int.                                                       *)
LEMMA ClockIsInt == ASSUME now \in Nat PROVE Clock \in Int
<1> DEFINE second == PerSecond * Sub
           at     == Epoch + now
<1>1. second \in Nat \ {0} /\ Epoch \in Int /\ at \in Int
  BY EventLoopAssumption
<1> HIDE DEF second, at
<1>2. at % second \in Int /\ at \div second \in Int
  BY <1>1, ModIsNat
<1>3. \A d \in Int : Millis(d) \in Int
  BY EventLoopAssumption DEF Millis
<1>4. (at \div second) * PerSecond + Millis((at % second) - Epoch) \in Int
  BY <1>1, <1>2, <1>3, EventLoopAssumption
<1>5. Elapsed(at) \in Int
  BY <1>4 DEF Elapsed, second
<1>6. QED
  BY <1>5, ToIntIsInt DEF Clock, at

(* The fields of a timer, and slots stay slots when freed.                  *)
LEMMA TimerFields ==
  /\ \A x \in Timers : x.tgo \in Int
  /\ \A x \in Slots : /\ [x EXCEPT !.in_use = FALSE] \in Slots
                      /\ ~[x EXCEPT !.in_use = FALSE].in_use
  /\ \A x \in WpSlots : /\ [x EXCEPT !.in_use = FALSE] \in WpSlots
                        /\ ~[x EXCEPT !.in_use = FALSE].in_use
BY DEF Timers, Slots, WpSlots

(* Every step keeps the types; that the counts agree matters where a        *)
(* dispatcher scans for a slot because its count says there is one.         *)
LEMMA TypeStep == TypeOK /\ CountsAgree /\ [Next]_vars => TypeOK'
<1> SUFFICES ASSUME TypeOK, CountsAgree, [Next]_vars PROVE TypeOK'
  OBVIOUS
<1> USE EventLoopAssumption
<1>1. CASE Tick
  BY <1>1 DEF Tick, TypeOK, cbVars, timerVars, wpVars
<1>2. ASSUME NEW fd \in Fds, Arrive(fd) PROVE TypeOK'
  BY <1>2 DEF Arrive, TypeOK, cbVars, timerVars, wpVars
<1>3. ASSUME NEW fd \in Fds, AddCallback(fd) PROVE TypeOK'
  <2>1. [in_use |-> TRUE, fd |-> fd] \in Slots
    BY DEF Slots
  <2>2. cback' \in Seq(Slots)
    BY <1>3, <2>1, PutSlotAddsOne DEF AddCallback, TypeOK
  <2>3. QED
    BY <1>3, <2>2 DEF AddCallback, Call, TypeOK, Kinds, kernelVars, timerVars, wpVars
<1>4. ASSUME NEW cid \in 1 .. MaxSlots, RmCallback(cid) PROVE TypeOK'
  <2>1. cback' \in Seq(Slots)
    <3>1. CASE cid \in InUse(cback)
      <4>1. cback' = FreedSlot(cback, cid) /\ cback \in Seq(Slots)
        BY <1>4, <3>1 DEF RmCallback, TypeOK
      <4>2. QED
        BY <3>1, <4>1, FreedSlotRemovesOne, TimerFields
    <3>2. CASE cid \notin InUse(cback)
      BY <1>4, <3>2 DEF RmCallback, TypeOK
    <3>3. QED
      BY <3>1, <3>2
  <2>2. ncbinuse' \in Int
    BY <1>4 DEF RmCallback, TypeOK
  <2>3. QED
    BY <1>4, <2>1, <2>2 DEF RmCallback, Call, TypeOK, Kinds, kernelVars, timerVars, wpVars
<1>5. ASSUME NEW ms \in Delays, AddTimer(ms) PROVE TypeOK'
  <2>1. PICK tgo \in TriggerTimes(ms) :
          timef' = Inserted(timef, NewTimer(tgo, ms))
    BY <1>5 DEF AddTimer
  <2>2. tgo \in Int
    <3>1. Clock + ms \in Int
      BY ClockIsInt DEF TypeOK
    <3>2. QED
      BY <2>1, <3>1, ToIntIsInt DEF TriggerTimes
  <2>3. NewTimer(tgo, ms) \in Timers
    BY <2>2 DEF NewTimer, Timers, TypeOK
  <2>4. timef \in Seq(Timers) /\ Len(timef) \in Nat
    BY LenProperties DEF TypeOK
  <2>5. timef' \in Seq(Timers)
    BY <2>1, <2>3, <2>4, InsertedIsSeq, TimerFields
  <2>6. tbytes' \in Nat /\ tid' \in Nat
    BY <1>5, <2>4 DEF AddTimer, GrownBytes, TypeOK
  <2>7. fate' \in Seq(Fates) /\ Len(fate') = tid'
    BY <1>5 DEF AddTimer, TypeOK, Fates
  <2>8. QED
    BY <1>5, <2>5, <2>6, <2>7 DEF AddTimer, Call, TypeOK, Kinds, kernelVars, cbVars, wpVars
<1>6. ASSUME NEW id \in 1 .. tid, RmTimer(id) PROVE TypeOK'
  <2>1. /\ timef \in Seq(Timers) /\ Len(timef) \in Nat
        /\ DOMAIN timef = 1 .. Len(timef)
    BY LenProperties DEF TypeOK
  <2>2. timef' \in Seq(Timers)
    BY <1>6, <2>1, ShiftedIsSeq DEF RmTimer
  <2>3. tbytes' \in Nat
    <3>1. ASSUME timef # <<>> PROVE (Len(timef) - 1) * CBSize \in Nat
      <4>1. Len(timef) - 1 \in Nat
        BY <2>1, <3>1, EmptySeq
      <4>2. QED
        BY <4>1
    <3>2. CASE \E k \in DOMAIN timef : tbytes' = (Len(timef) - 1) * CBSize
      <4>1. timef # <<>>
        BY <2>1, <3>2, EmptySeq
      <4>2. QED
        BY <3>1, <3>2, <4>1
    <3>3. CASE tbytes' = tbytes
      BY <3>3 DEF TypeOK
    <3>4. QED
      BY <1>6, <3>2, <3>3 DEF RmTimer
  <2>4. fate' \in Seq(Fates) /\ Len(fate') = tid
    <3>1. id \in 1 .. Len(fate) /\ fate \in Seq(Fates) /\ fate[id] \in Fates
      BY ElementOfSeq DEF TypeOK
    <3>2. (IF fate[id] = "pending" THEN "cancelled" ELSE fate[id]) \in Fates
      BY <3>1 DEF Fates
    <3>3. CASE fate' = [fate EXCEPT ![id] = IF @ = "pending" THEN "cancelled" ELSE @]
      BY <3>1, <3>2, <3>3, ExceptSeq DEF TypeOK
    <3>4. CASE fate' = fate
      BY <3>4 DEF TypeOK
    <3>5. QED
      BY <1>6, <3>3, <3>4 DEF RmTimer
  <2>5. QED
    BY <1>6, <2>2, <2>3, <2>4 DEF RmTimer, Call, TypeOK, Kinds, kernelVars, cbVars, wpVars
<1>7. CASE AddWorkProc
  <2>1. [in_use |-> TRUE] \in WpSlots
    BY DEF WpSlots
  <2>2. wproc' \in Seq(WpSlots)
    BY <1>7, <2>1, PutSlotAddsOne DEF AddWorkProc, TypeOK
  <2>3. QED
    BY <1>7, <2>2 DEF AddWorkProc, Call, TypeOK, Kinds, kernelVars, timerVars, cbVars
<1>8. ASSUME NEW wid \in 1 .. MaxSlots, RmWorkProc(wid) PROVE TypeOK'
  <2>1. wproc' \in Seq(WpSlots)
    <3>1. CASE wid \in InUse(wproc)
      <4>1. wproc' = FreedSlot(wproc, wid) /\ wproc \in Seq(WpSlots)
        BY <1>8, <3>1 DEF RmWorkProc, TypeOK
      <4>2. QED
        BY <3>1, <4>1, FreedSlotRemovesOne, TimerFields
    <3>2. CASE wid \notin InUse(wproc)
      BY <1>8, <3>2 DEF RmWorkProc, TypeOK
    <3>3. QED
      BY <3>1, <3>2
  <2>2. nwpinuse' \in Int
    BY <1>8 DEF RmWorkProc, TypeOK
  <2>3. QED
    BY <1>8, <2>1, <2>2 DEF RmWorkProc, Call, TypeOK, Kinds, kernelVars, timerVars, cbVars
<1>9. CASE StartLoop
  BY <1>9 DEF StartLoop, TypeOK, kernelVars, cbVars, timerVars, wpVars
<1>10. CASE Select
  BY <1>10 DEF Select, TypeOK, kernelVars, cbVars, timerVars, wpVars
<1>11. CASE SelectFails
  BY <1>11 DEF SelectFails, TypeOK, kernelVars, cbVars, timerVars, wpVars
<1>12. CASE NoTimerDue
  BY <1>12 DEF NoTimerDue, TypeOK, kernelVars, cbVars, timerVars, wpVars
<1>13. CASE FireTimer
  <2> DEFINE id == timef[Len(timef)].tid
  <2>1. timef \in Seq(Timers) /\ Len(timef) \in 1 .. Len(timef)
    BY <1>13, LenProperties, EmptySeq DEF FireTimer, TimerDue, TypeOK
  <2>2. id \in Nat
    <3>1. timef[Len(timef)] \in Timers
      BY <2>1, ElementOfSeq
    <3>2. QED
      BY <3>1 DEF Timers
  <2> HIDE DEF id
  <2>3. fate' \in Seq(Fates) /\ Len(fate') = tid
    <3>1. fate' = [fate EXCEPT ![id] = IF @ = "pending" THEN "fired" ELSE "again"]
      BY <1>13 DEF FireTimer, id
    <3>2. CASE id \in 1 .. Len(fate)
      BY <3>1, <3>2, ExceptSeq DEF TypeOK, Fates
    <3>3. CASE id \notin 1 .. Len(fate)
      <4>1. fate' = fate
        BY <3>1, <3>3, LenProperties DEF TypeOK
      <4>2. QED
        BY <4>1 DEF TypeOK
    <3>4. QED
      BY <3>2, <3>3
  <2>4. running' \in Nat
    BY <1>13, <2>2 DEF FireTimer, id
  <2>5. QED
    BY <1>13, <2>3, <2>4 DEF FireTimer, TypeOK, Kinds, kernelVars, cbVars, wpVars
<1>14. CASE TimerReturns
  <2>1. timef' \in Seq(Timers)
    BY <1>14, DropLastIsSeq DEF TimerReturns, TypeOK
  <2>2. QED
    BY <1>14, <2>1 DEF TimerReturns, TypeOK, Kinds, kernelVars, cbVars, wpVars
<1>15. CASE SkipDispatch
  BY <1>15 DEF SkipDispatch, TypeOK, kernelVars, cbVars, timerVars, wpVars
<1>16. CASE RunWorkProc
  <2>1. lastwp' \in Nat
    <3>1. lastwp' = NextInTurn(InUse(wproc), lastwp, Len(wproc)) - 1
      BY <1>16 DEF RunWorkProc
    <3>2. InUse(wproc) \in SUBSET (1 .. Len(wproc)) /\ Len(wproc) \in Nat
      BY LenProperties DEF InUse, TypeOK
    <3>3. InUse(wproc) # {}
      <4>1. nwpinuse > 0 /\ nwpinuse = Cardinality(InUse(wproc))
        BY <1>16 DEF RunWorkProc, CountsAgree
      <4>2. CASE InUse(wproc) = {}
        <5>1. Cardinality(InUse(wproc)) = 0
          BY <4>2, FS_EmptySet
        <5>2. QED
          BY <4>1, <5>1
      <4>3. QED
        BY <4>2
    <3>4. NextInTurn(InUse(wproc), lastwp, Len(wproc)) \in 1 .. Len(wproc)
      BY <3>2, <3>3, NextInTurnIsMember DEF TypeOK
    <3>5. QED
      BY <3>1, <3>2, <3>4
  <2>2. QED
    BY <1>16, <2>1 DEF RunWorkProc, TypeOK, Kinds, kernelVars, cbVars, timerVars
<1>17. CASE CallCallback /\ Callable # {}
  <2>1. Callable \in SUBSET (1 .. Len(cback)) /\ Callable # {} /\ Len(cback) \in Nat
    BY <1>17, LenProperties DEF Callable, InUse, TypeOK
  <2>2. NextInTurn(Callable, lastcb, Len(cback)) \in 1 .. Len(cback)
    BY <2>1, NextInTurnIsMember DEF TypeOK
  <2>3. lastcb' \in Nat
    BY <1>17, <2>2 DEF CallCallback
  <2>4. QED
    BY <1>17, <2>3 DEF CallCallback, TypeOK, Kinds, timerVars, wpVars
<1>18. CASE CallCallback /\ Callable = {}
  BY <1>18 DEF CallCallback, TypeOK, timerVars, wpVars
<1>19. CASE FunctionReturns
  BY <1>19 DEF FunctionReturns, TypeOK, kernelVars, cbVars, timerVars, wpVars
<1>20. CASE UNCHANGED vars
  BY <1>20 DEF vars, TypeOK, kernelVars, cbVars, timerVars, wpVars
<1>21. QED
  BY <1>1, <1>2, <1>3, <1>4, <1>5, <1>6, <1>7, <1>8, <1>9, <1>10, <1>11, <1>12,
     <1>13, <1>14, <1>15, <1>16, <1>17, <1>18, <1>19, <1>20 DEF Next, Api, Loop, Proceed

(* The steps that touch neither slot array.                                 *)
LEMMA OtherStepsKeepSlots ==
  ASSUME [Next]_vars,
         ~(\E fd \in Fds : AddCallback(fd)), ~(\E cid \in 1 .. MaxSlots : RmCallback(cid)),
         ~AddWorkProc, ~(\E wid \in 1 .. MaxSlots : RmWorkProc(wid))
  PROVE  UNCHANGED <<cback, ncbinuse, wproc, nwpinuse>>
<1> USE DEF cbVars, timerVars, wpVars
<1>1. CASE Tick \/ \E fd \in Fds : Arrive(fd)
  BY <1>1 DEF Tick, Arrive
<1>2. CASE (\E ms \in Delays : AddTimer(ms)) \/ (\E id \in 1 .. tid : RmTimer(id))
  BY <1>2 DEF AddTimer, RmTimer
<1>3. CASE Loop
  BY <1>3 DEF Loop, Proceed, StartLoop, Select, SelectFails, NoTimerDue, FireTimer, TimerReturns,
              SkipDispatch, RunWorkProc, CallCallback, FunctionReturns
<1>4. CASE UNCHANGED vars
  BY <1>4 DEF vars
<1>5. QED
  BY <1>1, <1>2, <1>3, <1>4 DEF Next, Api

(* Every step keeps the two counts equal to the slots in use.               *)
LEMMA CountsStep == TypeOK /\ CountsAgree /\ [Next]_vars => CountsAgree'
<1> SUFFICES ASSUME TypeOK, CountsAgree, [Next]_vars PROVE CountsAgree'
  OBVIOUS
<1>1. cback \in Seq(Slots) /\ wproc \in Seq(WpSlots)
  BY DEF TypeOK
<1>2. ASSUME NEW fd \in Fds, AddCallback(fd) PROVE CountsAgree'
  <2>1. [in_use |-> TRUE, fd |-> fd] \in Slots
    BY DEF Slots
  <2>2. Cardinality(InUse(cback')) = Cardinality(InUse(cback)) + 1
    BY <1>1, <1>2, <2>1, PutSlotAddsOne DEF AddCallback
  <2>3. QED
    BY <1>2, <2>2 DEF AddCallback, CountsAgree, wpVars
<1>3. ASSUME NEW cid \in 1 .. MaxSlots, RmCallback(cid) PROVE CountsAgree'
  <2>1. CASE cid \in InUse(cback)
    <3>1. cback' = FreedSlot(cback, cid) /\ ncbinuse' = ncbinuse - 1
      BY <1>3, <2>1 DEF RmCallback
    <3>2. Cardinality(InUse(cback')) = Cardinality(InUse(cback)) - 1
      BY <1>1, <2>1, <3>1, FreedSlotRemovesOne, TimerFields
    <3>3. QED
      BY <1>3, <3>1, <3>2 DEF RmCallback, CountsAgree, wpVars
  <2>2. CASE cid \notin InUse(cback)
    BY <1>3, <2>2 DEF RmCallback, CountsAgree, wpVars
  <2>3. QED
    BY <2>1, <2>2
<1>4. CASE AddWorkProc
  <2>1. [in_use |-> TRUE] \in WpSlots
    BY DEF WpSlots
  <2>2. Cardinality(InUse(wproc')) = Cardinality(InUse(wproc)) + 1
    BY <1>1, <1>4, <2>1, PutSlotAddsOne DEF AddWorkProc
  <2>3. QED
    BY <1>4, <2>2 DEF AddWorkProc, CountsAgree, cbVars
<1>5. ASSUME NEW wid \in 1 .. MaxSlots, RmWorkProc(wid) PROVE CountsAgree'
  <2>1. CASE wid \in InUse(wproc)
    <3>1. wproc' = FreedSlot(wproc, wid) /\ nwpinuse' = nwpinuse - 1
      BY <1>5, <2>1 DEF RmWorkProc
    <3>2. Cardinality(InUse(wproc')) = Cardinality(InUse(wproc)) - 1
      BY <1>1, <2>1, <3>1, FreedSlotRemovesOne, TimerFields
    <3>3. QED
      BY <1>5, <3>1, <3>2 DEF RmWorkProc, CountsAgree, cbVars
  <2>2. CASE wid \notin InUse(wproc)
    BY <1>5, <2>2 DEF RmWorkProc, CountsAgree, cbVars
  <2>3. QED
    BY <2>1, <2>2
<1>6. CASE UNCHANGED <<cback, ncbinuse, wproc, nwpinuse>>
  BY <1>6 DEF CountsAgree
<1>7. QED
  BY <1>2, <1>3, <1>4, <1>5, <1>6, OtherStepsKeepSlots

(* Every reachable state is of the declared type, and the two counts of     *)
(* slots in use are right in it.                                            *)
THEOREM TypesAndCounts == Spec => [](TypeOK /\ CountsAgree)
<1>1. Init => TypeOK /\ CountsAgree
  <2> SUFFICES ASSUME Init PROVE TypeOK /\ CountsAgree
    OBVIOUS
  <2>1. TypeOK
    BY EventLoopAssumption, EmptySeq DEF Init, TypeOK, Kinds
  <2>2. InUse(<<>>) = {}
    BY EmptySeq DEF InUse
  <2>3. QED
    BY <2>1, <2>2, FS_EmptySet DEF Init, CountsAgree
<1>2. TypeOK /\ CountsAgree /\ [Next]_vars => (TypeOK /\ CountsAgree)'
  BY TypeStep, CountsStep
<1>3. QED
  BY <1>1, <1>2, PTL DEF Spec

-----------------------------------------------------------------------------
(* The timer list's order.                                                  *)

(* The steps that do not touch the timer list.                              *)
LEMMA OtherStepsKeepTimers ==
  ASSUME [Next]_vars, ~(\E ms \in Delays : AddTimer(ms)),
         ~(\E id \in 1 .. tid : RmTimer(id)), ~TimerReturns
  PROVE  UNCHANGED <<timef, tbytes, tid>>
<1> USE DEF cbVars, timerVars, wpVars
<1>1. CASE Tick \/ \E fd \in Fds : Arrive(fd)
  BY <1>1 DEF Tick, Arrive
<1>2. CASE \/ \E fd \in Fds : AddCallback(fd)
           \/ \E cid \in 1 .. MaxSlots : RmCallback(cid)
           \/ AddWorkProc
           \/ \E wid \in 1 .. MaxSlots : RmWorkProc(wid)
  BY <1>2 DEF AddCallback, RmCallback, AddWorkProc, RmWorkProc
<1>3. CASE Loop
  BY <1>3 DEF Loop, Proceed, StartLoop, Select, SelectFails, NoTimerDue, FireTimer,
              SkipDispatch, RunWorkProc, CallCallback, FunctionReturns
<1>4. CASE UNCHANGED vars
  BY <1>4 DEF vars
<1>5. QED
  BY <1>1, <1>2, <1>3, <1>4 DEF Next, Api

(* The list is in order by decreasing trigger time, whatever the functions  *)
(* add and remove: looking at its last entry alone is enough.               *)
THEOREM TimersAlwaysSorted == Spec => []TimersSorted
<1>1. Init => TimersSorted
  BY EmptySeq DEF Init, TimersSorted
<1>2. TypeOK /\ TimersSorted /\ [Next]_vars => TimersSorted'
  <2> SUFFICES ASSUME TypeOK, TimersSorted, [Next]_vars PROVE TimersSorted'
    OBVIOUS
  <2>1. /\ timef \in Seq(Timers) /\ Len(timef) \in Nat
        /\ DOMAIN timef = 1 .. Len(timef)
        /\ \A i \in 1 .. Len(timef) : timef[i].tgo \in Int
    BY LenProperties, ElementOfSeq, TimerFields DEF TypeOK
  <2>2. \A i, j \in 1 .. Len(timef) : i < j => timef[i].tgo >= timef[j].tgo
    BY <2>1 DEF TimersSorted
  <2>3. ASSUME NEW ms \in Delays, AddTimer(ms) PROVE TimersSorted'
    <3>1. PICK tgo \in TriggerTimes(ms) :
            timef' = Inserted(timef, NewTimer(tgo, ms))
      BY <2>3 DEF AddTimer
    <3> DEFINE t == NewTimer(tgo, ms)
    <3>2. t \in Timers
      <4>1. Clock + ms \in Int
        BY ClockIsInt, EventLoopAssumption DEF TypeOK
      <4>2. tgo \in Int
        BY <3>1, <4>1, ToIntIsInt, EventLoopAssumption DEF TriggerTimes
      <4>3. QED
        BY <4>2, EventLoopAssumption DEF NewTimer, Timers, TypeOK
    <3> HIDE DEF t
    <3>3. /\ Inserted(timef, t) \in Seq(Timers)
          /\ Len(Inserted(timef, t)) = Len(timef) + 1
      BY <2>1, <3>2, InsertedIsSeq, TimerFields
    <3>4. \A i, j \in 1 .. Len(timef) + 1 :
            i < j => Inserted(timef, t)[i].tgo >= Inserted(timef, t)[j].tgo
      BY <2>1, <2>2, <3>2, InsertedSorted, TimerFields
    <3>5. DOMAIN Inserted(timef, t) = 1 .. Len(timef) + 1
      BY <3>3, LenProperties
    <3>6. QED
      BY <3>1, <3>4, <3>5 DEF TimersSorted, t
  <2>4. ASSUME NEW id \in 1 .. tid, RmTimer(id) PROVE TimersSorted'
    <3>1. CASE UNCHANGED timef
      BY <3>1 DEF TimersSorted
    <3>2. ASSUME NEW k \in DOMAIN timef, timef' = Shifted(timef, k) PROVE TimersSorted'
      <4>1. /\ timef' \in Seq(Timers) /\ Len(timef') = Len(timef) - 1
            /\ \A i \in 1 .. Len(timef) - 1 :
                 timef'[i] = IF i < k THEN timef[i] ELSE timef[i + 1]
        BY <2>1, <3>2, ShiftedIsSeq
      <4>2. DOMAIN timef' = 1 .. Len(timef) - 1
        BY <4>1, LenProperties
      <4>3. SUFFICES ASSUME NEW i \in 1 .. Len(timef) - 1, NEW j \in 1 .. Len(timef) - 1,
                            i < j
                     PROVE  timef'[i].tgo >= timef'[j].tgo
        BY <4>2 DEF TimersSorted
      <4>4. /\ timef'[i] = IF i < k THEN timef[i] ELSE timef[i + 1]
            /\ timef'[j] = IF j < k THEN timef[j] ELSE timef[j + 1]
        BY <4>1
      <4>5. /\ i \in 1 .. Len(timef) /\ i + 1 \in 1 .. Len(timef)
            /\ j \in 1 .. Len(timef) /\ j + 1 \in 1 .. Len(timef)
            /\ k \in Int
        BY <2>1, <3>2
      <4>6. CASE i < k /\ j < k
        BY <2>2, <4>3, <4>4, <4>5, <4>6
      <4>7. CASE i < k /\ ~(j < k)
        BY <2>2, <4>3, <4>4, <4>5, <4>7
      <4>8. CASE ~(i < k)
        <5>1. ~(j < k) /\ i + 1 < j + 1
          BY <4>3, <4>5, <4>8
        <5>2. QED
          BY <2>2, <4>4, <4>5, <4>8, <5>1
      <4>9. QED
        BY <4>6, <4>7, <4>8
    <3>3. QED
      BY <2>4, <3>1, <3>2 DEF RmTimer
  <2>5. CASE TimerReturns
    <3>1. timef' = DropLast(timef)
      BY <2>5 DEF TimerReturns
    <3>2. CASE timef = <<>>
      <4>1. timef' = timef
        BY <2>1, <3>1, <3>2, DropLastIsSeq
      <4>2. QED
        BY <4>1 DEF TimersSorted
    <3>3. CASE timef # <<>>
      <4>1. /\ timef' \in Seq(Timers) /\ Len(timef') = Len(timef) - 1
            /\ \A i \in 1 .. Len(timef) - 1 : timef'[i] = timef[i]
        BY <2>1, <3>1, <3>3, DropLastIsSeq
      <4>2. DOMAIN timef' = 1 .. Len(timef) - 1
        BY <4>1, LenProperties
      <4>3. QED
        BY SMTT(30), <2>1, <2>2, <4>1, <4>2 DEF TimersSorted
    <3>4. QED
      BY <3>2, <3>3
  <2>6. CASE UNCHANGED timef
    BY <2>6 DEF TimersSorted
  <2>7. QED
    BY <2>3, <2>4, <2>5, <2>6, OtherStepsKeepTimers
<1>3. QED
  BY <1>1, <1>2, TypesAndCounts, PTL DEF Spec

-----------------------------------------------------------------------------
(* The scan of callCallback().                                              *)

(* A timer's function removes no callbacks.                                 *)
TimersKeepCallbacks == "rmCallback" \notin Calls["inTimer"]

(* What select() reported is still watched when it is looked for.           *)
ReportedWatched ==
  pc \in {"checkTimer", "inTimer", "dispatch"} => rfd \subseteq Watched

(* An add call leaves the slots in use as they are.                         *)
LEMMA PutSlotKeeps ==
  ASSUME NEW S, NEW slots \in Seq(S), NEW s \in S, NEW x \in InUse(slots)
  PROVE  x \in InUse(PutSlot(slots, s)) /\ PutSlot(slots, s)[x] = slots[x]
<1> DEFINE f == FreeSlot(slots)
           n == IF f > Len(slots) THEN f ELSE Len(slots)
           new == PutSlot(slots, s)
<1>1. Len(slots) \in Nat /\ DOMAIN slots = 1 .. Len(slots) /\ x \in DOMAIN slots
  BY LenProperties DEF InUse
<1>2. f \in 1 .. Len(slots) + 1 /\ f # x
  BY FreeSlotIsFree
<1> HIDE DEF f
<1>3. new = [y \in 1 .. n |-> IF y = f THEN s ELSE slots[y]]
  BY DEF PutSlot, f
<1>4. x \in 1 .. n
  BY <1>1, <1>2
<1> HIDE DEF new, n
<1>5. x \in DOMAIN new /\ new[x] = slots[x]
  BY <1>2, <1>3, <1>4
<1>6. QED
  BY <1>5 DEF InUse, new

(* Every step keeps it: only the functions of callbacks and work procedures *)
(* remove callbacks, and select() is called before the next scan.           *)
LEMMA ReportedStep ==
  ASSUME TimersKeepCallbacks, TypeOK, ReportedWatched, [Next]_vars
  PROVE  ReportedWatched'
<1> USE DEF kernelVars, cbVars, timerVars, wpVars
<1>1. CASE \E fd \in Fds : AddCallback(fd)
  <2>1. PICK fd \in Fds : AddCallback(fd)
    BY <1>1
  <2>2. cback' = PutSlot(cback, [in_use |-> TRUE, fd |-> fd]) /\ pc' = pc /\ rfd' = rfd
    BY <2>1 DEF AddCallback, Call
  <2>3. [in_use |-> TRUE, fd |-> fd] \in Slots /\ cback \in Seq(Slots)
    BY DEF Slots, TypeOK
  <2>4. \A x \in InUse(cback) : x \in InUse(cback)' /\ cback'[x] = cback[x]
    BY <2>2, <2>3, PutSlotKeeps
  <2>5. Watched \subseteq Watched'
    BY <2>4 DEF Watched
  <2>6. QED
    BY <2>2, <2>5 DEF ReportedWatched
<1>2. CASE \E cid \in 1 .. MaxSlots : RmCallback(cid)
  BY <1>2 DEF RmCallback, Call, ReportedWatched, TimersKeepCallbacks, Kinds
<1>3. CASE UNCHANGED <<cback, pc, rfd>>
  BY <1>3 DEF ReportedWatched, Watched, InUse
<1>4. CASE Loop
  <2>1. cback' = cback
    BY <1>4 DEF Loop, Proceed, StartLoop, Select, SelectFails, NoTimerDue, FireTimer, TimerReturns,
                SkipDispatch, RunWorkProc, CallCallback, FunctionReturns
  <2>2. Watched' = Watched
    BY <2>1 DEF Watched, InUse
  <2>3. CASE Select
    BY <2>2, <2>3 DEF Select, ReportedWatched
  <2>4. CASE ~Select
    BY <1>4, <2>2, <2>4 DEF Loop, Proceed, StartLoop, SelectFails, NoTimerDue, FireTimer, TimerReturns,
                SkipDispatch, RunWorkProc, CallCallback, FunctionReturns, ReportedWatched
  <2>5. QED
    BY <2>3, <2>4
<1>5. CASE \/ Tick \/ \E fd \in Fds : Arrive(fd)
           \/ \E ms \in Delays : AddTimer(ms)
           \/ \E id \in 1 .. tid : RmTimer(id)
           \/ AddWorkProc
           \/ \E wid \in 1 .. MaxSlots : RmWorkProc(wid)
  <2>1. UNCHANGED <<cback, pc, rfd>>
    BY <1>5 DEF Tick, Arrive, AddTimer, RmTimer, AddWorkProc, RmWorkProc, Call
  <2>2. QED
    BY <1>3, <2>1
<1>6. CASE UNCHANGED vars
  BY <1>3, <1>6 DEF vars
<1>7. QED
  BY <1>1, <1>2, <1>4, <1>5, <1>6 DEF Next, Api

(* If no timer's function removes a callback, callCallback()'s scan always  *)
(* finds a slot: the program never hangs in it.                             *)
THEOREM NeverHangs ==
  ASSUME TimersKeepCallbacks
  PROVE  Spec => []NeverSpins
<1>1. Init => ReportedWatched /\ NeverSpins
  BY DEF Init, ReportedWatched, NeverSpins
<1>2. TypeOK /\ ReportedWatched /\ NeverSpins /\ [Next]_vars => (ReportedWatched /\ NeverSpins)'
  <2> SUFFICES ASSUME TypeOK, ReportedWatched, NeverSpins, [Next]_vars
               PROVE  ReportedWatched' /\ NeverSpins'
    OBVIOUS
  <2> USE DEF NeverSpins
  <2>1. CASE CallCallback
    <3>1. pc = "dispatch" /\ rfd # {} /\ rfd \subseteq Watched
      BY <2>1 DEF CallCallback, ReportedWatched
    <3>2. Callable # {}
      BY <3>1 DEF Watched, Callable
    <3>3. pc' = "inCallback"
      BY <2>1, <3>2 DEF CallCallback
    <3>4. QED
      BY <3>3, ReportedStep
  <2>2. CASE Tick \/ (\E fd \in Fds : Arrive(fd)) \/ UNCHANGED vars
    BY <2>2, ReportedStep DEF Tick, Arrive, vars
  <2>3. CASE Api
    <3>1. pc' = pc
      BY <2>3 DEF Api, AddCallback, RmCallback, AddTimer, RmTimer, AddWorkProc, RmWorkProc, Call
    <3>2. QED
      BY <3>1, ReportedStep
  <2>4. CASE Loop /\ ~CallCallback
    <3>1. pc' # "spin"
      BY <2>4 DEF Loop, Proceed, StartLoop, Select, SelectFails, NoTimerDue, FireTimer, TimerReturns,
                  SkipDispatch, RunWorkProc, FunctionReturns
    <3>2. QED
      BY <3>1, ReportedStep
  <2>5. QED
    BY <2>1, <2>2, <2>3, <2>4 DEF Next
<1>3. QED
  BY <1>1, <1>2, TypesAndCounts, PTL DEF Spec

-----------------------------------------------------------------------------
(* What the timer list promises.                                            *)

(* No delay is zero, and no function of a timer removes that timer ("we     *)
(* assume it didn't remove itself").                                        *)
ProperTimers == 0 \notin Delays /\ "rmSelf" \notin Calls["inTimer"]

(* The clock's milliseconds fit into an int.                                *)
ClockFits == MaxTime + Sub <= IntHalf * Sub

(* The program sets no timer before it calls eventLoop().                   *)
NoneBefore == "addTimer" \notin Calls["setup"]

(* The entries of a list, whether no id is listed twice, and the ids.       *)
Members(tf)  == {tf[x] : x \in DOMAIN tf}
Distinct(tf) == \A x, y \in DOMAIN tf : tf[x].tid = tf[y].tid => x = y
Ids(tf)      == {x.tid : x \in Members(tf)}

(* The quotient and the remainder of a division.                            *)
LEMMA Divided ==
  ASSUME NEW n \in Nat, NEW m \in Nat \ {0}
  PROVE  /\ n \div m \in Nat /\ n % m \in 0 .. m - 1
         /\ n = (n \div m) * m + (n % m)
OBVIOUS

(* Products with a positive factor compare as the other factors do.         *)
LEMMA LessTimes ==
  ASSUME NEW a \in Int, NEW b \in Int, a * Sub < b * Sub
  PROVE  a < b
BY EventLoopAssumption

(* Millis() rounds down what is positive, and up what is negative.          *)
LEMMA MillisIs ==
  ASSUME NEW d \in Int
  PROVE  /\ Millis(d) \in Int
         /\ d >= 0 => Millis(d) * Sub <= d /\ d < Millis(d) * Sub + Sub
         /\ d <= 0 => d <= Millis(d) * Sub /\ Millis(d) * Sub < d + Sub
<1>1. Sub \in Nat \ {0}
  BY EventLoopAssumption
<1>2. CASE d >= 0
  <2> DEFINE q == d \div Sub
             r == d % Sub
  <2>0. d \in Nat
    BY <1>2
  <2>1. q \in Nat /\ r \in 0 .. Sub - 1 /\ d = q * Sub + r
    BY <1>1, <2>0, Divided
  <2>2. Millis(d) = q
    BY <1>2 DEF Millis
  <2> HIDE DEF q, r
  <2>3. q * Sub \in Nat /\ r >= 0 /\ r < Sub
    BY <1>1, <2>1
  <2>4. d = 0 => q * Sub = 0
    BY <2>1, <2>3
  <2>5. QED
    BY <1>1, <1>2, <2>1, <2>2, <2>3, <2>4
<1>3. CASE d < 0
  <2> DEFINE c == -d
             q == c \div Sub
             r == c % Sub
  <2>1. c \in Nat
    BY <1>3
  <2> HIDE DEF c
  <2>2. q \in Nat /\ r \in 0 .. Sub - 1 /\ c = q * Sub + r
    BY <1>1, <2>1, Divided
  <2>3. Millis(d) = -q
    BY <1>3 DEF Millis, c
  <2> HIDE DEF q, r
  <2>4. q * Sub \in Nat /\ (-q) * Sub = -(q * Sub) /\ r >= 0 /\ r < Sub
    BY <1>1, <2>2
  <2>5. d = -c
    BY DEF c
  <2>6. QED
    BY <1>1, <1>3, <2>1, <2>2, <2>3, <2>4, <2>5
<1>4. QED
  BY <1>2, <1>3

(* How far the clock is beyond the epoch's place in its second.             *)
Beyond(n) == ((Epoch + n) % (PerSecond * Sub)) - Epoch

(* EPOCHDT is what has passed, rounded down or, before that place in a      *)
(* second, up.                                                              *)
LEMMA ElapsedIs ==
  ASSUME NEW n \in Nat
  PROVE  LET e == Elapsed(Epoch + n)
         IN  /\ e \in Nat /\ Beyond(n) \in Int
             /\ Beyond(n) >= 0 => e * Sub <= n /\ n < e * Sub + Sub
             /\ Beyond(n) <= 0 => n <= e * Sub /\ e * Sub < n + Sub
<1> DEFINE second == PerSecond * Sub
           at == Epoch + n
           q == at \div second
           d == (at % second) - Epoch
           m == Millis(d)
           e == Elapsed(at)
<1>1. second \in Nat \ {0} /\ Epoch \in Nat /\ at \in Nat /\ Sub \in Nat \ {0} /\ PerSecond \in Nat
  BY EventLoopAssumption
<1>2. q \in Nat /\ d \in Int /\ at = q * second + (d + Epoch)
  <2> HIDE DEF second, at
  <2>1. at \div second \in Nat /\ at % second \in 0 .. second - 1
        /\ at = (at \div second) * second + (at % second)
    BY <1>1, Divided
  <2>2. QED
    BY <1>1, <2>1
<1>3. /\ m \in Int
      /\ d >= 0 => m * Sub <= d /\ d < m * Sub + Sub
      /\ d <= 0 => d <= m * Sub /\ m * Sub < d + Sub
  <2> HIDE DEF d
  <2>1. QED
    BY <1>2, MillisIs
<1>4. e = q * PerSecond + m /\ Beyond(n) = d
  BY DEF Elapsed, Beyond
<1> HIDE DEF q, m, e
<1>5. d \in Int /\ n = q * second + d
  <2> HIDE DEF d, second
  <2>1. Epoch + n = q * second + (d + Epoch) /\ q * second \in Int
    BY <1>1, <1>2 DEF at
  <2>2. QED
    BY <1>1, <1>2, <2>1
<1> HIDE DEF d
<1>6. e \in Int /\ e * Sub = q * second + m * Sub
  <2>1. q * PerSecond \in Int
    BY <1>1, <1>2
  <2>2. e * Sub = (q * PerSecond) * Sub + m * Sub
    BY <1>1, <1>3, <1>4, <2>1
  <2>3. (q * PerSecond) * Sub = q * (PerSecond * Sub)
    BY <1>1, <1>2
  <2>4. QED
    BY <1>3, <1>4, <2>1, <2>2, <2>3 DEF second
<1> HIDE DEF second
<1>7. /\ d >= 0 => e * Sub <= n /\ n < e * Sub + Sub
      /\ d <= 0 => n <= e * Sub /\ e * Sub < n + Sub
  <2>1. q * second \in Int /\ m * Sub \in Int
    BY <1>1, <1>2, <1>3
  <2>2. QED
    BY <1>1, <1>3, <1>5, <1>6, <2>1
<1>8. e >= 0
  <2>1. (-1) * Sub = -Sub /\ e * Sub \in Int
    BY <1>1, <1>6
  <2>2. (-1) * Sub < e * Sub
    BY <1>1, <1>5, <1>7, <2>1
  <2>3. -1 < e
    BY <1>6, <2>2, LessTimes
  <2>4. QED
    BY <1>6, <2>3
<1>9. QED
  BY <1>4, <1>5, <1>6, <1>7, <1>8 DEF e, at

(* EPOCHDT is off by less than a millisecond.                               *)
LEMMA ElapsedNear ==
  ASSUME NEW n \in Nat
  PROVE  LET e == Elapsed(Epoch + n)
         IN  e \in Nat /\ n < e * Sub + Sub /\ e * Sub < n + Sub
<1> DEFINE e == Elapsed(Epoch + n)
<1>1. /\ e \in Nat /\ Beyond(n) \in Int
      /\ Beyond(n) >= 0 => e * Sub <= n /\ n < e * Sub + Sub
      /\ Beyond(n) <= 0 => n <= e * Sub /\ e * Sub < n + Sub
  BY ElapsedIs
<1> HIDE DEF e
<1>2. Sub \in Nat \ {0} /\ e * Sub \in Int
  BY <1>1, EventLoopAssumption
<1>3. QED
  BY <1>1, <1>2 DEF e

(* The remainder grows by one at most.                                      *)
LEMMA StepMod ==
  ASSUME NEW n \in Nat, NEW m \in Nat \ {0}
  PROVE  (n + 1) % m <= (n % m) + 1
<1> DEFINE q == n \div m
           r == n % m
           p == (n + 1) \div m
           s == (n + 1) % m
<1>1. q \in Nat /\ r \in 0 .. m - 1 /\ n = q * m + r
  BY Divided
<1>2. p \in Nat /\ s \in 0 .. m - 1 /\ n + 1 = p * m + s
  <2>1. n + 1 \in Nat
    OBVIOUS
  <2>2. QED
    BY <2>1, Divided
<1> HIDE DEF q, r, p, s
<1>3. SUFFICES ASSUME s > r + 1 PROVE FALSE
  BY <1>1, <1>2 DEF r, s
<1>4. p * m \in Int /\ q * m \in Int /\ (p + 1) * m = p * m + m
  BY <1>1, <1>2
<1>5. p * m < q * m /\ q * m < (p + 1) * m
  BY <1>1, <1>2, <1>3, <1>4
<1>6. ASSUME NEW x \in Int, NEW y \in Int, x * m < y * m PROVE x < y
  BY <1>6
<1>7. p < q /\ q < p + 1
  BY <1>1, <1>2, <1>5, <1>6
<1>8. QED
  BY <1>1, <1>2, <1>7

(* It gains at most one millisecond with a tick, and loses none.            *)
LEMMA NextMilli ==
  ASSUME NEW n \in Nat
  PROVE  Elapsed(Epoch + (n + 1)) \in {Elapsed(Epoch + n), Elapsed(Epoch + n) + 1}
<1> DEFINE a == Elapsed(Epoch + n)
           b == Elapsed(Epoch + (n + 1))
           c == Beyond(n)
           d == Beyond(n + 1)
<1>1. /\ a \in Nat /\ c \in Int
      /\ c >= 0 => a * Sub <= n /\ n < a * Sub + Sub
      /\ c <= 0 => n <= a * Sub /\ a * Sub < n + Sub
  BY ElapsedIs
<1>2. /\ b \in Nat /\ d \in Int
      /\ d >= 0 => b * Sub <= n + 1 /\ n + 1 < b * Sub + Sub
      /\ d <= 0 => n + 1 <= b * Sub /\ b * Sub < n + 1 + Sub
  BY ElapsedIs
<1>3. c < 0 => d <= 0
  <2> DEFINE second == PerSecond * Sub
             at == Epoch + n
  <2>1. second \in Nat \ {0} /\ at \in Nat /\ Epoch \in 0 .. second - 1
    BY EventLoopAssumption
  <2>2. Epoch + (n + 1) = at + 1
    BY <2>1
  <2> HIDE DEF second, at
  <2>3. (at + 1) % second <= (at % second) + 1
    BY <2>1, StepMod
  <2>4. at % second \in Int /\ (at + 1) % second \in Int /\ Epoch \in Int
    BY <2>1, ModIsNat
  <2>5. c = (at % second) - Epoch /\ d = ((at + 1) % second) - Epoch
    BY <2>2 DEF Beyond, at, second
  <2> HIDE DEF c, d
  <2>6. QED
    BY <2>3, <2>4, <2>5
<1> HIDE DEF a, b, c, d
<1>4. /\ Sub \in Nat \ {0} /\ a * Sub \in Int /\ b * Sub \in Int
      /\ (a + 2) * Sub = a * Sub + 2 * Sub /\ (b + 1) * Sub = b * Sub + Sub
  BY <1>1, <1>2, EventLoopAssumption
<1>5. b * Sub < (a + 2) * Sub
  BY <1>1, <1>2, <1>4
<1>6. a * Sub < (b + 1) * Sub
  <2>1. CASE c >= 0
    BY <1>1, <1>2, <1>4, <2>1
  <2>2. CASE c < 0
    BY <1>1, <1>2, <1>3, <1>4, <2>2
  <2>3. QED
    BY <1>1, <2>1, <2>2
<1>7. b < a + 2 /\ a < b + 1
  BY <1>1, <1>2, <1>5, <1>6, LessTimes
<1>8. QED
  BY <1>1, <1>2, <1>7 DEF a, b

(* What fits into an int is not changed by being put into one.              *)
LEMMA ToIntFits ==
  ASSUME NEW x \in Nat, x < IntHalf
  PROVE  ToInt(x) = x
BY EventLoopAssumption DEF ToInt

(* EPOCHDT, and the trigger time of a timer, do not wrap.                   *)
LEMMA ClockIs ==
  ASSUME ClockFits, now \in Nat, now <= MaxTime
  PROVE  Clock = Elapsed(Epoch + now) /\ Clock \in Nat
<1> DEFINE a == Elapsed(Epoch + now)
<1>1. a \in Nat /\ a * Sub < now + Sub
  BY ElapsedNear
<1>2. Sub \in Nat /\ IntHalf \in Nat /\ MaxTime \in Nat
  BY EventLoopAssumption
<1> HIDE DEF a
<1>3. a < IntHalf
  BY <1>1, <1>2, LessTimes DEF ClockFits
<1>4. QED
  BY <1>1, <1>3, ToIntFits DEF Clock, a

(* A trigger time in the clock's range does not wrap either.                *)
LEMMA TriggerIs ==
  ASSUME ClockFits, now \in Nat, NEW ms \in Nat, now + ms * Sub <= MaxTime
  PROVE  ToInt(Clock + ms) = Clock + ms /\ now <= MaxTime
<1> DEFINE a == Elapsed(Epoch + now)
<1>1. a \in Nat /\ a * Sub < now + Sub
  BY ElapsedNear
<1>2. Sub \in Nat /\ IntHalf \in Nat /\ MaxTime \in Nat /\ ms * Sub \in Nat
  BY EventLoopAssumption
<1> HIDE DEF a
<1>3. now <= MaxTime
  BY <1>2
<1>4. (a + ms) * Sub < IntHalf * Sub
  <2>1. (a + ms) * Sub = a * Sub + ms * Sub /\ a * Sub \in Nat
    BY <1>1, <1>2
  <2>2. QED
    BY <1>1, <1>2, <2>1 DEF ClockFits
<1>5. a + ms < IntHalf
  BY <1>1, <1>2, <1>4, LessTimes
<1>6. QED
  BY <1>1, <1>3, <1>5, ToIntFits, ClockIs DEF a

(* What addTimer, rmTimer and checkTimer do to the entries.                 *)
LEMMA InsertedMembers ==
  ASSUME NEW tf \in Seq(Timers), NEW t \in Timers
  PROVE  /\ Members(Inserted(tf, t)) = Members(tf) \union {t}
         /\ Distinct(tf) /\ t.tid \notin Ids(tf) => Distinct(Inserted(tf, t))
         /\ Len(Inserted(tf, t)) = Len(tf) + 1
         /\ tf # <<>> /\ tf[Len(tf)].tgo < t.tgo
              => Inserted(tf, t)[Len(tf) + 1] = tf[Len(tf)]
<1> DEFINE p == InsertAfter(tf, t.tgo)
           new == Inserted(tf, t)
<1>1. /\ Len(tf) \in Nat /\ DOMAIN tf = 1 .. Len(tf)
      /\ t.tgo \in Int /\ \A x \in 1 .. Len(tf) : tf[x] \in Timers /\ tf[x].tgo \in Int
  BY LenProperties, ElementOfSeq, TimerFields
<1>2. /\ p \in 0 .. Len(tf)
      /\ p > 0 => tf[p].tgo >= t.tgo
  BY <1>1, TimerFields, InsertAfterIsLast
<1>3. /\ new \in Seq(Timers) /\ Len(new) = Len(tf) + 1
      /\ \A x \in 1 .. Len(tf) + 1 :
           new[x] = IF x <= p THEN tf[x] ELSE IF x = p + 1 THEN t ELSE tf[x - 1]
  BY TimerFields, InsertedIsSeq
<1>4. DOMAIN new = 1 .. Len(tf) + 1
  BY <1>3, LenProperties
<1> HIDE DEF p, new
<1>5. /\ \A x \in 1 .. p : new[x] = tf[x]
      /\ new[p + 1] = t
      /\ \A x \in p + 2 .. Len(tf) + 1 : new[x] = tf[x - 1] /\ x - 1 \in p + 1 .. Len(tf)
      /\ \A x \in 1 .. Len(tf) + 1 : x \in 1 .. p \/ x = p + 1 \/ x \in p + 2 .. Len(tf) + 1
  BY <1>1, <1>2, <1>3
<1>6. Members(new) = Members(tf) \union {t}
  <2>1. Members(new) \subseteq Members(tf) \union {t}
    <3>1. SUFFICES ASSUME NEW x \in 1 .. Len(tf) + 1 PROVE new[x] \in Members(tf) \union {t}
      BY <1>4 DEF Members
    <3>2. CASE x \in 1 .. p
      BY <1>1, <1>2, <1>5, <3>2 DEF Members
    <3>3. CASE x = p + 1
      BY <1>5, <3>3
    <3>4. CASE x \in p + 2 .. Len(tf) + 1
      <4>1. new[x] = tf[x - 1] /\ x - 1 \in DOMAIN tf
        BY <1>1, <1>2, <1>5, <3>4
      <4>2. QED
        BY <4>1 DEF Members
    <3>5. QED
      BY <1>5, <3>2, <3>3, <3>4
  <2>2. t \in Members(new)
    <3>1. p + 1 \in DOMAIN new
      BY <1>1, <1>2, <1>4
    <3>2. QED
      BY <1>5, <3>1 DEF Members
  <2>3. ASSUME NEW x \in 1 .. Len(tf) PROVE tf[x] \in Members(new)
    <3>1. CASE x <= p
      <4>1. x \in DOMAIN new /\ new[x] = tf[x]
        BY <1>1, <1>2, <1>4, <1>5, <3>1
      <4>2. QED
        BY <4>1 DEF Members
    <3>2. CASE ~(x <= p)
      <4>1. x + 1 \in p + 2 .. Len(tf) + 1 /\ x + 1 \in DOMAIN new /\ x + 1 - 1 = x
        BY <1>1, <1>2, <1>4, <3>2
      <4>2. new[x + 1] = tf[x]
        BY <1>5, <4>1
      <4>3. QED
        BY <4>1, <4>2 DEF Members
    <3>3. QED
      BY <3>1, <3>2
  <2>4. QED
    BY <1>1, <2>1, <2>2, <2>3 DEF Members
<1>7. ASSUME Distinct(tf), t.tid \notin Ids(tf) PROVE Distinct(new)
  <2>1. \A x \in 1 .. Len(tf) : tf[x].tid # t.tid
    BY <1>1, <1>7 DEF Ids, Members
  <2>2. \A x, y \in 1 .. Len(tf) : tf[x].tid = tf[y].tid => x = y
    BY <1>1, <1>7 DEF Distinct
  <2>3. SUFFICES ASSUME NEW x \in 1 .. Len(tf) + 1, NEW y \in 1 .. Len(tf) + 1,
                        new[x].tid = new[y].tid
                 PROVE  x = y
    BY <1>4 DEF Distinct
  <2> DEFINE o(z) == IF z <= p THEN z ELSE z - 1
  <2>4. \A z \in 1 .. Len(tf) + 1 : z # p + 1 => o(z) \in 1 .. Len(tf) /\ new[z] = tf[o(z)]
    BY <1>1, <1>2, <1>3
  <2>5. \A z, w \in 1 .. Len(tf) + 1 : z # p + 1 /\ w # p + 1 /\ o(z) = o(w) => z = w
    BY <1>1, <1>2
  <2> HIDE DEF o
  <2>6. QED
    BY SMTT(30), <1>5, <2>1, <2>2, <2>3, <2>4, <2>5
<1>8. ASSUME tf # <<>>, tf[Len(tf)].tgo < t.tgo PROVE new[Len(tf) + 1] = tf[Len(tf)]
  <2>1. Len(tf) \in 1 .. Len(tf)
    BY <1>1, <1>8, EmptySeq
  <2>2. p # Len(tf)
    <3>1. tf[Len(tf)].tgo \in Int /\ ~(tf[Len(tf)].tgo >= t.tgo) /\ Len(tf) > 0
      BY <1>1, <1>8, <2>1
    <3>2. QED
      BY <1>2, <3>1
  <2>3. ~(Len(tf) + 1 <= p) /\ Len(tf) + 1 # p + 1 /\ Len(tf) + 1 \in 1 .. Len(tf) + 1
    <3>1. p \in 0 .. Len(tf) /\ Len(tf) \in Nat
      BY <1>1, <1>2
    <3>2. QED
      BY <2>2, <3>1
  <2>4. QED
    BY <1>1, <1>3, <2>3
<1>9. QED
  BY <1>3, <1>6, <1>7, <1>8 DEF new

(* Closing the gap of an entry removes that entry and no other, and leaves  *)
(* the last one last.                                                       *)
LEMMA ShiftedMembers ==
  ASSUME NEW tf \in Seq(Timers), Distinct(tf), NEW x \in DOMAIN tf
  PROVE  /\ Members(Shifted(tf, x)) = Members(tf) \ {tf[x]} /\ Distinct(Shifted(tf, x))
         /\ x # Len(tf) => /\ Shifted(tf, x) # <<>>
                           /\ Shifted(tf, x)[Len(Shifted(tf, x))] = tf[Len(tf)]
<1> DEFINE new == Shifted(tf, x)
           o(y) == IF y < x THEN y ELSE y + 1
<1>1. /\ Len(tf) \in Nat /\ DOMAIN tf = 1 .. Len(tf) /\ x \in 1 .. Len(tf)
  BY LenProperties
<1>2. /\ new \in Seq(Timers) /\ Len(new) = Len(tf) - 1
      /\ \A y \in 1 .. Len(tf) - 1 : new[y] = IF y < x THEN tf[y] ELSE tf[y + 1]
  BY <1>1, ShiftedIsSeq
<1>3. DOMAIN new = 1 .. Len(tf) - 1
  BY <1>2, LenProperties
<1> HIDE DEF new
<1>4. /\ \A y \in DOMAIN new : new[y] = tf[o(y)] /\ o(y) \in DOMAIN tf \ {x}
      /\ \A y, z \in DOMAIN new : o(y) = o(z) => y = z
  BY <1>1, <1>2, <1>3
<1>5. \A z \in DOMAIN tf \ {x} : \E y \in DOMAIN new : z = o(y)
  <2> TAKE z \in DOMAIN tf \ {x}
  <2>1. CASE z < x
    <3>1. z \in DOMAIN new /\ o(z) = z
      BY <1>1, <1>3, <2>1
    <3>2. QED
      BY <3>1
  <2>2. CASE ~(z < x)
    <3>1. z - 1 \in DOMAIN new /\ o(z - 1) = z
      BY <1>1, <1>3, <2>2
    <3>2. QED
      BY <3>1
  <2>3. QED
    BY <2>1, <2>2
<1>6. ASSUME x # Len(tf) PROVE new # <<>> /\ new[Len(new)] = tf[Len(tf)]
  <2>1. Len(new) \in DOMAIN new /\ Len(new) # 0 /\ ~(Len(new) < x)
    BY <1>1, <1>2, <1>3, <1>6
  <2>2. o(Len(new)) = Len(tf)
    BY <1>1, <1>2, <2>1
  <2>3. QED
    BY <1>4, <2>1, <2>2, EmptySeq
<1> HIDE DEF o
<1>7. \A y, z \in DOMAIN tf : tf[y] = tf[z] => y = z
  BY DEF Distinct
<1>8. Members(new) = Members(tf) \ {tf[x]}
  BY <1>4, <1>5, <1>7 DEF Members
<1>9. Distinct(new)
  BY <1>4 DEF Distinct
<1>10. QED
  BY <1>6, <1>8, <1>9 DEF new

(* Dropping the last entry removes it and no other.                         *)
LEMMA DropLastMembers ==
  ASSUME NEW tf \in Seq(Timers), Distinct(tf), tf # <<>>
  PROVE  /\ Members(DropLast(tf)) = Members(tf) \ {tf[Len(tf)]} /\ Distinct(DropLast(tf))
         /\ Len(tf) \in DOMAIN tf
<1> DEFINE new == DropLast(tf)
<1>1. /\ Len(tf) \in Nat /\ DOMAIN tf = 1 .. Len(tf) /\ Len(tf) \in 1 .. Len(tf)
  BY LenProperties, EmptySeq
<1>2. /\ new \in Seq(Timers) /\ Len(new) = Len(tf) - 1
      /\ \A y \in 1 .. Len(tf) - 1 : new[y] = tf[y]
  BY <1>1, DropLastIsSeq
<1>3. DOMAIN new = 1 .. Len(tf) - 1
  BY <1>2, LenProperties
<1> HIDE DEF new
<1>4. /\ \A y \in DOMAIN new : new[y] = tf[y]
      /\ DOMAIN new = DOMAIN tf \ {Len(tf)}
  BY <1>1, <1>2, <1>3
<1>5. \A y, z \in DOMAIN tf : tf[y] = tf[z] => y = z
  BY DEF Distinct
<1>6. Members(new) = Members(tf) \ {tf[Len(tf)]}
  BY <1>1, <1>4, <1>5 DEF Members
<1>7. Distinct(new)
  BY <1>4 DEF Distinct
<1>8. QED
  BY <1>1, <1>6, <1>7 DEF new

-----------------------------------------------------------------------------
(* No registration is lost: a timer's function runs while its timer is the  *)
(* last entry, which is the one dropped afterwards, because what is added   *)
(* meanwhile is due later.                                                  *)
Listed ==
  /\ now <= MaxTime
  /\ Distinct(timef) /\ Ids(timef) \subseteq 1 .. tid
  /\ Ids(timef) \ {running} = Pending
  /\ pc = "inTimer" => /\ timef # <<>> /\ running = timef[Len(timef)].tid
                       /\ timef[Len(timef)].tgo <= Clock
  /\ pc # "inTimer" => running = 0

(* What addTimer does to the list.                                          *)
LEMMA AddTimerFacts ==
  ASSUME ClockFits, TypeOK, Listed, NEW ms \in Delays, AddTimer(ms)
  PROVE  /\ UNCHANGED <<pc, now, running>> /\ tid' = tid + 1
         /\ fate' = Append(fate, "pending")
         /\ \E t \in Timers :
              /\ timef' = Inserted(timef, t)
              /\ t.tid = tid + 1 /\ t.at = now /\ t.ms = ms
              /\ pc # "setup" => t.tgo = Clock + ms
<1>1. PICK tgo \in TriggerTimes(ms) : timef' = Inserted(timef, NewTimer(tgo, ms))
  BY DEF AddTimer
<1>2. ms \in Nat /\ now \in Nat /\ tid \in Nat /\ now + ms * Sub <= MaxTime
  BY EventLoopAssumption DEF AddTimer, TypeOK
<1>3. ToInt(Clock + ms) = Clock + ms /\ Clock \in Nat
  BY <1>2, TriggerIs, ClockIs DEF Listed
<1>4. tgo \in Int /\ (pc # "setup" => tgo = Clock + ms)
  BY <1>1, <1>2, <1>3, EventLoopAssumption DEF TriggerTimes
<1>5. NewTimer(tgo, ms) \in Timers
  BY <1>2, <1>4 DEF NewTimer, Timers
<1>6. QED
  BY <1>1, <1>4, <1>5 DEF AddTimer, Call, kernelVars, NewTimer

(* What rmTimer does: it removes one entry, or finds none.                  *)
LEMMA RmTimerFacts ==
  ASSUME ProperTimers, Listed, NEW id \in 1 .. tid, RmTimer(id)
  PROVE  /\ UNCHANGED <<pc, now, running, tid>>
         /\ \/ UNCHANGED <<timef, fate>>
            \/ /\ id # running
               /\ fate' = [fate EXCEPT ![id] = IF @ = "pending" THEN "cancelled" ELSE @]
               /\ \E x \in DOMAIN timef : timef[x].tid = id /\ timef' = Shifted(timef, x)
<1>1. id # running
  <2>1. CASE pc = "inTimer"
    BY <2>1 DEF RmTimer, Call, ProperTimers
  <2>2. CASE pc # "inTimer"
    BY <2>2 DEF Listed
  <2>3. QED
    BY <2>1, <2>2
<1>2. QED
  BY <1>1 DEF RmTimer, Call, kernelVars

(* The steps that touch neither the list nor what became of the timers.     *)
LEMMA OtherStepsKeepList ==
  ASSUME [Next]_vars, ~(\E ms \in Delays : AddTimer(ms)),
         ~(\E id \in 1 .. tid : RmTimer(id)), ~FireTimer, ~TimerReturns
  PROVE  /\ UNCHANGED <<timef, tid, running, fate>>
         /\ now' = now \/ Tick
         /\ pc' = pc \/ (pc # "inTimer" /\ pc' # "inTimer")
<1> USE DEF cbVars, timerVars, wpVars, kernelVars, Kinds
<1>1. CASE Tick \/ \E fd \in Fds : Arrive(fd)
  BY <1>1 DEF Tick, Arrive
<1>2. CASE \/ \E fd \in Fds : AddCallback(fd)
           \/ \E cid \in 1 .. MaxSlots : RmCallback(cid)
           \/ AddWorkProc
           \/ \E wid \in 1 .. MaxSlots : RmWorkProc(wid)
  BY <1>2 DEF AddCallback, RmCallback, AddWorkProc, RmWorkProc, Call
<1>3. CASE Loop
  BY <1>3 DEF Loop, Proceed, StartLoop, Select, SelectFails, NoTimerDue,
              SkipDispatch, RunWorkProc, CallCallback, FunctionReturns
<1>4. CASE UNCHANGED vars
  BY <1>4 DEF vars
<1>5. QED
  BY <1>1, <1>2, <1>3, <1>4 DEF Next, Api

(* The clock does not run backwards.                                        *)
LEMMA TickFacts ==
  ASSUME ClockFits, TypeOK, now <= MaxTime, now' = now \/ Tick
  PROVE  now' \in Nat /\ now' <= MaxTime /\ Clock \in Nat /\ Clock' \in {Clock, Clock + 1}
<1>1. MaxTime \in Nat /\ now \in Nat
  BY EventLoopAssumption DEF TypeOK
<1>2. Clock = Elapsed(Epoch + now) /\ Clock \in Nat
  BY <1>1, ClockIs
<1>3. CASE now' = now
  BY <1>1, <1>2, <1>3 DEF Clock
<1>4. CASE Tick
  <2>1. now' = now + 1 /\ now' \in Nat /\ now' <= MaxTime
    BY <1>1, <1>4 DEF Tick
  <2>2. ToInt(Elapsed(Epoch + (now + 1))) = Elapsed(Epoch + (now + 1))
    <3> DEFINE b == Elapsed(Epoch + (now + 1))
    <3>1. now + 1 \in Nat
      BY <1>1
    <3>2. b \in Nat /\ b * Sub < now + 1 + Sub
      BY <3>1, ElapsedNear
    <3>3. Sub \in Nat /\ IntHalf \in Nat
      BY EventLoopAssumption
    <3> HIDE DEF b
    <3>4. b < IntHalf
      BY <1>1, <2>1, <3>2, <3>3, LessTimes DEF ClockFits
    <3>5. QED
      BY <3>2, <3>4, ToIntFits DEF b
  <2>3. Clock' = Elapsed(Epoch + (now + 1))
    BY <2>1, <2>2 DEF Clock
  <2>4. QED
    BY <1>1, <1>2, <2>1, <2>3, NextMilli
<1>5. QED
  BY <1>3, <1>4

(* The entry that is last is one of the list.                               *)
LEMMA LastIs ==
  ASSUME TypeOK, Listed, timef # <<>>
  PROVE  /\ Len(timef) \in DOMAIN timef /\ timef[Len(timef)] \in Members(timef)
         /\ timef[Len(timef)] \in Timers /\ timef[Len(timef)].tid \in 1 .. tid
<1>1. Len(timef) \in DOMAIN timef /\ timef[Len(timef)] \in Timers
  BY LenProperties, EmptySeq, ElementOfSeq DEF TypeOK
<1>2. timef[Len(timef)] \in Members(timef)
  BY <1>1 DEF Members
<1>3. timef[Len(timef)].tid \in Ids(timef)
  BY <1>2 DEF Ids
<1>4. QED
  BY <1>1, <1>2, <1>3 DEF Listed

(* Every step keeps the list so.                                            *)
LEMMA ListedStep ==
  ASSUME ProperTimers, ClockFits, TypeOK, Listed, [Next]_vars
  PROVE  Listed'
<1>1. /\ timef \in Seq(Timers) /\ now \in Nat /\ tid \in Nat /\ running \in Nat
      /\ fate \in Seq(Fates) /\ Len(fate) = tid /\ DOMAIN fate = 1 .. tid /\ Clock \in Nat
  BY ClockIs, LenProperties DEF TypeOK, Listed
<1>2. ASSUME NEW ms \in Delays, AddTimer(ms) PROVE Listed'
  <2>1. /\ UNCHANGED <<pc, now, running>> /\ tid' = tid + 1 /\ fate' = Append(fate, "pending")
    BY <1>2, AddTimerFacts
  <2>2. PICK t \in Timers :
          /\ timef' = Inserted(timef, t)
          /\ t.tid = tid + 1 /\ t.at = now /\ t.ms = ms
          /\ pc # "setup" => t.tgo = Clock + ms
    BY <1>2, AddTimerFacts
  <2>3. t.tid \notin Ids(timef)
    BY <1>1, <2>2 DEF Listed
  <2>4. /\ Members(timef') = Members(timef) \union {t} /\ Distinct(timef')
        /\ Len(timef') = Len(timef) + 1
    BY <1>1, <2>2, <2>3, InsertedMembers DEF Listed
  <2>5. Ids(timef') = Ids(timef) \union {tid + 1}
    BY <2>2, <2>4 DEF Ids
  <2>6. Pending' = Pending \union {tid + 1}
    <3>1. /\ DOMAIN fate' = 1 .. tid + 1 /\ fate'[tid + 1] = "pending"
          /\ \A x \in 1 .. tid : fate'[x] = fate[x]
      BY <1>1, <2>1, AppendProperties, LenProperties
    <3>2. QED
      BY <1>1, <3>1 DEF Pending
  <2>7. running # tid + 1
    <3>1. CASE pc = "inTimer"
      BY <1>1, <3>1, LastIs DEF Listed
    <3>2. CASE pc # "inTimer"
      BY <1>1, <3>2 DEF Listed
    <3>3. QED
      BY <3>1, <3>2
  <2>8. ASSUME pc = "inTimer"
        PROVE  /\ timef' # <<>> /\ running = timef'[Len(timef')].tid
               /\ timef'[Len(timef')].tgo <= Clock
    <3>1. /\ timef # <<>> /\ running = timef[Len(timef)].tid
          /\ timef[Len(timef)].tgo <= Clock
      BY <2>8 DEF Listed
    <3>2. timef[Len(timef)].tgo \in Int /\ Len(timef) \in Nat
      BY <1>1, <3>1, LastIs, TimerFields, LenProperties
    <3>3. ms \in Nat /\ ms # 0
      BY EventLoopAssumption DEF ProperTimers
    <3>4. timef[Len(timef)].tgo < t.tgo
      BY <1>1, <2>2, <2>8, <3>1, <3>2, <3>3
    <3>5. timef'[Len(timef')] = timef[Len(timef)]
      BY <1>1, <2>2, <2>4, <3>1, <3>4, InsertedMembers
    <3>6. Len(timef') # 0
      BY <2>4, <3>2
    <3>7. QED
      BY <3>1, <3>5, <3>6, EmptySeq
  <2>9. Clock' = Clock
    BY <2>1 DEF Clock
  <2>10. Ids(timef') \subseteq 1 .. tid'
    BY <1>1, <2>1, <2>5 DEF Listed
  <2>11. Ids(timef') \ {running'} = Pending'
    BY <2>1, <2>5, <2>6, <2>7 DEF Listed
  <2>12. QED
    BY <2>1, <2>4, <2>8, <2>9, <2>10, <2>11 DEF Listed, Distinct, Ids, Members
<1>3. ASSUME NEW id \in 1 .. tid, RmTimer(id) PROVE Listed'
  <2>1. UNCHANGED <<pc, now, running, tid>> /\ Clock' = Clock
    BY <1>3, RmTimerFacts DEF Clock
  <2>2. CASE UNCHANGED <<timef, fate>>
    BY <2>1, <2>2 DEF Listed, Distinct, Ids, Members, Pending
  <2>3. ASSUME id # running, NEW x \in DOMAIN timef, timef[x].tid = id,
               fate' = [fate EXCEPT ![id] = IF @ = "pending" THEN "cancelled" ELSE @],
               timef' = Shifted(timef, x)
        PROVE  Listed'
    <3>1. /\ Members(timef') = Members(timef) \ {timef[x]} /\ Distinct(timef')
          /\ x # Len(timef) => timef' # <<>> /\ timef'[Len(timef')] = timef[Len(timef)]
      BY <1>1, <2>3, ShiftedMembers DEF Listed
    <3>2. Ids(timef') = Ids(timef) \ {id}
      <4>1. \A y \in Members(timef) : y.tid = id => y = timef[x]
        BY <2>3 DEF Members, Listed, Distinct
      <4>2. QED
        BY <2>3, <3>1, <4>1 DEF Ids
    <3>3. Pending' = Pending \ {id}
      BY <1>1, <2>3 DEF Pending
    <3>4. ASSUME pc = "inTimer"
          PROVE  /\ timef' # <<>> /\ running = timef'[Len(timef')].tid
                 /\ timef'[Len(timef')].tgo <= Clock
      <4>1. /\ timef # <<>> /\ running = timef[Len(timef)].tid
            /\ timef[Len(timef)].tgo <= Clock
        BY <3>4 DEF Listed
      <4>2. x # Len(timef)
        BY <2>3, <4>1
      <4>3. QED
        BY <3>1, <4>1, <4>2
    <3>5. QED
      BY <2>1, <3>1, <3>2, <3>3, <3>4 DEF Listed
  <2>4. QED
    BY <1>3, <2>2, <2>3, RmTimerFacts
<1>4. CASE FireTimer
  <2> DEFINE id == timef[Len(timef)].tid
  <2>1. /\ timef # <<>> /\ timef[Len(timef)].tgo <= Clock /\ pc # "inTimer" /\ pc' = "inTimer"
        /\ UNCHANGED <<now, timef, tid>> /\ running' = id
        /\ fate' = [fate EXCEPT ![id] = IF @ = "pending" THEN "fired" ELSE "again"]
        /\ Clock' = Clock
    BY <1>4 DEF FireTimer, TimerDue, kernelVars, Clock
  <2>2. id \in 1 .. tid /\ running = 0
    BY <2>1, LastIs DEF Listed
  <2> HIDE DEF id
  <2>3. Pending' = Pending \ {id}
    BY <1>1, <2>1, <2>2 DEF Pending
  <2>4. Ids(timef) = Pending
    BY <2>2 DEF Listed
  <2>5. Ids(timef') = Ids(timef) /\ Distinct(timef')
    BY <2>1 DEF Listed
  <2>6. Ids(timef') \ {running'} = Pending'
    BY <2>1, <2>3, <2>4, <2>5
  <2>7. running' = timef'[Len(timef')].tid /\ timef'[Len(timef')].tgo <= Clock' /\ timef' # <<>>
    BY <2>1 DEF id
  <2>8. QED
    BY <2>1, <2>5, <2>6, <2>7 DEF Listed
<1>5. CASE TimerReturns
  <2>1. /\ timef # <<>> /\ running = timef[Len(timef)].tid /\ timef' = DropLast(timef)
        /\ UNCHANGED <<now, tid, fate>> /\ running' = 0 /\ pc' # "inTimer"
    BY <1>5 DEF TimerReturns, kernelVars, Listed
  <2>2. /\ Members(timef') = Members(timef) \ {timef[Len(timef)]} /\ Distinct(timef')
    BY <1>1, <2>1, DropLastMembers DEF Listed
  <2>3. \A y \in Members(timef) : y.tid = running => y = timef[Len(timef)]
    <3>1. Len(timef) \in DOMAIN timef
      BY <2>1, LastIs
    <3>2. QED
      BY <2>1, <3>1 DEF Members, Listed, Distinct
  <2>4. Ids(timef') = Ids(timef) \ {running}
    BY <2>1, <2>2, <2>3 DEF Ids
  <2>5. Pending' = Pending /\ 0 \notin 1 .. tid
    BY <1>1, <2>1 DEF Pending
  <2>6. QED
    BY <2>1, <2>2, <2>4, <2>5 DEF Listed
<1>6. CASE /\ UNCHANGED <<timef, tid, running, fate>>
           /\ now' = now \/ Tick
           /\ pc' = pc \/ (pc # "inTimer" /\ pc' # "inTimer")
  <2>1. now' \in Nat /\ now' <= MaxTime /\ Clock' \in {Clock, Clock + 1}
    BY <1>6, TickFacts DEF Listed
  <2>2. pc = "inTimer" => timef[Len(timef)].tgo \in Int
    BY LastIs, TimerFields DEF Listed
  <2>3. pc = "inTimer" => timef[Len(timef)].tgo <= Clock'
    BY <1>1, <2>1, <2>2 DEF Listed
  <2>4. Pending' = Pending /\ Ids(timef') = Ids(timef) /\ Distinct(timef')
    BY <1>6 DEF Pending, Listed
  <2>5. QED
    BY <1>6, <2>1, <2>3, <2>4 DEF Listed
<1>7. QED
  BY <1>2, <1>3, <1>4, <1>5, <1>6, OtherStepsKeepList

(* Nothing is listed at the start.                                          *)
LEMMA ListedInit == Init => Listed
<1> SUFFICES ASSUME Init PROVE Listed
  OBVIOUS
<1>1. Members(timef) = {} /\ Distinct(timef) /\ Pending = {} /\ now <= MaxTime
  BY EmptySeq, EventLoopAssumption DEF Init, Members, Distinct, Pending
<1>2. QED
  BY <1>1 DEF Init, Ids, Listed

(* PendingListed holds in every state, whatever the functions add and       *)
(* remove: no timer is lost or doubled.                                     *)
THEOREM TimersAreListed ==
  ASSUME ProperTimers, ClockFits
  PROVE  Spec => []PendingListed
<1>1. TypeOK /\ Listed /\ [Next]_vars => Listed'
  BY ListedStep
<1>2. Listed => PendingListed
  BY DEF Listed, PendingListed, Distinct, Ids, Members
<1>3. QED
  BY <1>1, <1>2, ListedInit, TypesAndCounts, PTL DEF Spec

-----------------------------------------------------------------------------
(* The timer service.                                                       *)

(* What a timer will run at is what it was registered for.                  *)
OnTime == \A t \in Members(timef) : t.at \in Nat /\ t.tgo = Elapsed(Epoch + t.at) + t.ms

(* An entry as the timer service sees it, and the entries in service.       *)
Entry(t) == [id |-> t.tid, due |-> t.tgo]
Serving  == {Entry(t) : t \in {t \in Members(timef) : t.tid # running}}

(* The timers in service, by entries instead of indices.                    *)
LEMMA Mapping == InService = Serving /\ InService' = Serving'
BY DEF InService, Serving, Members, Entry

(* Every step keeps the trigger times right, if none are set before the     *)
(* loop has a clock.                                                        *)
LEMMA OnTimeStep ==
  ASSUME ProperTimers, ClockFits, NoneBefore, TypeOK, Listed, OnTime, [Next]_vars
  PROVE  OnTime'
<1>1. timef \in Seq(Timers) /\ now \in Nat
  BY DEF TypeOK
<1>2. ASSUME NEW ms \in Delays, AddTimer(ms) PROVE OnTime'
  <2>1. PICK t \in Timers :
          /\ timef' = Inserted(timef, t)
          /\ t.tid = tid + 1 /\ t.at = now /\ t.ms = ms
          /\ pc # "setup" => t.tgo = Clock + ms
    BY <1>2, AddTimerFacts
  <2>2. pc # "setup"
    BY <1>2 DEF AddTimer, Call, NoneBefore
  <2>3. Members(timef') = Members(timef) \union {t}
    BY <1>1, <2>1, InsertedMembers
  <2>4. Clock = Elapsed(Epoch + now)
    BY <1>1, ClockIs DEF Listed
  <2>5. QED
    BY <1>1, <2>1, <2>2, <2>3, <2>4 DEF OnTime
<1>3. ASSUME NEW id \in 1 .. tid, RmTimer(id) PROVE OnTime'
  <2>1. ASSUME NEW x \in DOMAIN timef, timef' = Shifted(timef, x) PROVE OnTime'
    BY <1>1, <2>1, ShiftedMembers DEF Listed, OnTime
  <2>2. CASE timef' = timef
    BY <2>2 DEF OnTime, Members
  <2>3. QED
    BY <1>3, <2>1, <2>2, RmTimerFacts
<1>4. CASE TimerReturns
  <2>1. timef # <<>> /\ timef' = DropLast(timef)
    BY <1>4 DEF TimerReturns, Listed
  <2>2. QED
    BY <1>1, <2>1, DropLastMembers DEF Listed, OnTime
<1>5. CASE timef' = timef
  BY <1>5 DEF OnTime, Members
<1>6. QED
  BY <1>2, <1>3, <1>4, <1>5, OtherStepsKeepTimers

(* No timer is listed at the start.                                         *)
LEMMA OnTimeInit == Init => OnTime
BY EmptySeq DEF Init, OnTime, Members

(* A timer runs less than two milliseconds sooner than the delay after it   *)
(* was registered, for any delays that fit, any resolution of the clock and *)
(* wherever in a second the loop started: each of the two readings of the   *)
(* clock is off by less than one (EPOCHDT).                                 *)
THEOREM TimersNotTooSoon ==
  ASSUME ProperTimers, ClockFits, NoneBefore
  PROVE  Spec => NoSoonerByTwo
<1>1. TypeOK /\ Listed /\ [Next]_vars => Listed'
  BY ListedStep
<1>2. TypeOK /\ Listed /\ OnTime /\ [Next]_vars => OnTime'
  BY OnTimeStep
<1>3. TypeOK /\ Listed /\ OnTime /\ [Next]_vars
        => [FireTimer => LET t == timef[Len(timef)] IN now > t.at + (t.ms - 2) * Sub]_vars
  <2> SUFFICES ASSUME TypeOK, Listed, OnTime, FireTimer
               PROVE  LET t == timef[Len(timef)] IN now > t.at + (t.ms - 2) * Sub
    OBVIOUS
  <2> DEFINE t == timef[Len(timef)]
             a == Elapsed(Epoch + t.at)
             b == Elapsed(Epoch + now)
  <2>1. timef # <<>> /\ t.tgo <= Clock
    BY DEF FireTimer, TimerDue
  <2>2. t \in Members(timef) /\ t \in Timers
    BY <2>1, LastIs
  <2>3. t.at \in Nat /\ t.ms \in Nat /\ t.tgo = a + t.ms
    BY <2>2, EventLoopAssumption DEF OnTime, Timers
  <2>4. Clock = b /\ now \in Nat
    BY ClockIs DEF Listed, TypeOK
  <2> HIDE DEF t
  <2>5. /\ a \in Nat /\ t.at < a * Sub + Sub
        /\ b \in Nat /\ b * Sub < now + Sub
    BY <2>3, <2>4, ElapsedNear
  <2> HIDE DEF a, b
  <2>6. a + t.ms <= b /\ Sub \in Nat \ {0}
    BY <2>1, <2>3, <2>4, EventLoopAssumption
  <2>7. (a + t.ms) * Sub <= b * Sub
    BY <2>3, <2>5, <2>6
  <2>8. /\ (a + t.ms) * Sub = a * Sub + t.ms * Sub /\ (t.ms - 2) * Sub = t.ms * Sub - 2 * Sub
        /\ a * Sub \in Int /\ t.ms * Sub \in Int /\ b * Sub \in Int
    BY <2>3, <2>5, <2>6
  <2>9. now > t.at + (t.ms - 2) * Sub
    BY <2>3, <2>4, <2>5, <2>6, <2>7, <2>8
  <2>10. QED
    BY <2>9 DEF t
<1>4. QED
  BY <1>1, <1>2, <1>3, ListedInit, OnTimeInit, TypesAndCounts, PTL DEF Spec, NoSoonerByTwo

(* addTimer() registers,                                                    *)
LEMMA AddTimerRegisters ==
  ASSUME ClockFits, NoneBefore, TypeOK, Listed, NEW ms \in Delays, AddTimer(ms)
  PROVE  /\ tid' = tid + 1 /\ Clock' = Clock
         /\ \E t \in Serving' : /\ t.id = tid' /\ t.due >= Clock
                                  /\ Serving' = Serving \union {t}
<1>1. /\ timef \in Seq(Timers) /\ tid \in Nat /\ Clock \in Nat /\ ms \in Nat
  BY ClockIs, EventLoopAssumption DEF TypeOK, Listed
<1>2. /\ UNCHANGED <<pc, now, running>> /\ tid' = tid + 1
  BY AddTimerFacts
<1>3. PICK t \in Timers :
        /\ timef' = Inserted(timef, t)
        /\ t.tid = tid + 1 /\ t.at = now /\ t.ms = ms
        /\ pc # "setup" => t.tgo = Clock + ms
  BY AddTimerFacts
<1>4. Members(timef') = Members(timef) \union {t}
  BY <1>1, <1>3, InsertedMembers
<1>5. t.tgo = Clock + ms
  BY <1>3 DEF AddTimer, Call, NoneBefore
<1>6. running # tid + 1
  <2>1. CASE pc = "inTimer"
    BY <1>1, <2>1, LastIs DEF Listed
  <2>2. CASE pc # "inTimer"
    BY <1>1, <2>2 DEF Listed
  <2>3. QED
    BY <2>1, <2>2
<1>7. Serving' = Serving \union {Entry(t)}
  BY <1>2, <1>3, <1>4, <1>6 DEF Serving
<1>8. Entry(t).id = tid' /\ Entry(t).due >= Clock
  BY <1>1, <1>2, <1>3, <1>5 DEF Entry
<1>9. QED
  BY <1>2, <1>7, <1>8 DEF Clock

(* rmTimer() cancels, or does nothing,                                      *)
LEMMA RmTimerCancels ==
  ASSUME ProperTimers, TypeOK, Listed, NEW id \in 1 .. tid, RmTimer(id)
  PROVE  /\ tid' = tid /\ Clock' = Clock
         /\ Serving' = Serving \/ \E t \in Serving : Serving' = Serving \ {t}
<1>1. timef \in Seq(Timers)
  BY DEF TypeOK
<1>2. UNCHANGED <<now, running, tid>> /\ Clock' = Clock
  BY RmTimerFacts DEF Clock
<1>3. ASSUME NEW x \in DOMAIN timef, timef[x].tid = id, id # running, timef' = Shifted(timef, x)
      PROVE  \E t \in Serving : Serving' = Serving \ {t}
  <2>1. Members(timef') = Members(timef) \ {timef[x]} /\ timef[x] \in Members(timef)
    <3>1. Members(timef') = Members(timef) \ {timef[x]}
      BY <1>1, <1>3, ShiftedMembers DEF Listed
    <3>2. QED
      BY <1>3, <3>1 DEF Members
  <2>2. \A y \in Members(timef) : y.tid = id => y = timef[x]
    BY <1>3 DEF Members, Listed, Distinct
  <2>3. \A y \in Members(timef) : Entry(y) = Entry(timef[x]) => y = timef[x]
    <3>1. \A y \in Members(timef) : Entry(y).id = y.tid
      BY DEF Entry
    <3>2. QED
      BY <1>3, <2>1, <2>2, <3>1
  <2>4. Entry(timef[x]) \in Serving
    BY <1>3, <2>1 DEF Serving
  <2>5. Serving' = Serving \ {Entry(timef[x])}
    BY <1>2, <1>3, <2>1, <2>3 DEF Serving
  <2>6. QED
    BY <2>4, <2>5
<1>4. CASE timef' = timef
  <2>1. Serving' = Serving
    BY <1>2, <1>4 DEF Serving, Members
  <2>2. QED
    BY <1>2, <2>1
<1>5. QED
  BY <1>2, <1>3, <1>4, RmTimerFacts

(* and checkTimer() runs the timer that is due soonest.                     *)
LEMMA FireTimerRuns ==
  ASSUME TypeOK, Listed, TimersSorted, FireTimer
  PROVE  /\ tid' = tid /\ Clock' = Clock
         /\ \E t \in Serving : /\ t.due <= Clock
                                 /\ \A u \in Serving : t.due <= u.due
                                 /\ Serving' = Serving \ {t}
<1> DEFINE l == timef[Len(timef)]
<1>1. /\ timef # <<>> /\ l.tgo <= Clock /\ pc # "inTimer"
      /\ UNCHANGED <<now, timef, tid>> /\ running' = l.tid /\ Clock' = Clock
  BY DEF FireTimer, TimerDue, kernelVars, Clock
<1>2. /\ running = 0 /\ l \in Members(timef) /\ l.tid \in 1 .. tid
      /\ Len(timef) \in DOMAIN timef
  BY <1>1, LastIs DEF Listed
<1>3. \A y \in Members(timef) : y.tid \in 1 .. tid /\ (y.tid = l.tid => y = l)
  BY <1>2 DEF Members, Ids, Listed, Distinct
<1>4. \A y \in Members(timef) : l.tgo <= y.tgo
  <2>1. /\ DOMAIN timef = 1 .. Len(timef) /\ Len(timef) \in Nat
        /\ \A x \in DOMAIN timef : timef[x].tgo \in Int
    BY LenProperties, ElementOfSeq, TimerFields DEF TypeOK
  <2>2. SUFFICES ASSUME NEW x \in DOMAIN timef PROVE l.tgo <= timef[x].tgo
    BY DEF Members
  <2>3. CASE x = Len(timef)
    BY <2>1, <2>3
  <2>4. CASE x # Len(timef)
    <3>1. x < Len(timef)
      BY <2>1, <2>4
    <3>2. timef[x].tgo >= l.tgo
      BY <1>2, <3>1 DEF TimersSorted
    <3>3. QED
      BY <1>2, <2>1, <3>2
  <2>5. QED
    BY <2>3, <2>4
<1> HIDE DEF l
<1>5. /\ Serving = {Entry(y) : y \in Members(timef)}
      /\ Serving' = {Entry(y) : y \in Members(timef) \ {l}}
  <2>1. {y \in Members(timef) : y.tid # running} = Members(timef)
    BY <1>2, <1>3
  <2>2. {y \in Members(timef) : y.tid # running'} = Members(timef) \ {l}
    BY <1>1, <1>2, <1>3
  <2>3. QED
    BY <1>1, <2>1, <2>2 DEF Serving, Members
<1>6. \A y \in Members(timef) : Entry(y) = Entry(l) => y = l
  <2>1. \A y : Entry(y).id = y.tid
    BY DEF Entry
  <2>2. QED
    BY <1>2, <1>3, <2>1
<1>7. Entry(l) \in Serving /\ Serving' = Serving \ {Entry(l)}
  BY <1>2, <1>5, <1>6
<1>8. Entry(l).due <= Clock /\ \A u \in Serving : Entry(l).due <= u.due
  BY <1>1, <1>4, <1>5 DEF Entry
<1>9. QED
  BY <1>1, <1>7, <1>8

(* Dropping the entry of a timer that ran changes nothing.                  *)
LEMMA TimerReturnsServed ==
  ASSUME TypeOK, Listed, TimerReturns
  PROVE  tid' = tid /\ Clock' = Clock /\ Serving' = Serving
<1>1. /\ timef # <<>> /\ running = timef[Len(timef)].tid /\ timef' = DropLast(timef)
      /\ UNCHANGED <<now, tid>> /\ running' = 0
  BY DEF TimerReturns, kernelVars, Listed
<1>2. /\ Members(timef') = Members(timef) \ {timef[Len(timef)]}
      /\ Len(timef) \in DOMAIN timef
  BY <1>1, DropLastMembers DEF Listed, TypeOK
<1>3. /\ \A y \in Members(timef) : y.tid = running => y = timef[Len(timef)]
      /\ \A y \in Members(timef) : y.tid \in 1 .. tid
  BY <1>1, <1>2 DEF Members, Ids, Listed, Distinct
<1>4. {y \in Members(timef') : y.tid # running'} = {y \in Members(timef) : y.tid # running}
  <2>1. tid \in Nat /\ \A y \in Members(timef) : y.tid # 0
    BY <1>3 DEF TypeOK
  <2>2. QED
    BY <1>1, <1>2, <1>3, <2>1
<1>5. QED
  BY <1>1, <1>4 DEF Serving, Clock

(* The timers of the loop implement the abstract timer service: a timer     *)
(* runs once at most, when it is due and in the order of the due times, and *)
(* not after it was removed (addTimer, rmTimer, checkTimer).                *)
THEOREM TimersServe ==
  ASSUME ProperTimers, ClockFits, NoneBefore
  PROVE  Spec => ImplementsTimerService
<1>1. Init => TS!Init
  <2> SUFFICES ASSUME Init PROVE TS!Init
    OBVIOUS
  <2>1. Members(timef) = {} /\ tid = 0 /\ now = 0
    BY EmptySeq DEF Init, Members
  <2>2. Serving = {}
    BY <2>1 DEF Serving
  <2>3. Clock = 0
    <3>1. Clock = Elapsed(Epoch + 0)
      BY <2>1, ClockIs, EventLoopAssumption
    <3>2. Sub \in Nat \ {0} /\ Epoch \in 0 .. PerSecond * Sub - 1
      BY EventLoopAssumption
    <3> DEFINE z == Elapsed(Epoch + 0)
    <3>3. z \in Nat /\ z * Sub < 0 + Sub
      BY ElapsedNear
    <3> HIDE DEF z
    <3>4. z * Sub < 1 * Sub
      BY <3>2, <3>3
    <3>5. z < 1
      BY <3>3, <3>4, LessTimes
    <3>6. QED
      BY <3>1, <3>3, <3>5 DEF z
  <2>4. QED
    BY <2>1, <2>2, <2>3, Mapping DEF TS!Init
<1>2. TypeOK /\ Listed /\ TimersSorted /\ [Next]_vars => [TS!Next]_(TS!vars)
  <2> SUFFICES ASSUME TypeOK, Listed, TimersSorted, [Next]_vars
               PROVE  TS!Next \/ UNCHANGED TS!vars
    BY DEF TS!vars
  <2> USE Mapping
  <2>1. CASE \E ms \in Delays : AddTimer(ms)
    BY <2>1, AddTimerRegisters DEF TS!Next, TS!Register
  <2>2. CASE \E id \in 1 .. tid : RmTimer(id)
    BY <2>2, RmTimerCancels DEF TS!Next, TS!Cancel, TS!vars
  <2>3. CASE FireTimer
    BY <2>3, FireTimerRuns DEF TS!Next, TS!Run
  <2>4. CASE TimerReturns
    BY <2>4, TimerReturnsServed DEF TS!vars
  <2>5. CASE /\ UNCHANGED <<timef, tid, running>>
             /\ now' = now \/ Tick
    <3>1. Clock' = Clock \/ Clock' = Clock + 1
      BY <2>5, TickFacts DEF Listed
    <3>2. Serving' = Serving
      BY <2>5 DEF Serving, Members
    <3>3. QED
      BY <2>5, <3>1, <3>2 DEF TS!Next, TS!Advance, TS!vars
  <2>6. QED
    BY <2>1, <2>2, <2>3, <2>4, <2>5, OtherStepsKeepList
<1>3. TypeOK /\ Listed /\ [Next]_vars => Listed'
  BY ListedStep
<1>4. QED
  BY <1>1, <1>2, <1>3, ListedInit, TypesAndCounts, TimersAlwaysSorted, PTL
  DEF Spec, ImplementsTimerService, TS!Spec
=============================================================================
