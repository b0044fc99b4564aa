------------------------------ MODULE HubProofs ------------------------------
(***************************************************************************)
(* Theorems about Hub, for any plug-ins, peripherals and periods: the      *)
(* timer plug-ins share, and the socket.                                   *)
(***************************************************************************)
EXTENDS Hub, TLAPS, FiniteSetTheorems, WellFoundedInduction

-----------------------------------------------------------------------------
(* What the timer keeps.                                                    *)

(* From c on, w has its turn before s.                                      *)
Sooner(c, w, s) == IF c <= s THEN c <= w /\ w < s ELSE c <= w \/ w < s

(* Those registered whose turn is before that of r.                         *)
Ahead(r) == {w \in deviceSet : Sooner(current, w, r)}

(* Those a receiver waits for have their turns before its next.             *)
TurnInv ==
  /\ deviceSet \subseteq Receivers /\ current \in Receivers
  /\ deviceSet # {} => current \in deviceSet
  /\ waiting \in [Receivers -> SUBSET Receivers]
  /\ \A s \in Receivers :
       /\ waiting[s] # {} => s \in deviceSet
       /\ \A w \in waiting[s] : w \in deviceSet /\ Sooner(current, w, s)

(* There is one timer, or none while a receiver is called; timerId is its   *)
(* id, and remembers that it runs until the receiver stops it.              *)
OneTimer ==
  /\ pc \in {"loop", "tick"} /\ timerId \in Nat \union {Unset}
  /\ timef \subseteq [tgo : Int, tid : Nat]
  /\ \A t \in timef : t.tid = timerId /\ \A u \in timef : t = u
  /\ pc = "tick" => timef = {} /\ (stopped \/ timerId # Unset)

(* How many turns ago r was called, the next one included.                  *)
TurnsAgo(r) == Cardinality(deviceSet) - Cardinality(Ahead(r))

TimeLeft(t) == IF t.tgo > 0 THEN t.tgo ELSE 0

(* Each turn took its share of the period, and the next one will.           *)
Paced(r) ==
  /\ r \in deviceSet
  /\ since[r] >= (TurnsAgo(r) - 1) * effPeriod
  /\ \A t \in timef : since[r] + TimeLeft(t) >= TurnsAgo(r) * effPeriod

PaceInv ==
  /\ period \in Periods /\ effPeriod = Share(period, deviceSet)
  /\ since \in [Receivers -> Nat \union {Unsure}]
  /\ \A r \in Receivers : since[r] # Unsure => Paced(r)

-----------------------------------------------------------------------------
(* Lemmas about numbers and turns.                                          *)

(* A larger factor of a share that is not negative is no less.              *)
LEMMA Shares ==
  ASSUME NEW a \in Int, NEW b \in Int, NEW e \in Nat, a <= b
  PROVE  a * e <= b * e
OBVIOUS

(* One more factor is one more share.                                       *)
LEMMA OneMoreShare ==
  ASSUME NEW a \in Int, NEW e \in Nat
  PROVE  (a + 1) * e = a * e + e /\ a * e \in Int
OBVIOUS

(* The shares of a period are not more than the period.                     *)
LEMMA SharesFit ==
  ASSUME NEW p \in Nat, NEW n \in Nat \ {0}
  PROVE  p \div n \in Nat /\ n * (p \div n) <= p
OBVIOUS

(* First is the smallest.                                                   *)
LEMMA FirstIs ==
  ASSUME NEW S \in SUBSET Nat, S # {}
  PROVE  First(S) \in S /\ \A x \in S : First(S) <= x
<1>1. PICK m \in S : \A y \in S : ~(<<y, m>> \in OpToRel(<, Nat))
  BY NatLessThanWellFounded, WFMin
<1>2. \A y \in S : ~(y < m)
  BY <1>1 DEF OpToRel
<1>3. \E x \in S : \A y \in S : x <= y
  BY <1>2
<1>4. QED
  BY <1>3 DEF First

(* next() gives the one after, or the first after the last.                 *)
LEMMA FollowingIs ==
  ASSUME NEW S \in SUBSET Nat, NEW c \in S
  PROVE  /\ Following(S, c) \in S
         /\ \/ c < Following(S, c) /\ \A x \in S : x <= c \/ Following(S, c) <= x
            \/ \A x \in S : Following(S, c) <= x /\ x <= c
<1> DEFINE after == {s \in S : s > c}
<1>1. Following(S, c) = First(IF after = {} THEN S ELSE after)
  BY DEF Following
<1>2. after \in SUBSET Nat
  OBVIOUS
<1>3. CASE after = {}
  <2>1. First(S) \in S /\ \A x \in S : First(S) <= x
    BY FirstIs
  <2>2. \A x \in S : x <= c
    BY <1>3
  <2> HIDE DEF after
  <2>3. QED
    BY <1>1, <1>3, <2>1, <2>2
<1>4. CASE after # {}
  <2>1. First(after) \in after /\ \A x \in after : First(after) <= x
    BY <1>2, <1>4, FirstIs
  <2>2. Following(S, c) = First(after)
    BY <1>1, <1>4
  <2>3. Following(S, c) \in S /\ c < Following(S, c)
    BY <2>1, <2>2
  <2>4. \A x \in S : x <= c \/ Following(S, c) <= x
    BY <2>1, <2>2
  <2>5. QED
    BY <2>3, <2>4
<1>5. QED
  BY <1>3, <1>4

(* When c has had its turn all others stay in order, and c is last.         *)
LEMMA NextTurn ==
  ASSUME NEW S \in SUBSET Nat, NEW c \in S
  PROVE  /\ \A s \in S \ {c}, w \in S :
              Sooner(Following(S, c), w, s) <=> Sooner(c, w, s) /\ w # c
         /\ \A s \in S \ {c} : Sooner(c, c, s)
         /\ \A w \in S : Sooner(Following(S, c), w, c) <=> w # c
         /\ \A w \in S : ~Sooner(c, w, c)
<1> DEFINE f == Following(S, c)
<1>1. /\ f \in S
      /\ \/ c < f /\ \A x \in S : x <= c \/ f <= x
         \/ \A x \in S : f <= x /\ x <= c
  BY FollowingIs
<1> HIDE DEF f
<1>2. ASSUME NEW s \in S \ {c}, NEW w \in S
      PROVE  Sooner(f, w, s) <=> Sooner(c, w, s) /\ w # c
  <2>1. s \in Nat /\ w \in Nat /\ c \in Nat /\ f \in Nat /\ s # c
    BY <1>1
  <2>2. CASE c < f /\ \A x \in S : x <= c \/ f <= x
    <3>1. (s <= c \/ f <= s) /\ (w <= c \/ f <= w)
      BY <2>2
    <3>2. QED
      BY <2>1, <2>2, <3>1 DEF Sooner
  <2>3. CASE \A x \in S : f <= x /\ x <= c
    <3>1. f <= s /\ s <= c /\ f <= w /\ w <= c
      BY <2>3
    <3>2. QED
      BY <2>1, <3>1 DEF Sooner
  <2>4. QED
    BY <1>1, <2>2, <2>3
<1>3. ASSUME NEW w \in S PROVE Sooner(f, w, c) <=> w # c
  <2>1. w \in Nat /\ c \in Nat /\ f \in Nat
    BY <1>1
  <2>2. CASE c < f /\ \A x \in S : x <= c \/ f <= x
    <3>1. w <= c \/ f <= w
      BY <2>2
    <3>2. QED
      BY <2>1, <2>2, <3>1 DEF Sooner
  <2>3. CASE \A x \in S : f <= x /\ x <= c
    <3>1. f <= w /\ w <= c /\ f <= c
      BY <2>3
    <3>2. QED
      BY <2>1, <3>1 DEF Sooner
  <2>4. QED
    BY <1>1, <2>2, <2>3
<1>4. \A s \in S \ {c} : Sooner(c, c, s)
  BY DEF Sooner
<1>5. \A w \in S : ~Sooner(c, w, c)
  BY DEF Sooner
<1>6. QED
  BY <1>2, <1>3, <1>4, <1>5 DEF f

(* The receivers registered are finitely many addresses.                    *)
LEMMA RegisteredFinite ==
  ASSUME NEW D \in SUBSET Receivers
  PROVE  /\ D \in SUBSET Nat /\ IsFiniteSet(D) /\ Cardinality(D) \in Nat
         /\ D # {} => Cardinality(D) \in Nat \ {0}
<1>1. IsFiniteSet(D) /\ D \in SUBSET Nat
  BY FS_Subset, AdaptiveTimerAssumption
<1>2. QED
  BY <1>1, FS_CardinalityType, FS_EmptySet

-----------------------------------------------------------------------------
(* The turns.                                                               *)

(* Nobody has been called at the start.                                     *)
LEMMA TurnInit == Init => TurnInv
<1> SUFFICES ASSUME Init PROVE TurnInv
  OBVIOUS
<1>1. First(Receivers) \in Receivers
  BY FirstIs, AdaptiveTimerAssumption
<1>2. QED
  BY <1>1 DEF Init, TurnInv

(* Every step keeps them.                                                   *)
LEMMA TurnStep ==
  ASSUME TurnInv, [Next]_vars
  PROVE  TurnInv'
<1>1. deviceSet \in SUBSET Nat /\ current \in Nat
  BY AdaptiveTimerAssumption DEF TurnInv
<1>2. ASSUME NEW r \in Receivers, Add(r) PROVE TurnInv'
  <2>1. /\ deviceSet' = deviceSet \union {r} /\ waiting' = waiting
        /\ current' = IF Cardinality(deviceSet') = 1 THEN r ELSE current
    BY <1>2 DEF Add, pastVars
  <2>2. deviceSet # {} => current' = current
    <3> SUFFICES ASSUME deviceSet # {}, Cardinality(deviceSet') = 1 PROVE r = current
      BY <2>1
    <3>1. deviceSet' \in SUBSET Receivers
      BY <2>1 DEF TurnInv
    <3>2. IsFiniteSet(deviceSet')
      BY <3>1, RegisteredFinite
    <3>3. PICK x : deviceSet' = {x}
      BY <3>2, FS_Singleton
    <3>4. QED
      BY <2>1, <3>3 DEF TurnInv
  <2>3. deviceSet = {} => current' = r
    <3>1. Cardinality({r}) = 1
      BY FS_Singleton
    <3>2. QED
      BY <2>1, <3>1
  <2>4. QED
    BY <2>1, <2>2, <2>3 DEF TurnInv
<1>3. ASSUME NEW r \in Receivers, Remove(r) PROVE TurnInv'
  BY <1>3 DEF Remove, TurnInv
<1>4. CASE Tick
  <2> DEFINE c == current  f == Following(deviceSet, current)
  <2>1. /\ c \in deviceSet /\ deviceSet' = deviceSet /\ current' = f
        /\ waiting' = [r \in Receivers |->
                         IF r = c THEN deviceSet \ {r} ELSE waiting[r] \ {c}]
    BY <1>4 DEF Tick, TurnInv
  <2>2. f \in deviceSet
    BY <1>1, <2>1, FollowingIs
  <2>3. /\ \A s \in deviceSet \ {c}, w \in deviceSet : Sooner(f, w, s) <=> Sooner(c, w, s) /\ w # c
        /\ \A w \in deviceSet : Sooner(f, w, c) <=> w # c
    BY <1>1, <2>1, NextTurn
  <2> HIDE DEF f
  <2>4. waiting' \in [Receivers -> SUBSET Receivers]
    BY <2>1 DEF TurnInv
  <2>5. ASSUME NEW s \in Receivers, NEW w \in waiting'[s]
        PROVE  s \in deviceSet /\ w \in deviceSet /\ Sooner(f, w, s)
    BY <2>1, <2>3, <2>5 DEF TurnInv
  <2>6. QED
    BY <2>1, <2>2, <2>4, <2>5 DEF TurnInv
<1>5. CASE UNCHANGED <<deviceSet, current, waiting>>
  BY <1>5 DEF TurnInv
<1>6. CASE \/ \E p \in Periods : SetPeriod(p)
           \/ \E b \in BOOLEAN : Enable(b)
           \/ Start \/ Stop \/ TickReturns \/ TickIdly \/ Elapse \/ UNCHANGED vars
  BY <1>5, <1>6 DEF SetPeriod, Enable, Start, Stop, TickReturns, TickIdly, Elapse, vars,
                    setVars, pastVars
<1>7. QED
  BY <1>2, <1>3, <1>4, <1>6 DEF Next, PluginCalls, Loop

(* Only tick() calls a receiver, and the one whose turn it is.              *)
LEMMA OnlyTickCalls ==
  ASSUME NEW r \in Receivers, [Next]_vars, Calls(r)
  PROVE  Tick /\ r = current
BY DEF Calls, Next, PluginCalls, Loop, Add, Remove, SetPeriod, Enable, Start, Stop, Tick,
       TickReturns, TickIdly, Elapse, vars

(* InTurn, of the timer by itself: between two calls of a receiver every    *)
(* other that was registered all along is called (AdaptiveTimer::next).     *)
LEMMA TimerInTurn == Spec => InTurn
<1>1. TurnInv /\ [Next]_vars => TurnInv'
  BY TurnStep
<1>2. TurnInv /\ [Next]_vars => [\A r \in Receivers : Calls(r) => waiting[r] = {}]_vars
  <2> SUFFICES ASSUME TurnInv, [Next]_vars, NEW r \in Receivers, Calls(r)
               PROVE  waiting[r] = {}
    OBVIOUS
  <2>1. r = current /\ deviceSet \in SUBSET Nat /\ current \in deviceSet
    BY OnlyTickCalls, AdaptiveTimerAssumption DEF TurnInv, Tick
  <2>2. \A w \in deviceSet : ~Sooner(current, w, current)
    BY <2>1, NextTurn
  <2>3. QED
    BY <2>1, <2>2 DEF TurnInv
<1>3. QED
  BY <1>1, <1>2, TurnInit, PTL DEF Spec, InTurn

-----------------------------------------------------------------------------
(* The one timer.                                                           *)

(* Lists of no and of one timer leave an id to give.                        *)
LEMMA NewIdIs ==
  ASSUME OneTimer
  PROVE  NewId \in Nat
<1> DEFINE free(i) == i # timerId /\ \A t \in timef : t.tid # i
<1>1. \E i \in 0 .. Cardinality(timef) + 1 : free(i)
  <2>1. CASE timef = {}
    <3>1. Cardinality(timef) = 0
      BY <2>1, FS_EmptySet
    <3>2. CASE timerId = 0
      BY <2>1, <3>1, <3>2
    <3>3. CASE timerId # 0
      BY <2>1, <3>1, <3>3
    <3>4. QED
      BY <3>2, <3>3
  <2>2. CASE timef # {}
    <3>1. PICK t \in timef : timef = {t}
      <4>1. PICK t \in timef : TRUE
        BY <2>2
      <4>2. timef = {t}
        BY <4>1 DEF OneTimer
      <4>3. QED
        BY <4>1, <4>2
    <3>2. Cardinality(timef) = 1 /\ t.tid = timerId
      BY <3>1, FS_Singleton DEF OneTimer
    <3>3. CASE timerId = 0
      BY <3>1, <3>2, <3>3
    <3>4. CASE timerId # 0
      BY <3>1, <3>2, <3>4
    <3>5. QED
      BY <3>3, <3>4
  <2>3. QED
    BY <2>1, <2>2
<1> DEFINE N == 0 .. Cardinality(timef) + 1
<1>2. NewId = CHOOSE i \in N : free(i)
  BY DEF NewId
<1>3. N \subseteq Nat
  OBVIOUS
<1> HIDE DEF free, N
<1>4. QED
  BY <1>1, <1>2, <1>3 DEF N

(* A new timer is the only one where there was none, or that has run.       *)
LEMMA NewTimerIs ==
  ASSUME OneTimer, effPeriod \in Nat
  PROVE  /\ NewTimer \in [tgo : Int, tid : Nat] /\ NewTimer.tid = NewId /\ NewId # Unset
         /\ NewTimer.tgo = effPeriod /\ TimeLeft(NewTimer) = effPeriod
<1>1. NewTimer = [tgo |-> effPeriod, tid |-> NewId] /\ NewId \in Nat
  BY NewIdIs DEF NewTimer
<1>2. QED
  BY <1>1 DEF TimeLeft, Unset

(* Every step keeps it the only one.                                        *)
LEMMA OneTimerStep ==
  ASSUME OneTimer, effPeriod \in Nat, [Next]_vars
  PROVE  OneTimer'
<1> USE DEF OneTimer
<1>1. /\ NewTimer \in [tgo : Int, tid : Nat] /\ NewTimer.tid = NewId /\ NewId # Unset
      /\ NewId \in Nat
  BY NewTimerIs, NewIdIs
<1>2. CASE Start
  <2>1. timef' = {NewTimer} /\ timerId' = NewId /\ pc' = pc /\ stopped' = stopped /\ pc = "loop"
    <3>1. timef = {}
      BY <1>2 DEF Start, Unset
    <3>2. QED
      BY <1>2, <3>1 DEF Start
  <2>2. QED
    BY <1>1, <2>1
<1>3. CASE Stop
  BY <1>3 DEF Stop, Kept
<1>4. CASE Tick
  <2>1. timef' = {} /\ pc' = "tick" /\ timerId' = timerId /\ timerId # Unset
    BY <1>4 DEF Tick, Unset
  <2>2. QED
    BY <2>1
<1>5. CASE TickReturns
  <2>1. pc' = "loop" /\ timerId' = NewId /\ timef' \subseteq {NewTimer}
    BY <1>5 DEF TickReturns
  <2>2. QED
    BY <1>1, <2>1
<1>6. CASE TickIdly
  <2>1. timef' = {NewTimer} /\ timerId' = NewId /\ pc' = "loop"
    BY <1>6 DEF TickIdly, Due
  <2>2. QED
    BY <1>1, <2>1
<1>7. CASE Elapse
  <2>1. UNCHANGED <<pc, timerId, stopped>> /\ timef' = {[t EXCEPT !.tgo = @ - 1] : t \in timef}
    BY <1>7 DEF Elapse
  <2>2. \A t \in timef : /\ [t EXCEPT !.tgo = @ - 1] \in [tgo : Int, tid : Nat]
                         /\ [t EXCEPT !.tgo = @ - 1].tid = t.tid
    OBVIOUS
  <2>3. QED
    BY <2>1, <2>2
<1>8. CASE UNCHANGED <<pc, timerVars, stopped>>
  BY <1>8 DEF timerVars
<1>9. CASE \/ \E r \in Receivers : Add(r) \/ Remove(r)
           \/ \E p \in Periods : SetPeriod(p)
           \/ \E b \in BOOLEAN : Enable(b)
           \/ UNCHANGED vars
  BY <1>8, <1>9 DEF Add, Remove, SetPeriod, Enable, vars
<1>10. QED
  BY <1>2, <1>3, <1>4, <1>5, <1>6, <1>7, <1>9 DEF Next, PluginCalls, Loop

-----------------------------------------------------------------------------
(* The pace.                                                                *)

(* The share of a period is a number, and the shares fit the longest one.   *)
LEMMA ShareIs ==
  ASSUME NEW D \in SUBSET Receivers, NEW p \in Periods
  PROVE  /\ Share(p, D) \in Nat /\ Longest \in Nat
         /\ Cardinality(D) * Share(p, D) <= Longest
         /\ D # {} => Share(p, D) = p \div Cardinality(D)
<1>1. p \in Nat /\ Cardinality(D) \in Nat /\ (D # {} => Cardinality(D) \in Nat \ {0})
  BY RegisteredFinite, AdaptiveTimerAssumption
<1>2. Longest \in Periods /\ p <= Longest /\ Longest \in Nat
  <2>1. Periods \in SUBSET Nat
    BY AdaptiveTimerAssumption
  <2>2. \E q \in Periods : \A s \in Periods : s <= q
    BY AdaptiveTimerAssumption
  <2>3. Longest \in Periods /\ \A s \in Periods : s <= Longest
    BY <2>2 DEF Longest
  <2>4. QED
    BY <2>1, <2>3
<1>3. CASE D = {}
  <2>1. Share(p, D) = p \div 1 /\ Cardinality(D) = 0 /\ p \div 1 \in Nat
    BY <1>1, <1>3, FS_EmptySet, SharesFit DEF Share
  <2> HIDE DEF Longest
  <2>2. QED
    BY <1>2, <1>3, <2>1
<1>4. CASE D # {}
  <2> DEFINE n == Cardinality(D)
  <2>1. Share(p, D) = p \div n /\ p \div n \in Nat /\ n * (p \div n) <= p
    BY <1>1, <1>4, SharesFit DEF Share
  <2>2. n * (p \div n) \in Int
    BY <1>1, <2>1
  <2> HIDE DEF n
  <2>3. n * (p \div n) <= Longest
    BY <1>1, <1>2, <2>1, <2>2
  <2>4. QED
    BY <1>2, <2>1, <2>3 DEF n
<1>5. QED
  BY <1>3, <1>4

(* Of n receivers registered n or less are ahead of each.                   *)
LEMMA TurnsAgoIs ==
  ASSUME deviceSet \in SUBSET Receivers, NEW r \in Receivers
  PROVE  /\ Cardinality(deviceSet) \in Nat /\ IsFiniteSet(Ahead(r))
         /\ TurnsAgo(r) \in Int /\ TurnsAgo(r) <= Cardinality(deviceSet)
<1>1. Ahead(r) \in SUBSET Receivers
  BY DEF Ahead
<1>2. QED
  BY <1>1, RegisteredFinite DEF TurnsAgo

(* The time since a call passes, and the timer runs down.                   *)
LEMMA ElapsePaced ==
  ASSUME TurnInv, OneTimer, PaceInv, Elapse, NEW r \in Receivers, since[r] # Unsure
  PROVE  since'[r] \in Nat /\ Paced(r)'
<1> DEFINE n == Cardinality(deviceSet)  m == TurnsAgo(r)  e == effPeriod
<1>1. /\ UNCHANGED <<deviceSet, current, effPeriod>>
      /\ timef' = {[t EXCEPT !.tgo = @ - 1] : t \in timef}
      /\ since'[r] = IF since[r] = Longest THEN since[r] ELSE since[r] + 1
  BY DEF Elapse, setVars
<1>2. /\ Paced(r) /\ since[r] \in Nat /\ n \in Nat /\ m \in Int /\ m <= n
      /\ Longest \in Nat /\ n * e <= Longest /\ e \in Nat
  BY TurnsAgoIs, ShareIs DEF PaceInv, TurnInv
<1>3. m' = m /\ Ahead(r)' = Ahead(r)
  BY <1>1 DEF TurnsAgo, Ahead
<1> HIDE DEF n, m, e
<1>4. m * e <= n * e /\ m * e \in Int /\ (m - 1) * e \in Int /\ n * e \in Int
  BY <1>2, Shares
<1>5. since[r] >= (m - 1) * e
  BY <1>2 DEF Paced, m, e
<1>6. since'[r] \in Nat /\ since'[r] >= (m - 1) * e
  <2> HIDE DEF Longest
  <2>1. QED
    BY <1>1, <1>2, <1>4, <1>5
<1>7. ASSUME NEW u \in timef' PROVE since'[r] + TimeLeft(u) >= m * e
  <2>1. PICK t \in timef : u = [t EXCEPT !.tgo = @ - 1]
    BY <1>1
  <2>2. t.tgo \in Int /\ u.tgo = t.tgo - 1
    BY <2>1 DEF OneTimer
  <2>3. since[r] + TimeLeft(t) >= m * e
    BY <1>2 DEF Paced, m, e
  <2>4. TimeLeft(u) \in Nat /\ TimeLeft(t) \in Nat /\ TimeLeft(u) >= TimeLeft(t) - 1
    BY <2>2 DEF TimeLeft
  <2>5. CASE since[r] = Longest
    BY <1>1, <1>2, <1>4, <2>4, <2>5
  <2>6. CASE since[r] # Longest
    BY <1>1, <1>2, <1>4, <2>3, <2>4, <2>6
  <2>7. QED
    BY <2>5, <2>6
<1>8. r \in deviceSet' /\ e' = e
  BY <1>1, <1>2 DEF Paced, e
<1>9. QED
  BY <1>3, <1>6, <1>7, <1>8 DEF Paced, m, e

(* A receiver is called, or another before it.                              *)
LEMMA TickPaced ==
  ASSUME TurnInv, OneTimer, PaceInv, Tick, NEW r \in Receivers, since'[r] # Unsure
  PROVE  since'[r] \in Nat /\ Paced(r)'
<1> DEFINE n == Cardinality(deviceSet)  c == current  f == Following(deviceSet, current)
<1>1. /\ UNCHANGED <<deviceSet, effPeriod>> /\ current' = f /\ c \in deviceSet
      /\ since' = [since EXCEPT ![c] = 0] /\ timef' = {}
      /\ \E t \in timef : t.tgo <= 0
  BY DEF Tick, TurnInv, OneTimer, Due
<1>2. /\ deviceSet \in SUBSET Nat /\ n \in Nat /\ IsFiniteSet(deviceSet)
      /\ effPeriod \in Nat
  BY RegisteredFinite, ShareIs DEF TurnInv, PaceInv
<1>3. /\ \A s \in deviceSet \ {c}, w \in deviceSet : Sooner(f, w, s) <=> Sooner(c, w, s) /\ w # c
      /\ \A s \in deviceSet \ {c} : Sooner(c, c, s)
      /\ \A w \in deviceSet : Sooner(f, w, c) <=> w # c
  BY <1>1, <1>2, NextTurn
<1> HIDE DEF f
<1>4. CASE r = c
  <2>1. Ahead(r)' = deviceSet \ {c}
    BY <1>1, <1>3, <1>4 DEF Ahead
  <2>2. Cardinality(Ahead(r)') = n - 1
    BY <1>1, <1>2, <2>1, FS_RemoveElement
  <2>3. TurnsAgo(r)' = 1
    BY <1>1, <1>2, <2>2 DEF TurnsAgo
  <2>4. since'[r] = 0
    BY <1>1, <1>4 DEF PaceInv
  <2>5. (1 - 1) * effPeriod = 0
    BY <1>2
  <2>6. QED
    BY <1>1, <1>4, <2>3, <2>4, <2>5 DEF Paced
<1>5. CASE r # c
  <2>1. since'[r] = since[r] /\ since[r] \in Nat /\ Paced(r)
    BY <1>1, <1>5 DEF PaceInv
  <2>2. r \in deviceSet
    BY <2>1 DEF Paced
  <2>3. Ahead(r)' = Ahead(r) \ {c} /\ c \in Ahead(r)
    BY <1>1, <1>3, <1>5, <2>2 DEF Ahead
  <2>4. IsFiniteSet(Ahead(r)) /\ Cardinality(Ahead(r)) \in Nat /\ TurnsAgo(r) \in Int
    BY TurnsAgoIs, FS_CardinalityType DEF TurnInv
  <2>5. Cardinality(Ahead(r)') = Cardinality(Ahead(r)) - 1
    BY <2>3, <2>4, FS_RemoveElement
  <2>6. TurnsAgo(r)' = TurnsAgo(r) + 1
    BY <1>1, <1>2, <2>4, <2>5 DEF TurnsAgo
  <2>7. since[r] >= TurnsAgo(r) * effPeriod
    <3>1. PICK t \in timef : t.tgo <= 0
      BY <1>1
    <3>2. TimeLeft(t) = 0 /\ since[r] + TimeLeft(t) >= TurnsAgo(r) * effPeriod
      BY <2>1, <3>1 DEF Paced, TimeLeft, OneTimer
    <3>3. QED
      BY <2>1, <3>2
  <2>8. TurnsAgo(r)' - 1 = TurnsAgo(r)
    BY <2>4, <2>6
  <2>9. QED
    BY <1>1, <2>1, <2>2, <2>7, <2>8 DEF Paced
<1>6. QED
  BY <1>4, <1>5

(* Nothing is known about the pace of those who were called before the      *)
(* receivers or the period changed.                                         *)
LEMMA ForgetPaced ==
  ASSUME PaceInv, since' = Forget, period' \in Periods, effPeriod' = Share(period', deviceSet')
  PROVE  PaceInv'
BY DEF PaceInv, Forget, Unsure

(* A new timer runs out a share of the period from now.                     *)
LEMMA NewTimerPaced ==
  ASSUME TurnInv, OneTimer, PaceInv, timef' \subseteq {NewTimer},
         UNCHANGED <<period, effPeriod, deviceSet, current, since>>
  PROVE  PaceInv'
<1>1. ASSUME NEW r \in Receivers, since[r] # Unsure
      PROVE  /\ r \in deviceSet
             /\ since[r] >= (TurnsAgo(r) - 1) * effPeriod
             /\ \A t \in timef' : since[r] + TimeLeft(t) >= TurnsAgo(r) * effPeriod
  <2>1. since[r] \in Nat /\ effPeriod \in Nat /\ TurnsAgo(r) \in Int
    BY <1>1, TurnsAgoIs, ShareIs DEF PaceInv, TurnInv
  <2>2. r \in deviceSet /\ since[r] >= (TurnsAgo(r) - 1) * effPeriod
    BY <1>1 DEF PaceInv, Paced
  <2>3. TimeLeft(NewTimer) = effPeriod
    BY <2>1, NewTimerIs
  <2>4. (TurnsAgo(r) - 1) * effPeriod + effPeriod = TurnsAgo(r) * effPeriod
    BY <2>1
  <2>5. (TurnsAgo(r) - 1) * effPeriod \in Int
    BY <2>1
  <2>6. since[r] + TimeLeft(NewTimer) >= TurnsAgo(r) * effPeriod
    BY <2>1, <2>2, <2>3, <2>4, <2>5
  <2>7. QED
    BY <2>2, <2>6
<1>2. ASSUME NEW r \in Receivers, since[r] # Unsure PROVE Paced(r)'
  <2>1. TurnsAgo(r)' = TurnsAgo(r)
    BY DEF TurnsAgo, Ahead
  <2>2. QED
    BY <1>1, <1>2, <2>1 DEF Paced
<1>3. QED
  BY <1>2 DEF PaceInv

(* Every step keeps the pace.                                               *)
LEMMA PaceStep ==
  ASSUME TurnInv, OneTimer, PaceInv, [Next]_vars
  PROVE  PaceInv'
<1>1. CASE \E r \in Receivers : Add(r) \/ Remove(r)
  BY <1>1, ForgetPaced DEF Add, Remove, PaceInv
<1>2. CASE \E p \in Periods : SetPeriod(p)
  BY <1>2, ForgetPaced DEF SetPeriod
<1>3. CASE Start
  <2>1. timef = {}
    BY <1>3 DEF Start, OneTimer, Unset
  <2>2. QED
    BY <1>3, <2>1, NewTimerPaced DEF Start, setVars, pastVars
<1>4. CASE TickReturns
  <2>1. timef' \subseteq {NewTimer}
    BY <1>4 DEF TickReturns, OneTimer
  <2>2. QED
    BY <1>4, <2>1, NewTimerPaced DEF TickReturns, setVars, pastVars
<1>5. CASE TickIdly
  <2>1. timef' \subseteq {NewTimer}
    BY <1>5 DEF TickIdly, OneTimer
  <2>2. QED
    BY <1>5, <2>1, NewTimerPaced DEF TickIdly, setVars, pastVars
<1>6. CASE Tick
  <2>1. UNCHANGED <<period, effPeriod, deviceSet>> /\ since' \in [Receivers -> Nat \union {Unsure}]
    BY <1>6 DEF Tick, PaceInv, TurnInv
  <2>2. QED
    BY <1>6, <2>1, TickPaced DEF PaceInv
<1>7. CASE Elapse
  <2>1. /\ UNCHANGED <<period, effPeriod, deviceSet>>
        /\ since' = [r \in Receivers |->
             IF since[r] = Unsure \/ since[r] = Longest THEN since[r] ELSE since[r] + 1]
    BY <1>7 DEF Elapse, setVars
  <2>2. \A r \in Receivers : since'[r] # Unsure => since[r] # Unsure
    BY <2>1
  <2>3. since' \in [Receivers -> Nat \union {Unsure}]
    BY <2>1 DEF PaceInv, Unsure
  <2>4. QED
    BY <1>7, <2>1, <2>2, <2>3, ElapsePaced DEF PaceInv
<1>8. CASE Stop \/ (\E b \in BOOLEAN : Enable(b)) \/ UNCHANGED vars
  <2>1. timef' \subseteq timef /\ UNCHANGED <<period, effPeriod, deviceSet, current, since>>
    BY <1>8 DEF Stop, Kept, Enable, vars, timerVars, setVars, pastVars
  <2>2. ASSUME NEW r \in Receivers, since[r] # Unsure PROVE Paced(r)'
    <3>1. Paced(r) /\ TurnsAgo(r)' = TurnsAgo(r)
      BY <2>1, <2>2 DEF PaceInv, TurnsAgo, Ahead
    <3>2. QED
      BY <2>1, <3>1 DEF Paced
  <2>3. QED
    BY <2>1, <2>2 DEF PaceInv
<1>9. QED
  BY <1>1, <1>2, <1>3, <1>4, <1>5, <1>6, <1>7, <1>8 DEF Next, PluginCalls, Loop

(* Nothing is set, and nobody has been called, at the start.                *)
LEMMA PaceInit == Init => OneTimer /\ PaceInv
<1> SUFFICES ASSUME Init PROVE OneTimer /\ PaceInv
  OBVIOUS
<1>1. OneTimer
  BY DEF Init, OneTimer, Unset
<1>2. Default \in Nat /\ Share(Default, {}) = Default
  BY AdaptiveTimerAssumption DEF Share
<1>3. since \in [Receivers -> Nat \union {Unsure}] /\ \A r \in Receivers : since[r] = Unsure
  BY DEF Init, Forget
<1>4. QED
  BY <1>1, <1>2, <1>3, AdaptiveTimerAssumption DEF Init, PaceInv

(* PeriodKept, of the timer by itself: no receiver is called twice within   *)
(* n shares of the period (AdaptiveTimer::tick, start and stop).            *)
LEMMA TimerKeepsPeriod == Spec => PeriodKept
<1> DEFINE J == TurnInv /\ OneTimer /\ PaceInv
<1>1. Init => J
  BY TurnInit, PaceInit
<1>2. J /\ [Next]_vars => J'
  <2> SUFFICES ASSUME J, [Next]_vars PROVE J'
    OBVIOUS
  <2>1. effPeriod \in Nat
    BY ShareIs DEF TurnInv, PaceInv
  <2>2. QED
    BY <2>1, TurnStep, OneTimerStep, PaceStep
<1>3. J /\ [Next]_vars =>
        [\A r \in Receivers :
           (Calls(r) /\ since[r] # Unsure)
             => since[r] >= Cardinality(deviceSet) * (period \div Cardinality(deviceSet))]_vars
  <2> SUFFICES ASSUME J, [Next]_vars, NEW r \in Receivers, Calls(r), since[r] # Unsure
               PROVE  since[r] >= Cardinality(deviceSet) * (period \div Cardinality(deviceSet))
    OBVIOUS
  <2>1. Tick /\ r = current /\ Paced(r) /\ since[r] \in Nat
    BY OnlyTickCalls DEF PaceInv
  <2>2. /\ deviceSet \in SUBSET Nat /\ r \in deviceSet
        /\ effPeriod = period \div Cardinality(deviceSet) /\ effPeriod \in Nat
    BY <2>1, ShareIs, AdaptiveTimerAssumption DEF TurnInv, PaceInv, Paced
  <2>3. Ahead(r) = {}
    BY <2>1, <2>2, NextTurn DEF Ahead
  <2>4. TurnsAgo(r) = Cardinality(deviceSet)
    BY <2>3, FS_EmptySet, TurnsAgoIs DEF TurnsAgo, TurnInv
  <2>5. PICK t \in timef : t.tgo <= 0
    BY <2>1 DEF Tick, Due
  <2>6. TimeLeft(t) = 0 /\ since[r] + TimeLeft(t) >= TurnsAgo(r) * effPeriod
    BY <2>1, <2>5 DEF Paced, TimeLeft, OneTimer
  <2>7. QED
    BY <2>1, <2>2, <2>4, <2>6
<1> HIDE DEF J
<1>4. QED
  BY <1>1, <1>2, <1>3, PTL DEF Spec, PeriodKept

-----------------------------------------------------------------------------
(* The hub.                                                                 *)

(* What plug-ins and the socket do besides leaves the timer as it is: the   *)
(* timer of the hub is the timer.                                           *)
LEMMA HubHasTimer == HubSpec => Spec
<1>1. HubInit => Init
  BY DEF HubInit
<1>2. [HubNext]_hubVars => [Next]_vars
  <2> SUFFICES ASSUME HubNext \/ UNCHANGED hubVars PROVE Next \/ UNCHANGED vars
    OBVIOUS
  <2>1. CASE TimerStep(PluginCalls) \/ TimerStep(Loop) \/ TimerStep(Elapse)
    BY <2>1 DEF TimerStep, Next
  <2>2. CASE LinkStep \/ UNCHANGED hubVars
    BY <2>2 DEF LinkStep, hubVars
  <2>3. QED
    BY <2>1, <2>2 DEF HubNext, PluginSetsPeer, PluginSends, PluginRegisters, PluginUnregisters,
                      CORSends, Lost, Handle, HandleReturns
<1>3. QED
  BY <1>1, <1>2, PTL DEF HubSpec, Spec

(* InTurn: whatever comes over the link between two turns, the receivers of *)
(* the timer are called in turn (AdaptiveTimer::next).                      *)
THEOREM PluginsInTurn == HubSpec => InTurn
BY HubHasTimer, TimerInTurn

(* PeriodKept: no plug-in is called twice within its period, but for what   *)
(* is lost in dividing it among those registered (AdaptiveTimer::tick).     *)
THEOREM PluginsKeepPeriod == HubSpec => PeriodKept
BY HubHasTimer, TimerKeepsPeriod

(* Who is registered for a peripheral uses it, and every datagram is from   *)
(* one; the socket may broadcast if it is to.                               *)
LinkInv ==
  /\ ~aborted /\ (peer = "all" => broadcast)
  /\ hearer \in Plugins \union {Nobody}
  /\ callbackMap \in [Peripherals -> Plugins \union {Nobody}]
  /\ \A e \in Peripherals : callbackMap[e] # Nobody => Uses[callbackMap[e]] = e
  /\ \A d \in air : d.from \in {"driver", "COR"} /\ d.peripheral \in Peripherals

(* Nobody is registered at the start, and the socket may broadcast.         *)
LEMMA LinkInvInit == HubInit => LinkInv
BY DEF HubInit, LinkInit, LinkInv

(* Every step keeps it.                                                     *)
LEMMA LinkInvStep ==
  ASSUME LinkInv, [HubNext]_hubVars
  PROVE  LinkInv'
<1> USE DEF linkVars
<1>1. CASE UNCHANGED <<linkVars, hearer, aborted>>
  BY <1>1 DEF LinkInv
<1>2. CASE PluginSetsPeer
  BY <1>2 DEF PluginSetsPeer, SetPeer, LinkInv
<1>3. CASE PluginSends
  <2>1. ~Refused
    BY DEF LinkInv, Refused
  <2>2. PICK p \in Plugins : air' = Sent(Uses[p])
    BY <1>3, <2>1 DEF PluginSends, Busy, LinkInv
  <2>3. Uses[p] \in Peripherals
    BY UDPLinkAssumption
  <2>4. \A d \in air' : d.from \in {"driver", "COR"} /\ d.peripheral \in Peripherals
    BY <2>2, <2>3 DEF Sent, LinkInv
  <2>5. QED
    BY <1>3, <2>1, <2>4 DEF PluginSends, LinkInv
<1>4. CASE PluginRegisters
  <2>1. PICK p \in Plugins : callbackMap' = Registered(p)
    BY <1>4 DEF PluginRegisters
  <2>2. Uses[p] \in Peripherals
    BY UDPLinkAssumption
  <2>3. QED
    BY <1>4, <2>1, <2>2 DEF PluginRegisters, Registered, LinkInv
<1>5. CASE PluginUnregisters
  <2>1. PICK p \in Busy : callbackMap' = [callbackMap EXCEPT ![Uses[p]] = Nobody]
    BY <1>5 DEF PluginUnregisters, Unregistered
  <2>2. QED
    BY <1>5, <2>1 DEF PluginUnregisters, LinkInv
<1>6. ASSUME NEW e \in Peripherals, CORSends(e) PROVE LinkInv'
  BY <1>6 DEF CORSends, LinkInv
<1>7. CASE Lost
  BY <1>7 DEF Lost, LinkInv
<1>8. CASE Handle
  BY <1>8 DEF Handle, LinkInv
<1>9. CASE HandleReturns
  BY <1>9 DEF HandleReturns, LinkInv
<1>10. QED
  BY <1>1, <1>2, <1>3, <1>4, <1>5, <1>6, <1>7, <1>8, <1>9 DEF HubNext, TimerStep, hubVars

(* SendsAllowed: the assertion of sendMessage() holds, whichever addresses  *)
(* plug-ins set in turn (UDPMux::setPeer).                                  *)
THEOREM SocketAllowsSends == HubSpec => []SendsAllowed
<1>1. LinkInv => SendsAllowed
  BY DEF LinkInv, SendsAllowed
<1>2. LinkInv /\ [HubNext]_hubVars => LinkInv'
  BY LinkInvStep
<1>3. QED
  BY <1>1, <1>2, LinkInvInit, PTL DEF HubSpec

(* HeardRight: a plug-in is called for what the COR sent from the           *)
(* peripheral it uses, and for nothing else (UDPDemux::handle).             *)
THEOREM PluginsHearRight == HubSpec => HeardRight
<1>1. LinkInv /\ [HubNext]_hubVars => LinkInv'
  BY LinkInvStep
<1>2. LinkInv /\ [HubNext]_hubVars =>
        [hearer' \notin {hearer, Nobody} =>
           \E d \in air : d.from = "COR" /\ d.peripheral = Uses[hearer']]_hubVars
  <2> SUFFICES ASSUME LinkInv, HubNext, hearer' \notin {hearer, Nobody}
               PROVE  \E d \in air : d.from = "COR" /\ d.peripheral = Uses[hearer']
    OBVIOUS
  <2>1. Handle
    BY DEF HubNext, TimerStep, PluginSetsPeer, PluginSends, PluginRegisters, PluginUnregisters,
           CORSends, Lost, HandleReturns
  <2>2. PICK d \in air : hearer' = IF Dispatched(d) THEN callbackMap[d.peripheral] ELSE Nobody
    BY <2>1 DEF Handle
  <2>3. Dispatched(d) /\ hearer' = callbackMap[d.peripheral]
    BY <2>2
  <2>4. QED
    BY <2>3 DEF Dispatched, LinkInv
<1>3. QED
  BY <1>1, <1>2, LinkInvInit, PTL DEF HubSpec, HeardRight
=============================================================================
