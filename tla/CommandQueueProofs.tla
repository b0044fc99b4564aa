------------------------- MODULE CommandQueueProofs -------------------------
(***************************************************************************)
(* Theorems about CommandQueue, for every value of its constants.          *)
(***************************************************************************)
EXTENDS CommandQueue, TLAPS, SequenceTheorems, WellFoundedInduction

-----------------------------------------------------------------------------
(* The operators on queues.                                                 *)

Distinct(q) == \A i, j \in DOMAIN q : q[i] = q[j] => i = j

(* A queue as add() and remove() leave it.                                  *)
Settled(q) ==
  /\ q \in Seq(Commands) /\ Distinct(q)
  /\ \A c \in Front(q) : Waits(c)

(* Every nonempty set of naturals has a smallest member.                    *)
LEMMA NatMin ==
  ASSUME NEW S \in SUBSET Nat, S # {}
  PROVE  \E x \in S : \A y \in S : x <= y
<1>1. PICK x \in S : \A y \in S : ~(<<y, x>> \in OpToRel(<, Nat))
  BY NatLessThanWellFounded, WFMin
<1>2. \A y \in S : ~(y < x)
  BY <1>1 DEF OpToRel
<1>3. QED
  BY <1>2

(* The step a command waits for is one of its steps, or none.               *)
LEMMA NextStepInRange ==
  ASSUME NEW c \in Commands, NEW i \in Nat
  PROVE  NextStep(c, i) \in 0 .. Len(Steps[c])
<1> DEFINE waits == {j \in DOMAIN Steps[c] : j > i /\ Steps[c][j]}
<1>1. Len(Steps[c]) \in Nat /\ DOMAIN Steps[c] = 1 .. Len(Steps[c])
  BY CommandQueueAssumption, LenProperties
<1>2. waits \in SUBSET Nat /\ \A j \in waits : j \in 0 .. Len(Steps[c])
  BY <1>1
<1>3. NextStep(c, i) = IF waits = {} THEN 0
                       ELSE CHOOSE j \in waits : \A k \in waits : j <= k
  BY DEF NextStep
<1> HIDE DEF waits
<1>4. CASE waits = {}
  BY <1>1, <1>3, <1>4
<1>5. CASE waits # {}
  <2>1. \E j \in waits : \A k \in waits : j <= k
    BY <1>2, <1>5, NatMin
  <2>2. NextStep(c, i) \in waits
    BY <1>3, <1>5, <2>1
  <2>3. QED
    BY <1>2, <2>2
<1>6. QED
  BY <1>4, <1>5

(* The loop that sends commands stops in front of the first that needs an   *)
(* answer, or at the end.                                                   *)
LEMMA FirstWaitingStops ==
  ASSUME NEW q \in Seq(Commands)
  PROVE  /\ FirstWaiting(q) \in 1 .. Len(q) + 1
         /\ FirstWaiting(q) <= Len(q) => Waits(q[FirstWaiting(q)])
         /\ \A j \in 1 .. FirstWaiting(q) - 1 : ~Waits(q[j])
<1> DEFINE T == {i \in 1 .. Len(q) + 1 : i <= Len(q) => Waits(q[i])}
<1>1. Len(q) \in Nat
  BY LenProperties
<1>2. Len(q) + 1 \in T
  BY <1>1
<1>3. T \in SUBSET Nat /\ T # {}
  BY <1>1, <1>2
<1> HIDE DEF T
<1>4. PICK k \in T : \A j \in T : k <= j
  BY <1>3, NatMin
<1>5. /\ k \in 1 .. Len(q) + 1
      /\ k <= Len(q) => Waits(q[k])
      /\ \A j \in 1 .. k - 1 : ~Waits(q[j])
  BY <1>1, <1>4 DEF T
<1>6. QED
  BY <1>5 DEF FirstWaiting

(* Sending leaves a settled queue of commands that were in it.              *)
LEMMA RunSettles ==
  ASSUME NEW q \in Seq(Commands), Distinct(q)
  PROVE  Settled(Run(q)) /\ Members(Run(q)) \subseteq Members(q)
<1> DEFINE k == FirstWaiting(q)
           r == Run(q)
<1>1. Len(q) \in Nat /\ DOMAIN q = 1 .. Len(q)
  BY LenProperties
<1>2. k \in 1 .. Len(q) + 1 /\ (k <= Len(q) => Waits(q[k]))
  BY FirstWaitingStops
<1>3. r = SubSeq(q, k, Len(q))
  BY DEF Run
<1> HIDE DEF k, r
<1>4. CASE k = Len(q) + 1
  <2>1. r = <<>>
    BY <1>1, <1>3, <1>4
  <2>2. QED
    BY <2>1 DEF Settled, Distinct, Front, Members, r
<1>5. CASE k \in 1 .. Len(q)
  <2>1. /\ r \in Seq(Commands) /\ Len(r) = Len(q) - k + 1
        /\ \A i \in 1 .. Len(q) - k + 1 : r[i] = q[k + i - 1]
    BY <1>1, <1>3, <1>5, SubSeqProperties
  <2>2. DOMAIN r = 1 .. Len(q) - k + 1
    BY <2>1, LenProperties
  <2>3. \A i \in DOMAIN r : k + i - 1 \in DOMAIN q /\ r[i] = q[k + i - 1]
    BY <1>1, <1>5, <2>1, <2>2
  <2>4. Distinct(r)
    BY <1>1, <1>5, <2>2, <2>3 DEF Distinct
  <2>5. Members(r) \subseteq Members(q)
    BY <2>3 DEF Members
  <2>6. 1 \in DOMAIN r /\ r[1] = q[k]
    BY <1>1, <1>5, <2>2, <2>3
  <2>7. Front(r) \subseteq {q[k]}
    BY <2>6 DEF Front
  <2>8. QED
    BY <1>2, <1>5, <2>1, <2>4, <2>5, <2>7 DEF Settled, r
<1>6. QED
  BY <1>1, <1>2, <1>4, <1>5

(* add() keeps a queue settled, gains at most the command added, and leaves *)
(* the command at the front of a queue that is not empty in front.          *)
LEMMA AddedSettles ==
  ASSUME NEW q, Settled(q), NEW d \in Commands
  PROVE  /\ Settled(Added(q, d))
         /\ Members(Added(q, d)) \subseteq Members(q) \union {d}
         /\ q # <<>> => Front(Added(q, d)) = Front(q)
<1>1. q \in Seq(Commands) /\ Len(q) \in Nat /\ DOMAIN q = 1 .. Len(q)
  BY LenProperties DEF Settled
<1>2. CASE d \in Members(q)
  BY <1>2 DEF Added
<1>3. CASE d \notin Members(q) /\ q = <<>>
  <2>1. Added(q, d) = Run(<<d>>)
    BY <1>3 DEF Added
  <2>2. <<d>> \in Seq(Commands) /\ DOMAIN <<d>> = {1} /\ <<d>>[1] = d
    OBVIOUS
  <2>3. Distinct(<<d>>)
    BY <2>2 DEF Distinct
  <2>4. Members(<<d>>) = {d}
    BY <2>2 DEF Members
  <2>5. QED
    BY <1>3, <2>1, <2>2, <2>3, <2>4, RunSettles
<1>4. CASE d \notin Members(q) /\ q # <<>>
  <2> DEFINE r == Append(q, d)
  <2>1. Added(q, d) = r
    BY <1>4 DEF Added
  <2>2. /\ r \in Seq(Commands) /\ Len(r) = Len(q) + 1
        /\ \A i \in 1 .. Len(q) : r[i] = q[i]
        /\ r[Len(q) + 1] = d
    BY <1>1, AppendProperties
  <2>3. DOMAIN r = 1 .. Len(q) + 1 /\ Len(q) # 0
    BY <1>1, <1>4, <2>2, LenProperties, EmptySeq
  <2> HIDE DEF r
  <2>4. \A i \in DOMAIN q : r[i] = q[i] /\ q[i] # d
    BY <1>1, <1>4, <2>2 DEF Members
  <2>5. \A i \in DOMAIN r : i \in DOMAIN q \/ (i = Len(q) + 1 /\ r[i] = d)
    BY <1>1, <2>2, <2>3
  <2>6. Distinct(r)
    <3> SUFFICES ASSUME NEW i \in DOMAIN r, NEW j \in DOMAIN r, r[i] = r[j]
                 PROVE  i = j
      BY DEF Distinct
    <3>1. CASE i \in DOMAIN q /\ j \in DOMAIN q
      BY <2>4, <3>1 DEF Settled, Distinct
    <3>2. CASE i \notin DOMAIN q \/ j \notin DOMAIN q
      BY <2>4, <2>5, <3>2
    <3>3. QED
      BY <3>1, <3>2
  <2>7. Members(r) \subseteq Members(q) \union {d}
    BY <2>4, <2>5 DEF Members
  <2>8. r[1] = q[1] /\ r # <<>>
    BY <1>1, <2>2, <2>3
  <2>9. Front(r) = Front(q)
    BY <1>4, <2>8 DEF Front
  <2>10. QED
    BY <2>1, <2>2, <2>6, <2>7, <2>9 DEF Settled
<1>5. QED
  BY <1>2, <1>3, <1>4

(* Sending and adding make queues out of queues, settled or not, and what is*)
(* in front of a queue that is not empty stays there when one is added.     *)
LEMMA QueuesStayQueues ==
  ASSUME NEW q \in Seq(Commands)
  PROVE  /\ Run(q) \in Seq(Commands)
         /\ q # <<>> => Tail(q) \in Seq(Commands)
         /\ \A d \in Commands :
              /\ Added(q, d) \in Seq(Commands)
              /\ q # <<>> => Front(Added(q, d)) = Front(q)
<1>1. \A r \in Seq(Commands) : Run(r) \in Seq(Commands)
  <2> TAKE r \in Seq(Commands)
  <2>1. /\ Len(r) \in Nat /\ FirstWaiting(r) \in 1 .. Len(r) + 1
        /\ \A i \in FirstWaiting(r) .. Len(r) : r[i] \in Commands
    BY FirstWaitingStops, LenProperties, ElementOfSeq
  <2>2. QED
    BY <2>1, SubSeqProperties DEF Run
<1>2. q # <<>> => Tail(q) \in Seq(Commands)
  BY HeadTailProperties
<1>3. ASSUME NEW d \in Commands
      PROVE  /\ Added(q, d) \in Seq(Commands)
             /\ q # <<>> => Front(Added(q, d)) = Front(q)
  <2>1. <<d>> \in Seq(Commands)
    OBVIOUS
  <2>2. Append(q, d) \in Seq(Commands)
    BY AppendProperties
  <2>3. q # <<>> => Append(q, d)[1] = q[1] /\ Append(q, d) # <<>>
    <3>1. q # <<>> => Len(q) \in Nat \ {0}
      BY LenProperties, EmptySeq
    <3>2. QED
      BY <3>1, AppendProperties
  <2>4. QED
    BY <1>1, <2>1, <2>2, <2>3 DEF Added, Front
<1>4. QED
  BY <1>1, <1>2, <1>3

(* So does whatever a delegate adds.                                        *)
LEMMA ExtendedSettles ==
  ASSUME NEW q, Settled(q), NEW choice \in SUBSET Commands, NEW r \in Extended(q, choice)
  PROVE  /\ Settled(r)
         /\ Members(r) \subseteq Members(q) \union choice
         /\ q # <<>> => Front(r) = Front(q)
<1>1. CASE r = q
  BY <1>1
<1>2. CASE \E d \in choice : r = Added(q, d)
  BY <1>2, AddedSettles
<1>3. QED
  BY <1>1, <1>2 DEF Extended

(* When the front command leaves, the queue settles without it.             *)
LEMMA TailSettles ==
  ASSUME NEW q, Settled(q), q # <<>>
  PROVE  /\ Head(q) \in Commands /\ Front(q) = {Head(q)}
         /\ Settled(Run(Tail(q)))
         /\ Head(q) \notin Members(Run(Tail(q)))
<1>1. q \in Seq(Commands) /\ Len(q) \in Nat \ {0} /\ DOMAIN q = 1 .. Len(q)
  BY LenProperties, EmptySeq DEF Settled
<1>2. /\ Tail(q) \in Seq(Commands) /\ Len(Tail(q)) = Len(q) - 1
      /\ \A i \in 1 .. Len(Tail(q)) : Tail(q)[i] = q[i + 1]
      /\ Head(q) \in Commands /\ Head(q) = q[1]
  BY <1>1, HeadTailProperties
<1>3. DOMAIN Tail(q) = 1 .. Len(q) - 1
  BY <1>2, LenProperties
<1>4. \A i \in DOMAIN Tail(q) :
        i + 1 \in DOMAIN q /\ i + 1 # 1 /\ Tail(q)[i] = q[i + 1] /\ i \in Nat
  BY <1>1, <1>2, <1>3
<1>5. Distinct(Tail(q))
  BY <1>4 DEF Settled, Distinct
<1>6. q[1] \notin Members(Tail(q))
  BY <1>1, <1>4 DEF Settled, Distinct, Members
<1>7. QED
  BY <1>2, <1>5, <1>6, RunSettles DEF Front

-----------------------------------------------------------------------------
(* Deadlines.                                                               *)

(* The inductive invariant: besides what it is for, that the queue only     *)
(* waits for commands whose requests need answers.                          *)
Inv == TypeOK /\ NoDuplicates /\ DeadlineUnlessRetried /\ AlarmsKnown
       /\ \A c \in Front(queue) : Waits(c)

(* The command a settled queue waits for is one of its members.             *)
LEMMA FrontIsCommand ==
  ASSUME NEW q, Settled(q)
  PROVE  Front(q) \subseteq Commands /\ Front(q) \subseteq Members(q)
<1>1. CASE q = <<>>
  BY <1>1 DEF Front
<1>2. CASE q # <<>>
  <2>1. q \in Seq(Commands) /\ 1 \in DOMAIN q
    BY <1>2, LenProperties, EmptySeq DEF Settled
  <2>2. q[1] \in Commands
    BY <2>1, ElementOfSeq, LenProperties
  <2>3. QED
    BY <2>1, <2>2 DEF Front, Members
<1>3. QED
  BY <1>1, <1>2

(* What a step that sends the front of a settled queue leaves in at.        *)
LEMMA SentTyped ==
  ASSUME NEW q, Settled(q), NEW steps \in [Commands -> Nat],
         \A c \in Commands : steps[c] \in 0 .. Len(Steps[c])
  PROVE  /\ Sent(steps, q) \in [Commands -> Nat]
         /\ \A c \in Commands : Sent(steps, q)[c] \in 0 .. Len(Steps[c])
         /\ \A c \in Front(q) : Sent(steps, q)[c] # 0
<1>1. \A c \in Commands : NextStep(c, 0) \in 0 .. Len(Steps[c]) /\ NextStep(c, 0) \in Nat
  <2> TAKE c \in Commands
  <2>1. NextStep(c, 0) \in 0 .. Len(Steps[c])
    BY NextStepInRange
  <2>2. QED
    BY <2>1
<1>2. \A c \in Front(q) : c \in Commands /\ NextStep(c, 0) # 0
  BY FrontIsCommand DEF Settled, Waits
<1>3. QED
  BY <1>1, <1>2 DEF Sent

(* The queue starts empty, with no deadline to keep.                        *)
LEMMA InvInit ==
  ASSUME Init
  PROVE  Inv
<1>1. <<>> \in Seq(Commands) /\ DOMAIN <<>> = {}
  OBVIOUS
<1>2. \A c \in Commands : 0 \in 0 .. Len(Steps[c])
  <2> TAKE c \in Commands
  <2>1. Len(Steps[c]) \in Nat
    BY CommandQueueAssumption, LenProperties
  <2>2. QED
    BY <2>1
<1>3. QED
  BY <1>1, <1>2 DEF Init, Inv, TypeOK, NoDuplicates, DeadlineUnlessRetried, AlarmsKnown, Front

(* Adding a command, from the driver.                                       *)
LEMMA AddStep ==
  ASSUME Inv, NEW d \in Commands, Add(d)
  PROVE  Inv'
<1>1. Settled(queue)
  BY DEF Inv, TypeOK, NoDuplicates, Settled, Distinct
<1>2. Settled(queue') /\ (queue # <<>> => Front(queue') = Front(queue))
  BY <1>1, AddedSettles DEF Add
<1>3. Front(queue') \subseteq Commands
  BY <1>2, FrontIsCommand
<1>4. CASE queue = <<>>
  <2>1. /\ at' = Sent(at, queue')
        /\ armed' = armed \union (Front(queue') \ alarm)
        /\ alarm' = alarm \union Front(queue')
        /\ failed' = failed /\ cleared' = cleared /\ retried' = retried /\ retried = {}
    BY <1>4 DEF Inv, TypeOK, Front, Add, Started
  <2>2. /\ at' \in [Commands -> Nat]
        /\ \A c \in Commands : at'[c] \in 0 .. Len(Steps[c])
        /\ \A c \in Front(queue') : at'[c] # 0
    BY <1>2, <2>1, SentTyped DEF Inv, TypeOK
  <2>3. alarm' = armed' /\ Front(queue') \subseteq armed' /\ armed' \subseteq Commands
    BY <1>3, <2>1 DEF Inv, AlarmsKnown, TypeOK
  <2>4. QED
    BY <1>2, <2>1, <2>2, <2>3
       DEF Inv, TypeOK, NoDuplicates, DeadlineUnlessRetried, AlarmsKnown, Settled, Distinct
<1>5. CASE queue # <<>>
  <2>1. /\ at' = at /\ armed' = armed /\ alarm' = alarm /\ failed' = failed
        /\ cleared' = cleared /\ retried' = retried
    BY <1>5 DEF Add
  <2>2. QED
    BY <1>2, <1>5, <2>1
       DEF Inv, TypeOK, NoDuplicates, DeadlineUnlessRetried, AlarmsKnown, Settled, Distinct
<1>6. QED
  BY <1>4, <1>5

(* An answer to a step of a macro that is not its last.                     *)
LEMMA AnswerStepStep ==
  ASSUME Inv, AnswerStep
  PROVE  Inv'
<1> DEFINE c == Head(queue)
<1>1. Settled(queue) /\ queue # <<>>
  BY DEF Inv, TypeOK, NoDuplicates, Settled, Distinct, AnswerStep
<1>2. c \in Commands /\ Front(queue) = {c}
  BY <1>1, TailSettles
<1>3. /\ at' = [at EXCEPT ![c] = NextStep(c, at[c])]
      /\ NextStep(c, at[c]) # 0
      /\ queue' \in Extended(queue, OnResponse[c])
      /\ alarm' = alarm /\ armed' = armed /\ failed' = failed /\ cleared' = cleared
      /\ retried' = retried
  BY DEF AnswerStep
<1> HIDE DEF c
<1>4. OnResponse[c] \in SUBSET Commands
  BY <1>2, CommandQueueAssumption
<1>5. Settled(queue') /\ Front(queue') = Front(queue)
  BY <1>1, <1>3, <1>4, ExtendedSettles
<1>6. at[c] \in Nat /\ at \in [Commands -> Nat]
  BY <1>2 DEF Inv, TypeOK
<1>7. NextStep(c, at[c]) \in 0 .. Len(Steps[c])
  BY <1>2, <1>6, NextStepInRange
<1>8. /\ at' \in [Commands -> Nat]
      /\ \A x \in Commands : at'[x] \in 0 .. Len(Steps[x])
      /\ at'[c] # 0
  BY <1>2, <1>3, <1>6, <1>7 DEF Inv, TypeOK
<1>9. QED
  BY <1>2, <1>3, <1>5, <1>8
     DEF Inv, TypeOK, NoDuplicates, DeadlineUnlessRetried, AlarmsKnown, Settled, Distinct

(* The last answer: the front command leaves and its alarm is cancelled.    *)
LEMMA AnswerLastStep ==
  ASSUME Inv, Answer
  PROVE  Inv'
<1> DEFINE c == Head(queue)
<1>1. Settled(queue) /\ queue # <<>>
  BY DEF Inv, TypeOK, NoDuplicates, Settled, Distinct, Answer
<1>2. c \in Commands /\ Settled(Run(Tail(queue)))
  BY <1>1, TailSettles
<1>3. /\ queue' \in Extended(Run(Tail(queue)), OnResponse[c])
      /\ at' = Sent([at EXCEPT ![c] = 0], queue')
      /\ armed' = (armed \ {c}) \union (Front(queue') \ (alarm \ {c}))
      /\ alarm' = (alarm \ {c}) \union Front(queue')
      /\ failed' = failed /\ cleared' = cleared /\ retried' = {}
  BY DEF Answer, Started, Cancelled
<1> HIDE DEF c
<1>4. OnResponse[c] \in SUBSET Commands
  BY <1>2, CommandQueueAssumption
<1>5. Settled(queue') /\ Front(queue') \subseteq Commands
  BY <1>2, <1>3, <1>4, ExtendedSettles, FrontIsCommand
<1>6. /\ [at EXCEPT ![c] = 0] \in [Commands -> Nat]
      /\ \A x \in Commands : [at EXCEPT ![c] = 0][x] \in 0 .. Len(Steps[x])
  <2>1. at \in [Commands -> Nat] /\ \A x \in Commands : at[x] \in 0 .. Len(Steps[x])
    BY DEF Inv, TypeOK
  <2>2. Len(Steps[c]) \in Nat
    BY <1>2, CommandQueueAssumption, LenProperties
  <2>3. QED
    BY <1>2, <2>1, <2>2
<1>7. /\ at' \in [Commands -> Nat]
      /\ \A x \in Commands : at'[x] \in 0 .. Len(Steps[x])
      /\ \A x \in Front(queue') : at'[x] # 0
  BY <1>3, <1>5, <1>6, SentTyped
<1>8. alarm' = armed' /\ Front(queue') \subseteq armed' /\ armed' \subseteq Commands
  BY <1>3, <1>5 DEF Inv, AlarmsKnown, TypeOK
<1>9. QED
  BY <1>3, <1>5, <1>7, <1>8
     DEF Inv, TypeOK, NoDuplicates, DeadlineUnlessRetried, AlarmsKnown, Settled, Distinct

(* What the delegate of the front command adds leaves that command in front *)
(* only if it is the command itself and nothing was behind it.              *)
LEMMA OnlyRetried ==
  ASSUME NEW q, Settled(q), q # <<>>, NEW choice \in SUBSET Commands,
         NEW r \in Extended(Run(Tail(q)), choice), Head(q) \in Front(r)
  PROVE  r = <<Head(q)>>
<1> DEFINE c == Head(q)
           t == Run(Tail(q))
<1>1. Settled(t) /\ c \notin Members(t) /\ c \notin Front(t)
  BY TailSettles, FrontIsCommand
<1>2. t = <<>>
  BY <1>1, ExtendedSettles
<1> HIDE DEF c, t
<1>3. r # <<>>
  BY DEF Front
<1>4. PICK d \in choice : r = Run(<<d>>)
  BY <1>2, <1>3 DEF Extended, Added, t
<1>5. PICK s : s = <<d>>
  OBVIOUS
<1>6. s \in Seq(Commands) /\ Len(s) = 1 /\ s[1] = d
  BY <1>5
<1> DEFINE k == FirstWaiting(s)
<1>7. r = SubSeq(s, k, 1) /\ (k = 1 \/ k = 2)
  <2>1. k \in 1 .. 2
    BY <1>6, FirstWaitingStops
  <2>2. QED
    BY <1>4, <1>5, <1>6, <2>1 DEF Run
<1> HIDE DEF k
<1>8. CASE k = 2
  <2>1. r = SubSeq(s, 2, 1)
    BY <1>7, <1>8
  <2>2. SubSeq(s, 2, 1) = <<>>
    BY <1>6
  <2>3. QED
    BY <1>3, <2>1, <2>2
<1>9. CASE k = 1
  <2>1. r = SubSeq(s, 1, 1)
    BY <1>7, <1>9
  <2>2. r \in Seq(Commands) /\ Len(r) = 1 /\ r[1] = d
    BY <1>6, <2>1, SubSeqProperties
  <2>3. d = c
    BY <1>3, <2>2 DEF Front, c
  <2>4. r = <<d>>
    BY <2>2, SeqEqual, <1>5, <1>6
  <2>5. QED
    BY <2>3, <2>4 DEF c
<1>10. QED
  BY <1>7, <1>8, <1>9

(* A timeout: alarmId is reset after the delegate had its chance to add a   *)
(* command, which only costs one added again at once its deadline.          *)
LEMMA TimeoutStep ==
  ASSUME Inv, NEW c \in Commands, Timeout(c)
  PROVE  Inv'
<1>1. Settled(queue)
  BY DEF Inv, TypeOK, NoDuplicates, Settled, Distinct
<1>2. CASE c \in Front(queue)
  <2>1. queue # <<>>
    BY <1>2 DEF Front
  <2>2. c = Head(queue) /\ Settled(Run(Tail(queue))) /\ c \notin Members(Run(Tail(queue)))
    BY <1>1, <1>2, <2>1, TailSettles
  <2>3. /\ queue' \in Extended(Run(Tail(queue)), OnTimeout[c])
        /\ at' = Sent([at EXCEPT ![c] = IF c \in Macro THEN at[c] ELSE 0], queue')
        /\ armed' = (armed \ {c}) \union (Front(queue') \ alarm)
        /\ alarm' = (alarm \union Front(queue')) \ {c}
        /\ failed' = failed /\ cleared' = cleared
        /\ retried' = IF queue' = <<c>> THEN {c} ELSE {}
    BY <1>2 DEF Timeout, Started, Expired
  <2>4. OnTimeout[c] \in SUBSET Commands
    BY CommandQueueAssumption
  <2>5. Settled(queue') /\ Front(queue') \subseteq Commands
    BY <2>2, <2>3, <2>4, ExtendedSettles, FrontIsCommand
  <2>6. c \in Front(queue') => retried' = {c}
    BY <1>1, <2>1, <2>2, <2>3, <2>4, OnlyRetried
  <2>12. retried' \subseteq Front(queue')
    <3>1. <<c>> # <<>> /\ <<c>>[1] = c
      OBVIOUS
    <3>2. QED
      BY <2>3, <3>1 DEF Front
  <2> DEFINE steps == [at EXCEPT ![c] = IF c \in Macro THEN at[c] ELSE 0]
  <2>7. /\ steps \in [Commands -> Nat]
        /\ \A x \in Commands : steps[x] \in 0 .. Len(Steps[x])
    <3>1. at \in [Commands -> Nat] /\ \A x \in Commands : at[x] \in 0 .. Len(Steps[x])
      BY DEF Inv, TypeOK
    <3>2. Len(Steps[c]) \in Nat
      BY CommandQueueAssumption, LenProperties
    <3>3. QED
      BY <3>1, <3>2
  <2>8. at' = Sent(steps, queue')
    BY <2>3
  <2> HIDE DEF steps
  <2>9. /\ at' \in [Commands -> Nat]
        /\ \A x \in Commands : at'[x] \in 0 .. Len(Steps[x])
        /\ \A x \in Front(queue') : at'[x] # 0
    BY <2>5, <2>7, <2>8, SentTyped
  <2>10. /\ alarm' = armed' /\ Front(queue') \subseteq armed' \union retried'
         /\ armed' \subseteq Commands
    <3>1. c \in alarm /\ alarm = armed /\ armed \subseteq Commands
      BY DEF Timeout, Inv, AlarmsKnown, TypeOK
    <3>2. QED
      BY <2>3, <2>5, <2>6, <3>1
  <2>11. QED
    BY <2>3, <2>5, <2>9, <2>10, <2>12
       DEF Inv, TypeOK, NoDuplicates, DeadlineUnlessRetried, AlarmsKnown, Settled, Distinct
<1>3. CASE c \notin Front(queue)
  <2>1. /\ queue' = queue /\ at' = at /\ armed' = armed /\ alarm' = alarm
        /\ failed' = TRUE /\ cleared' = cleared /\ retried' = retried
    BY <1>3 DEF Timeout
  <2>2. QED
    BY <2>1 DEF Inv, TypeOK, NoDuplicates, DeadlineUnlessRetried, AlarmsKnown
<1>4. QED
  BY <1>2, <1>3

(* After clear() no command is in front to need a deadline.                 *)
LEMMA ClearStep ==
  ASSUME Inv, Clear
  PROVE  Inv'
<1>1. <<>> \in Seq(Commands) /\ DOMAIN <<>> = {}
  OBVIOUS
<1>2. QED
  BY <1>1 DEF Clear, Inv, TypeOK, NoDuplicates, DeadlineUnlessRetried, AlarmsKnown, Front

(* Whatever delegates add, in timeout() too, a command the queue waits for  *)
(* has a deadline unless it timed out with nothing behind it and was added  *)
(* again at once; none is in the queue twice, and alarmId is never wrong.   *)
THEOREM DeadlinesKept ==
  Spec => [](TypeOK /\ NoDuplicates /\ DeadlineUnlessRetried /\ AlarmsKnown)
<1>1. Init => Inv
  BY InvInit
<1>2. Inv /\ [Next]_vars => Inv'
  <2> SUFFICES ASSUME Inv, [Next]_vars
               PROVE  Inv'
    OBVIOUS
  <2>1. CASE \E d \in Commands : Add(d)
    BY <2>1, AddStep
  <2>2. CASE AnswerStep
    BY <2>2, AnswerStepStep
  <2>3. CASE Answer
    BY <2>3, AnswerLastStep
  <2>4. CASE \E c \in Commands : Timeout(c)
    BY <2>4, TimeoutStep
  <2>5. CASE Clear
    BY <2>5, ClearStep
  <2>6. CASE UNCHANGED vars
    BY <2>6 DEF vars, Inv, TypeOK, NoDuplicates, DeadlineUnlessRetried, AlarmsKnown
  <2>7. QED
    BY <2>1, <2>2, <2>3, <2>4, <2>5, <2>6 DEF Next
<1>3. Inv => TypeOK /\ NoDuplicates /\ DeadlineUnlessRetried /\ AlarmsKnown
  BY DEF Inv
<1>4. QED
  BY <1>1, <1>2, <1>3, PTL DEF Spec

(* Every step leaves a queue.                                               *)
LEMMA StepLeavesQueue ==
  ASSUME queue \in Seq(Commands), [Next]_vars
  PROVE  queue' \in Seq(Commands)
<1>1. ASSUME NEW q \in Seq(Commands), NEW choice \in SUBSET Commands,
             queue' \in Extended(q, choice)
      PROVE  queue' \in Seq(Commands)
  BY <1>1, QueuesStayQueues DEF Extended
<1>2. queue # <<>> => /\ Head(queue) \in Commands /\ Head(queue) = queue[1]
                      /\ OnResponse[Head(queue)] \in SUBSET Commands
                      /\ Run(Tail(queue)) \in Seq(Commands)
  <2> SUFFICES ASSUME queue # <<>>
               PROVE  /\ Head(queue) \in Commands /\ Head(queue) = queue[1]
                      /\ OnResponse[Head(queue)] \in SUBSET Commands
                      /\ Run(Tail(queue)) \in Seq(Commands)
    OBVIOUS
  <2>1. Head(queue) \in Commands /\ Head(queue) = queue[1] /\ Tail(queue) \in Seq(Commands)
    BY HeadTailProperties
  <2>2. OnResponse[Head(queue)] \in SUBSET Commands
    BY <2>1, CommandQueueAssumption
  <2>3. Run(Tail(queue)) \in Seq(Commands)
    BY <2>1, QueuesStayQueues
  <2>4. QED
    BY <2>1, <2>2, <2>3
<1>3. ASSUME NEW d \in Commands, Add(d)
      PROVE  queue' \in Seq(Commands)
  BY <1>3, QueuesStayQueues DEF Add
<1>4. CASE AnswerStep
  <2>1. queue' \in Extended(queue, OnResponse[Head(queue)]) /\ queue # <<>>
    BY <1>4 DEF AnswerStep
  <2>2. QED
    BY <1>1, <1>2, <2>1
<1>5. CASE Answer
  <2>1. queue' \in Extended(Run(Tail(queue)), OnResponse[Head(queue)]) /\ queue # <<>>
    BY <1>5 DEF Answer
  <2>2. QED
    BY <1>1, <1>2, <2>1
<1>6. ASSUME NEW c \in Commands, Timeout(c)
      PROVE  queue' \in Seq(Commands)
  <2>1. CASE c \in Front(queue)
    <3>1. queue # <<>> /\ queue' \in Extended(Run(Tail(queue)), OnTimeout[c])
      BY <1>6, <2>1 DEF Timeout, Front
    <3>2. OnTimeout[c] \in SUBSET Commands
      BY CommandQueueAssumption
    <3>3. QED
      BY <1>1, <1>2, <3>1, <3>2
  <2>2. CASE c \notin Front(queue)
    BY <1>6, <2>2 DEF Timeout
  <2>3. QED
    BY <2>1, <2>2
<1>7. CASE Clear
  BY <1>7 DEF Clear
<1>8. CASE UNCHANGED vars
  BY <1>8 DEF vars
<1>9. QED
  BY <1>3, <1>4, <1>5, <1>6, <1>7, <1>8 DEF Next

(* Until the queue is cleared, the only deadline is that of the command in  *)
(* front, so no timeout finds another one there: the assertion in remove()  *)
(* holds, even if a delegate adds its own command in timeout().             *)
THEOREM TimeoutsFindTheirCommand ==
  Spec => [](NoStaleDeadline /\ AssertHolds)
<1> DEFINE J == queue \in Seq(Commands) /\ NoStaleDeadline /\ AssertHolds
<1>1. Init => J
  BY DEF Init, NoStaleDeadline, AssertHolds
<1>2. J /\ [Next]_vars => J'
  <2> SUFFICES ASSUME J, [Next]_vars
               PROVE  (NoStaleDeadline /\ AssertHolds)'
    BY StepLeavesQueue
  <2> USE DEF NoStaleDeadline, AssertHolds
  <2>1. CASE cleared
    <3>1. cleared'
      BY <2>1 DEF Next, Add, AnswerStep, Answer, Timeout, Clear, vars
    <3>2. QED
      BY <3>1
  <2>2. CASE ~cleared
    <3>1. queue \in Seq(Commands) /\ armed \subseteq Front(queue) /\ ~failed
      BY <2>2
    <3>2. ASSUME NEW d \in Commands, Add(d)
          PROVE  armed' \subseteq Front(queue') /\ ~failed'
      <4>1. queue' = Added(queue, d) /\ failed' = failed
        BY <3>2 DEF Add
      <4>2. CASE queue = <<>>
        <5>1. armed = {}
          BY <3>1, <4>2 DEF Front
        <5>2. QED
          BY <3>1, <3>2, <4>1, <4>2, <5>1 DEF Add, Started
      <4>3. CASE queue # <<>>
        <5>1. armed' = armed /\ Front(queue') = Front(queue)
          BY <3>1, <3>2, <4>1, <4>3, QueuesStayQueues DEF Add
        <5>2. QED
          BY <3>1, <4>1, <5>1
      <4>4. QED
        BY <4>2, <4>3
    <3>3. CASE AnswerStep
      <4>1. /\ armed' = armed /\ failed' = failed /\ queue # <<>>
            /\ queue' \in Extended(queue, OnResponse[Head(queue)])
        BY <3>3 DEF AnswerStep
      <4>2. OnResponse[Head(queue)] \in SUBSET Commands
        BY <3>1, <4>1, HeadTailProperties, CommandQueueAssumption
      <4>3. Front(queue') = Front(queue)
        BY <3>1, <4>1, <4>2, QueuesStayQueues DEF Extended
      <4>4. QED
        BY <3>1, <4>1, <4>3
    <3>4. CASE Answer
      <4>1. /\ armed' = (armed \ {Head(queue)}) \union Started(queue', alarm \ {Head(queue)})
            /\ failed' = failed /\ queue # <<>>
        BY <3>4 DEF Answer, Cancelled
      <4>2. armed \subseteq {Head(queue)}
        BY <3>1, <4>1, HeadTailProperties DEF Front
      <4>3. QED
        BY <3>1, <4>1, <4>2 DEF Started
    <3>5. ASSUME NEW c \in Commands, Timeout(c)
          PROVE  armed' \subseteq Front(queue') /\ ~failed'
      <4>1. c \in Front(queue) /\ armed \subseteq {c}
        BY <3>1, <3>5 DEF Timeout, Front
      <4>2. armed' = (armed \ {c}) \union Started(queue', alarm) /\ failed' = failed
        BY <3>5, <4>1 DEF Timeout
      <4>3. QED
        BY <3>1, <4>1, <4>2 DEF Started
    <3>6. CASE Clear
      BY <3>6 DEF Clear
    <3>7. CASE UNCHANGED vars
      BY <3>1, <3>7 DEF vars
    <3>8. QED
      BY <3>2, <3>3, <3>4, <3>5, <3>6, <3>7 DEF Next
  <2>3. QED
    BY <2>1, <2>2
<1>3. J => NoStaleDeadline /\ AssertHolds
  OBVIOUS
<1> HIDE DEF J
<1>4. QED
  BY <1>1, <1>2, <1>3, PTL DEF Spec

-----------------------------------------------------------------------------
(* The order commands leave in.                                             *)

AtMostOne == {<<>>} \union {<<d>> : d \in Commands}

(* A queue q with the first k gone, at most the first of which was waited   *)
(* for, and one more command at the end, or none.                           *)
ServedAs(q, k, t, r) ==
  /\ r = SubSeq(q, k + 1, Len(q)) \o t
  /\ \A j \in 2 .. k : ~Waits(q[j])
Served(q, r) == \E k \in 0 .. Len(q) : \E t \in AtMostOne : ServedAs(q, k, t, r)

(* A command added goes to the end, or has been sent and needs no answer.   *)
LEMMA AddedBehind ==
  ASSUME NEW q \in Seq(Commands), NEW d \in Commands
  PROVE  \E t \in AtMostOne : Added(q, d) = q \o t
<1>1. q = q \o <<>> /\ <<>> \o <<d>> = <<d>> /\ <<d>> \in Seq(Commands)
  BY ConcatEmptySeq
<1>2. CASE d \in Members(q)
  BY <1>1, <1>2 DEF Added, AtMostOne
<1>3. CASE d \notin Members(q) /\ q = <<>>
  <2>1. Len(<<d>>) = 1
    OBVIOUS
  <2>2. FirstWaiting(<<d>>) \in 1 .. 2
    <3> DEFINE s == <<d>>
    <3>1. s \in Seq(Commands) /\ Len(s) + 1 = 2
      BY <1>1, <2>1
    <3> HIDE DEF s
    <3>2. FirstWaiting(s) \in 1 .. Len(s) + 1
      BY <3>1, FirstWaitingStops
    <3>3. QED
      BY <3>1, <3>2 DEF s
  <2>3. Run(<<d>>) = SubSeq(<<d>>, FirstWaiting(<<d>>), 1)
    BY <2>1 DEF Run
  <2>4. SubSeq(<<d>>, 1, 1) = <<d>>
    BY <1>1, <2>1, SubSeqFull
  <2>5. SubSeq(<<d>>, 2, 1) = <<>>
    BY SubSeqEmpty
  <2>6. Run(<<d>>) \in AtMostOne
    BY <2>2, <2>3, <2>4, <2>5 DEF AtMostOne
  <2>7. Added(q, d) = Run(<<d>>)
    BY <1>3 DEF Added
  <2>8. <<>> \o Run(<<d>>) = Run(<<d>>)
    BY <1>1, QueuesStayQueues, ConcatEmptySeq
  <2>9. QED
    BY <1>3, <2>6, <2>7, <2>8
<1>4. CASE d \notin Members(q) /\ q # <<>>
  <2>1. Added(q, d) = q \o <<d>>
    BY <1>4, AppendIsConcat DEF Added
  <2>2. QED
    BY <2>1 DEF AtMostOne
<1>5. QED
  BY <1>2, <1>3, <1>4

(* So does whatever a delegate adds.                                        *)
LEMMA ExtendedBehind ==
  ASSUME NEW q \in Seq(Commands), NEW choice \in SUBSET Commands, NEW r \in Extended(q, choice)
  PROVE  \E t \in AtMostOne : r = q \o t
<1>1. CASE r = q
  <2>1. r = q \o <<>> /\ <<>> \in AtMostOne
    BY <1>1, ConcatEmptySeq DEF AtMostOne
  <2>2. QED
    BY <2>1
<1>2. CASE \E d \in choice : r = Added(q, d)
  BY <1>2, AddedBehind
<1>3. QED
  BY <1>1, <1>2 DEF Extended

(* Nobody leaves when commands are only added.                              *)
LEMMA NoneLeaves ==
  ASSUME NEW q \in Seq(Commands), NEW t \in AtMostOne
  PROVE  Served(q, q \o t)
<1>1. SubSeq(q, 0 + 1, Len(q)) = q /\ 0 \in 0 .. Len(q)
  BY SubSeqFull, LenProperties
<1>2. ServedAs(q, 0, t, q \o t)
  BY <1>1 DEF ServedAs
<1>3. QED
  BY <1>1, <1>2 DEF Served

(* Behind the one that leaves, those that need no answer leave with it.     *)
LEMMA FrontLeaves ==
  ASSUME NEW q \in Seq(Commands), q # <<>>, NEW t \in AtMostOne
  PROVE  Served(q, Run(Tail(q)) \o t)
<1> DEFINE s == Tail(q)
           f == FirstWaiting(s)
<1>1. /\ Len(q) \in Nat \ {0} /\ s \in Seq(Commands) /\ Len(s) = Len(q) - 1
      /\ \A i \in 1 .. Len(q) - 1 : s[i] = q[i + 1]
      /\ \A i \in 1 .. Len(q) : q[i] \in Commands
  BY HeadTailProperties, LenProperties, EmptySeq, ElementOfSeq
<1>2. f \in 1 .. Len(s) + 1 /\ \A j \in 1 .. f - 1 : ~Waits(s[j])
  BY <1>1, FirstWaitingStops
<1>3. Run(s) = SubSeq(s, f, Len(s))
  BY DEF Run
<1> HIDE DEF s, f
<1>4. f \in 0 .. Len(q) /\ f \in 1 .. Len(q)
  BY <1>1, <1>2
<1>5. \A j \in 2 .. f : ~Waits(q[j])
  <2> TAKE j \in 2 .. f
  <2>1. j - 1 \in 1 .. f - 1 /\ j - 1 \in 1 .. Len(q) - 1 /\ (j - 1) + 1 = j
    BY <1>1, <1>4
  <2>2. QED
    BY <1>1, <1>2, <2>1
<1>6. Run(s) = SubSeq(q, f + 1, Len(q))
  <2> DEFINE a == SubSeq(s, f, Len(s))
             b == SubSeq(q, f + 1, Len(q))
  <2>1. CASE f = Len(q)
    BY <1>1, <1>3, <2>1, SubSeqEmpty
  <2>2. CASE f # Len(q)
    <3>1. /\ f \in Int /\ f + 1 \in Int /\ Len(s) \in Int /\ Len(q) \in Int
          /\ f <= Len(s) /\ f + 1 <= Len(q)
      BY <1>1, <1>4, <2>2
    <3>2. /\ \A i \in f .. Len(s) : s[i] \in Commands
          /\ \A i \in f + 1 .. Len(q) : q[i] \in Commands
      BY <1>1, <1>4, ElementOfSeq
    <3>3. /\ a \in Seq(Commands) /\ Len(a) = Len(s) - f + 1
          /\ \A i \in 1 .. Len(s) - f + 1 : a[i] = s[f + i - 1]
      BY <3>1, <3>2, SubSeqProperties
    <3>4. /\ b \in Seq(Commands) /\ Len(b) = Len(q) - (f + 1) + 1
          /\ \A i \in 1 .. Len(q) - (f + 1) + 1 : b[i] = q[(f + 1) + i - 1]
      BY <3>1, <3>2, SubSeqProperties
    <3> HIDE DEF a, b
    <3>5. Len(a) = Len(b) /\ Len(a) = Len(q) - f
      BY <1>1, <1>4, <3>3, <3>4
    <3>6. ASSUME NEW i \in 1 .. Len(a) PROVE a[i] = b[i]
      <4>1. /\ i \in 1 .. Len(s) - f + 1 /\ i \in 1 .. Len(q) - (f + 1) + 1
            /\ f + i - 1 \in 1 .. Len(q) - 1 /\ (f + i - 1) + 1 = (f + 1) + i - 1
        BY <1>1, <1>4, <3>5
      <4>2. a[i] = s[f + i - 1] /\ b[i] = q[(f + i - 1) + 1]
        BY <3>3, <3>4, <4>1
      <4>3. QED
        BY <1>1, <4>1, <4>2
    <3>7. a = b
      BY <3>3, <3>4, <3>5, <3>6, SeqEqual
    <3>8. QED
      BY <1>3, <3>7 DEF a, b
  <2>3. QED
    BY <2>1, <2>2
<1>7. ServedAs(q, f, t, Run(s) \o t)
  BY <1>5, <1>6 DEF ServedAs
<1>8. QED
  BY <1>4, <1>7 DEF Served, s

(* FirstComeFirstServed: whatever the driver and the handlers of delegates  *)
(* add, and however answers and timeouts alternate, commands leave in the   *)
(* order they came, and those that need an answer one at a time             *)
(* (CORQueue::add, remove and run).                                         *)
THEOREM CommandsInOrder == Spec => FirstComeFirstServed
<1>1. queue \in Seq(Commands) /\ [Next]_vars => (queue \in Seq(Commands))'
  BY StepLeavesQueue
<1>2. queue \in Seq(Commands) /\ [Next]_vars => [Clear \/ Served(queue, queue')]_vars
  <2> SUFFICES ASSUME queue \in Seq(Commands), Next, ~Clear
               PROVE  Served(queue, queue')
    OBVIOUS
  <2>1. queue # <<>> => Head(queue) \in Commands /\ Run(Tail(queue)) \in Seq(Commands)
    BY HeadTailProperties, QueuesStayQueues
  <2>2. ASSUME NEW d \in Commands, Add(d) PROVE Served(queue, queue')
    BY <2>2, AddedBehind, NoneLeaves DEF Add
  <2>3. CASE AnswerStep
    <3>1. queue # <<>> /\ queue' \in Extended(queue, OnResponse[Head(queue)])
      BY <2>3 DEF AnswerStep
    <3>2. OnResponse[Head(queue)] \in SUBSET Commands
      BY <2>1, <3>1, CommandQueueAssumption
    <3>3. PICK t \in AtMostOne : queue' = queue \o t
      BY <3>1, <3>2, ExtendedBehind
    <3>4. QED
      BY <3>3, NoneLeaves
  <2>4. CASE Answer
    <3>1. queue # <<>> /\ queue' \in Extended(Run(Tail(queue)), OnResponse[Head(queue)])
      BY <2>4 DEF Answer
    <3>2. OnResponse[Head(queue)] \in SUBSET Commands
      BY <2>1, <3>1, CommandQueueAssumption
    <3>3. PICK t \in AtMostOne : queue' = Run(Tail(queue)) \o t
      BY <2>1, <3>1, <3>2, ExtendedBehind
    <3>4. QED
      BY <3>1, <3>3, FrontLeaves
  <2>5. ASSUME NEW c \in Commands, Timeout(c) PROVE Served(queue, queue')
    <3>1. CASE c \in Front(queue)
      <4>1. queue # <<>> /\ queue' \in Extended(Run(Tail(queue)), OnTimeout[c])
        BY <2>5, <3>1 DEF Timeout, Front
      <4>2. OnTimeout[c] \in SUBSET Commands
        BY CommandQueueAssumption
      <4>3. PICK t \in AtMostOne : queue' = Run(Tail(queue)) \o t
        BY <2>1, <4>1, <4>2, ExtendedBehind
      <4>4. QED
        BY <4>1, <4>3, FrontLeaves
    <3>2. CASE c \notin Front(queue)
      <4>1. queue = queue \o <<>> /\ <<>> \in AtMostOne
        BY ConcatEmptySeq DEF AtMostOne
      <4>2. queue' = queue \o <<>>
        BY <2>5, <3>2, <4>1 DEF Timeout
      <4>3. QED
        BY <4>1, <4>2, NoneLeaves
    <3>3. QED
      BY <3>1, <3>2
  <2>6. QED
    BY <2>2, <2>3, <2>4, <2>5 DEF Next
<1>3. Clear \/ Served(queue, queue') <=>
        \/ Clear
        \/ \E k \in 0 .. Len(queue) : \E t \in {<<>>} \union {<<d>> : d \in Commands} :
             /\ queue' = SubSeq(queue, k + 1, Len(queue)) \o t
             /\ \A j \in 2 .. k : ~Waits(queue[j])
  BY DEF Served, ServedAs, AtMostOne
<1>4. queue \in Seq(Commands) /\ [Next]_vars =>
        [\/ Clear
         \/ \E k \in 0 .. Len(queue) : \E t \in {<<>>} \union {<<d>> : d \in Commands} :
              /\ queue' = SubSeq(queue, k + 1, Len(queue)) \o t
              /\ \A j \in 2 .. k : ~Waits(queue[j])]_vars
  BY <1>2, <1>3
<1>5. Init => queue \in Seq(Commands)
  BY DEF Init
<1>6. QED
  BY <1>1, <1>4, <1>5, PTL DEF Spec, FirstComeFirstServed
=============================================================================
