-------------------------- MODULE SwitchVectorProofs --------------------------
(***************************************************************************)
(* Theorems about SwitchVector, for any number of switches.                *)
(***************************************************************************)
EXTENDS SwitchVector, TLAPS, SequenceTheorems, FiniteSetTheorems, WellFoundedInduction

States == [on : SUBSET Switches, changed : SUBSET Switches,
           lastOn : Switches \union {NoSwitch}, alive : BOOLEAN]

(* The switches and the cache are as the rule r wants them, and a OneOfMany *)
(* vector has something for the cache to hold.                              *)
Good(r, s) ==
  /\ s \in States /\ s.alive
  /\ r # "AnyOfMany" => s.on = {s.lastOn} \ {NoSwitch}
  /\ r = "OneOfMany" => s.lastOn # NoSwitch

(* No file is wrong and no plug-in turns off the switches of a OneOfMany.   *)
WellUsed == FileErrors = {} /\ "OneOfMany" \notin TurnsOff

-----------------------------------------------------------------------------
(* Every nonempty bounded set of naturals has a largest member.             *)
LEMMA NatMax ==
  ASSUME NEW S \in SUBSET Nat, S # {}, NEW n \in Nat, \A y \in S : y <= n
  PROVE  \E x \in S : \A y \in S : y <= x
<1> DEFINE T == {n - y : y \in S}
<1>1. T \in SUBSET Nat /\ T # {}
  <2>1. \A y \in S : n - y \in Nat
    OBVIOUS
  <2>2. QED
    BY <2>1
<1>2. PICK m \in T : \A k \in T : ~(<<k, m>> \in OpToRel(<, Nat))
  BY <1>1, NatLessThanWellFounded, WFMin
<1>3. PICK x \in S : m = n - x
  BY <1>2
<1>4. \A y \in S : ~(n - y < n - x)
  BY <1>1, <1>2, <1>3 DEF OpToRel
<1>5. QED
  BY <1>4

(* The names are finitely many.                                             *)
LEMMA SwitchesFinite == IsFiniteSet(Switches)
<1>1. DOMAIN Order = 1 .. Len(Order) /\ Len(Order) \in Nat
  BY SwitchVectorAssumption, LenProperties
<1>2. IsFiniteSet(DOMAIN Order)
  BY <1>1, FS_Interval
<1> DEFINE f == [i \in DOMAIN Order |-> Order[i]]
<1>3. Switches = {f[i] : i \in DOMAIN Order}
  BY DEF Switches
<1>4. f \in [DOMAIN Order -> Switches]
  BY <1>3
<1>5. f \in Surjection(DOMAIN Order, Switches)
  BY <1>3, <1>4 DEF Surjection
<1>6. QED
  BY <1>2, <1>5, FS_Surjection

(* The cache of a vector just read holds a switch that is on, if one is.    *)
LEMMA LastOnOfIsOn ==
  ASSUME NEW on \in SUBSET Switches
  PROVE  IF on = {} THEN LastOnOf(on) = NoSwitch ELSE LastOnOf(on) \in on
<1>1. CASE on = {}
  BY <1>1 DEF LastOnOf
<1>2. CASE on # {}
  <2> DEFINE I == {i \in DOMAIN Order : Order[i] \in on}
  <2>1. DOMAIN Order = 1 .. Len(Order) /\ Len(Order) \in Nat
    BY SwitchVectorAssumption, LenProperties
  <2>2. I # {}
    BY <1>2 DEF Switches
  <2>3. I \in SUBSET Nat /\ \A i \in I : i <= Len(Order)
    BY <2>1
  <2> HIDE DEF I
  <2>4. PICK m \in I : \A j \in I : j <= m
    BY <2>1, <2>2, <2>3, NatMax
  <2>5. /\ m \in DOMAIN Order /\ Order[m] \in on
        /\ \A j \in DOMAIN Order : Order[j] \in on => j <= m
    BY <2>4 DEF I
  <2>6. QED
    BY <1>2, <2>5 DEF LastOnOf
<1>3. QED
  BY <1>1, <1>2

(* What turning one switch on, or off, changes.                             *)
LEMMA PutOn ==
  ASSUME NEW t \in States, NEW q \in Switches
  PROVE  /\ Put(t, q, TRUE) \in States
         /\ Put(t, q, TRUE).on = t.on \union {q}
         /\ Put(t, q, TRUE).changed = t.changed \union {q}
         /\ Put(t, q, TRUE).lastOn = t.lastOn
         /\ Put(t, q, TRUE).alive = t.alive
<1> DEFINE u == Put(t, q, TRUE)
           o == t.on \union {q}
           m == t.changed \union {q}
<1>1. o \in SUBSET Switches /\ m \in SUBSET Switches
  BY DEF States
<1>2. u = [t EXCEPT !.on = o, !.changed = m]
  BY DEF Put
<1> HIDE DEF u, o, m
<1>3. /\ u \in States /\ u.on = o /\ u.changed = m
      /\ u.lastOn = t.lastOn /\ u.alive = t.alive
  BY <1>1, <1>2 DEF States
<1>4. QED
  BY <1>3 DEF u, o, m

(* As PutOn, for a switch turned off.                                       *)
LEMMA PutOff ==
  ASSUME NEW t \in States, NEW q \in Switches
  PROVE  /\ Put(t, q, FALSE) \in States
         /\ Put(t, q, FALSE).on = t.on \ {q}
         /\ Put(t, q, FALSE).changed = t.changed \union {q}
         /\ Put(t, q, FALSE).lastOn = t.lastOn
         /\ Put(t, q, FALSE).alive = t.alive
<1> DEFINE u == Put(t, q, FALSE)
           o == t.on \ {q}
           m == t.changed \union {q}
<1>1. o \in SUBSET Switches /\ m \in SUBSET Switches
  BY DEF States
<1>2. u = [t EXCEPT !.on = o, !.changed = m]
  BY DEF Put
<1> HIDE DEF u, o, m
<1>3. /\ u \in States /\ u.on = o /\ u.changed = m
      /\ u.lastOn = t.lastOn /\ u.alive = t.alive
  BY <1>1, <1>2 DEF States
<1>4. QED
  BY <1>3 DEF u, o, m

(* What setting the cache changes.                                          *)
LEMMA CacheFacts ==
  ASSUME NEW t \in States, NEW x \in Switches \union {NoSwitch}
  PROVE  /\ [t EXCEPT !.lastOn = x] \in States
         /\ [t EXCEPT !.lastOn = x].on = t.on
         /\ [t EXCEPT !.lastOn = x].changed = t.changed
         /\ [t EXCEPT !.lastOn = x].lastOn = x
         /\ [t EXCEPT !.lastOn = x].alive = t.alive
BY DEF States

(* What the rule makes of turning a switch on: the one the cache holds, and *)
(* no other, is turned off for it.                                          *)
LEMMA TurnedOn ==
  ASSUME rule \in Rules, NEW s \in States, s.alive, NEW p \in Switches,
         rule = "OneOfMany" => s.lastOn # NoSwitch
  PROVE  /\ ApplyRule(s, p, TRUE) \in States /\ ApplyRule(s, p, TRUE).alive
         /\ ApplyRule(s, p, TRUE).lastOn = p
         /\ s.changed \union {p} \subseteq ApplyRule(s, p, TRUE).changed
         /\ ApplyRule(s, p, TRUE).on =
              (IF rule = "AnyOfMany" THEN s.on ELSE s.on \ {s.lastOn}) \union {p}
<1> DEFINE t == ApplyRule(s, p, TRUE)
           c == IF rule # "AnyOfMany" /\ s.lastOn # NoSwitch THEN Put(s, s.lastOn, FALSE) ELSE s
           d == [c EXCEPT !.lastOn = p]
           u == Put(c, p, TRUE)
<1>1. s.lastOn \in Switches \union {NoSwitch} /\ s.on \subseteq Switches /\ NoSwitch \notin Switches
  BY SwitchVectorAssumption DEF States
<1>2. /\ c \in States /\ c.alive /\ s.changed \subseteq c.changed
      /\ c.on = IF rule = "AnyOfMany" THEN s.on ELSE s.on \ {s.lastOn}
  <2>1. CASE rule # "AnyOfMany" /\ s.lastOn # NoSwitch
    <3> DEFINE q == Put(s, s.lastOn, FALSE)
    <3>1. q \in States /\ q.alive /\ s.changed \subseteq q.changed /\ q.on = s.on \ {s.lastOn}
      <4>1. s.lastOn \in Switches
        BY <1>1, <2>1
      <4>2. /\ q \in States /\ q.on = s.on \ {s.lastOn} /\ q.alive = s.alive
            /\ q.changed = s.changed \union {s.lastOn}
        BY <4>1, PutOff
      <4> HIDE DEF q
      <4>3. QED
        BY <4>2
    <3>2. c = q
      BY <2>1
    <3> HIDE DEF q, c
    <3>3. QED
      BY <2>1, <3>1, <3>2
  <2>2. CASE ~(rule # "AnyOfMany" /\ s.lastOn # NoSwitch)
    BY <1>1, <2>2
  <2>3. QED
    BY <2>1, <2>2
<1>3. CASE rule # "AnyOfMany"
  <2>1. t = Put(d, p, TRUE)
    BY <1>3 DEF ApplyRule, ApplyOneOfMany, ApplyAtMostOne, Rules
  <2> HIDE DEF c, t
  <2>2. d \in States /\ d.on = c.on /\ d.changed = c.changed /\ d.lastOn = p /\ d.alive
    BY <1>2, CacheFacts
  <2> HIDE DEF d
  <2>3. /\ t \in States /\ t.on = d.on \union {p} /\ t.changed = d.changed \union {p}
        /\ t.lastOn = d.lastOn /\ t.alive = d.alive
    BY <2>1, <2>2, PutOn
  <2>4. /\ t \in States /\ t.alive /\ t.lastOn = p
        /\ s.changed \union {p} \subseteq t.changed
        /\ t.on = (s.on \ {s.lastOn}) \union {p}
    BY <1>2, <1>3, <2>2, <2>3
  <2>5. QED
    BY <1>3, <2>4 DEF t
<1>4. CASE rule = "AnyOfMany"
  <2>1. t = [u EXCEPT !.lastOn = p]
    BY <1>4 DEF ApplyRule, ApplyAnyOfMany
  <2> HIDE DEF c, t
  <2>2. /\ u \in States /\ u.on = c.on \union {p} /\ u.changed = c.changed \union {p} /\ u.alive
    BY <1>2, PutOn
  <2> HIDE DEF u
  <2>3. t \in States /\ t.on = u.on /\ t.changed = u.changed /\ t.lastOn = p /\ t.alive
    BY <2>1, <2>2, CacheFacts
  <2>4. s.changed \union {p} \subseteq t.changed /\ t.on = s.on \union {p}
    BY <1>2, <1>4, <2>2, <2>3
  <2>5. QED
    BY <1>4, <2>3, <2>4 DEF t
<1>5. QED
  BY <1>3, <1>4

(* And of turning one off, which only the cache of an AtMostOne vector sees.*)
IsOff(s, p, t) ==
  /\ t \in States /\ t.alive
  /\ t.on = s.on \ {p} /\ t.changed = s.changed \union {p}
  /\ t.lastOn = IF rule = "AtMostOne" /\ p = s.lastOn THEN NoSwitch ELSE s.lastOn

(* Every rule turns off what it is told to turn off.                        *)
LEMMA TurnedOff ==
  ASSUME rule \in Rules, NEW s \in States, s.alive, NEW p \in Switches
  PROVE  IsOff(s, p, ApplyRule(s, p, FALSE))
<1> DEFINE t == ApplyRule(s, p, FALSE)
           x == IF rule = "AtMostOne" /\ p = s.lastOn THEN NoSwitch ELSE s.lastOn
           d == [s EXCEPT !.lastOn = x]
           u == Put(s, p, FALSE)
<1>1. s.lastOn \in Switches \union {NoSwitch} /\ x \in Switches \union {NoSwitch}
  BY DEF States
<1>2. /\ u \in States /\ u.on = s.on \ {p} /\ u.changed = s.changed \union {p}
      /\ u.lastOn = s.lastOn /\ u.alive
  BY PutOff
<1> SUFFICES /\ t \in States /\ t.alive /\ t.lastOn = x
             /\ t.changed = s.changed \union {p} /\ t.on = s.on \ {p}
  BY DEF IsOff
<1>3. CASE rule = "OneOfMany"
  <2>1. t = u /\ x = s.lastOn
    BY <1>3 DEF ApplyRule, ApplyOneOfMany
  <2>2. QED
    BY <1>2, <2>1
<1>4. CASE rule = "AtMostOne"
  <2>1. t = Put(d, p, FALSE)
    BY <1>4 DEF ApplyRule, ApplyAtMostOne
  <2> HIDE DEF t, u
  <2>2. d \in States /\ d.on = s.on /\ d.changed = s.changed /\ d.lastOn = x /\ d.alive
    <3> HIDE DEF x
    <3>1. QED
      BY <1>1, CacheFacts
  <2> HIDE DEF d, x
  <2>3. /\ t \in States /\ t.on = d.on \ {p} /\ t.changed = d.changed \union {p}
        /\ t.lastOn = d.lastOn /\ t.alive = d.alive
    BY <2>1, <2>2, PutOff
  <2>4. t \in States /\ t.alive /\ t.lastOn = x /\ t.changed = s.changed \union {p} /\ t.on = s.on \ {p}
    BY <2>2, <2>3
  <2>5. QED
    BY <2>4 DEF t, x
<1>5. CASE rule = "AnyOfMany"
  <2>1. t = [u EXCEPT !.lastOn = u.lastOn] /\ x = s.lastOn
    BY <1>5 DEF ApplyRule, ApplyAnyOfMany
  <2> HIDE DEF t, u, x
  <2>2. t \in States /\ t.on = u.on /\ t.changed = u.changed /\ t.lastOn = u.lastOn /\ t.alive
    BY <1>1, <1>2, <2>1, CacheFacts
  <2>3. QED
    BY <1>2, <2>1, <2>2 DEF t, x
<1>6. QED
  BY <1>3, <1>4, <1>5 DEF Rules

(* Turning a switch on keeps the vector good, whatever the rule.            *)
LEMMA TurnOnGood ==
  ASSUME rule \in Rules, NEW s, Good(rule, s), NEW p \in Switches
  PROVE  Good(rule, ApplyRule(s, p, TRUE))
<1> DEFINE t == ApplyRule(s, p, TRUE)
<1>1. s \in States /\ s.alive /\ NoSwitch \notin Switches /\ (rule = "OneOfMany" => s.lastOn # NoSwitch)
  BY SwitchVectorAssumption DEF Good
<1>2. /\ t \in States /\ t.alive /\ t.lastOn = p
      /\ t.on = (IF rule = "AnyOfMany" THEN s.on ELSE s.on \ {s.lastOn}) \union {p}
  BY <1>1, TurnedOn
<1> HIDE DEF t
<1>3. rule # "AnyOfMany" => t.on = {p}
  BY <1>2 DEF Good
<1>4. QED
  BY <1>1, <1>2, <1>3 DEF Good, t

(* Turning a switch off does, unless it is the one that is on of a OneOfMany*)
(* vector.                                                                  *)
LEMMA TurnOffGood ==
  ASSUME rule \in Rules, NEW s, Good(rule, s), NEW p \in Switches,
         ~(rule = "OneOfMany" /\ p = s.lastOn)
  PROVE  Good(rule, ApplyRule(s, p, FALSE))
<1> DEFINE t == ApplyRule(s, p, FALSE)
           x == IF rule = "AtMostOne" /\ p = s.lastOn THEN NoSwitch ELSE s.lastOn
<1>1. s \in States /\ s.alive /\ NoSwitch \notin Switches
  BY SwitchVectorAssumption DEF Good
<1>2. t \in States /\ t.alive /\ t.lastOn = x /\ t.on = s.on \ {p}
  BY <1>1, TurnedOff DEF IsOff
<1> HIDE DEF t
<1>3. rule # "AnyOfMany" => t.on = {t.lastOn} \ {NoSwitch}
  BY <1>1, <1>2 DEF Good, Rules
<1>4. rule = "OneOfMany" => t.lastOn # NoSwitch
  BY <1>1, <1>2 DEF Good
<1>5. QED
  BY <1>2, <1>3, <1>4 DEF Good, t

(* Both together.                                                           *)
LEMMA ApplyRuleGood ==
  ASSUME rule \in Rules, NEW s, Good(rule, s), NEW p \in Switches, NEW val \in BOOLEAN,
         rule = "OneOfMany" /\ p = s.lastOn => val = TRUE
  PROVE  Good(rule, ApplyRule(s, p, val))
<1>1. CASE val = TRUE
  <2>1. Good(rule, ApplyRule(s, p, TRUE))
    BY TurnOnGood
  <2>2. QED
    BY <1>1, <2>1, Zenon
<1>2. CASE val = FALSE
  <2>1. Good(rule, ApplyRule(s, p, FALSE))
    BY <1>2, TurnOffGood
  <2>2. QED
    BY <1>2, <2>1, Zenon
<1>3. QED
  BY <1>1, <1>2

-----------------------------------------------------------------------------
(* What is shown of a vector that changes.                                  *)

(* The vector s, changed to t: what is not marked is as it was.             *)
Marked(s, t) ==
  /\ t \in States /\ s.changed \subseteq t.changed
  /\ \A p \in Switches \ t.changed : p \in t.on <=> p \in s.on

(* Setting a switch marks it.                                               *)
LEMMA PutMarks ==
  ASSUME NEW s \in States, NEW p \in Switches, NEW val \in BOOLEAN
  PROVE  Marked(s, Put(s, p, val))
<1>1. Marked(s, Put(s, p, TRUE))
  <2> DEFINE u == Put(s, p, TRUE)
  <2>1. u \in States /\ u.on = s.on \union {p} /\ u.changed = s.changed \union {p}
    BY PutOn
  <2> HIDE DEF u
  <2>2. Marked(s, u)
    BY <2>1 DEF Marked
  <2>3. QED
    BY <2>2 DEF u
<1>2. Marked(s, Put(s, p, FALSE))
  <2> DEFINE u == Put(s, p, FALSE)
  <2>1. u \in States /\ u.on = s.on \ {p} /\ u.changed = s.changed \union {p}
    BY PutOff
  <2> HIDE DEF u
  <2>2. Marked(s, u)
    BY <2>1 DEF Marked
  <2>3. QED
    BY <2>2 DEF u
<1>3. CASE val = TRUE
  BY <1>1, <1>3, Zenon
<1>4. CASE val = FALSE
  BY <1>2, <1>4, Zenon
<1>5. QED
  BY <1>3, <1>4

(* One change after another is a change.                                    *)
LEMMA MarkedTwice ==
  ASSUME NEW s, NEW t, NEW u, Marked(s, t), Marked(t, u)
  PROVE  Marked(s, u)
BY DEF Marked

(* The cache, and whether the program lives, are not shown to anyone.       *)
LEMMA CacheMarks ==
  ASSUME NEW s \in States, NEW x \in Switches \union {NoSwitch}
  PROVE  Marked(s, [s EXCEPT !.lastOn = x]) /\ Marked(s, [s EXCEPT !.alive = FALSE])
BY DEF Marked, States

(* The rules set switches, and no more.                                     *)
LEMMA ApplyRuleMarks ==
  ASSUME rule \in Rules, NEW s \in States, NEW p \in Switches, NEW val \in BOOLEAN
  PROVE  Marked(s, ApplyRule(s, p, val))
<1>1. NoSwitch \notin Switches /\ s.lastOn \in Switches \union {NoSwitch}
  BY SwitchVectorAssumption DEF States
<1>2. CASE rule = "OneOfMany"
  <2>1. CASE ~val
    BY <1>2, <2>1, PutMarks DEF ApplyRule, ApplyOneOfMany
  <2>2. CASE val /\ s.lastOn = NoSwitch
    <3>1. ApplyRule(s, p, val) = [s EXCEPT !.alive = FALSE]
      BY <1>2, <2>2 DEF ApplyRule, ApplyOneOfMany
    <3>2. QED
      BY <3>1, CacheMarks
  <2>3. CASE val /\ s.lastOn # NoSwitch
    <3> DEFINE off == Put(s, s.lastOn, FALSE)
               cached == [off EXCEPT !.lastOn = p]
    <3>1. Marked(s, off)
      BY <1>1, <2>3, PutMarks
    <3>2. Marked(off, cached)
      BY <3>1, CacheMarks DEF Marked
    <3>3. Marked(cached, Put(cached, p, val))
      BY <3>2, PutMarks DEF Marked
    <3>4. ApplyRule(s, p, val) = Put(cached, p, val)
      BY <1>2, <2>3 DEF ApplyRule, ApplyOneOfMany
    <3> HIDE DEF off, cached
    <3>5. QED
      BY <3>1, <3>2, <3>3, <3>4, MarkedTwice
  <2>4. QED
    BY <2>1, <2>2, <2>3
<1>3. CASE rule = "AtMostOne"
  <2> DEFINE cleared == IF val /\ s.lastOn # NoSwitch THEN Put(s, s.lastOn, FALSE) ELSE s
             x == IF val THEN p ELSE IF p = cleared.lastOn THEN NoSwitch ELSE cleared.lastOn
             cached == [cleared EXCEPT !.lastOn = x]
  <2>1. Marked(s, cleared)
    <3>1. Marked(s, s)
      BY DEF Marked
    <3>2. s.lastOn # NoSwitch => Marked(s, Put(s, s.lastOn, FALSE))
      BY <1>1, PutMarks
    <3>3. QED
      BY <3>1, <3>2
  <2>2. ApplyRule(s, p, val) = Put(cached, p, val)
    BY <1>3 DEF ApplyRule, ApplyAtMostOne
  <2> HIDE DEF cleared
  <2>3. cleared \in States /\ x \in Switches \union {NoSwitch}
    BY <2>1 DEF Marked, States
  <2>4. Marked(cleared, cached)
    BY <2>3, CacheMarks
  <2> HIDE DEF cached
  <2>5. Marked(cached, Put(cached, p, val))
    BY <2>4, PutMarks DEF Marked
  <2>6. QED
    BY <2>1, <2>2, <2>4, <2>5, MarkedTwice
<1>4. CASE rule = "AnyOfMany"
  <2> DEFINE put == Put(s, p, val)
             x == IF val THEN p ELSE put.lastOn
  <2>1. Marked(s, put)
    BY PutMarks
  <2>2. ApplyRule(s, p, val) = [put EXCEPT !.lastOn = x]
    BY <1>4 DEF ApplyRule, ApplyAnyOfMany
  <2> HIDE DEF put
  <2>3. put \in States /\ x \in Switches \union {NoSwitch}
    BY <2>1 DEF Marked, States
  <2>4. Marked(put, [put EXCEPT !.lastOn = x])
    BY <2>3, CacheMarks
  <2>5. QED
    BY <2>1, <2>2, <2>4, MarkedTwice
<1>5. QED
  BY <1>2, <1>3, <1>4 DEF Rules

-----------------------------------------------------------------------------
(* The loops of on() and off().                                             *)

(* What holds at first and is kept by every step holds in the end.          *)
LEMMA StaysIn ==
  ASSUME NEW f, NEW Q, NEW h \in Nat, f[0] \in Q[0],
         \A n \in 1 .. h : f[n - 1] \in Q[n - 1] => f[n] \in Q[n]
  PROVE  f[h] \in Q[h]
<1> DEFINE Bad == {l \in 0 .. h : f[l] \notin Q[l]}
<1>1. /\ Bad \in SUBSET Nat /\ Bad \subseteq 0 .. h
      /\ \A l \in 0 .. h : l \in Bad <=> f[l] \notin Q[l]
  OBVIOUS
<1> HIDE DEF Bad
<1>2. SUFFICES ASSUME Bad # {} PROVE FALSE
  BY <1>1
<1>3. PICK l \in Bad : \A m \in Bad : ~(<<m, l>> \in OpToRel(<, Nat))
  BY <1>1, <1>2, NatLessThanWellFounded, WFMin
<1>4. \A m \in Bad : ~(m < l)
  BY <1>1, <1>3 DEF OpToRel
<1>5. l \in 1 .. h
  BY <1>1
<1>6. l - 1 \in 0 .. h /\ l - 1 \notin Bad
  BY <1>4, <1>5
<1>7. QED
  BY <1>1, <1>5, <1>6

(* There is a function that starts with s and goes on by steps g.           *)
HasRun(S, s, h, g) ==
  \E f \in [0 .. h -> S] : f[0] = s /\ \A n \in 1 .. h : f[n] = g[n][f[n - 1]]

(* Every step function from S to S has such a run.                          *)
LEMMA Iterates ==
  ASSUME NEW S, NEW s, s \in S, NEW h, h \in Nat, NEW g, g \in [1 .. h -> [S -> S]]
  PROVE  HasRun(S, s, h, g)
<1> DEFINE Runs(f, l) == /\ f \in [0 .. l -> S] /\ f[0] = s
                         /\ \A n \in 1 .. l : f[n] = g[n][f[n - 1]]
           Can(l) == \E f : Runs(f, l)
           Is == [l \in 0 .. h |-> {x \in {0} : Can(l)}]
           z  == [l \in 0 .. h |-> 0]
<1>1. Can(0)
  <2> DEFINE e == [m \in 0 .. 0 |-> s]
  <2>1. Runs(e, 0)
    OBVIOUS
  <2>2. QED
    BY <2>1
<1>2. ASSUME NEW l \in 1 .. h, Can(l - 1) PROVE Can(l)
  <2>1. PICK f : Runs(f, l - 1)
    BY <1>2
  <2> DEFINE last == g[l][f[l - 1]]
             e == [m \in 0 .. l |-> IF m = l THEN last ELSE f[m]]
  <2>2. last \in S
    BY <2>1
  <2>3. /\ e[l] = last /\ \A m \in 0 .. l - 1 : e[m] = f[m]
        /\ e \in [0 .. l -> S]
    BY <2>1, <2>2
  <2> HIDE DEF e
  <2>4. e[0] = s
    BY <2>1, <2>3
  <2>5. ASSUME NEW n \in 1 .. l PROVE e[n] = g[n][e[n - 1]]
    <3>1. CASE n = l
      BY <2>3, <3>1
    <3>2. CASE n # l
      <4>1. n \in 1 .. l - 1 /\ n \in 0 .. l - 1 /\ n - 1 \in 0 .. l - 1
        BY <3>2
      <4>2. QED
        BY <2>1, <2>3, <4>1
    <3>3. QED
      BY <3>1, <3>2
  <2>6. Runs(e, l)
    BY <2>3, <2>4, <2>5
  <2>7. QED
    BY <2>6
<1>3. Can(h)
  <2> HIDE DEF Can
  <2>1. z[0] \in Is[0] /\ \A l \in 1 .. h : z[l - 1] \in Is[l - 1] => z[l] \in Is[l]
    BY <1>1, <1>2
  <2>2. z[h] \in Is[h] => Can(h)
    OBVIOUS
  <2> HIDE DEF Is, z
  <2>3. QED
    BY <2>1, <2>2, StaysIn
<1>4. QED
  BY <1>3 DEF HasRun

(* One round of the loop of on() and off().                                 *)
Round(s, n, val) == IF s.alive THEN ApplyRule(s, Order[n], val) ELSE s

(* The states the vector s goes through.                                    *)
Rounds(f, s, val) ==
  /\ f \in [0 .. Len(Order) -> States] /\ f[0] = s
  /\ \A n \in 1 .. Len(Order) : f[n] = Round(f[n - 1], n, val)

(* Order lists the switches.                                               *)
LEMMA OrderFacts ==
  /\ Len(Order) \in Nat \ {0} /\ DOMAIN Order = 1 .. Len(Order)
  /\ \A n \in 1 .. Len(Order) : Order[n] \in Switches
  /\ \A p \in Switches : \E n \in 1 .. Len(Order) : p = Order[n]
BY SwitchVectorAssumption, LenProperties, EmptySeq DEF Switches

(* The loop has an end: the recursive definition has a solution.            *)
LEMMA EachIs ==
  ASSUME rule \in Rules, NEW s0 \in States, NEW val \in BOOLEAN
  PROVE  \E f : Rounds(f, s0, val) /\ SetEach(s0, val) = f[Len(Order)]
<1> DEFINE h == Len(Order)
           g == [n \in 1 .. h |-> [s \in States |-> Round(s, n, val)]]
           Is(f) == f = [n \in 0 .. h |->
                           IF n = 0 THEN s0
                           ELSE IF f[n - 1].alive THEN ApplyRule(f[n - 1], Order[n], val)
                                ELSE f[n - 1]]
<1>1. h \in Nat /\ \A n \in 1 .. h : Order[n] \in Switches
  BY OrderFacts
<1>2. ASSUME NEW n \in 1 .. h, NEW s \in States PROVE Round(s, n, val) \in States
  <2>1. Marked(s, ApplyRule(s, Order[n], val))
    BY <1>1, ApplyRuleMarks
  <2>2. QED
    BY <2>1 DEF Marked, Round
<1>3. /\ g \in [1 .. h -> [States -> States]]
      /\ \A n \in 1 .. h : \A s \in States : g[n][s] = Round(s, n, val)
  BY <1>2
<1> HIDE DEF h, g
<1>4. HasRun(States, s0, h, g)
  BY <1>1, <1>3, Iterates
<1>5. PICK e \in [0 .. h -> States] : e[0] = s0 /\ \A n \in 1 .. h : e[n] = g[n][e[n - 1]]
  BY <1>4 DEF HasRun
<1>6. \A n \in 1 .. h : e[n] = Round(e[n - 1], n, val)
  <2>1. \A n \in 1 .. h : n - 1 \in 0 .. h
    BY <1>1
  <2>2. QED
    BY <1>3, <1>5, <2>1
<1>7. Is(e)
  <2>1. \A n \in 0 .. h : e[n] = IF n = 0 THEN s0
                                 ELSE IF e[n - 1].alive THEN ApplyRule(e[n - 1], Order[n], val)
                                      ELSE e[n - 1]
    <3>1. \A n \in 0 .. h : n = 0 \/ n \in 1 .. h
      BY <1>1
    <3>2. QED
      BY <1>5, <1>6, <3>1 DEF Round
  <2>2. QED
    BY <1>5, <2>1
<1> DEFINE f == CHOOSE k : Is(k)
<1>8. Is(f)
  BY <1>7
<1>9. SetEach(s0, val) = f[h]
  BY DEF SetEach, h
<1> HIDE DEF f
<1>10. /\ f[0] = s0
       /\ \A n \in 1 .. h : f[n] = Round(f[n - 1], n, val)
       /\ f = [n \in 0 .. h |-> f[n]]
  BY <1>1, <1>8 DEF Round
<1>11. \A n \in 0 .. h : f[n] \in States
  <2> DEFINE Q == [n \in 0 .. h |-> States]
  <2>1. ASSUME NEW m \in 0 .. h PROVE f[m] \in Q[m]
    <3>1. f[0] \in Q[0] /\ \A n \in 1 .. m : f[n - 1] \in Q[n - 1] => f[n] \in Q[n]
      <4>1. \A n \in 0 .. m : Q[n] = States
        BY <1>1
      <4>2. ASSUME NEW n \in 1 .. m, f[n - 1] \in Q[n - 1] PROVE f[n] \in Q[n]
        <5>1. n \in 1 .. h /\ n \in 0 .. m /\ n - 1 \in 0 .. m
          BY <1>1
        <5> HIDE DEF Q
        <5>2. f[n] = Round(f[n - 1], n, val) /\ f[n - 1] \in States
          BY <1>10, <4>1, <4>2, <5>1
        <5>3. QED
          BY <1>2, <4>1, <5>1, <5>2
      <4>3. f[0] \in Q[0]
        BY <1>1, <1>10, <4>1
      <4>4. QED
        BY <4>2, <4>3
    <3> HIDE DEF Q
    <3>2. QED
      BY <1>1, <3>1, StaysIn
  <2>2. QED
    BY <2>1
<1>12. f \in [0 .. h -> States]
  BY <1>10, <1>11
<1>13. QED
  BY <1>9, <1>10, <1>12 DEF Rounds, h

(* What each round takes from one set to the next the loop takes from the    *)
(* first to the last.                                                       *)
LEMMA EachIn ==
  ASSUME rule \in Rules, NEW s \in States, NEW val \in BOOLEAN, NEW Q, s \in Q[0],
         \A n \in 1 .. Len(Order) : \A t \in Q[n - 1] : Round(t, n, val) \in Q[n]
  PROVE  SetEach(s, val) \in Q[Len(Order)]
<1>1. Len(Order) \in Nat
  BY OrderFacts
<1>2. PICK f : Rounds(f, s, val) /\ SetEach(s, val) = f[Len(Order)]
  BY EachIs
<1>3. f[0] \in Q[0] /\ \A n \in 1 .. Len(Order) : f[n - 1] \in Q[n - 1] => f[n] \in Q[n]
  BY <1>2 DEF Rounds
<1>4. f[Len(Order)] \in Q[Len(Order)]
  BY <1>1, <1>3, StaysIn
<1>5. QED
  BY <1>2, <1>4

First(n) == {Order[i] : i \in 1 .. n}

(* What n rounds of off() have made of the first n switches.                *)
OffSoFar(s, n) == s \in States /\ s.alive /\ s.on \intersect First(n) = {}

(* Each round adds the next switch, the last one makes them all.            *)
LEMMA FirstFacts ==
  /\ First(0) = {} /\ First(Len(Order)) = Switches
  /\ \A n \in 1 .. Len(Order) : First(n) = First(n - 1) \union {Order[n]}
<1>1. \A n \in 1 .. Len(Order) : 1 .. n = (1 .. n - 1) \union {n}
  BY OrderFacts
<1>2. QED
  BY <1>1, OrderFacts DEF First

(* Each round of off() turns off the next switch and touches no other.      *)
LEMMA OffRound ==
  ASSUME rule \in Rules, NEW n \in 1 .. Len(Order), NEW s, OffSoFar(s, n - 1)
  PROVE  OffSoFar(Round(s, n, FALSE), n)
<1> DEFINE p == Order[n]
           t == ApplyRule(s, p, FALSE)
<1>1. s \in States /\ s.alive /\ p \in Switches /\ First(n) = First(n - 1) \union {p}
  BY OrderFacts, FirstFacts DEF OffSoFar
<1>2. IsOff(s, p, t)
  <2> HIDE DEF p
  <2>1. QED
    BY <1>1, TurnedOff
<1>3. Round(s, n, FALSE) = t
  BY <1>1 DEF Round
<1> HIDE DEF t, p
<1>4. OffSoFar(t, n)
  BY <1>1, <1>2 DEF OffSoFar, IsOff
<1>5. QED
  BY <1>3, <1>4

(* on() and off() only set switches.                                        *)
LEMMA EachMarks ==
  ASSUME rule \in Rules, NEW s \in States, NEW val \in BOOLEAN
  PROVE  Marked(s, SetEach(s, val))
<1> DEFINE M == {t \in States : Marked(s, t)}
           Q == [n \in 0 .. Len(Order) |-> M]
<1>1. Len(Order) \in Nat
  BY OrderFacts
<1>2. s \in M
  BY DEF Marked
<1>3. ASSUME NEW n \in 1 .. Len(Order), NEW t \in M PROVE Round(t, n, val) \in M
  <2>1. t \in States /\ Marked(s, t) /\ Order[n] \in Switches
    BY <1>3, OrderFacts
  <2>2. Marked(t, ApplyRule(t, Order[n], val))
    BY <2>1, ApplyRuleMarks
  <2>3. CASE t.alive
    <3>1. Round(t, n, val) = ApplyRule(t, Order[n], val)
      BY <2>3 DEF Round
    <3>2. Marked(s, ApplyRule(t, Order[n], val))
      BY <2>1, <2>2, MarkedTwice
    <3>3. QED
      BY <3>1, <3>2 DEF Marked
  <2>4. CASE ~t.alive
    BY <1>3, <2>4 DEF Round
  <2>5. QED
    BY <2>3, <2>4
<1> HIDE DEF M
<1>4. \A n \in 0 .. Len(Order) : Q[n] = M
  OBVIOUS
<1>5. 0 \in 0 .. Len(Order) /\ Len(Order) \in 0 .. Len(Order)
      /\ \A n \in 1 .. Len(Order) : n \in 0 .. Len(Order) /\ n - 1 \in 0 .. Len(Order)
  BY <1>1
<1> HIDE DEF Q
<1>6. s \in Q[0] /\ \A n \in 1 .. Len(Order) : \A t \in Q[n - 1] : Round(t, n, val) \in Q[n]
  BY <1>2, <1>3, <1>4, <1>5
<1>7. SetEach(s, val) \in Q[Len(Order)]
  BY <1>6, EachIn
<1>8. QED
  BY <1>4, <1>5, <1>7 DEF M

(* on() keeps a vector good: each switch it turns on turns off the one      *)
(* before.                                                                  *)
LEMMA AllOnGood ==
  ASSUME rule \in Rules, NEW s, Good(rule, s)
  PROVE  Good(rule, AllOn(s))
<1> DEFINE M == {t \in States : Good(rule, t)}
           Q == [n \in 0 .. Len(Order) |-> M]
<1>1. Len(Order) \in Nat
  BY OrderFacts
<1>2. s \in M /\ s \in States
  BY DEF Good
<1>3. ASSUME NEW n \in 1 .. Len(Order), NEW t \in M PROVE Round(t, n, TRUE) \in M
  <2>1. t.alive /\ Good(rule, t) /\ Order[n] \in Switches
    BY <1>3, OrderFacts DEF Good
  <2>2. Good(rule, ApplyRule(t, Order[n], TRUE))
    BY <2>1, TurnOnGood
  <2>3. Round(t, n, TRUE) = ApplyRule(t, Order[n], TRUE)
    BY <2>1 DEF Round
  <2>4. QED
    BY <2>2, <2>3 DEF Good
<1> HIDE DEF M
<1>4. \A n \in 0 .. Len(Order) : Q[n] = M
  OBVIOUS
<1>5. 0 \in 0 .. Len(Order) /\ Len(Order) \in 0 .. Len(Order)
      /\ \A n \in 1 .. Len(Order) : n \in 0 .. Len(Order) /\ n - 1 \in 0 .. Len(Order)
  BY <1>1
<1> HIDE DEF Q
<1>6. s \in Q[0] /\ \A n \in 1 .. Len(Order) : \A t \in Q[n - 1] : Round(t, n, TRUE) \in Q[n]
  BY <1>2, <1>3, <1>4, <1>5
<1>7. SetEach(s, TRUE) \in Q[Len(Order)]
  BY <1>2, <1>6, EachIn
<1>8. QED
  BY <1>4, <1>5, <1>7 DEF M, AllOn

(* off() leaves nothing on and nothing cached.                              *)
LEMMA AllOffIs ==
  ASSUME rule \in Rules, NEW s \in States, s.alive
  PROVE  /\ AllOff(s) \in States /\ AllOff(s).alive
         /\ AllOff(s).on = {} /\ AllOff(s).lastOn = NoSwitch
<1> DEFINE Q == [n \in 0 .. Len(Order) |-> {t \in States : OffSoFar(t, n)}]
           r == SetEach(s, FALSE)
<1>1. Len(Order) \in Nat
  BY OrderFacts
<1>2. \A n \in 0 .. Len(Order) : \A t : t \in Q[n] <=> OffSoFar(t, n)
  BY DEF OffSoFar
<1>3. 0 \in 0 .. Len(Order) /\ Len(Order) \in 0 .. Len(Order)
      /\ \A n \in 1 .. Len(Order) : n \in 0 .. Len(Order) /\ n - 1 \in 0 .. Len(Order)
  BY <1>1
<1> HIDE DEF Q
<1>4. s \in Q[0]
  BY <1>2, <1>3, FirstFacts DEF OffSoFar
<1>5. \A n \in 1 .. Len(Order) : \A t \in Q[n - 1] : Round(t, n, FALSE) \in Q[n]
  BY <1>2, <1>3, OffRound
<1>6. SetEach(s, FALSE) \in Q[Len(Order)]
  BY <1>4, <1>5, EachIn
<1>7. r \in States /\ r.alive /\ r.on = {}
  <2>1. OffSoFar(r, Len(Order))
    BY <1>2, <1>3, <1>6
  <2>2. r \in States /\ r.alive /\ r.on \intersect Switches = {}
    BY <2>1, FirstFacts DEF OffSoFar
  <2>3. QED
    BY <2>2 DEF States
<1>8. AllOff(s) = [r EXCEPT !.lastOn = NoSwitch]
  BY DEF AllOff
<1> HIDE DEF r
<1>9. QED
  BY <1>7, <1>8, CacheFacts

-----------------------------------------------------------------------------
Inv ==
  /\ rule \in Rules /\ ended \in BOOLEAN
  /\ shown \in [Switches -> {"nothing", "On", "Off"}]
  /\ Good(rule, sv)

(* A vector read from a correct file obeys its rule, and its cache holds    *)
(* the switch that is on.                                                   *)
LEMMA InvInit ==
  ASSUME WellUsed, Init
  PROVE  Inv
<1>1. PICK on \in SUBSET Switches :
        /\ Obeys(rule, on)
        /\ sv = [on |-> Repaired(rule, on).on, changed |-> Repaired(rule, on).changed,
                 lastOn |-> LastOnOf(on), alive |-> TRUE]
  BY DEF Init, WellUsed
<1>2. rule \in Rules /\ ended \in BOOLEAN /\ shown \in [Switches -> {"nothing", "On", "Off"}]
  BY DEF Init
<1>3. IsFiniteSet(on) /\ Cardinality(on) \in Nat
  BY SwitchesFinite, FS_Subset, FS_CardinalityType
<1>4. Repaired(rule, on) = [on |-> on, changed |-> {}]
  <2>1. rule = "OneOfMany" => on # {} /\ ~(Cardinality(on) > 1)
    BY <1>1, <1>3, FS_EmptySet DEF Obeys
  <2>2. rule = "AtMostOne" => ~(Cardinality(on) > 1)
    BY <1>1, <1>3 DEF Obeys
  <2>3. QED
    BY <2>1, <2>2 DEF Repaired
<1>5. rule # "AnyOfMany" => on = {} \/ \E x : on = {x}
  <2>1. rule # "AnyOfMany" => Cardinality(on) = 0 \/ Cardinality(on) = 1
    BY <1>1, <1>2, <1>3 DEF Obeys, Rules
  <2>2. QED
    BY <1>3, <2>1, FS_EmptySet, FS_Singleton
<1>6. rule = "OneOfMany" => on # {}
  BY <1>1, FS_EmptySet DEF Obeys
<1>7. NoSwitch \notin Switches
  BY SwitchVectorAssumption
<1>8. /\ on = {} => LastOnOf(on) = NoSwitch
      /\ on # {} => LastOnOf(on) \in on
  BY LastOnOfIsOn
<1>9. sv = [on |-> on, changed |-> {}, lastOn |-> LastOnOf(on), alive |-> TRUE]
  BY <1>1, <1>4
<1>10. sv \in States /\ sv.alive
  BY <1>8, <1>9 DEF States
<1>11. rule # "AnyOfMany" => sv.on = {sv.lastOn} \ {NoSwitch}
  BY <1>5, <1>7, <1>8, <1>9
<1>12. rule = "OneOfMany" => sv.lastOn # NoSwitch
  BY <1>6, <1>7, <1>8, <1>9
<1>13. QED
  BY <1>2, <1>10, <1>11, <1>12 DEF Inv, Good

(* Sending a good vector leaves it good.                                    *)
LEMMA SendGood ==
  ASSUME Inv, NEW s, Good(rule, s), SendSet(s)
  PROVE  Inv'
<1>1. s \in States /\ s.alive
  BY DEF Good
<1>2. sv' = [s EXCEPT !.changed = {}] /\ rule' = rule /\ ended' = ended
  BY <1>1 DEF SendSet
<1>3. sv' \in States /\ sv'.on = s.on /\ sv'.lastOn = s.lastOn /\ sv'.alive
  BY <1>1, <1>2 DEF States
<1>4. shown' \in [Switches -> {"nothing", "On", "Off"}]
  BY DEF SendSet, Inv, Value
<1>5. QED
  BY <1>2, <1>3, <1>4 DEF Inv, Good

(* Every request, change and message keeps the rule and the cache.          *)
LEMMA InvStep ==
  ASSUME WellUsed, Inv, [Next]_vars
  PROVE  Inv'
<1>1. /\ sv \in States /\ sv.alive /\ Good(rule, sv) /\ rule \in Rules /\ ended \in BOOLEAN
      /\ shown \in [Switches -> {"nothing", "On", "Off"}]
  BY DEF Inv, Good
<1>2. ASSUME NEW p \in Switches, NEW val \in BOOLEAN, Accept(p, val)
      PROVE  Inv'
  <2>1. rule = "OneOfMany" /\ p = sv.lastOn => val = TRUE
    BY <1>2 DEF Accept, CheckRule
  <2>2. Good(rule, ApplyRule(sv, p, val))
    BY <1>1, <2>1, ApplyRuleGood
  <2>3. QED
    BY <1>2, <2>2, SendGood DEF Accept
<1>3. CASE Refuse
  <2>1. Forced(sv) \in States /\ Forced(sv).on = sv.on
        /\ Forced(sv).lastOn = sv.lastOn /\ Forced(sv).alive
    BY <1>1 DEF Forced, States
  <2>2. Good(rule, Forced(sv))
    BY <1>1, <2>1 DEF Good
  <2>3. QED
    BY <1>3, <2>2, SendGood DEF Refuse
<1>4. CASE Define
  <2>1. sv' = [sv EXCEPT !.changed = {}] /\ rule' = rule /\ ended' = ended
    BY <1>4 DEF Define
  <2>2. sv' \in States /\ sv'.on = sv.on /\ sv'.lastOn = sv.lastOn /\ sv'.alive
    BY <1>1, <2>1 DEF States
  <2>3. shown' \in [Switches -> {"nothing", "On", "Off"}]
    BY <1>4 DEF Define, Value
  <2>4. QED
    BY <1>1, <2>1, <2>2, <2>3 DEF Inv, Good
<1>5. ASSUME NEW p \in Switches, NEW val \in BOOLEAN, SetValue(p, val)
      PROVE  Inv'
  <2>1. rule = "OneOfMany" => val = TRUE
    BY <1>5 DEF SetValue, WellUsed
  <2>2. Good(rule, ApplyRule(sv, p, val))
    BY <1>1, <2>1, ApplyRuleGood
  <2>3. QED
    BY <1>1, <1>5, <2>2 DEF SetValue, Inv
<1>6. CASE On
  <2>1. Good(rule, AllOn(sv))
    BY <1>1, AllOnGood
  <2>2. QED
    BY <1>1, <1>6, <2>1 DEF On, Inv
<1>7. CASE Off
  <2>1. rule # "OneOfMany"
    BY <1>7 DEF Off, WellUsed
  <2>2. /\ AllOff(sv) \in States /\ AllOff(sv).alive
        /\ AllOff(sv).lastOn = NoSwitch /\ AllOff(sv).on = {}
    BY <1>1, AllOffIs
  <2>3. sv' = AllOff(sv) /\ rule' = rule /\ shown' = shown /\ ended' = ended
    BY <1>7 DEF Off
  <2>4. QED
    BY <1>1, <2>1, <2>2, <2>3 DEF Inv, Good
<1>8. CASE Send
  BY <1>1, <1>8, SendGood DEF Send
<1>9. CASE Delete
  BY <1>1, <1>9 DEF Delete, Inv
<1>10. CASE Misread
  BY <1>1, <1>10 DEF Misread, Inv
<1>11. CASE UNCHANGED vars
  BY <1>1, <1>11 DEF vars, Inv
<1>12. QED
  BY <1>2, <1>3, <1>4, <1>5, <1>6, <1>7, <1>8, <1>9, <1>10, <1>11 DEF Next, Request

(* With files that obey the rules and plug-ins that leave turning off the   *)
(* switches of OneOfMany vectors to the rule, any number of requests and    *)
(* changes keeps the rule, the cache, and the program alive.                *)
THEOREM RulesKept ==
  ASSUME WellUsed
  PROVE  Spec => [](TypeOK /\ RuleHolds /\ LastOnRight)
<1>1. Init => Inv
  BY InvInit
<1>2. Inv /\ [Next]_vars => Inv'
  BY InvStep
<1>3. Inv => TypeOK /\ RuleHolds /\ LastOnRight
  <2> SUFFICES ASSUME Inv
               PROVE  TypeOK /\ RuleHolds /\ LastOnRight
    OBVIOUS
  <2>1. TypeOK /\ LastOnRight
    BY DEF Inv, Good, States, TypeOK, LastOnRight
  <2>2. Cardinality({sv.lastOn}) = 1 /\ Cardinality({}) = 0
    BY FS_Singleton, FS_EmptySet
  <2>3. rule = "OneOfMany" => sv.on = {sv.lastOn}
    BY DEF Inv, Good
  <2>4. rule = "AtMostOne" => sv.on = {sv.lastOn} \/ sv.on = {}
    BY DEF Inv, Good
  <2>5. RuleHolds
    BY <2>2, <2>3, <2>4 DEF RuleHolds, Obeys
  <2>6. QED
    BY <2>1, <2>5
<1>4. QED
  BY <1>1, <1>2, <1>3, PTL DEF Spec

-----------------------------------------------------------------------------
(* What the clients know, whatever is wrong with the file or the plug-in.   *)

(* What is not marked is as the clients were told.                          *)
Known(s, told) == \A p \in Switches : p \in s.changed \/ told[p] \in {"nothing", Value(s.on, p)}

KnownInv == sv \in States /\ shown \in [Switches -> {"nothing", "On", "Off"}] /\ Known(sv, shown)

(* What is changed and marked so may be sent now or later.                  *)
LEMMA MarkedKnown ==
  ASSUME KnownInv, NEW s, Marked(sv, s)
  PROVE  s \in States /\ Known(s, shown)
BY DEF KnownInv, Known, Marked, Value

(* Once it is sent, what it says is what is known.                          *)
LEMMA SendKnown ==
  ASSUME KnownInv, NEW s, Marked(sv, s), SendSet(s)
  PROVE  KnownInv'
<1>1. s \in States /\ Known(s, shown)
  BY MarkedKnown
<1>2. CASE s.alive
  <2>1. sv' = [s EXCEPT !.changed = {}] /\ sv' \in States /\ sv'.on = s.on /\ sv'.changed = {}
    BY <1>1, <1>2 DEF SendSet, States
  <2>2. shown' = [p \in Switches |-> IF p \in s.changed THEN Value(s.on, p) ELSE shown[p]]
    BY <1>2 DEF SendSet
  <2>3. shown' \in [Switches -> {"nothing", "On", "Off"}]
    BY <2>2 DEF KnownInv, Value
  <2>4. \A p \in Switches : shown'[p] \in {"nothing", Value(sv'.on, p)}
    BY <1>1, <2>1, <2>2 DEF Known
  <2>5. Known(sv', shown')
    BY <2>4 DEF Known
  <2>6. QED
    BY <2>1, <2>3, <2>5 DEF KnownInv
<1>3. CASE ~s.alive
  <2>1. sv' = s /\ shown' = [p \in Switches |-> shown[p]]
    BY <1>3 DEF SendSet
  <2>2. shown' = shown
    BY <2>1 DEF KnownInv
  <2>3. QED
    BY <1>1, <2>1, <2>2 DEF KnownInv
<1>4. QED
  BY <1>2, <1>3

(* The clients know what is not marked after every step.                    *)
LEMMA KnownStep ==
  ASSUME rule \in Rules, KnownInv, [Next]_vars
  PROVE  rule' \in Rules /\ KnownInv'
<1>1. sv \in States /\ shown \in [Switches -> {"nothing", "On", "Off"}] /\ Known(sv, shown)
  BY DEF KnownInv
<1>2. rule' = rule
  BY DEF Next, Request, Accept, Refuse, Misread, Define, SetValue, On, Off, Send, Delete,
         SendSet, vars
<1> SUFFICES KnownInv'
  BY <1>2
<1>3. ASSUME NEW p \in Switches, NEW val \in BOOLEAN, Accept(p, val) PROVE KnownInv'
  BY <1>1, <1>3, ApplyRuleMarks, SendKnown DEF Accept
<1>4. CASE Refuse
  <2>1. Marked(sv, Forced(sv))
    BY <1>1 DEF Marked, Forced, States
  <2>2. QED
    BY <1>4, <2>1, SendKnown DEF Refuse
<1>5. CASE Define
  <2>1. /\ sv' \in States /\ sv'.on = sv.on
        /\ shown' = [p \in Switches |-> Value(sv.on, p)]
    BY <1>1, <1>5 DEF Define, States
  <2>2. QED
    BY <1>5, <2>1 DEF KnownInv, Known, Value
<1>6. ASSUME NEW p \in Switches, NEW val \in BOOLEAN, SetValue(p, val) PROVE KnownInv'
  <2>1. sv' = ApplyRule(sv, p, val) /\ shown' = shown
    BY <1>6 DEF SetValue
  <2>2. QED
    BY <1>1, <2>1, ApplyRuleMarks, MarkedKnown DEF KnownInv
<1>7. CASE On \/ Off
  <2>1. Marked(sv, AllOn(sv))
    BY <1>1, EachMarks DEF AllOn
  <2>2. Marked(sv, AllOff(sv))
    <3> DEFINE r == SetEach(sv, FALSE)
    <3>1. Marked(sv, r)
      BY <1>1, EachMarks
    <3>2. AllOff(sv) = [r EXCEPT !.lastOn = NoSwitch]
      BY DEF AllOff
    <3> HIDE DEF r
    <3>3. Marked(r, [r EXCEPT !.lastOn = NoSwitch])
      BY <3>1, CacheMarks DEF Marked
    <3>4. QED
      BY <3>1, <3>2, <3>3, MarkedTwice
  <2>3. shown' = shown /\ (sv' = AllOff(sv) \/ sv' = AllOn(sv))
    BY <1>7 DEF On, Off
  <2>4. QED
    BY <1>1, <2>1, <2>2, <2>3, MarkedKnown DEF KnownInv
<1>8. CASE Send
  <2>1. Marked(sv, sv)
    BY <1>1 DEF Marked
  <2>2. QED
    BY <1>8, <2>1, SendKnown DEF Send
<1>9. CASE Delete
  BY <1>1, <1>9 DEF Delete, KnownInv, Known
<1>10. CASE Misread \/ UNCHANGED vars
  BY <1>10 DEF Misread, vars, KnownInv, Known, Value
<1>11. QED
  BY <1>2, <1>3, <1>4, <1>5, <1>6, <1>7, <1>8, <1>9, <1>10 DEF Next, Request

(* Nothing has been told at the start, whatever the file holds.             *)
LEMMA KnownInit ==
  ASSUME Init
  PROVE  rule \in Rules /\ KnownInv
<1>1. PICK on \in SUBSET Switches :
        sv = [on |-> Repaired(rule, on).on, changed |-> Repaired(rule, on).changed,
              lastOn |-> LastOnOf(on), alive |-> TRUE]
  BY DEF Init
<1>2. Order[1] \in Switches
  <2>1. 1 \in DOMAIN Order
    BY SwitchVectorAssumption, LenProperties, EmptySeq
  <2>2. QED
    BY <2>1 DEF Switches
<1>3. Repaired(rule, on).on \in SUBSET Switches /\ Repaired(rule, on).changed \in SUBSET Switches
  BY <1>2 DEF Repaired
<1>4. LastOnOf(on) \in Switches \union {NoSwitch}
  BY LastOnOfIsOn
<1>5. sv \in States
  BY <1>1, <1>3, <1>4 DEF States
<1>6. QED
  BY <1>5 DEF Init, KnownInv, Known

(* Leaving out the switches without the changed flag leaves the clients     *)
(* right, even about a vector whose file or plug-in breaks the rules.       *)
THEOREM ClientsAreRight == Spec => []ClientsKnow
<1>1. Init => rule \in Rules /\ KnownInv
  BY KnownInit
<1>2. rule \in Rules /\ KnownInv /\ [Next]_vars => (rule \in Rules /\ KnownInv)'
  BY KnownStep
<1>3. KnownInv => ClientsKnow
  BY DEF KnownInv, Known, ClientsKnow
<1>4. QED
  BY <1>1, <1>2, <1>3, PTL DEF Spec

=============================================================================
