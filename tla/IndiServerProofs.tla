--------------------------- MODULE IndiServerProofs ---------------------------
(***************************************************************************)
(* Theorems about IndiServer, for any drivers, clients and failures.       *)
(***************************************************************************)
EXTENDS IndiServer, TLAPS, SequenceTheorems, FiniteSetTheorems, WellFoundedInduction

(* No driver is named twice on the command line.                            *)
DistinctNames == \A a, b \in DOMAIN Argv : Argv[a] = Argv[b] => a = b

(* What is so at each point of the program.                                 *)
Phases ==
  /\ Len(dvrinfo) <= Len(Argv)
  /\ pc = "start" => /\ clinfo = <<>> /\ Len(dvrinfo) = Len(proc)
                     /\ \A d \in DOMAIN dvrinfo : dvrinfo[d].name = Argv[d]
  /\ pc = "accept" => rs \subseteq fds /\ rs # {} /\ s = Cardinality(rs) /\ i = 1
  /\ pc \in {"relay", "command"} => batch # <<>> /\ (reader # 0 => reader \in Active)
  /\ pc = "command" => reader # 0

(* The driver table has one entry for each name.                            *)
DriversNamed ==
  \A d, g \in DOMAIN dvrinfo : dvrinfo[d].name = dvrinfo[g].name => d = g

(* The active entries of the client table are the open connections, one for *)
(* each.                                                                    *)
ClientsListed ==
  /\ \A e \in Active : conn[clinfo[e].conn].st = "open"
  /\ \A e, f \in Active : clinfo[e].conn = clinfo[f].conn => e = f
  /\ \A c \in Conns : conn[c].st = "open" => \E e \in Active : clinfo[e].conn = c

(* No descriptor is in the tables twice.                                    *)
Separate ==
  /\ \A e, f \in Active : clinfo[e].s = clinfo[f].s => e = f
  /\ \A d, g \in DOMAIN dvrinfo :
       /\ dvrinfo[d].rfd # dvrinfo[g].wfd
       /\ dvrinfo[d].rfd = dvrinfo[g].rfd \/ dvrinfo[d].wfd = dvrinfo[g].wfd => d = g
  /\ \A e \in Active, d \in DOMAIN dvrinfo :
       clinfo[e].s # dvrinfo[d].rfd /\ clinfo[e].s # dvrinfo[d].wfd
  /\ pc # "start" =>
       /\ \A e \in Active : clinfo[e].s # lsocket
       /\ \A d \in DOMAIN dvrinfo : dvrinfo[d].rfd # lsocket /\ dvrinfo[d].wfd # lsocket

(* The descriptors the tables name.                                         *)
ClientFds == {clinfo[e].s : e \in Active}
ReadFds   == {dvrinfo[d].rfd : d \in DOMAIN dvrinfo}
WriteFds  == {dvrinfo[d].wfd : d \in DOMAIN dvrinfo}
ListenFds == IF pc = "start" THEN {} ELSE {lsocket}

(* The open descriptors are those in the tables.                            *)
Named == pc # "exit" => fds = ListenFds \union ClientFds \union ReadFds \union WriteFds

(* The inductive invariant of the descriptors.                              *)
Inv == TypeOK /\ Phases /\ DriversNamed /\ ClientsListed /\ Separate /\ Named

-----------------------------------------------------------------------------
(* The smallest of a set of indices.                                        *)
LEMMA LeastOf ==
  ASSUME NEW S \in SUBSET Nat, S # {}
  PROVE  Least(S) \in S /\ \A y \in S : Least(S) <= y
<1>1. PICK m \in S : \A y \in S : ~(<<y, m>> \in OpToRel(<, Nat))
  BY NatLessThanWellFounded, WFMin
<1>2. \A y \in S : ~(y < m)
  BY <1>1 DEF OpToRel
<1>3. \E x \in S : \A y \in S : x <= y
  BY <1>2
<1>4. QED
  BY <1>3 DEF Least

(* A free descriptor that n are below is followed by one that n + 1 are, if *)
(* there are more.                                                          *)
LEMMA NextFree ==
  ASSUME NEW F, IsFiniteSet(Fds \ F), NEW n \in Nat, n + 1 < Cardinality(Fds \ F),
         NEW x \in Fds \ F, Cardinality(FreeBelow(F, x)) = n
  PROVE  \E z \in Fds \ F : Cardinality(FreeBelow(F, z)) = n + 1
<1> DEFINE S == Fds \ F
           L == FreeBelow(F, x)
           U == {y \in S : y > x}
<1>1. S \subseteq Nat /\ U \subseteq Nat /\ L \subseteq S /\ \A y \in S : y \in Int
  <2>1. Fds \subseteq Nat
    BY IndiServerAssumption
  <2>2. S \subseteq Nat /\ L \subseteq S
    BY <2>1 DEF FreeBelow
  <2>3. \A y \in S : y \in Int
    BY <2>2
  <2>4. U \subseteq Nat
    BY <2>2
  <2>5. QED
    BY <2>2, <2>3, <2>4
<1>2. IsFiniteSet(L) /\ x \notin L
  BY <1>1, FS_Subset DEF FreeBelow
<1>3. IsFiniteSet(L \union {x}) /\ Cardinality(L \union {x}) = n + 1
  BY <1>2, FS_AddElement
<1>4. U # {}
  <2>1. SUFFICES ASSUME U = {} PROVE FALSE
    OBVIOUS
  <2>2. S = L \union {x}
    BY <1>1, <2>1 DEF FreeBelow
  <2>3. QED
    BY <1>3, <2>2
<1>5. PICK z \in U : \A y \in U : z <= y
  BY <1>1, <1>4, LeastOf
<1>6. FreeBelow(F, z) = L \union {x}
  BY <1>1, <1>5 DEF FreeBelow
<1>7. QED
  BY <1>3, <1>5, <1>6

(* With one descriptor left the kernel has a lowest, with four a fourth.    *)
LEMMA FreeFdIsFree ==
  ASSUME NEW F \in SUBSET Fds, Cardinality(F) + 1 <= Cardinality(Fds)
  PROVE  /\ FreeFd(F, 1) \in Fds \ F
         /\ Cardinality(F) + 4 <= Cardinality(Fds)
              => FreeFd(F, 4) \in Fds \ F /\ FreeFd(F, 4) # FreeFd(F, 1)
<1> DEFINE S == Fds \ F
<1>1. S \in SUBSET Nat /\ IsFiniteSet(S) /\ IsFiniteSet(F) /\ Cardinality(F) \in Nat
  BY IndiServerAssumption, FS_Subset, FS_CardinalityType
<1>2. Cardinality(S) = Cardinality(Fds) - Cardinality(F) /\ Cardinality(S) \in Nat
  <2>1. F = Fds \intersect F /\ IsFiniteSet(Fds)
    BY IndiServerAssumption
  <2>2. Cardinality(S) = Cardinality(Fds) - Cardinality(F)
    BY <2>1, FS_Difference
  <2>3. QED
    BY <1>1, <2>2, FS_CardinalityType
<1>3. PICK a \in S : \A y \in S : a <= y
  <2>1. S # {}
    BY <1>1, <1>2, FS_EmptySet
  <2>2. QED
    BY <1>1, <2>1, LeastOf
<1>4. Cardinality(FreeBelow(F, a)) = 0
  <2>1. \A y \in S : y \in Int /\ a \in Int
    BY <1>1
  <2>2. FreeBelow(F, a) = {}
    BY <1>3, <2>1 DEF FreeBelow
  <2>3. QED
    BY <2>2, FS_EmptySet
<1>5. FreeFd(F, 1) \in S /\ Cardinality(FreeBelow(F, FreeFd(F, 1))) = 0
  BY <1>4 DEF FreeFd
<1>6. ASSUME Cardinality(F) + 4 <= Cardinality(Fds)
      PROVE  FreeFd(F, 4) \in S /\ FreeFd(F, 4) # FreeFd(F, 1)
  <2>1. 4 <= Cardinality(S)
    BY <1>1, <1>2, <1>6, IndiServerAssumption, FS_CardinalityType
  <2> HIDE DEF S
  <2>2. \A n \in Nat, x \in S :
          n + 1 < Cardinality(S) /\ Cardinality(FreeBelow(F, x)) = n
            => \E z \in S : Cardinality(FreeBelow(F, z)) = n + 1
    BY <1>1, NextFree DEF S
  <2>3. PICK b \in S : Cardinality(FreeBelow(F, b)) = 1
    BY <1>2, <1>4, <2>1, <2>2
  <2>4. PICK c \in S : Cardinality(FreeBelow(F, c)) = 2
    BY <1>2, <2>1, <2>2, <2>3
  <2>5. PICK d \in S : Cardinality(FreeBelow(F, d)) = 3
    BY <1>2, <2>1, <2>2, <2>4
  <2>6. FreeFd(F, 4) \in S /\ Cardinality(FreeBelow(F, FreeFd(F, 4))) = 3
    BY <2>5 DEF FreeFd, S
  <2>7. QED
    BY <1>5, <2>6
<1>7. QED
  BY <1>5, <1>6

-----------------------------------------------------------------------------
(* Counting what is open.                                                   *)

(* The cardinality of a union of two disjoint finite sets.                  *)
LEMMA DisjointUnion ==
  ASSUME NEW S, NEW T, IsFiniteSet(S), IsFiniteSet(T), S \intersect T = {}
  PROVE  /\ IsFiniteSet(S \union T)
         /\ Cardinality(S \union T) = Cardinality(S) + Cardinality(T)
<1>1. IsFiniteSet(S \union T)
      /\ Cardinality(S \union T)
           = Cardinality(S) + Cardinality(T) - Cardinality(S \intersect T)
  BY FS_Union
<1>2. Cardinality(S \intersect T) = 0 /\ Cardinality(S) \in Nat /\ Cardinality(T) \in Nat
  BY FS_EmptySet, FS_CardinalityType
<1>3. QED
  BY <1>1, <1>2

(* The cardinality of an interval of indices.                               *)
LEMMA Interval ==
  ASSUME NEW n \in Nat
  PROVE  IsFiniteSet(1 .. n) /\ Cardinality(1 .. n) = n
<1>1. 1 \in Int /\ n \in Int
  OBVIOUS
<1>2. IsFiniteSet(1 .. n) /\ Cardinality(1 .. n) = IF 1 > n THEN 0 ELSE n - 1 + 1
  BY <1>1, FS_Interval
<1>3. QED
  BY <1>2

(* The tables are sequences of entries; their indices are finite sets.      *)
LEMMA TablesFinite ==
  ASSUME TypeOK
  PROVE  /\ DOMAIN clinfo = 1 .. Len(clinfo) /\ Len(clinfo) \in Nat
         /\ DOMAIN dvrinfo = 1 .. Len(dvrinfo) /\ Len(dvrinfo) \in Nat
         /\ DOMAIN proc = 1 .. Len(proc) /\ Len(proc) \in Nat
         /\ Active \subseteq DOMAIN clinfo /\ Active \subseteq Nat
         /\ IsFiniteSet(Active) /\ Cardinality(Active) \in Nat
         /\ \A e \in DOMAIN clinfo : clinfo[e] \in ClientEntries
         /\ \A d \in DOMAIN dvrinfo : dvrinfo[d] \in DriverEntries
         /\ \A p \in DOMAIN proc : proc[p] \in Processes
<1>1. /\ clinfo \in Seq(ClientEntries) /\ dvrinfo \in Seq(DriverEntries)
      /\ proc \in Seq(Processes)
  BY DEF TypeOK
<1>2. /\ DOMAIN clinfo = 1 .. Len(clinfo) /\ Len(clinfo) \in Nat
      /\ DOMAIN dvrinfo = 1 .. Len(dvrinfo) /\ Len(dvrinfo) \in Nat
      /\ DOMAIN proc = 1 .. Len(proc) /\ Len(proc) \in Nat
  BY <1>1, LenProperties
<1>3. /\ \A e \in DOMAIN clinfo : clinfo[e] \in ClientEntries
      /\ \A d \in DOMAIN dvrinfo : dvrinfo[d] \in DriverEntries
      /\ \A p \in DOMAIN proc : proc[p] \in Processes
  BY <1>1, <1>2, ElementOfSeq
<1>4. Active \subseteq DOMAIN clinfo
  BY DEF Active
<1>5. IsFiniteSet(Active)
  BY <1>2, <1>4, Interval, FS_Subset
<1>6. QED
  BY <1>2, <1>3, <1>4, <1>5, FS_CardinalityType

(* As many active entries as descriptors of theirs, and no more than there  *)
(* are connections that are open.                                           *)
LEMMA ClientsCounted ==
  ASSUME TypeOK, ClientsListed, Separate
  PROVE  /\ IsFiniteSet(ClientFds) /\ Cardinality(ClientFds) = Cardinality(Active)
         /\ \A c \in Conns : conn[c].st # "open"
                               => Cardinality(Active) + 1 <= Cardinality(Conns)
         /\ Cardinality(Active) <= Cardinality(Conns)
<1> DEFINE f == [e \in Active |-> clinfo[e].s]
           g == [e \in Active |-> clinfo[e].conn]
           Open == {c \in Conns : conn[c].st = "open"}
<1>1. IsFiniteSet(Active) /\ Cardinality(Active) \in Nat
  BY TablesFinite
<1>2. \A e \in Active : clinfo[e].conn \in Conns
  BY TablesFinite DEF ClientEntries
<1>3. f \in Bijection(Active, ClientFds)
  BY DEF Bijection, Injection, Surjection, IsInjective, ClientFds, Separate
<1>4. IsFiniteSet(ClientFds) /\ Cardinality(ClientFds) = Cardinality(Active)
  BY <1>1, <1>3, FS_Bijection DEF ExistsBijection
<1>5. g \in Injection(Active, Open)
  BY <1>2 DEF Injection, IsInjective, ClientsListed
<1>6. IsFiniteSet(Conns) /\ IsFiniteSet(Open) /\ Cardinality(Open) <= Cardinality(Conns)
  BY IndiServerAssumption, FS_Subset
<1>7. Cardinality(Active) <= Cardinality(Open)
  BY <1>5, <1>6, FS_Injection
<1>8. Cardinality(Conns) \in Nat /\ Cardinality(Open) \in Nat
  BY <1>6, FS_CardinalityType
<1>9. ASSUME NEW c \in Conns, conn[c].st # "open"
      PROVE  Cardinality(Active) + 1 <= Cardinality(Conns)
  <2>1. Open # Conns
    BY <1>9
  <2>2. Cardinality(Open) # Cardinality(Conns)
    BY <1>6, <2>1, FS_Subset
  <2>3. QED
    BY <1>1, <1>6, <1>7, <1>8, <2>2
<1>10. QED
  BY <1>1, <1>4, <1>6, <1>7, <1>8, <1>9

(* Two descriptors for each driver.                                         *)
LEMMA DriversCounted ==
  ASSUME TypeOK, Separate
  PROVE  /\ IsFiniteSet(ReadFds) /\ Cardinality(ReadFds) = Len(dvrinfo)
         /\ IsFiniteSet(WriteFds) /\ Cardinality(WriteFds) = Len(dvrinfo)
<1> DEFINE f == [d \in DOMAIN dvrinfo |-> dvrinfo[d].rfd]
           g == [d \in DOMAIN dvrinfo |-> dvrinfo[d].wfd]
<1>1. IsFiniteSet(DOMAIN dvrinfo) /\ Cardinality(DOMAIN dvrinfo) = Len(dvrinfo)
  BY TablesFinite, Interval
<1>2. f \in Bijection(DOMAIN dvrinfo, ReadFds) /\ g \in Bijection(DOMAIN dvrinfo, WriteFds)
  BY DEF Bijection, Injection, Surjection, IsInjective, ReadFds, WriteFds, Separate
<1>3. QED
  BY <1>1, <1>2, FS_Bijection DEF ExistsBijection

(* All of them.                                                             *)
LEMMA FdsCounted ==
  ASSUME Inv, pc # "exit"
  PROVE  /\ IsFiniteSet(fds)
         /\ Cardinality(fds) = (IF pc = "start" THEN 0 ELSE 1)
                                 + Cardinality(Active) + 2 * Len(dvrinfo)
<1>1. /\ IsFiniteSet(ClientFds) /\ Cardinality(ClientFds) = Cardinality(Active)
      /\ IsFiniteSet(ReadFds) /\ Cardinality(ReadFds) = Len(dvrinfo)
      /\ IsFiniteSet(WriteFds) /\ Cardinality(WriteFds) = Len(dvrinfo)
      /\ Cardinality(Active) \in Nat /\ Len(dvrinfo) \in Nat
  BY ClientsCounted, DriversCounted, TablesFinite DEF Inv
<1>2. /\ IsFiniteSet(ListenFds)
      /\ Cardinality(ListenFds) = IF pc = "start" THEN 0 ELSE 1
  BY FS_EmptySet, FS_Singleton DEF ListenFds
<1> DEFINE A == ListenFds \union ClientFds
           B == A \union ReadFds
           C == B \union WriteFds
<1>3. ListenFds \intersect ClientFds = {} /\ A \intersect ReadFds = {} /\ B \intersect WriteFds = {}
  BY DEF Inv, Separate, ListenFds, ClientFds, ReadFds, WriteFds
<1>4. IsFiniteSet(A) /\ Cardinality(A) = Cardinality(ListenFds) + Cardinality(ClientFds)
  BY <1>1, <1>2, <1>3, DisjointUnion
<1>5. IsFiniteSet(B) /\ Cardinality(B) = Cardinality(A) + Cardinality(ReadFds)
  BY <1>1, <1>3, <1>4, DisjointUnion
<1>6. IsFiniteSet(C) /\ Cardinality(C) = Cardinality(B) + Cardinality(WriteFds)
  BY <1>1, <1>3, <1>5, DisjointUnion
<1>7. fds = C
  BY DEF Inv, Named
<1> HIDE DEF A, B, C
<1>8. QED
  BY <1>1, <1>2, <1>4, <1>5, <1>6, <1>7

(* What is assumed of the constants, in the terms the proofs use.           *)
LEMMA ArgvFacts ==
  /\ Argv \in Seq(Names) /\ Len(Argv) \in Nat \ {0} /\ DOMAIN Argv = 1 .. Len(Argv)
  /\ \A a \in 1 .. Len(Argv) : Argv[a] \in Names
  /\ Cardinality(Conns) \in Nat /\ Cardinality(Fds) \in Nat
  /\ 2 * Len(Argv) + Cardinality(Conns) + 3 <= Cardinality(Fds)
<1>1. Argv \in Seq(Names) /\ Argv # <<>> /\ IsFiniteSet(Conns) /\ IsFiniteSet(Fds)
      /\ Cardinality(Fds) >= 2 * Len(Argv) + Cardinality(Conns) + 3
  BY IndiServerAssumption
<1>2. Len(Argv) \in Nat \ {0} /\ DOMAIN Argv = 1 .. Len(Argv)
  BY <1>1, LenProperties, EmptySeq
<1>3. Cardinality(Conns) \in Nat /\ Cardinality(Fds) \in Nat
  BY <1>1, FS_CardinalityType
<1>4. QED
  BY <1>1, <1>2, <1>3, ElementOfSeq

-----------------------------------------------------------------------------
(* What clients and drivers do.                                             *)

(* What may become of a connection while the server does nothing.           *)
ClientActs(c, a, b) ==
  /\ b \in Connections
  /\ b.st = a.st \/ (a.st = "away" /\ b.st = "calling")
  /\ b.got = a.got /\ b.since = a.since
  /\ a.peer = "gone" => b.peer = "gone"
  /\ \/ /\ b.out = a.out
        /\ b.sent = a.sent
     \/ \E new \in BOOLEAN : /\ b.out = Append(a.out, ClientMessage(c, a.sent + 1, new))
                             /\ b.sent = a.sent + 1

(* And of a process.                                                        *)
DriverActs(p, a, b) ==
  /\ b \in Processes
  /\ b.name = a.name /\ b.got = a.got
  /\ a.peer = "gone" => b.peer = "gone"
  /\ \/ /\ b.out = a.out
        /\ b.sent = a.sent
     \/ /\ b.out = Append(a.out, DriverMessage(p, a.sent + 1))
        /\ b.sent = a.sent + 1

(* Each thing a client does is one of ClientActs.                           *)
LEMMA ClientActsFacts ==
  ASSUME NEW c \in Conns, NEW a \in Connections
  PROVE  /\ ClientActs(c, a, a)
         /\ a.st = "away" => ClientActs(c, a, [a EXCEPT !.st = "calling"])
         /\ \A new \in BOOLEAN :
              ClientActs(c, a, [a EXCEPT !.sent = @ + 1,
                                         !.out = Append(@, ClientMessage(c, a.sent + 1, new))])
         /\ a.peer = "ok" => ClientActs(c, a, [a EXCEPT !.peer = "stalled"])
         /\ ClientActs(c, a, [a EXCEPT !.peer = "gone"])
<1>1. a.out \in Seq(Messages) /\ a.sent \in Nat
  BY DEF Connections
<1>2. /\ ClientActs(c, a, a)
      /\ a.st = "away" => ClientActs(c, a, [a EXCEPT !.st = "calling"])
      /\ a.peer = "ok" => ClientActs(c, a, [a EXCEPT !.peer = "stalled"])
      /\ ClientActs(c, a, [a EXCEPT !.peer = "gone"])
  BY DEF ClientActs, Connections, PeerStates
<1>3. ASSUME NEW new \in BOOLEAN
      PROVE  ClientActs(c, a, [a EXCEPT !.sent = @ + 1,
                                 !.out = Append(@, ClientMessage(c, a.sent + 1, new))])
  <2> DEFINE m == ClientMessage(c, a.sent + 1, new)
             q == Append(a.out, m)
             n == a.sent + 1
             b == [a EXCEPT !.sent = @ + 1, !.out = Append(@, m)]
  <2>1. m \in Messages
    BY <1>1 DEF ClientMessage, Messages
  <2>2. q \in Seq(Messages)
    BY <1>1, <2>1, AppendProperties
  <2> HIDE DEF m
  <2>3. b = [a EXCEPT !.sent = n, !.out = q] /\ n \in Nat
    BY <1>1 DEF Connections
  <2> HIDE DEF b, q, n
  <2>4. /\ b \in Connections /\ b.st = a.st /\ b.got = a.got /\ b.since = a.since
        /\ b.peer = a.peer /\ b.out = q /\ b.sent = n
    BY <1>1, <2>2, <2>3 DEF Connections
  <2>5. QED
    BY <2>4 DEF ClientActs, b, q, m, n
<1>4. QED
  BY <1>2, <1>3

(* Each thing a driver does is one of DriverActs.                           *)
LEMMA DriverActsFacts ==
  ASSUME NEW p \in Nat, NEW a \in Processes
  PROVE  /\ DriverActs(p, a, a)
         /\ DriverActs(p, a, [a EXCEPT !.sent = @ + 1,
                                       !.out = Append(@, DriverMessage(p, a.sent + 1))])
         /\ a.peer = "ok" => DriverActs(p, a, [a EXCEPT !.peer = "stalled"])
         /\ DriverActs(p, a, [a EXCEPT !.peer = "gone"])
<1>1. a.out \in Seq(Messages) /\ a.sent \in Nat
  BY DEF Processes
<1>2. /\ DriverActs(p, a, a)
      /\ a.peer = "ok" => DriverActs(p, a, [a EXCEPT !.peer = "stalled"])
      /\ DriverActs(p, a, [a EXCEPT !.peer = "gone"])
  BY DEF DriverActs, Processes, PeerStates
<1> DEFINE m == DriverMessage(p, a.sent + 1)
           q == Append(a.out, m)
           n == a.sent + 1
           b == [a EXCEPT !.sent = @ + 1, !.out = Append(@, m)]
<1>3. m \in Messages
  BY <1>1 DEF DriverMessage, Messages
<1>4. q \in Seq(Messages)
  BY <1>1, <1>3, AppendProperties
<1> HIDE DEF m
<1>5. b = [a EXCEPT !.sent = n, !.out = q] /\ n \in Nat
  BY <1>1 DEF Processes
<1> HIDE DEF b, q, n
<1>6. /\ b \in Processes /\ b.name = a.name /\ b.got = a.got
      /\ b.peer = a.peer /\ b.out = q /\ b.sent = n
  BY <1>1, <1>4, <1>5 DEF Processes
<1>7. DriverActs(p, a, b)
  BY <1>6 DEF DriverActs, b, q, m, n
<1>8. QED
  BY <1>2, <1>7 DEF b, m

(* Every step of theirs is of one of them, and the server has no part in it.*)
LEMMA WorldActs ==
  ASSUME TypeOK, World
  PROVE  /\ ServerUnchanged /\ mishaps' \in 0 .. MaxMishaps
         /\ conn' \in [Conns -> Connections]
         /\ \A c \in Conns : ClientActs(c, conn[c], conn'[c])
         /\ proc' \in Seq(Processes) /\ DOMAIN proc' = DOMAIN proc /\ Len(proc') = Len(proc)
         /\ \A p \in DOMAIN proc : DriverActs(p, proc[p], proc'[p])
<1>1. /\ conn \in [Conns -> Connections] /\ proc \in Seq(Processes)
      /\ mishaps \in 0 .. MaxMishaps
  BY DEF TypeOK
<1>2. /\ \A c \in Conns : conn[c] \in Connections
      /\ \A p \in DOMAIN proc : p \in Nat /\ proc[p] \in Processes
      /\ MaxMishaps \in Nat
  BY <1>1, TablesFinite, IndiServerAssumption
<1>3. /\ conn' = conn => \A c \in Conns : ClientActs(c, conn[c], conn'[c])
      /\ proc' = proc => \A p \in DOMAIN proc : DriverActs(p, proc[p], proc'[p])
  BY <1>2, ClientActsFacts, DriverActsFacts
<1>4. ASSUME NEW c \in Conns, NEW b, ClientActs(c, conn[c], b),
             conn' = [conn EXCEPT ![c] = b]
      PROVE  /\ conn' \in [Conns -> Connections]
             /\ \A x \in Conns : ClientActs(x, conn[x], conn'[x])
  <2>1. b \in Connections
    BY <1>4 DEF ClientActs
  <2>2. conn' \in [Conns -> Connections]
    BY <1>1, <1>4, <2>1
  <2>3. \A x \in Conns : ClientActs(x, conn[x], conn[x])
    BY <1>2, ClientActsFacts
  <2>4. QED
    BY <1>1, <1>4, <2>2, <2>3
<1>5. ASSUME NEW p \in DOMAIN proc, NEW b, DriverActs(p, proc[p], b),
             proc' = [proc EXCEPT ![p] = b]
      PROVE  /\ proc' \in Seq(Processes) /\ DOMAIN proc' = DOMAIN proc
             /\ Len(proc') = Len(proc)
             /\ \A x \in DOMAIN proc : DriverActs(x, proc[x], proc'[x])
  <2>1. b \in Processes
    BY <1>5 DEF DriverActs
  <2>2. proc' \in Seq(Processes) /\ Len(proc') = Len(proc) /\ DOMAIN proc' = DOMAIN proc
    BY <1>1, <1>5, <2>1, ExceptSeq, TablesFinite
  <2>3. \A x \in DOMAIN proc : DriverActs(x, proc[x], proc[x])
    BY <1>2, DriverActsFacts
  <2>4. QED
    BY <1>5, <2>2, <2>3
<1>6. mishaps < MaxMishaps => mishaps + 1 \in 0 .. MaxMishaps
  BY <1>1, <1>2
<1>7. ASSUME NEW c \in Conns, Connect(c)
      PROVE  /\ ClientActs(c, conn[c], [conn[c] EXCEPT !.st = "calling"])
             /\ conn' = [conn EXCEPT ![c] = [conn[c] EXCEPT !.st = "calling"]]
  BY <1>1, <1>2, <1>7, ClientActsFacts DEF Connect
<1>8. ASSUME NEW c \in Conns, NEW new \in BOOLEAN, ClientSends(c, new)
      PROVE  \E b : ClientActs(c, conn[c], b) /\ conn' = [conn EXCEPT ![c] = b]
  <2> DEFINE b == [conn[c] EXCEPT !.sent = @ + 1,
                     !.out = Append(@, ClientMessage(c, conn[c].sent + 1, new))]
  <2>1. ClientActs(c, conn[c], b)
    BY <1>2, ClientActsFacts
  <2>2. conn' = [conn EXCEPT ![c] = b]
    BY <1>1, <1>2, <1>8 DEF ClientSends, Connections
  <2>3. QED
    BY <2>1, <2>2
<1>9. ASSUME NEW c \in Conns, ClientStalls(c) \/ ClientLeaves(c)
      PROVE  \E b : ClientActs(c, conn[c], b) /\ conn' = [conn EXCEPT ![c] = b]
  BY <1>1, <1>2, <1>9, ClientActsFacts DEF ClientStalls, ClientLeaves
<1>10. ASSUME NEW p \in DOMAIN proc, DriverReports(p)
       PROVE  \E b : DriverActs(p, proc[p], b) /\ proc' = [proc EXCEPT ![p] = b]
  <2> DEFINE b == [proc[p] EXCEPT !.sent = @ + 1,
                                  !.out = Append(@, DriverMessage(p, proc[p].sent + 1))]
  <2>1. DriverActs(p, proc[p], b)
    BY <1>2, DriverActsFacts
  <2>2. proc' = [proc EXCEPT ![p] = b]
    BY <1>1, <1>2, <1>10 DEF DriverReports, Processes
  <2>3. QED
    BY <2>1, <2>2
<1>11. ASSUME NEW p \in DOMAIN proc, DriverStalls(p) \/ DriverDies(p)
       PROVE  \E b : DriverActs(p, proc[p], b) /\ proc' = [proc EXCEPT ![p] = b]
  BY <1>1, <1>2, <1>11, DriverActsFacts DEF DriverStalls, DriverDies
<1>12. CASE \E c \in Conns : \/ Connect(c)
                             \/ \E new \in BOOLEAN : ClientSends(c, new)
                             \/ ClientStalls(c) \/ ClientLeaves(c)
  <2>1. /\ ServerUnchanged /\ proc' = proc
        /\ mishaps' = mishaps \/ (mishaps < MaxMishaps /\ mishaps' = mishaps + 1)
    BY <1>12 DEF Connect, ClientSends, ClientStalls, ClientLeaves, GoesWrong
  <2>2. PICK c \in Conns : \E b : ClientActs(c, conn[c], b) /\ conn' = [conn EXCEPT ![c] = b]
    BY <1>7, <1>8, <1>9, <1>12
  <2>3. QED
    BY <1>1, <1>3, <1>4, <1>6, <2>1, <2>2
<1>13. CASE \E p \in DOMAIN proc : DriverReports(p) \/ DriverStalls(p) \/ DriverDies(p)
  <2>1. /\ ServerUnchanged /\ conn' = conn
        /\ mishaps' = mishaps \/ (mishaps < MaxMishaps /\ mishaps' = mishaps + 1)
    BY <1>13 DEF DriverReports, DriverStalls, DriverDies, GoesWrong
  <2>2. PICK p \in DOMAIN proc : \E b : DriverActs(p, proc[p], b) /\ proc' = [proc EXCEPT ![p] = b]
    BY <1>10, <1>11, <1>13
  <2>3. QED
    BY <1>1, <1>3, <1>5, <1>6, <2>1, <2>2
<1>14. QED
  BY <1>12, <1>13 DEF World

(* They leave the invariant alone.                                          *)
LEMMA WorldStep ==
  ASSUME Inv, World
  PROVE  Inv'
<1>1. /\ UNCHANGED <<fds, lsocket, clinfo, dvrinfo, pc, rs, s, i, k, batch, reader, aired>>
      /\ mishaps' \in 0 .. MaxMishaps
      /\ conn' \in [Conns -> Connections]
      /\ \A c \in Conns : ClientActs(c, conn[c], conn'[c])
      /\ proc' \in Seq(Processes) /\ DOMAIN proc' = DOMAIN proc /\ Len(proc') = Len(proc)
  BY WorldActs DEF Inv, ServerUnchanged, tables, loop, relay
<1>2. TypeOK'
  BY <1>1 DEF Inv, TypeOK
<1>3. (Phases /\ DriversNamed /\ Separate /\ Named)'
  BY <1>1 DEF Inv, Phases, DriversNamed, Separate, Named, Active, ListenFds, ClientFds,
              ReadFds, WriteFds
<1>4. ClientsListed'
  <2>1. \A c \in Conns : conn'[c].st = "open" <=> conn[c].st = "open"
    BY <1>1 DEF ClientActs
  <2>2. \A e \in Active : clinfo[e].conn \in Conns
    BY TablesFinite DEF Inv, ClientEntries
  <2>3. QED
    BY <1>1, <2>1, <2>2 DEF Inv, ClientsListed, Active
<1>5. QED
  BY <1>2, <1>3, <1>4 DEF Inv

-----------------------------------------------------------------------------
(* What the server does, in parts that several of its steps share.          *)

(* A driver restarted has new descriptors in its entry in place of those    *)
(* closed, and a new process.                                               *)
LEMMA RestartFacts ==
  ASSUME Inv, pc \in {"drivers", "command"}, NEW d \in DOMAIN dvrinfo,
         NEW then, RestartDvr(d, then)
  PROVE  \/ /\ pc' = "exit" /\ dvrinfo' = dvrinfo /\ proc' = Killed(d)
            /\ fds' = Closed(d)
         \/ /\ pc' = then
            /\ proc' = Append(Killed(d), NewProcess(dvrinfo[d].name))
            /\ \E r, w \in Fds \ Closed(d), t \in 0 .. MaxRs :
                 /\ r # w /\ fds' = Closed(d) \union {r, w}
                 /\ dvrinfo' = [dvrinfo EXCEPT ![d] =
                      [name |-> dvrinfo[d].name, pid |-> Len(proc) + 1, restarts |-> t,
                       rfd |-> r, wfd |-> w]]
<1> DEFINE F == Closed(d)
           name == dvrinfo[d].name
           t == dvrinfo[d].restarts + 1
<1>1. CASE TooMany(t)
  BY <1>1 DEF RestartDvr
<1>2. CASE ~TooMany(t)
  <2>1. t \in 0 .. MaxRs
    BY <1>2, TablesFinite, IndiServerAssumption DEF TooMany, Inv, DriverEntries
  <2>2. FreeFd(F, 1) \in Fds \ F /\ FreeFd(F, 4) \in Fds \ F /\ FreeFd(F, 4) # FreeFd(F, 1)
    <3>1. /\ IsFiniteSet(fds) /\ fds \subseteq Fds
          /\ Cardinality(fds) = 1 + Cardinality(Active) + 2 * Len(dvrinfo)
          /\ Cardinality(Active) <= Cardinality(Conns) /\ Cardinality(Active) \in Nat
          /\ Len(dvrinfo) <= Len(Argv) /\ Len(dvrinfo) \in Nat
      BY FdsCounted, ClientsCounted, TablesFinite DEF Inv, Phases, TypeOK
    <3>2. /\ dvrinfo[d].rfd \in fds /\ dvrinfo[d].wfd \in fds
          /\ dvrinfo[d].rfd # dvrinfo[d].wfd
      BY DEF Inv, Named, ReadFds, WriteFds, Separate
    <3> DEFINE G == fds \ {dvrinfo[d].wfd}
    <3>3. /\ IsFiniteSet(G) /\ Cardinality(G) = Cardinality(fds) - 1
          /\ F = G \ {dvrinfo[d].rfd} /\ dvrinfo[d].rfd \in G
      BY <3>1, <3>2, FS_RemoveElement DEF Closed
    <3> HIDE DEF G
    <3>4. Cardinality(F) = Cardinality(G) - 1
      BY <3>3, FS_RemoveElement
    <3>5. Cardinality(F) = Cardinality(fds) - 2
      BY <3>1, <3>3, <3>4
    <3>6. Cardinality(F) + 4 <= Cardinality(Fds) /\ Cardinality(F) + 1 <= Cardinality(Fds)
      BY SMTT(30), <3>1, <3>5, ArgvFacts
    <3>7. F \in SUBSET Fds
      BY <3>1 DEF Closed
    <3>8. QED
      BY <3>6, <3>7, FreeFdIsFree
  <2>3. Least(Entries(name)) = d /\ Entries(name) # {}
    <3>1. Entries(name) = {d}
      BY DEF Inv, DriversNamed, Entries
    <3>2. {d} \in SUBSET Nat
      BY TablesFinite DEF Inv
    <3>3. QED
      BY <3>1, <3>2, LeastOf
  <2>4. dvrinfo' = [dvrinfo EXCEPT ![d] =
                      [name |-> name, pid |-> Len(proc) + 1, restarts |-> t,
                       rfd |-> FreeFd(F, 1), wfd |-> FreeFd(F, 4)]]
    BY <1>2, <2>3 DEF RestartDvr, WithDriver
  <2>5. /\ pc' = then /\ fds' = F \union {FreeFd(F, 1), FreeFd(F, 4)}
        /\ proc' = Append(Killed(d), NewProcess(name))
    BY <1>2 DEF RestartDvr
  <2>6. QED
    BY <2>1, <2>2, <2>4, <2>5
<1>3. QED
  BY <1>1, <1>2

(* Killing a process.                                                       *)
LEMMA KilledFacts ==
  ASSUME TypeOK, NEW d \in DOMAIN dvrinfo
  PROVE  /\ Killed(d) \in Seq(Processes) /\ Len(Killed(d)) = Len(proc)
         /\ DOMAIN Killed(d) = DOMAIN proc
         /\ Killed(d)[dvrinfo[d].pid].peer = "gone"
         /\ \A p \in DOMAIN proc : /\ p # dvrinfo[d].pid => Killed(d)[p] = proc[p]
                                   /\ Killed(d)[p].name = proc[p].name
                                   /\ Killed(d)[p].out = proc[p].out
                                   /\ Killed(d)[p].got = proc[p].got
                                   /\ Killed(d)[p].sent = proc[p].sent
<1> DEFINE x == dvrinfo[d].pid
           b == [proc[x] EXCEPT !.peer = "gone"]
<1>1. proc \in Seq(Processes) /\ x \in DOMAIN proc /\ proc[x] \in Processes
  BY TablesFinite DEF TypeOK
<1>2. b \in Processes /\ b.peer = "gone" /\ b.name = proc[x].name
      /\ b.out = proc[x].out /\ b.got = proc[x].got /\ b.sent = proc[x].sent
  BY <1>1 DEF Processes, PeerStates
<1>3. Killed(d) = [proc EXCEPT ![x] = b]
  BY <1>1 DEF Killed
<1> HIDE DEF b, x
<1>4. /\ Killed(d) \in Seq(Processes) /\ Len(Killed(d)) = Len(proc)
      /\ DOMAIN Killed(d) = DOMAIN proc
  BY <1>1, <1>2, <1>3, ExceptSeq, TablesFinite
<1>5. Killed(d)[x] = b /\ \A p \in DOMAIN proc : p # x => Killed(d)[p] = proc[p]
  BY <1>1, <1>3
<1>6. QED
  BY <1>2, <1>4, <1>5 DEF x

(* A new process has the type of processes.                                 *)
LEMMA NewProcessType ==
  ASSUME NEW name \in Names PROVE NewProcess(name) \in Processes
BY EmptySeq DEF NewProcess, Processes, PeerStates

(* RestartDvr() keeps the types, and the names in the driver table.         *)
LEMMA RestartTypes ==
  ASSUME Inv, pc \in {"drivers", "command"}, NEW d \in DOMAIN dvrinfo,
         NEW then, RestartDvr(d, then)
  PROVE  /\ pc' = then \/ pc' = "exit"
         /\ fds' \subseteq Fds /\ proc' \in Seq(Processes)
         /\ dvrinfo' \in Seq(DriverEntries) /\ DOMAIN dvrinfo' = DOMAIN dvrinfo
         /\ Len(dvrinfo') = Len(dvrinfo)
         /\ \A g \in DOMAIN dvrinfo : /\ dvrinfo'[g].name = dvrinfo[g].name
                                      /\ dvrinfo'[g].pid \in DOMAIN proc'
<1>1. /\ fds \subseteq Fds /\ dvrinfo \in Seq(DriverEntries)
      /\ \A g \in DOMAIN dvrinfo : dvrinfo[g].pid \in DOMAIN proc
  BY DEF Inv, TypeOK
<1>2. /\ DOMAIN proc = 1 .. Len(proc) /\ Len(proc) \in Nat
      /\ Killed(d) \in Seq(Processes) /\ Len(Killed(d)) = Len(proc)
      /\ DOMAIN Killed(d) = DOMAIN proc
      /\ dvrinfo[d].name \in Names /\ Closed(d) \subseteq Fds
      /\ DOMAIN dvrinfo = 1 .. Len(dvrinfo)
  BY <1>1, KilledFacts, TablesFinite DEF Inv, DriverEntries, Closed
<1>3. CASE pc' = "exit" /\ dvrinfo' = dvrinfo /\ proc' = Killed(d) /\ fds' = Closed(d)
  BY <1>1, <1>2, <1>3
<1>4. CASE /\ pc' = then
           /\ proc' = Append(Killed(d), NewProcess(dvrinfo[d].name))
           /\ \E r, w \in Fds \ Closed(d), t \in 0 .. MaxRs :
                /\ r # w /\ fds' = Closed(d) \union {r, w}
                /\ dvrinfo' = [dvrinfo EXCEPT ![d] =
                     [name |-> dvrinfo[d].name, pid |-> Len(proc) + 1, restarts |-> t,
                      rfd |-> r, wfd |-> w]]
  <2>1. PICK r, w \in Fds \ Closed(d), t \in 0 .. MaxRs :
          /\ fds' = Closed(d) \union {r, w}
          /\ dvrinfo' = [dvrinfo EXCEPT ![d] =
               [name |-> dvrinfo[d].name, pid |-> Len(proc) + 1, restarts |-> t,
                rfd |-> r, wfd |-> w]]
    BY <1>4
  <2> DEFINE x == [name |-> dvrinfo[d].name, pid |-> Len(proc) + 1, restarts |-> t,
                   rfd |-> r, wfd |-> w]
  <2>2. x \in DriverEntries /\ x.name = dvrinfo[d].name /\ x.pid = Len(proc) + 1
    BY <1>2 DEF DriverEntries
  <2>3. NewProcess(dvrinfo[d].name) \in Processes
    BY <1>2, NewProcessType
  <2>4. proc' \in Seq(Processes) /\ Len(proc') = Len(proc) + 1
        /\ DOMAIN proc' = 1 .. Len(proc) + 1
    <3> DEFINE K == Killed(d)
               y == NewProcess(dvrinfo[d].name)
    <3>0. proc' = Append(K, y) /\ K \in Seq(Processes) /\ y \in Processes /\ Len(K) = Len(proc)
      BY <1>2, <1>4, <2>3
    <3> HIDE DEF K, y
    <3>1. proc' \in Seq(Processes) /\ Len(proc') = Len(proc) + 1
      BY <3>0, AppendProperties
    <3>2. QED
      BY <3>1, LenProperties
  <2> HIDE DEF x
  <2>5. dvrinfo' = [dvrinfo EXCEPT ![d] = x]
    BY <2>1 DEF x
  <2>6. /\ dvrinfo' \in Seq(DriverEntries) /\ DOMAIN dvrinfo' = DOMAIN dvrinfo
        /\ Len(dvrinfo') = Len(dvrinfo)
    BY <1>1, <1>2, <2>2, <2>5, ExceptSeq
  <2>7. \A g \in DOMAIN dvrinfo : dvrinfo'[g] = IF g = d THEN x ELSE dvrinfo[g]
    BY <1>1, <2>5
  <2>8. \A g \in DOMAIN dvrinfo : dvrinfo'[g].name = dvrinfo[g].name
                                  /\ dvrinfo'[g].pid \in DOMAIN proc'
    BY <1>1, <1>2, <2>2, <2>4, <2>7
  <2>9. fds' \subseteq Fds
    BY <1>2, <2>1
  <2>10. QED
    BY <1>4, <2>4, <2>6, <2>8, <2>9
<1>5. QED
  BY <1>3, <1>4, RestartFacts

(* RestartDvr() closes two descriptors and puts two free ones in their      *)
(* place: the tables and the open descriptors still agree.                  *)
LEMMA RestartSeparate ==
  ASSUME Inv, pc \in {"drivers", "command"}, NEW d \in DOMAIN dvrinfo,
         NEW then \in {"drivers", "command"}, RestartDvr(d, then),
         UNCHANGED <<clinfo, lsocket>>
  PROVE  Separate' /\ Named'
<1>1. Active' = Active /\ pc # "start" /\ pc # "exit" /\ pc' # "start"
      /\ ListenFds' = {lsocket} /\ ListenFds = {lsocket} /\ ClientFds' = ClientFds
  BY RestartTypes DEF Active, ListenFds, ClientFds
<1>2. Separate /\ fds = {lsocket} \union ClientFds \union ReadFds \union WriteFds
  BY <1>1 DEF Inv, Named
<1>3. CASE pc' = "exit" /\ dvrinfo' = dvrinfo /\ proc' = Killed(d) /\ fds' = Closed(d)
  BY <1>1, <1>2, <1>3 DEF Separate, Named
<1>4. CASE /\ pc' = then
           /\ proc' = Append(Killed(d), NewProcess(dvrinfo[d].name))
           /\ \E r, w \in Fds \ Closed(d), t \in 0 .. MaxRs :
                /\ r # w /\ fds' = Closed(d) \union {r, w}
                /\ dvrinfo' = [dvrinfo EXCEPT ![d] =
                     [name |-> dvrinfo[d].name, pid |-> Len(proc) + 1, restarts |-> t,
                      rfd |-> r, wfd |-> w]]
  <2>1. PICK r, w \in Fds \ Closed(d), t \in 0 .. MaxRs :
          /\ r # w /\ fds' = Closed(d) \union {r, w}
          /\ dvrinfo' = [dvrinfo EXCEPT ![d] =
               [name |-> dvrinfo[d].name, pid |-> Len(proc) + 1, restarts |-> t,
                rfd |-> r, wfd |-> w]]
    BY <1>4
  <2>2. /\ DOMAIN dvrinfo' = DOMAIN dvrinfo
        /\ dvrinfo'[d].rfd = r /\ dvrinfo'[d].wfd = w
        /\ \A g \in DOMAIN dvrinfo : g # d => dvrinfo'[g] = dvrinfo[g]
    BY <2>1
  <2>3. /\ lsocket \in Closed(d)
        /\ \A e \in Active : clinfo[e].s \in Closed(d)
        /\ \A g \in DOMAIN dvrinfo :
             g # d => dvrinfo[g].rfd \in Closed(d) /\ dvrinfo[g].wfd \in Closed(d)
    BY <1>1, <1>2 DEF Closed, Separate, ClientFds, ReadFds, WriteFds
  <2>4. Separate'
    BY <1>1, <1>2, <2>1, <2>2, <2>3 DEF Separate
  <2>5. Closed(d) = {lsocket} \union ClientFds
                      \union {dvrinfo[g].rfd : g \in DOMAIN dvrinfo \ {d}}
                      \union {dvrinfo[g].wfd : g \in DOMAIN dvrinfo \ {d}}
    BY <1>1, <1>2 DEF Closed, Separate, ClientFds, ReadFds, WriteFds
  <2>6. /\ ReadFds' = {dvrinfo[g].rfd : g \in DOMAIN dvrinfo \ {d}} \union {r}
        /\ WriteFds' = {dvrinfo[g].wfd : g \in DOMAIN dvrinfo \ {d}} \union {w}
    BY <2>2 DEF ReadFds, WriteFds
  <2>7. Named'
    BY <1>1, <2>1, <2>5, <2>6 DEF Named
  <2>8. QED
    BY <2>4, <2>7
<1>5. QED
  BY <1>3, <1>4, RestartFacts

(* An accepted client takes an entry that was not active.                   *)
LEMMA PutClientFacts ==
  ASSUME TypeOK, NEW x \in ClientEntries, x.active, clinfo' = PutClient(x)
  PROVE  /\ clinfo' \in Seq(ClientEntries) /\ Len(clinfo) <= Len(clinfo')
         /\ \E e \in DOMAIN clinfo' : /\ e \notin Active /\ clinfo'[e] = x
                                      /\ Active' = Active \union {e}
         /\ \A e \in Active : clinfo'[e] = clinfo[e]
<1>1. /\ DOMAIN clinfo = 1 .. Len(clinfo) /\ Len(clinfo) \in Nat
      /\ Inactive \in SUBSET Nat /\ Inactive \subseteq DOMAIN clinfo
      /\ clinfo \in Seq(ClientEntries)
  BY TablesFinite DEF Inactive, TypeOK
<1>2. CASE Inactive = {}
  <2>1. clinfo' = Append(clinfo, x)
    BY <1>2 DEF PutClient
  <2>2. /\ clinfo' \in Seq(ClientEntries) /\ Len(clinfo') = Len(clinfo) + 1
        /\ \A e \in 1 .. Len(clinfo) : clinfo'[e] = clinfo[e]
        /\ clinfo'[Len(clinfo) + 1] = x
    BY <1>1, <2>1, AppendProperties
  <2>3. DOMAIN clinfo' = 1 .. Len(clinfo) + 1
    BY <2>2, LenProperties
  <2>4. Active' = Active \union {Len(clinfo) + 1}
    BY <1>1, <2>2, <2>3 DEF Active
  <2>5. QED
    BY <1>1, <2>2, <2>3, <2>4 DEF Active
<1>3. CASE Inactive # {}
  <2> DEFINE m == Least(Inactive)
  <2>1. m \in Inactive /\ m \in DOMAIN clinfo
    BY <1>1, <1>3, LeastOf
  <2>2. clinfo' = [clinfo EXCEPT ![m] = x]
    BY <1>3 DEF PutClient
  <2> HIDE DEF m
  <2>3. /\ clinfo' \in Seq(ClientEntries) /\ Len(clinfo') = Len(clinfo)
        /\ DOMAIN clinfo' = DOMAIN clinfo
    BY <1>1, <2>1, <2>2, ExceptSeq
  <2>4. clinfo'[m] = x /\ \A e \in DOMAIN clinfo : e # m => clinfo'[e] = clinfo[e]
    BY <2>1, <2>2
  <2>5. m \notin Active
    BY <2>1 DEF Inactive, Active
  <2>6. Active' = Active \union {m}
    BY <2>1, <2>3, <2>4 DEF Active
  <2>7. QED
    BY <1>1, <2>1, <2>3, <2>4, <2>5, <2>6 DEF Active
<1>4. QED
  BY <1>2, <1>3

(* The first message read, and what is left when it is done with.           *)
LEMMA BatchFacts ==
  ASSUME TypeOK, batch # <<>>
  PROVE  /\ Head(batch) \in Messages /\ Tail(batch) \in Seq(Messages)
         /\ Len(batch) > 1 => Tail(batch) # <<>>
<1>1. batch \in Seq(Messages)
  BY DEF TypeOK
<1>2. Tail(batch) \in Seq(Messages) /\ Len(Tail(batch)) = Len(batch) - 1
      /\ Head(batch) \in Messages
  BY <1>1, HeadTailProperties
<1>3. Len(batch) > 1 => Tail(batch) # <<>>
  <2>1. Len(<<>>) = 0 /\ Len(batch) \in Nat
    BY <1>1, LenProperties
  <2> DEFINE q == Tail(batch)
  <2>2. Len(q) = Len(batch) - 1
    BY <1>2
  <2> HIDE DEF q
  <2>3. Len(batch) > 1 => q # <<>>
    BY <2>1, <2>2
  <2>4. QED
    BY <2>3 DEF q
<1>4. QED
  BY <1>2, <1>3

(* Where the server goes when a message is done.                            *)
LEMMA NextMessageFacts ==
  ASSUME TypeOK, batch # <<>>, NextMessage
  PROVE  /\ batch' \in Seq(Messages) /\ k' = 1
         /\ \/ pc' = "relay" /\ batch' # <<>> /\ reader' = reader
            \/ pc' = "drivers" /\ reader = 0 /\ reader' = 0
            \/ pc' = "clients" /\ reader # 0 /\ reader' = 0
BY BatchFacts DEF NextMessage

(* Who is lost to a message is closed, the others in its audience get it.   *)
Aired(m, lost) ==
  /\ lost \subseteq Audience
  /\ \A e \in lost : PeerOf(e) # "ok"
  /\ \A e \in lost : conn'[clinfo[e].conn] = [conn[clinfo[e].conn] EXCEPT !.st = "closed"]
  /\ \A e \in Audience \ lost :
       conn'[clinfo[e].conn] = [conn[clinfo[e].conn] EXCEPT !.got = Append(@, m)]
  /\ \A c \in Conns : (\A e \in Audience : clinfo[e].conn # c) => conn'[c] = conn[c]

(* Air(m) leaves the table as it is but for the entries it closes.          *)
LEMMA AirFacts ==
  ASSUME TypeOK, ClientsListed, NEW m \in Messages, Air(m)
  PROVE  /\ conn' \in [Conns -> Connections] /\ aired' \in Seq(Messages)
         /\ aired' = Append(aired, m)
         /\ clinfo' \in Seq(ClientEntries) /\ Len(clinfo') = Len(clinfo)
         /\ DOMAIN clinfo' = DOMAIN clinfo
         /\ \A e \in DOMAIN clinfo : clinfo'[e].s = clinfo[e].s /\ clinfo'[e].conn = clinfo[e].conn
         /\ \E lost : /\ Aired(m, lost)
                      /\ Active' = Active \ lost
                      /\ fds' = fds \ {clinfo[e].s : e \in lost}
<1>1. PICK lost \in SUBSET {e \in Audience : ~Takes(PeerOf(e))} :
        /\ conn' = [c \in Conns |->
                      IF c \in {clinfo[e].conn : e \in lost} THEN [conn[c] EXCEPT !.st = "closed"]
                      ELSE IF c \in {clinfo[e].conn : e \in Audience}
                           THEN [conn[c] EXCEPT !.got = Append(@, m)]
                      ELSE conn[c]]
        /\ clinfo' = [e \in DOMAIN clinfo |->
                        IF e \in lost THEN ClosedEntry(clinfo[e]) ELSE clinfo[e]]
        /\ fds' = fds \ {clinfo[e].s : e \in lost}
        /\ aired' = Append(aired, m)
  BY DEF Air
<1>2. /\ conn \in [Conns -> Connections] /\ clinfo \in Seq(ClientEntries)
      /\ aired \in Seq(Messages)
      /\ DOMAIN clinfo = 1 .. Len(clinfo) /\ Len(clinfo) \in Nat
      /\ \A e \in DOMAIN clinfo : clinfo[e] \in ClientEntries
      /\ Audience \subseteq Active /\ Active \subseteq DOMAIN clinfo
  BY TablesFinite DEF TypeOK, Audience
<1>3. \A e \in DOMAIN clinfo : clinfo[e].conn \in Conns
  BY <1>2 DEF ClientEntries
<1>4. \A e, f \in Audience : clinfo[e].conn = clinfo[f].conn => e = f
  BY <1>2 DEF ClientsListed
<1>5. conn' \in [Conns -> Connections]
  <2>1. ASSUME NEW c \in Conns
        PROVE  /\ [conn[c] EXCEPT !.st = "closed"] \in Connections
               /\ [conn[c] EXCEPT !.got = Append(@, m)] \in Connections
    <3>1. conn[c] \in Connections /\ conn[c].got \in Seq(Messages)
      BY <1>2 DEF Connections
    <3>2. Append(conn[c].got, m) \in Seq(Messages)
      BY <3>1, AppendProperties
    <3>3. QED
      BY <3>1, <3>2 DEF Connections
  <2>2. QED
    BY <1>1, <1>2, <2>1
<1>6. aired' \in Seq(Messages)
  BY <1>1, <1>2, AppendProperties
<1>7. ASSUME NEW e \in DOMAIN clinfo
      PROVE  /\ ClosedEntry(clinfo[e]) \in ClientEntries
             /\ ~ClosedEntry(clinfo[e]).active
             /\ ClosedEntry(clinfo[e]).s = clinfo[e].s
             /\ ClosedEntry(clinfo[e]).conn = clinfo[e].conn
  BY <1>2 DEF ClosedEntry, ClientEntries
<1>8. /\ DOMAIN clinfo' = DOMAIN clinfo
      /\ \A e \in DOMAIN clinfo : clinfo'[e] \in ClientEntries
      /\ \A e \in DOMAIN clinfo : clinfo'[e].s = clinfo[e].s /\ clinfo'[e].conn = clinfo[e].conn
  BY <1>1, <1>2, <1>7
<1>9. clinfo' \in Seq(ClientEntries) /\ Len(clinfo') = Len(clinfo)
  <2>1. clinfo' = [e \in 1 .. Len(clinfo) |-> clinfo'[e]]
    BY <1>1, <1>2, <1>8
  <2>2. QED
    BY <1>2, <1>8, <2>1, IsASeq, LenProperties
<1>10. Active' = Active \ lost
  BY <1>1, <1>2, <1>7, <1>8 DEF Active
<1>11. Aired(m, lost)
  <2>1. \A e \in lost : conn'[clinfo[e].conn] = [conn[clinfo[e].conn] EXCEPT !.st = "closed"]
    BY <1>1, <1>2, <1>3
  <2>2. \A e \in Audience \ lost :
          conn'[clinfo[e].conn] = [conn[clinfo[e].conn] EXCEPT !.got = Append(@, m)]
    <3>1. TAKE e \in Audience \ lost
    <3>2. clinfo[e].conn \notin {clinfo[f].conn : f \in lost}
      BY <1>1, <1>4
    <3>3. clinfo[e].conn \in Conns
      BY <1>2, <1>3
    <3>4. QED
      BY <1>1, <3>2, <3>3
  <2>3. \A c \in Conns : (\A e \in Audience : clinfo[e].conn # c) => conn'[c] = conn[c]
    BY <1>1
  <2>4. lost \subseteq Audience /\ \A e \in lost : PeerOf(e) # "ok"
    BY <1>1 DEF Takes
  <2>5. QED
    BY <2>1, <2>2, <2>3, <2>4 DEF Aired
<1>12. QED
  BY <1>1, <1>5, <1>6, <1>8, <1>9, <1>10, <1>11

(* What airing a message leaves of the invariant.                           *)
LEMMA AirKeeps ==
  ASSUME Inv, pc = "relay", NEW m \in Messages, Air(m), pc' # "start",
         UNCHANGED <<lsocket, dvrinfo>>
  PROVE  ClientsListed' /\ Separate' /\ Named' /\ fds' \subseteq Fds
<1>1. /\ clinfo' \in Seq(ClientEntries) /\ DOMAIN clinfo' = DOMAIN clinfo
      /\ \A e \in DOMAIN clinfo : clinfo'[e].s = clinfo[e].s /\ clinfo'[e].conn = clinfo[e].conn
      /\ conn' \in [Conns -> Connections]
  BY AirFacts DEF Inv
<1>2. PICK lost : /\ Aired(m, lost) /\ Active' = Active \ lost
                  /\ fds' = fds \ {clinfo[e].s : e \in lost}
  BY AirFacts DEF Inv
<1>3. /\ Active \subseteq DOMAIN clinfo /\ Audience \subseteq Active
      /\ \A e \in DOMAIN clinfo : clinfo[e].conn \in Conns
      /\ lost \subseteq Audience
  BY <1>2, TablesFinite DEF Inv, ClientEntries, Audience, Aired
<1>4. Separate'
  BY <1>1, <1>2, <1>3 DEF Inv, Separate
<1>5. /\ ListenFds' = {lsocket} /\ ListenFds = {lsocket}
      /\ ReadFds' = ReadFds /\ WriteFds' = WriteFds
      /\ ClientFds' = {clinfo[e].s : e \in Active \ lost}
  BY <1>1, <1>2, <1>3 DEF ListenFds, ReadFds, WriteFds, ClientFds
<1>6. fds = {lsocket} \union ClientFds \union ReadFds \union WriteFds
  BY <1>5 DEF Inv, Named
<1>7. Named'
  <2>1. \A e \in lost : /\ clinfo[e].s # lsocket /\ clinfo[e].s \notin ReadFds
                        /\ clinfo[e].s \notin WriteFds
                        /\ \A f \in Active \ lost : clinfo[f].s # clinfo[e].s
    BY <1>3 DEF Inv, Separate, ReadFds, WriteFds
  <2>2. ClientFds = {clinfo[e].s : e \in Active \ lost} \union {clinfo[e].s : e \in lost}
    BY <1>3 DEF ClientFds
  <2>3. QED
    BY <1>2, <1>5, <1>6, <2>1, <2>2 DEF Named
<1>8. ClientsListed'
  <2>1. /\ \A e \in Active : conn[clinfo[e].conn].st = "open"
        /\ \A e, f \in Active : clinfo[e].conn = clinfo[f].conn => e = f
        /\ \A c \in Conns : conn[c].st = "open" => \E e \in Active : clinfo[e].conn = c
    BY DEF Inv, ClientsListed
  <2>2. \A c \in Conns : conn[c] \in Connections
    BY DEF Inv, TypeOK
  <2>3. \A e \in Active \ lost : conn'[clinfo[e].conn].st = conn[clinfo[e].conn].st
    <3>1. TAKE e \in Active \ lost
    <3>2. clinfo[e].conn \in Conns /\ conn[clinfo[e].conn] \in Connections
      BY <1>3, <2>2
    <3>3. CASE e \in Audience
      BY <1>2, <3>2, <3>3 DEF Aired, Connections
    <3>4. CASE e \notin Audience
      <4>1. \A f \in Audience : clinfo[f].conn # clinfo[e].conn
        BY <1>3, <2>1, <3>4
      <4>2. QED
        BY <1>2, <3>2, <4>1 DEF Aired
    <3>5. QED
      BY <3>3, <3>4
  <2>4. \A e \in lost : conn'[clinfo[e].conn].st = "closed"
    <3>1. TAKE e \in lost
    <3>2. conn[clinfo[e].conn] \in Connections
      BY <1>3, <2>2
    <3>3. conn'[clinfo[e].conn] = [conn[clinfo[e].conn] EXCEPT !.st = "closed"]
      BY <1>2 DEF Aired
    <3>4. QED
      BY <3>2, <3>3 DEF Connections
  <2>5. \A c \in Conns : conn'[c].st = "open" => \E e \in Active \ lost : clinfo[e].conn = c
    <3>1. SUFFICES ASSUME NEW c \in Conns, conn'[c].st = "open"
                   PROVE  \E e \in Active \ lost : clinfo[e].conn = c
      OBVIOUS
    <3>2. CASE \E e \in Active : clinfo[e].conn = c
      BY <2>4, <3>1, <3>2
    <3>3. CASE \A e \in Active : clinfo[e].conn # c
      <4>1. conn'[c] = conn[c]
        BY <1>2, <1>3, <3>3 DEF Aired
      <4>2. QED
        BY <2>1, <3>1, <3>3, <4>1
    <3>4. QED
      BY <3>2, <3>3
  <2>6. QED
    BY <1>1, <1>2, <1>3, <2>1, <2>3, <2>5 DEF ClientsListed
<1>9. QED
  BY <1>2, <1>4, <1>7, <1>8 DEF Inv, TypeOK

-----------------------------------------------------------------------------
(* Every step of the server keeps the invariant.                            *)

(* What reading, waiting and going on to the next loop leave alone.         *)
LEMMA TablesKept ==
  ASSUME Inv, pc # "start", pc # "exit", pc' # "start",
         UNCHANGED <<fds, lsocket, clinfo, dvrinfo>>
  PROVE  DriversNamed' /\ Separate' /\ Named' /\ Active' = Active
         /\ Len(dvrinfo') <= Len(Argv)
BY DEF Inv, Phases, DriversNamed, Separate, Named, Active, ListenFds, ClientFds, ReadFds,
       WriteFds

(* The client table is right as long as it and the connections stay.        *)
LEMMA ListedKept ==
  ASSUME Inv, clinfo' = clinfo,
         \A c \in Conns : conn'[c].st = conn[c].st
  PROVE  ClientsListed'
<1>1. \A e \in Active : clinfo[e].conn \in Conns
  BY TablesFinite DEF Inv, ClientEntries
<1>2. QED
  BY <1>1 DEF Inv, ClientsListed, Active

(* StartDvr appends an entry for the next name; with distinct names it      *)
(* never finds one.                                                         *)
LEMMA StartDvrFacts ==
  ASSUME DistinctNames, Inv, StartDvr
  PROVE  LET n    == Len(proc)
             name == Argv[n + 1]
         IN  /\ pc = "start" /\ n < Len(Argv) /\ n \in Nat
             /\ clinfo = <<>> /\ Len(dvrinfo) = n
             /\ \A d \in DOMAIN dvrinfo : dvrinfo[d].name = Argv[d]
             /\ DOMAIN dvrinfo = 1 .. n /\ DOMAIN proc = 1 .. n
             /\ name \in Names /\ \A d \in DOMAIN dvrinfo : Argv[d] # name
             /\ proc' = Append(proc, NewProcess(name))
             /\ proc' \in Seq(Processes) /\ Len(proc') = n + 1 /\ DOMAIN proc' = 1 .. n + 1
             /\ UNCHANGED <<conn, lsocket, clinfo, pc, rs, s, i, k, batch, reader, aired,
                            mishaps>>
             /\ Active = {} /\ Active' = {}
             /\ \E r, w \in Fds \ fds :
                  /\ r # w /\ fds' = fds \union {r, w}
                  /\ dvrinfo' \in Seq(DriverEntries) /\ Len(dvrinfo') = n + 1
                  /\ DOMAIN dvrinfo' = 1 .. n + 1
                  /\ dvrinfo'[n + 1] = [name |-> name, pid |-> n + 1, restarts |-> 0,
                                        rfd |-> r, wfd |-> w]
                  /\ \A d \in 1 .. n : dvrinfo'[d] = dvrinfo[d]
<1> DEFINE name == Argv[Len(proc) + 1]
           x == [name |-> name, pid |-> Len(proc) + 1, restarts |-> 0,
                 rfd |-> FreeFd(fds, 1), wfd |-> FreeFd(fds, 4)]
           n == Len(proc)
<1>1. /\ pc = "start" /\ n < Len(Argv) /\ n \in Nat
      /\ clinfo = <<>> /\ Len(dvrinfo) = n
      /\ \A d \in DOMAIN dvrinfo : dvrinfo[d].name = Argv[d]
      /\ DOMAIN dvrinfo = 1 .. n /\ DOMAIN proc = 1 .. n
      /\ dvrinfo \in Seq(DriverEntries) /\ proc \in Seq(Processes)
  BY TablesFinite DEF StartDvr, Inv, Phases, TypeOK
<1>2. name \in Names /\ \A d \in DOMAIN dvrinfo : Argv[d] # name
  BY <1>1, ArgvFacts DEF DistinctNames
<1>3. Entries(name) = {}
  BY <1>1, <1>2 DEF Entries
<1>4. dvrinfo' = Append(dvrinfo, x) /\ proc' = Append(proc, NewProcess(name))
      /\ fds' = fds \union {FreeFd(fds, 1), FreeFd(fds, 4)}
      /\ UNCHANGED <<conn, lsocket, clinfo, pc, rs, s, i, k, batch, reader, aired, mishaps>>
  BY <1>3 DEF StartDvr, WithDriver, loop, relay
<1>5. Active = {} /\ Active' = {}
  BY <1>1, <1>4 DEF Active
<1>6. /\ FreeFd(fds, 1) \in Fds \ fds /\ FreeFd(fds, 4) \in Fds \ fds
      /\ FreeFd(fds, 1) # FreeFd(fds, 4)
  <2>1. /\ Cardinality(fds) = Cardinality(Active) + 2 * n /\ fds \in SUBSET Fds
    BY <1>1, FdsCounted, TablesFinite DEF Inv, TypeOK
  <2>2. Cardinality(fds) = 2 * n
    BY <1>1, <1>5, <2>1, FS_EmptySet
  <2>3. Cardinality(fds) + 4 <= Cardinality(Fds) /\ Cardinality(fds) + 1 <= Cardinality(Fds)
    BY <1>1, <2>2, ArgvFacts
  <2>4. QED
    BY <2>1, <2>3, FreeFdIsFree
<1>7. x \in DriverEntries
  BY <1>1, <1>2, <1>6, IndiServerAssumption DEF DriverEntries
<1> HIDE DEF x
<1>8. /\ dvrinfo' \in Seq(DriverEntries) /\ Len(dvrinfo') = n + 1
      /\ dvrinfo'[n + 1] = x /\ \A d \in 1 .. n : dvrinfo'[d] = dvrinfo[d]
      /\ DOMAIN dvrinfo' = 1 .. n + 1
  <2>1. /\ dvrinfo' \in Seq(DriverEntries) /\ Len(dvrinfo') = n + 1
        /\ dvrinfo'[n + 1] = x /\ \A d \in 1 .. n : dvrinfo'[d] = dvrinfo[d]
    BY <1>1, <1>4, <1>7, AppendProperties
  <2>2. QED
    BY <2>1, LenProperties
<1>9. proc' \in Seq(Processes) /\ Len(proc') = n + 1 /\ DOMAIN proc' = 1 .. n + 1
  <2> DEFINE y == NewProcess(name)
  <2>1. y \in Processes
    BY <1>2, NewProcessType
  <2> HIDE DEF y
  <2>2. proc' = Append(proc, y)
    BY <1>4 DEF y
  <2>3. proc' \in Seq(Processes) /\ Len(proc') = n + 1
    BY <1>1, <2>1, <2>2, AppendProperties
  <2>4. QED
    BY <2>3, LenProperties
<1>10. QED
  BY <1>1, <1>2, <1>4, <1>5, <1>6, <1>8, <1>9 DEF x

(* StartDvr keeps the invariant.                                            *)
LEMMA StartDvrStep ==
  ASSUME DistinctNames, Inv, StartDvr
  PROVE  Inv'
<1> DEFINE n    == Len(proc)
           name == Argv[n + 1]
<1>1. /\ pc = "start" /\ n < Len(Argv) /\ n \in Nat
      /\ clinfo = <<>> /\ Len(dvrinfo) = n
      /\ \A d \in DOMAIN dvrinfo : dvrinfo[d].name = Argv[d]
      /\ DOMAIN dvrinfo = 1 .. n /\ DOMAIN proc = 1 .. n
  BY StartDvrFacts
<1>2. name \in Names /\ \A d \in DOMAIN dvrinfo : Argv[d] # name
  BY StartDvrFacts
<1>4. UNCHANGED <<conn, lsocket, clinfo, pc, rs, s, i, k, batch, reader, aired, mishaps>>
  BY StartDvrFacts
<1>5. Active = {} /\ Active' = {}
  BY StartDvrFacts
<1>9. proc' \in Seq(Processes) /\ Len(proc') = n + 1 /\ DOMAIN proc' = 1 .. n + 1
  BY StartDvrFacts
<1>3. PICK r, w \in Fds \ fds :
        /\ r # w /\ fds' = fds \union {r, w}
        /\ dvrinfo' \in Seq(DriverEntries) /\ Len(dvrinfo') = n + 1
        /\ DOMAIN dvrinfo' = 1 .. n + 1
        /\ dvrinfo'[n + 1] = [name |-> name, pid |-> n + 1, restarts |-> 0,
                              rfd |-> r, wfd |-> w]
        /\ \A d \in 1 .. n : dvrinfo'[d] = dvrinfo[d]
  BY StartDvrFacts
<1> DEFINE x == dvrinfo'[n + 1]
<1>10. /\ x.name = name /\ x.pid = n + 1 /\ x.rfd = r /\ x.wfd = w
  BY <1>3
<1> HIDE DEF x, name
<1>8. /\ dvrinfo' \in Seq(DriverEntries) /\ Len(dvrinfo') = n + 1
      /\ dvrinfo'[n + 1] = x /\ \A d \in 1 .. n : dvrinfo'[d] = dvrinfo[d]
      /\ DOMAIN dvrinfo' = 1 .. n + 1
  BY <1>3 DEF x
<1>11. TypeOK'
  <2>1. fds' \subseteq Fds
    BY <1>3 DEF Inv, TypeOK
  <2>2. \A d \in DOMAIN dvrinfo' : dvrinfo'[d].pid \in DOMAIN proc'
    <3>1. \A d \in 1 .. n : dvrinfo[d].pid \in 1 .. n
      BY <1>1 DEF Inv, TypeOK
    <3>2. QED
      BY <1>1, <1>8, <1>9, <1>10, <3>1
  <2>3. QED
    BY <1>4, <1>8, <1>9, <2>1, <2>2 DEF Inv, TypeOK
<1>12. Phases'
  <2>1. Len(dvrinfo') <= Len(Argv)
    BY <1>1, <1>8, ArgvFacts
  <2>2. \A d \in DOMAIN dvrinfo' : dvrinfo'[d].name = Argv[d]
    BY <1>1, <1>8, <1>10 DEF name
  <2>3. QED
    BY <1>1, <1>4, <1>8, <1>9, <2>1, <2>2 DEF Phases
<1>13. DriversNamed'
  BY <1>1, <1>2, <1>8, <1>10 DEF Inv, DriversNamed
<1>14. ClientsListed'
  BY <1>4, <1>5 DEF Inv, ClientsListed
<1>15. /\ fds = ReadFds \union WriteFds /\ ListenFds = {} /\ ListenFds' = {}
       /\ ClientFds = {} /\ ClientFds' = {}
  BY <1>1, <1>4, <1>5 DEF Inv, Named, ListenFds, ClientFds
<1>16. \A d \in 1 .. n : dvrinfo[d].rfd \in fds /\ dvrinfo[d].wfd \in fds
  BY <1>1, <1>15 DEF ReadFds, WriteFds
<1>17. Separate'
  <2>1. \A d \in 1 .. n : /\ dvrinfo[d].rfd \notin {x.rfd, x.wfd}
                          /\ dvrinfo[d].wfd \notin {x.rfd, x.wfd}
    BY <1>3, <1>10, <1>16
  <2>2. x.rfd # x.wfd
    BY <1>3, <1>10
  <2>3. \A d, g \in 1 .. n + 1 :
          /\ dvrinfo'[d].rfd # dvrinfo'[g].wfd
          /\ dvrinfo'[d].rfd = dvrinfo'[g].rfd \/ dvrinfo'[d].wfd = dvrinfo'[g].wfd => d = g
    <3>1. \A d \in 1 .. n + 1 : d \in 1 .. n \/ d = n + 1
      BY <1>1
    <3>2. QED
      BY <1>1, <1>8, <2>1, <2>2, <3>1 DEF Inv, Separate
  <2>4. QED
    BY <1>1, <1>4, <1>5, <1>8, <2>3 DEF Separate
<1>18. Named'
  <2>1. 1 .. n + 1 = 1 .. n \union {n + 1}
    BY <1>1
  <2>2. ReadFds' = ReadFds \union {x.rfd} /\ WriteFds' = WriteFds \union {x.wfd}
    BY <1>1, <1>8, <2>1 DEF ReadFds, WriteFds
  <2>3. QED
    BY <1>3, <1>4, <1>10, <1>15, <2>2 DEF Named
<1>19. QED
  BY <1>11, <1>12, <1>13, <1>14, <1>17, <1>18 DEF Inv

(* IndiListen keeps the invariant.                                          *)
LEMMA IndiListenStep ==
  ASSUME Inv, IndiListen
  PROVE  Inv'
<1>1. /\ pc = "start" /\ pc' = "select" /\ lsocket' = FreeFd(fds, 1)
      /\ fds' = fds \union {lsocket'}
      /\ UNCHANGED <<conn, proc, clinfo, dvrinfo, rs, s, i, k, batch, reader, aired, mishaps>>
  BY DEF IndiListen, peers, tables, loop, relay
<1>2. clinfo = <<>> /\ Active = {} /\ Active' = {} /\ Len(dvrinfo) <= Len(Argv)
  BY <1>1 DEF Inv, Phases, Active
<1>3. lsocket' \in Fds \ fds
  <2>1. /\ Cardinality(fds) = Cardinality(Active) + 2 * Len(dvrinfo) /\ fds \in SUBSET Fds
        /\ Len(dvrinfo) \in Nat
    BY <1>1, FdsCounted, TablesFinite DEF Inv, TypeOK
  <2>2. Cardinality(fds) = 2 * Len(dvrinfo)
    BY <1>2, <2>1, FS_EmptySet
  <2>3. Cardinality(fds) + 1 <= Cardinality(Fds)
    BY <1>2, <2>1, <2>2, ArgvFacts
  <2>4. QED
    BY <1>1, <2>1, <2>3, FreeFdIsFree
<1>4. TypeOK'
  BY <1>1, <1>3 DEF Inv, TypeOK
<1>5. Phases' /\ DriversNamed'
  BY <1>1, <1>2 DEF Inv, Phases, DriversNamed
<1>6. ClientsListed'
  BY <1>1, <1>2 DEF Inv, ClientsListed
<1>7. /\ fds = ReadFds \union WriteFds /\ ListenFds' = {lsocket'}
      /\ ClientFds' = {} /\ ReadFds' = ReadFds /\ WriteFds' = WriteFds
  BY <1>1, <1>2 DEF Inv, Named, ListenFds, ClientFds, ReadFds, WriteFds
<1>8. Separate'
  <2>1. \A d \in DOMAIN dvrinfo : dvrinfo[d].rfd # lsocket' /\ dvrinfo[d].wfd # lsocket'
    BY <1>3, <1>7 DEF ReadFds, WriteFds
  <2>2. QED
    BY <1>1, <1>2, <2>1 DEF Inv, Separate
<1>9. Named'
  BY <1>1, <1>7 DEF Named
<1>10. QED
  BY <1>4, <1>5, <1>6, <1>8, <1>9 DEF Inv

(* select() reports descriptors that are open.                              *)
LEMMA ReadableOpen ==
  ASSUME Inv, pc \notin {"start", "exit"}
  PROVE  Readable \subseteq fds
<1>1. fds = {lsocket} \union ClientFds \union ReadFds \union WriteFds
  BY DEF Inv, Named, ListenFds
<1>2. QED
  BY <1>1 DEF Readable, ClientFds, ReadFds

(* Select keeps the invariant.                                              *)
LEMMA SelectStep ==
  ASSUME Inv, Select
  PROVE  Inv'
<1>1. /\ pc = "select" /\ pc' = "accept" /\ i' = 1 /\ rs' = Readable /\ rs' # {}
      /\ s' = Cardinality(rs')
      /\ UNCHANGED <<conn, proc, fds, lsocket, clinfo, dvrinfo, k, batch, reader, aired,
                     mishaps>>
  BY DEF Select, Count, peers, tables, relay
<1>2. rs' \subseteq fds /\ s' \in Nat
  BY <1>1, ReadableOpen, FdsCounted, FS_Subset, FS_CardinalityType
<1>3. TypeOK'
  BY <1>1, <1>2 DEF Inv, TypeOK
<1>4. DriversNamed' /\ Separate' /\ Named' /\ Active' = Active /\ Len(dvrinfo') <= Len(Argv)
  BY <1>1, TablesKept
<1>5. ClientsListed'
  BY <1>1, ListedKept
<1>6. Phases'
  BY <1>1, <1>2, <1>4 DEF Phases
<1>7. QED
  BY <1>3, <1>4, <1>5, <1>6 DEF Inv

(* NewClient puts an accepted client into an entry that was not active.     *)
LEMMA NewClientFacts ==
  ASSUME Inv, NewClient
  PROVE  /\ pc = "accept" /\ pc' = "clients" /\ s' = s - 1
         /\ UNCHANGED <<proc, lsocket, dvrinfo, rs, i, k, batch, reader, aired, mishaps>>
         /\ clinfo' \in Seq(ClientEntries) /\ Len(clinfo) <= Len(clinfo')
         /\ \A e \in Active : clinfo'[e] = clinfo[e]
         /\ conn' \in [Conns -> Connections]
         /\ \E c \in Conns, fd \in Fds \ fds, y \in DOMAIN clinfo' :
              /\ conn[c].st = "calling" /\ fds' = fds \union {fd}
              /\ y \notin Active /\ Active' = Active \union {y}
              /\ clinfo'[y].s = fd /\ clinfo'[y].conn = c
              /\ conn'[c] = [conn[c] EXCEPT !.st = "open", !.since = Len(aired)]
              /\ \A z \in Conns : z # c => conn'[z] = conn[z]
<1> DEFINE fd == FreeFd(fds, 1)
<1>1. PICK c \in Conns :
        /\ conn[c].st = "calling"
        /\ conn' = [conn EXCEPT ![c].st = "open", ![c].since = Len(aired)]
        /\ clinfo' = PutClient(NewEntry(c, fd))
  BY DEF NewClient
<1>2. /\ pc = "accept" /\ pc' = "clients" /\ fds' = fds \union {fd} /\ s' = s - 1
      /\ UNCHANGED <<proc, lsocket, dvrinfo, rs, i, k, batch, reader, aired, mishaps>>
  BY DEF NewClient, relay
<1>3. fd \in Fds \ fds
  <2>1. /\ Cardinality(fds) = 1 + Cardinality(Active) + 2 * Len(dvrinfo)
        /\ fds \in SUBSET Fds /\ Len(dvrinfo) \in Nat /\ Cardinality(Active) \in Nat
        /\ Cardinality(Active) + 1 <= Cardinality(Conns)
        /\ Len(dvrinfo) <= Len(Argv)
    BY <1>1, <1>2, FdsCounted, TablesFinite, ClientsCounted DEF Inv, TypeOK, Phases
  <2>2. Cardinality(fds) + 1 <= Cardinality(Fds)
    BY <2>1, ArgvFacts
  <2>3. QED
    BY <2>1, <2>2, FreeFdIsFree
<1> DEFINE x == NewEntry(c, fd)
<1>4. x \in ClientEntries /\ x.active /\ x.s = fd /\ x.conn = c
  BY <1>3 DEF NewEntry, ClientEntries
<1> HIDE DEF fd, x
<1>5. /\ clinfo' \in Seq(ClientEntries) /\ Len(clinfo) <= Len(clinfo')
      /\ \A e \in Active : clinfo'[e] = clinfo[e]
  BY <1>1, <1>4, PutClientFacts DEF Inv, x
<1>6. PICK y \in DOMAIN clinfo' : y \notin Active /\ clinfo'[y] = x /\ Active' = Active \union {y}
  BY <1>1, <1>4, PutClientFacts DEF Inv, x
<1>7. /\ conn' \in [Conns -> Connections]
      /\ conn'[c] = [conn[c] EXCEPT !.st = "open", !.since = Len(aired)]
      /\ \A z \in Conns : z # c => conn'[z] = conn[z]
  <2>1. conn[c] \in Connections /\ conn \in [Conns -> Connections] /\ aired \in Seq(Messages)
    BY DEF Inv, TypeOK
  <2>2. Len(aired) \in Nat
    BY <2>1, LenProperties
  <2> DEFINE w == [conn[c] EXCEPT !.st = "open", !.since = Len(aired)]
  <2>3. w \in Connections
    BY <2>1, <2>2 DEF Connections
  <2>4. conn' = [conn EXCEPT ![c] = w]
    BY <1>1, <2>1 DEF Connections
  <2> HIDE DEF w
  <2>5. /\ conn' \in [Conns -> Connections] /\ conn'[c] = w
        /\ \A z \in Conns : z # c => conn'[z] = conn[z]
    BY <2>1, <2>3, <2>4
  <2>6. QED
    BY <2>5 DEF w
<1>8. clinfo'[y].s = fd /\ clinfo'[y].conn = c
  BY <1>4, <1>6
<1>9. fds' = fds \union {fd}
  BY <1>2
<1>10. QED
  BY <1>1, <1>2, <1>3, <1>5, <1>6, <1>7, <1>8, <1>9

(* NewClient keeps the invariant: the descriptor is in no table yet.        *)
LEMMA NewClientStep ==
  ASSUME Inv, NewClient
  PROVE  Inv'
<1>2. /\ pc = "accept" /\ pc' = "clients" /\ s' = s - 1
      /\ UNCHANGED <<proc, lsocket, dvrinfo, rs, i, k, batch, reader, aired, mishaps>>
  BY NewClientFacts
<1>5. /\ clinfo' \in Seq(ClientEntries) /\ Len(clinfo) <= Len(clinfo')
      /\ \A e \in Active : clinfo'[e] = clinfo[e]
  BY NewClientFacts
<1>1. PICK c \in Conns, fd \in Fds \ fds, y \in DOMAIN clinfo' :
        /\ conn[c].st = "calling" /\ fds' = fds \union {fd}
        /\ y \notin Active /\ Active' = Active \union {y}
        /\ clinfo'[y].s = fd /\ clinfo'[y].conn = c
        /\ conn'[c] = [conn[c] EXCEPT !.st = "open", !.since = Len(aired)]
        /\ \A z \in Conns : z # c => conn'[z] = conn[z]
  BY NewClientFacts
<1>3. conn[c] \in Connections
  BY DEF Inv, TypeOK
<1>7. /\ conn' \in [Conns -> Connections] /\ conn'[c].st = "open"
      /\ \A z \in Conns : z # c => conn'[z] = conn[z]
  BY <1>1, <1>3, NewClientFacts DEF Connections
<1>4. \A e \in Active : e # y
  BY <1>1
<1>8. s' \in Nat
  <2>1. s = Cardinality(rs) /\ IsFiniteSet(rs) /\ rs # {}
    BY <1>2, FdsCounted, FS_Subset DEF Inv, Phases
  <2>2. Cardinality(rs) \in Nat /\ Cardinality(rs) # 0
    BY <2>1, FS_EmptySet, FS_CardinalityType
  <2>3. QED
    BY <1>2, <2>1, <2>2
<1>9. TypeOK'
  <2>1. reader \in 0 .. Len(clinfo')
    BY <1>5, TablesFinite, LenProperties DEF Inv, TypeOK
  <2>2. QED
    BY <1>1, <1>2, <1>5, <1>7, <1>8, <2>1 DEF Inv, TypeOK
<1>10. Phases' /\ DriversNamed'
  BY <1>2 DEF Inv, Phases, DriversNamed
<1>11. ClientsListed'
  <2>1. /\ \A e \in Active : conn[clinfo[e].conn].st = "open" /\ clinfo[e].conn \in Conns
        /\ \A e, f \in Active : clinfo[e].conn = clinfo[f].conn => e = f
        /\ \A z \in Conns : conn[z].st = "open" => \E e \in Active : clinfo[e].conn = z
    BY TablesFinite DEF Inv, ClientsListed, ClientEntries
  <2>2. \A e \in Active : clinfo[e].conn # c
    BY <1>1, <2>1
  <2>3. \A e \in Active' : conn'[clinfo'[e].conn].st = "open"
    <3>1. \A e \in Active : conn'[clinfo'[e].conn].st = "open"
      BY <1>5, <1>7, <2>1, <2>2
    <3>2. conn'[clinfo'[y].conn].st = "open"
      BY <1>1, <1>7
    <3>3. QED
      BY <1>1, <3>1, <3>2
  <2>4. \A e, f \in Active' : clinfo'[e].conn = clinfo'[f].conn => e = f
    BY <1>1, <1>4, <1>5, <2>1, <2>2
  <2>5. \A z \in Conns : conn'[z].st = "open" => \E e \in Active' : clinfo'[e].conn = z
    BY <1>1, <1>4, <1>5, <1>7, <2>1
  <2>6. QED
    BY <2>3, <2>4, <2>5 DEF ClientsListed
<1>12. /\ ListenFds = {lsocket} /\ ListenFds' = {lsocket}
       /\ fds = {lsocket} \union ClientFds \union ReadFds \union WriteFds
  BY <1>2 DEF Inv, Named, ListenFds
<1>13. Separate'
  <2>1. /\ lsocket # fd /\ \A e \in Active : clinfo[e].s # fd
        /\ \A d \in DOMAIN dvrinfo : dvrinfo[d].rfd # fd /\ dvrinfo[d].wfd # fd
    BY <1>1, <1>12 DEF ClientFds, ReadFds, WriteFds
  <2>2. QED
    BY <1>1, <1>2, <1>4, <1>5, <2>1 DEF Inv, Separate
<1>14. Named'
  <2>1. ReadFds' = ReadFds /\ WriteFds' = WriteFds
    BY <1>2 DEF ReadFds, WriteFds
  <2>2. ClientFds' = ClientFds \union {fd}
    BY <1>1, <1>4, <1>5 DEF ClientFds
  <2>3. QED
    BY <1>1, <1>2, <1>12, <2>1, <2>2 DEF Named
<1>15. QED
  BY <1>9, <1>10, <1>11, <1>13, <1>14 DEF Inv

(* NoNewClient keeps the invariant.                                         *)
LEMMA NoNewClientStep ==
  ASSUME Inv, NoNewClient
  PROVE  Inv'
<1>1. /\ pc = "accept" /\ pc' = "clients"
      /\ UNCHANGED <<conn, proc, fds, lsocket, clinfo, dvrinfo, rs, s, i, k, batch, reader,
                     aired, mishaps>>
  BY DEF NoNewClient, peers, tables, loop, relay
<1>2. TypeOK'
  BY <1>1 DEF Inv, TypeOK
<1>3. DriversNamed' /\ Separate' /\ Named' /\ Active' = Active /\ Len(dvrinfo') <= Len(Argv)
  BY <1>1, TablesKept
<1>4. ClientsListed'
  BY <1>1, ListedKept
<1>5. Phases'
  BY <1>1, <1>3 DEF Phases
<1>6. QED
  BY <1>2, <1>3, <1>4, <1>5 DEF Inv

(* What a read takes of what was written, and what it leaves.               *)
LEMMA ReadTakes ==
  ASSUME NEW q \in Seq(Messages), NEW n \in 1 .. Len(q)
  PROVE  /\ SubSeq(q, 1, n) \in Seq(Messages) /\ SubSeq(q, 1, n) # <<>>
         /\ Len(SubSeq(q, 1, n)) = n
         /\ \A x \in 1 .. n : SubSeq(q, 1, n)[x] = q[x]
         /\ Unread(q, n) \in Seq(Messages) /\ Len(Unread(q, n)) = Len(q) - n
         /\ \A x \in 1 .. Len(q) - n : Unread(q, n)[x] = q[n + x]
<1>1. Len(q) \in Nat
  BY LenProperties
<1>2. /\ SubSeq(q, 1, n) \in Seq(Messages) /\ Len(SubSeq(q, 1, n)) = n
      /\ \A x \in 1 .. n : SubSeq(q, 1, n)[x] = q[x]
  BY <1>1, SubSeqProperties
<1>3. SubSeq(q, 1, n) # <<>>
  <2> DEFINE r == SubSeq(q, 1, n)
  <2>1. Len(r) = n
    BY <1>2
  <2> HIDE DEF r
  <2>2. Len(<<>>) = 0 /\ n # 0
    BY <1>1
  <2>3. QED
    BY <2>1, <2>2 DEF r
<1>4. /\ SubSeq(q, n + 1, Len(q)) \in Seq(Messages)
      /\ Len(SubSeq(q, n + 1, Len(q))) = Len(q) - n
      /\ \A x \in 1 .. Len(q) - n : SubSeq(q, n + 1, Len(q))[x] = q[n + x]
  BY <1>1, SubSeqProperties
<1>5. QED
  BY <1>2, <1>3, <1>4 DEF Unread, Drop

(* The client read next is in the table, and the first of those left.       *)
LEMMA ToReadFacts ==
  ASSUME TypeOK, ToRead # {}
  PROVE  /\ Least(ToRead) \in Active /\ Least(ToRead) \in i .. Len(clinfo)
         /\ clinfo[Least(ToRead)].s \in rs /\ clinfo[Least(ToRead)].conn \in Conns
         /\ Least(ToRead) \in Nat \ {0} /\ Least(ToRead) \in 0 .. Len(clinfo)
         /\ \A e \in Active : e >= i /\ clinfo[e].s \in rs => Least(ToRead) <= e
<1>1. /\ DOMAIN clinfo = 1 .. Len(clinfo) /\ Len(clinfo) \in Nat /\ i \in Nat \ {0}
      /\ \A e \in DOMAIN clinfo : clinfo[e].conn \in Conns
  BY TablesFinite DEF TypeOK, ClientEntries
<1>2. ToRead \in SUBSET Nat
  BY <1>1 DEF ToRead
<1>3. Least(ToRead) \in ToRead /\ \A y \in ToRead : Least(ToRead) <= y
  BY <1>2, LeastOf
<1>4. \A e \in ToRead : e \in Active /\ e \in i .. Len(clinfo) /\ clinfo[e].s \in rs
  BY <1>1 DEF ToRead, Active
<1>5. \A e \in Active : e >= i /\ clinfo[e].s \in rs => e \in ToRead
  BY <1>1 DEF ToRead, Active
<1>6. QED
  BY <1>1, <1>3, <1>4, <1>5 DEF Active

(* The driver heard next is in the table.                                   *)
LEMMA ToHearFacts ==
  ASSUME TypeOK, ToHear # {}
  PROVE  /\ Least(ToHear) \in DOMAIN dvrinfo /\ Least(ToHear) \in Nat \ {0}
         /\ dvrinfo[Least(ToHear)].pid \in DOMAIN proc
<1>1. DOMAIN dvrinfo = 1 .. Len(dvrinfo) /\ Len(dvrinfo) \in Nat /\ i \in Nat \ {0}
  BY TablesFinite DEF TypeOK
<1>2. ToHear \in SUBSET Nat /\ ToHear \subseteq DOMAIN dvrinfo
  BY <1>1 DEF ToHear
<1>3. Least(ToHear) \in ToHear
  BY <1>2, LeastOf
<1>4. Least(ToHear) \in DOMAIN dvrinfo
  BY <1>2, <1>3
<1>5. Least(ToHear) \in Nat \ {0}
  BY <1>1, <1>4
<1>6. QED
  BY <1>4, <1>5 DEF TypeOK

(* What ReadClient changes.                                                 *)
LEMMA ReadClientFacts ==
  ASSUME Inv, ReadClient
  PROVE  LET e == Least(ToRead)
             c == clinfo[e].conn
         IN  /\ pc = "clients" /\ pc' = "relay" /\ reader' = e /\ s' = s - 1 /\ s' \in Nat
             /\ i' = e + 1
             /\ UNCHANGED <<proc, fds, lsocket, clinfo, dvrinfo, rs, k, aired, mishaps>>
             /\ \E n \in 1 .. Len(conn[c].out) :
                  /\ batch' = SubSeq(conn[c].out, 1, n)
                  /\ conn' \in [Conns -> Connections]
                  /\ conn'[c] = [conn[c] EXCEPT !.out = Unread(conn[c].out, n)]
                  /\ \A z \in Conns : z # c => conn'[z] = conn[z]
<1> DEFINE e == Least(ToRead)
           c == clinfo[e].conn
<1>1. /\ pc = "clients" /\ pc' = "relay" /\ reader' = e /\ s' = s - 1 /\ s > 0
      /\ i' = e + 1 /\ ToRead # {}
      /\ UNCHANGED <<proc, fds, lsocket, clinfo, dvrinfo, rs, k, aired, mishaps>>
  BY DEF ReadClient, tables
<1>2. PICK n \in 1 .. Len(conn[c].out) :
        /\ batch' = SubSeq(conn[c].out, 1, n)
        /\ conn' = [conn EXCEPT ![c].out = Unread(@, n)]
  BY DEF ReadClient
<1>3. conn \in [Conns -> Connections] /\ s \in Nat /\ c \in Conns
  BY <1>1, ToReadFacts DEF Inv, TypeOK
<1> HIDE DEF c
<1> DEFINE q == Unread(conn[c].out, n)
           w == [conn[c] EXCEPT !.out = q]
<1>4. conn[c] \in Connections /\ conn[c].out \in Seq(Messages)
  BY <1>3 DEF Connections
<1>5. q \in Seq(Messages)
  BY <1>4, ReadTakes
<1> HIDE DEF q
<1>6. w \in Connections
  BY <1>4, <1>5 DEF Connections
<1>7. conn' = [conn EXCEPT ![c] = w]
  BY <1>2, <1>3, <1>4 DEF q
<1> HIDE DEF w
<1>8. /\ conn' \in [Conns -> Connections] /\ conn'[c] = w
      /\ \A z \in Conns : z # c => conn'[z] = conn[z]
  BY <1>3, <1>6, <1>7
<1>9. w = [conn[c] EXCEPT !.out = Unread(conn[c].out, n)]
  BY DEF w, q
<1>10. \E z \in 1 .. Len(conn[c].out) :
         /\ batch' = SubSeq(conn[c].out, 1, z)
         /\ conn' \in [Conns -> Connections]
         /\ conn'[c] = [conn[c] EXCEPT !.out = Unread(conn[c].out, z)]
         /\ \A x \in Conns : x # c => conn'[x] = conn[x]
  BY <1>2, <1>8, <1>9
<1>11. s' \in Nat
  BY <1>1, <1>3
<1>12. QED
  BY <1>1, <1>10, <1>11 DEF c

(* ReadClient keeps the invariant.                                          *)
LEMMA ReadClientStep ==
  ASSUME Inv, ReadClient
  PROVE  Inv'
<1> DEFINE e == Least(ToRead)
           c == clinfo[e].conn
<1>1. /\ pc = "clients" /\ pc' = "relay" /\ reader' = e /\ s' = s - 1 /\ s' \in Nat
      /\ i' = e + 1
      /\ UNCHANGED <<proc, fds, lsocket, clinfo, dvrinfo, rs, k, aired, mishaps>>
  BY ReadClientFacts
<1>2. PICK n \in 1 .. Len(conn[c].out) :
        /\ batch' = SubSeq(conn[c].out, 1, n)
        /\ conn' \in [Conns -> Connections]
        /\ conn'[c] = [conn[c] EXCEPT !.out = Unread(conn[c].out, n)]
        /\ \A z \in Conns : z # c => conn'[z] = conn[z]
  BY ReadClientFacts
<1>3. /\ e \in Active /\ e \in Nat \ {0} /\ e \in 0 .. Len(clinfo) /\ c \in Conns
  BY ToReadFacts DEF Inv, ReadClient
<1>4. conn[c] \in Connections /\ conn[c].out \in Seq(Messages)
  BY <1>3 DEF Inv, TypeOK, Connections
<1>5. batch' \in Seq(Messages) /\ batch' # <<>>
  BY <1>2, <1>4, ReadTakes
<1>6. \A z \in Conns : conn'[z].st = conn[z].st
  BY <1>2, <1>4 DEF Connections
<1> HIDE DEF e, c
<1>7. i' \in Nat \ {0} /\ reader' \in 0 .. Len(clinfo')
  BY <1>1, <1>3 DEF e
<1>8. TypeOK'
  BY <1>1, <1>2, <1>5, <1>7 DEF Inv, TypeOK
<1>9. DriversNamed' /\ Separate' /\ Named' /\ Active' = Active /\ Len(dvrinfo') <= Len(Argv)
  BY <1>1, TablesKept
<1>10. ClientsListed'
  BY <1>1, <1>6, ListedKept
<1>11. Phases'
  BY <1>1, <1>3, <1>5, <1>9 DEF Phases
<1>12. QED
  BY <1>8, <1>9, <1>10, <1>11 DEF Inv

(* What ReadClientFails changes: one entry is closed with its descriptor.   *)
LEMMA ReadClientFailsFacts ==
  ASSUME Inv, ReadClientFails
  PROVE  LET e == Least(ToRead)
             c == clinfo[e].conn
         IN  /\ pc = "clients" /\ pc' = pc /\ s' = s - 1 /\ s > 0 /\ i' = e + 1
             /\ fds' = fds \ {clinfo[e].s}
             /\ UNCHANGED <<proc, lsocket, dvrinfo, rs, k, batch, reader, aired, mishaps>>
             /\ e \in Active /\ e \in Nat \ {0} /\ e \in DOMAIN clinfo /\ c \in Conns
             /\ conn[c].peer = "gone" \/ conn[c].out = <<>>
             /\ clinfo' \in Seq(ClientEntries) /\ Len(clinfo') = Len(clinfo)
             /\ DOMAIN clinfo' = DOMAIN clinfo
             /\ \A g \in DOMAIN clinfo : g # e => clinfo'[g] = clinfo[g]
             /\ Active' = Active \ {e}
             /\ conn' \in [Conns -> Connections]
             /\ conn'[c] = [conn[c] EXCEPT !.st = "closed"]
             /\ \A z \in Conns : z # c => conn'[z] = conn[z]
<1> DEFINE e == Least(ToRead)
           c == clinfo[e].conn
<1>1. /\ pc = "clients" /\ pc' = pc /\ s' = s - 1 /\ s > 0 /\ i' = e + 1
      /\ conn' = [conn EXCEPT ![c].st = "closed"]
      /\ clinfo' = [clinfo EXCEPT ![e] = ClosedEntry(clinfo[e])]
      /\ fds' = fds \ {clinfo[e].s}
      /\ conn[c].peer = "gone" \/ conn[c].out = <<>>
      /\ UNCHANGED <<proc, lsocket, dvrinfo, rs, k, batch, reader, aired, mishaps>>
  <2>1. ToRead # {} /\ e \in Active /\ c \in Conns
    BY ToReadFacts DEF Inv, ReadClientFails
  <2>2. QED
    BY <2>1, TablesFinite DEF ReadClientFails, relay, Inv
<1>2. /\ e \in Active /\ e \in Nat \ {0} /\ e \in DOMAIN clinfo /\ c \in Conns
      /\ \A g \in DOMAIN clinfo : clinfo[g] \in ClientEntries /\ clinfo[g].conn \in Conns
      /\ clinfo \in Seq(ClientEntries) /\ conn \in [Conns -> Connections] /\ s \in Nat
      /\ Active \subseteq DOMAIN clinfo
  BY ToReadFacts, TablesFinite DEF Inv, ReadClientFails, TypeOK, ClientEntries
<1>3. /\ ClosedEntry(clinfo[e]) \in ClientEntries /\ ~ClosedEntry(clinfo[e]).active
  BY <1>2 DEF ClosedEntry, ClientEntries
<1> HIDE DEF e
<1>4. /\ clinfo' \in Seq(ClientEntries) /\ Len(clinfo') = Len(clinfo)
      /\ DOMAIN clinfo' = DOMAIN clinfo
      /\ \A g \in DOMAIN clinfo : g # e => clinfo'[g] = clinfo[g]
      /\ ~clinfo'[e].active
  BY <1>1, <1>2, <1>3, ExceptSeq
<1>5. Active' = Active \ {e}
  BY <1>2, <1>4 DEF Active
<1>6. /\ conn' \in [Conns -> Connections] /\ conn'[c] = [conn[c] EXCEPT !.st = "closed"]
      /\ \A z \in Conns : z # c => conn'[z] = conn[z]
  <2> DEFINE w == [conn[c] EXCEPT !.st = "closed"]
  <2>1. w \in Connections
    BY <1>2 DEF Connections
  <2>2. conn' = [conn EXCEPT ![c] = w]
    BY <1>1, <1>2
  <2> HIDE DEF w
  <2>3. /\ conn' \in [Conns -> Connections] /\ conn'[c] = w
        /\ \A z \in Conns : z # c => conn'[z] = conn[z]
    BY <1>2, <2>1, <2>2
  <2>4. QED
    BY <2>3 DEF w
<1>7. QED
  BY <1>1, <1>2, <1>4, <1>5, <1>6 DEF e

(* ReadClientFails keeps the invariant.                                     *)
LEMMA ReadClientFailsStep ==
  ASSUME Inv, ReadClientFails
  PROVE  Inv'
<1> DEFINE e == Least(ToRead)
           c == clinfo[e].conn
<1>1. /\ pc = "clients" /\ pc' = pc /\ s' = s - 1 /\ s > 0 /\ i' = e + 1
      /\ fds' = fds \ {clinfo[e].s}
      /\ UNCHANGED <<proc, lsocket, dvrinfo, rs, k, batch, reader, aired, mishaps>>
  BY ReadClientFailsFacts
<1>2. /\ e \in Active /\ e \in Nat \ {0} /\ e \in DOMAIN clinfo /\ c \in Conns
      /\ \A g \in DOMAIN clinfo : clinfo[g].conn \in Conns
      /\ s \in Nat /\ Active \subseteq DOMAIN clinfo /\ conn[c] \in Connections
  BY ReadClientFailsFacts, TablesFinite DEF Inv, TypeOK, ClientEntries
<1>4. /\ clinfo' \in Seq(ClientEntries) /\ Len(clinfo') = Len(clinfo)
      /\ DOMAIN clinfo' = DOMAIN clinfo
      /\ \A g \in DOMAIN clinfo : g # e => clinfo'[g] = clinfo[g]
  BY ReadClientFailsFacts
<1>5. Active' = Active \ {e}
  BY ReadClientFailsFacts
<1>6. /\ conn' \in [Conns -> Connections] /\ conn'[c].st = "closed"
      /\ \A z \in Conns : z # c => conn'[z] = conn[z]
  BY <1>2, ReadClientFailsFacts DEF Connections
<1> HIDE DEF e
<1>7. TypeOK'
  BY <1>1, <1>2, <1>4, <1>6 DEF Inv, TypeOK
<1>8. Phases' /\ DriversNamed'
  BY <1>1 DEF Inv, Phases, DriversNamed
<1>9. ClientsListed'
  <2>1. /\ \A g \in Active : conn[clinfo[g].conn].st = "open"
        /\ \A g, f \in Active : clinfo[g].conn = clinfo[f].conn => g = f
        /\ \A z \in Conns : conn[z].st = "open" => \E g \in Active : clinfo[g].conn = z
    BY DEF Inv, ClientsListed
  <2>2. \A g \in Active' : /\ g # e /\ clinfo'[g] = clinfo[g] /\ clinfo[g].conn \in Conns
                           /\ clinfo[g].conn # c
    BY <1>2, <1>4, <1>5, <2>1
  <2>3. \A z \in Conns : conn'[z].st = "open" => z # c /\ conn[z].st = "open"
    BY <1>6
  <2>4. QED
    BY <1>5, <1>6, <2>1, <2>2, <2>3 DEF ClientsListed
<1>10. Separate'
  BY <1>1, <1>2, <1>4, <1>5 DEF Inv, Separate
<1>11. Named'
  <2>1. /\ ListenFds' = {lsocket} /\ ListenFds = {lsocket}
        /\ ReadFds' = ReadFds /\ WriteFds' = WriteFds
        /\ ClientFds = ClientFds' \union {clinfo[e].s}
    BY <1>1, <1>2, <1>4, <1>5 DEF ListenFds, ReadFds, WriteFds, ClientFds
  <2>2. fds = {lsocket} \union ClientFds \union ReadFds \union WriteFds
    BY <1>1, <2>1 DEF Inv, Named
  <2>3. /\ clinfo[e].s # lsocket /\ clinfo[e].s \notin ReadFds
        /\ clinfo[e].s \notin WriteFds /\ clinfo[e].s \notin ClientFds'
    BY <1>1, <1>2, <1>4, <1>5 DEF Inv, Separate, ReadFds, WriteFds, ClientFds
  <2>4. QED
    BY <1>1, <2>1, <2>2, <2>3 DEF Named
<1>12. QED
  BY <1>7, <1>8, <1>9, <1>10, <1>11 DEF Inv

(* The ends of both loops of indiRun() keep the invariant.                  *)
LEMMA LoopDoneStep ==
  ASSUME Inv, ClientsDone \/ DriversDone
  PROVE  Inv'
<1>1. /\ pc \in {"clients", "drivers"} /\ pc' \in {"drivers", "select"} /\ i' = 1
      /\ s' \in {s, 0}
      /\ UNCHANGED <<conn, proc, fds, lsocket, clinfo, dvrinfo, rs, k, batch, reader,
                     aired, mishaps>>
  BY DEF ClientsDone, DriversDone, peers, tables, relay
<1>2. TypeOK'
  BY <1>1 DEF Inv, TypeOK
<1>3. DriversNamed' /\ Separate' /\ Named' /\ Active' = Active /\ Len(dvrinfo') <= Len(Argv)
  BY <1>1, TablesKept
<1>4. ClientsListed'
  BY <1>1, ListedKept
<1>5. Phases'
  BY <1>1, <1>3 DEF Phases
<1>6. QED
  BY <1>2, <1>3, <1>4, <1>5 DEF Inv

(* What ReadDriver changes.                                                 *)
LEMMA ReadDriverFacts ==
  ASSUME Inv, ReadDriver
  PROVE  LET p == dvrinfo[Least(ToHear)].pid
         IN  /\ pc = "drivers" /\ pc' = "relay" /\ reader' = 0 /\ s' = s - 1 /\ s' \in Nat
             /\ i' = Least(ToHear) + 1
             /\ UNCHANGED <<conn, fds, lsocket, clinfo, dvrinfo, rs, k, aired, mishaps>>
             /\ \E n \in 1 .. Len(proc[p].out) :
                  /\ batch' = SubSeq(proc[p].out, 1, n)
                  /\ proc' \in Seq(Processes) /\ Len(proc') = Len(proc)
                  /\ DOMAIN proc' = DOMAIN proc
                  /\ proc'[p] = [proc[p] EXCEPT !.out = Unread(proc[p].out, n)]
                  /\ \A z \in DOMAIN proc : z # p => proc'[z] = proc[z]
<1> DEFINE p == dvrinfo[Least(ToHear)].pid
<1>1. /\ pc = "drivers" /\ pc' = "relay" /\ reader' = 0 /\ s' = s - 1 /\ s > 0
      /\ i' = Least(ToHear) + 1 /\ ToHear # {}
      /\ UNCHANGED <<conn, fds, lsocket, clinfo, dvrinfo, rs, k, aired, mishaps>>
  BY DEF ReadDriver, tables
<1>2. PICK n \in 1 .. Len(proc[p].out) :
        /\ batch' = SubSeq(proc[p].out, 1, n)
        /\ proc' = [proc EXCEPT ![p].out = Unread(@, n)]
  BY DEF ReadDriver
<1>3. proc \in Seq(Processes) /\ s \in Nat /\ p \in DOMAIN proc
  BY <1>1, ToHearFacts DEF Inv, TypeOK
<1> HIDE DEF p
<1> DEFINE q == Unread(proc[p].out, n)
           w == [proc[p] EXCEPT !.out = q]
<1>4. proc[p] \in Processes /\ proc[p].out \in Seq(Messages)
  BY <1>3, TablesFinite DEF Inv, Processes
<1>5. q \in Seq(Messages)
  BY <1>4, ReadTakes
<1> HIDE DEF q
<1>6. w \in Processes
  BY <1>4, <1>5 DEF Processes
<1>7. proc' = [proc EXCEPT ![p] = w]
  BY <1>2, <1>3, <1>4 DEF q
<1> HIDE DEF w
<1>8. /\ proc' \in Seq(Processes) /\ Len(proc') = Len(proc) /\ DOMAIN proc' = DOMAIN proc
  BY <1>3, <1>6, <1>7, ExceptSeq, TablesFinite DEF Inv
<1>9. proc'[p] = w /\ \A z \in DOMAIN proc : z # p => proc'[z] = proc[z]
  BY <1>3, <1>7
<1>10. w = [proc[p] EXCEPT !.out = Unread(proc[p].out, n)]
  BY DEF w, q
<1>11. \E z \in 1 .. Len(proc[p].out) :
         /\ batch' = SubSeq(proc[p].out, 1, z)
         /\ proc' \in Seq(Processes) /\ Len(proc') = Len(proc)
         /\ DOMAIN proc' = DOMAIN proc
         /\ proc'[p] = [proc[p] EXCEPT !.out = Unread(proc[p].out, z)]
         /\ \A x \in DOMAIN proc : x # p => proc'[x] = proc[x]
  BY <1>2, <1>8, <1>9, <1>10
<1>12. s' \in Nat
  BY <1>1, <1>3
<1>13. QED
  BY <1>1, <1>11, <1>12 DEF p

(* ReadDriver keeps the invariant.                                          *)
LEMMA ReadDriverStep ==
  ASSUME Inv, ReadDriver
  PROVE  Inv'
<1> DEFINE d == Least(ToHear)
           p == dvrinfo[d].pid
<1>1. /\ pc = "drivers" /\ pc' = "relay" /\ reader' = 0 /\ s' = s - 1 /\ s' \in Nat
      /\ i' = d + 1
      /\ UNCHANGED <<conn, fds, lsocket, clinfo, dvrinfo, rs, k, aired, mishaps>>
  BY ReadDriverFacts
<1>2. PICK n \in 1 .. Len(proc[p].out) :
        /\ batch' = SubSeq(proc[p].out, 1, n)
        /\ proc' \in Seq(Processes) /\ DOMAIN proc' = DOMAIN proc
  BY ReadDriverFacts
<1>3. d \in Nat \ {0} /\ p \in DOMAIN proc
  BY ToHearFacts DEF Inv, ReadDriver
<1>4. proc[p].out \in Seq(Messages)
  BY <1>3, TablesFinite DEF Inv, Processes
<1>5. batch' \in Seq(Messages) /\ batch' # <<>>
  BY <1>2, <1>4, ReadTakes
<1> HIDE DEF d, p
<1>6. TypeOK'
  BY <1>1, <1>2, <1>3, <1>5, TablesFinite DEF Inv, TypeOK
<1>7. DriversNamed' /\ Separate' /\ Named' /\ Active' = Active /\ Len(dvrinfo') <= Len(Argv)
  BY <1>1, TablesKept
<1>8. ClientsListed'
  BY <1>1, ListedKept
<1>9. Phases'
  BY <1>1, <1>5, <1>7 DEF Phases
<1>10. QED
  BY <1>6, <1>7, <1>8, <1>9 DEF Inv

(* ReadDriverFails keeps the invariant.                                     *)
LEMMA ReadDriverFailsStep ==
  ASSUME Inv, ReadDriverFails
  PROVE  Inv'
<1> DEFINE d == Least(ToHear)
<1>1. /\ pc = "drivers" /\ RestartDvr(d, "drivers") /\ i' = d + 1 /\ s' = s - 1 /\ s > 0
      /\ ToHear # {}
      /\ UNCHANGED <<conn, lsocket, clinfo, rs, k, batch, reader, aired, mishaps>>
  BY DEF ReadDriverFails, relay
<1>2. d \in DOMAIN dvrinfo /\ d \in Nat \ {0} /\ s \in Nat
  BY <1>1, ToHearFacts DEF Inv, TypeOK
<1> HIDE DEF d
<1>3. /\ pc' \in {"drivers", "exit"}
      /\ fds' \subseteq Fds /\ proc' \in Seq(Processes)
      /\ dvrinfo' \in Seq(DriverEntries) /\ DOMAIN dvrinfo' = DOMAIN dvrinfo
      /\ Len(dvrinfo') = Len(dvrinfo)
      /\ \A g \in DOMAIN dvrinfo : /\ dvrinfo'[g].name = dvrinfo[g].name
                                   /\ dvrinfo'[g].pid \in DOMAIN proc'
  BY <1>1, <1>2, RestartTypes
<1>4. TypeOK'
  BY <1>1, <1>2, <1>3 DEF Inv, TypeOK
<1>5. Phases' /\ DriversNamed' /\ ClientsListed'
  BY <1>1, <1>3 DEF Inv, Phases, DriversNamed, ClientsListed, Active
<1>6. Separate' /\ Named'
  BY <1>1, <1>2, RestartSeparate
<1>7. QED
  BY <1>4, <1>5, <1>6 DEF Inv

(* RelayFromDriver keeps the invariant.                                     *)
LEMMA RelayFromDriverStep ==
  ASSUME Inv, RelayFromDriver
  PROVE  Inv'
<1> DEFINE m == Head(batch)
<1>1. /\ pc = "relay" /\ reader = 0 /\ Air(m) /\ NextMessage
      /\ UNCHANGED <<proc, lsocket, dvrinfo, rs, s, i, mishaps>>
  BY DEF RelayFromDriver, loop
<1>2. m \in Messages /\ batch # <<>>
  BY <1>1, BatchFacts DEF Inv, Phases
<1>3. /\ batch' \in Seq(Messages) /\ k' = 1 /\ reader' = 0
      /\ (pc' = "relay" /\ batch' # <<>>) \/ pc' = "drivers"
  BY <1>1, <1>2, NextMessageFacts DEF Inv
<1> HIDE DEF m
<1>4. /\ conn' \in [Conns -> Connections] /\ aired' \in Seq(Messages)
      /\ clinfo' \in Seq(ClientEntries) /\ Len(clinfo') = Len(clinfo)
  BY <1>1, <1>2, AirFacts DEF Inv
<1>5. ClientsListed' /\ Separate' /\ Named' /\ fds' \subseteq Fds
  BY <1>1, <1>2, <1>3, AirKeeps
<1>6. TypeOK'
  BY <1>1, <1>3, <1>4, <1>5, LenProperties DEF Inv, TypeOK
<1>7. Phases' /\ DriversNamed'
  BY <1>1, <1>3 DEF Inv, Phases, DriversNamed
<1>8. QED
  BY <1>5, <1>6, <1>7 DEF Inv

(* RelayFromClient keeps the invariant: the client read from is not         *)
(* closed, being no part of the audience.                                   *)
LEMMA RelayFromClientStep ==
  ASSUME Inv, RelayFromClient
  PROVE  Inv'
<1> DEFINE m == Head(batch)
<1>1. /\ pc = "relay" /\ reader # 0 /\ pc' = "command"
      /\ UNCHANGED <<proc, lsocket, dvrinfo, rs, s, i, k, batch, reader, mishaps>>
      /\ Air(m) \/ UNCHANGED <<conn, clinfo, fds, aired>>
  BY DEF RelayFromClient, loop, relay
<1>2. m \in Messages /\ batch # <<>> /\ reader \in Active
  BY <1>1, BatchFacts DEF Inv, Phases
<1> HIDE DEF m
<1>3. CASE Air(m)
  <2>1. /\ conn' \in [Conns -> Connections] /\ aired' \in Seq(Messages)
        /\ clinfo' \in Seq(ClientEntries) /\ Len(clinfo') = Len(clinfo)
        /\ \E lost : Aired(m, lost) /\ Active' = Active \ lost
    BY <1>2, <1>3, AirFacts DEF Inv
  <2>2. ClientsListed' /\ Separate' /\ Named' /\ fds' \subseteq Fds
    BY <1>1, <1>2, <1>3, AirKeeps
  <2>3. TypeOK'
    BY <1>1, <2>1, <2>2 DEF Inv, TypeOK
  <2>4. reader \in Active'
    BY <1>2, <2>1 DEF Aired, Audience
  <2>5. Phases' /\ DriversNamed'
    BY <1>1, <1>2, <2>4 DEF Inv, Phases, DriversNamed
  <2>6. QED
    BY <2>2, <2>3, <2>5 DEF Inv
<1>4. CASE UNCHANGED <<conn, clinfo, fds, aired>>
  <2>1. TypeOK'
    BY <1>1, <1>4 DEF Inv, TypeOK
  <2>2. DriversNamed' /\ Separate' /\ Named' /\ Active' = Active /\ Len(dvrinfo') <= Len(Argv)
    BY <1>1, <1>4, TablesKept
  <2>3. ClientsListed'
    BY <1>4, ListedKept
  <2>4. Phases'
    BY <1>1, <1>2, <2>2 DEF Phases
  <2>5. QED
    BY <2>1, <2>2, <2>3, <2>4 DEF Inv
<1>5. QED
  BY <1>1, <1>3, <1>4

(* A command written to a driver that takes it.                             *)
LEMMA CommandTaken ==
  ASSUME Inv, Command, Takes(proc[dvrinfo[k].pid].peer)
  PROVE  LET p == dvrinfo[k].pid
         IN  /\ p \in DOMAIN proc /\ UNCHANGED <<fds, dvrinfo, pc>>
             /\ proc' \in Seq(Processes) /\ Len(proc') = Len(proc) /\ DOMAIN proc' = DOMAIN proc
             /\ proc'[p] = [proc[p] EXCEPT !.got = Append(proc[p].got, Head(batch))]
             /\ \A z \in DOMAIN proc : z # p => proc'[z] = proc[z]
<1> DEFINE p == dvrinfo[k].pid
<1>1. proc' = [proc EXCEPT ![p].got = Append(@, Head(batch))] /\ UNCHANGED <<fds, dvrinfo, pc>>
      /\ pc = "command" /\ k <= Len(dvrinfo)
  BY DEF Command
<1>2. k \in DOMAIN dvrinfo /\ proc \in Seq(Processes) /\ batch # <<>>
  BY <1>1, TablesFinite DEF Inv, TypeOK, Phases
<1>3. p \in DOMAIN proc /\ proc[p] \in Processes /\ proc[p].got \in Seq(Messages)
  BY <1>2, TablesFinite DEF Inv, TypeOK, Processes
<1>4. Head(batch) \in Messages
  BY <1>2, BatchFacts DEF Inv
<1> HIDE DEF p
<1> DEFINE q == Append(proc[p].got, Head(batch))
           w == [proc[p] EXCEPT !.got = q]
<1>5. q \in Seq(Messages)
  BY <1>3, <1>4, AppendProperties
<1>6. proc' = [proc EXCEPT ![p] = w]
  BY <1>1, <1>2, <1>3
<1> HIDE DEF q
<1>7. w \in Processes
  BY <1>3, <1>5 DEF Processes
<1> HIDE DEF w
<1>8. proc' \in Seq(Processes) /\ Len(proc') = Len(proc) /\ DOMAIN proc' = DOMAIN proc
  BY <1>2, <1>3, <1>6, <1>7, ExceptSeq, TablesFinite DEF Inv
<1>9. proc'[p] = w /\ \A z \in DOMAIN proc : z # p => proc'[z] = proc[z]
  BY <1>3, <1>6
<1>10. QED
  BY <1>1, <1>3, <1>8, <1>9 DEF p, q, w

(* Command keeps the invariant.                                             *)
LEMMA CommandStep ==
  ASSUME Inv, Command
  PROVE  Inv'
<1>1. /\ pc = "command" /\ k <= Len(dvrinfo) /\ k' = k + 1
      /\ UNCHANGED <<conn, lsocket, clinfo, rs, s, i, batch, reader, aired, mishaps>>
  BY DEF Command, loop
<1>2. k \in DOMAIN dvrinfo /\ k' \in Nat \ {0}
  BY <1>1, TablesFinite DEF Inv, TypeOK
<1>3. CASE Takes(proc[dvrinfo[k].pid].peer)
  <2>1. UNCHANGED <<fds, dvrinfo, pc>> /\ proc' \in Seq(Processes) /\ DOMAIN proc' = DOMAIN proc
    BY <1>3, CommandTaken
  <2>2. TypeOK'
    BY <1>1, <1>2, <2>1 DEF Inv, TypeOK
  <2>3. DriversNamed' /\ Separate' /\ Named' /\ Active' = Active /\ Len(dvrinfo') <= Len(Argv)
    BY <1>1, <2>1, TablesKept
  <2>4. ClientsListed'
    BY <1>1, ListedKept
  <2>5. Phases'
    BY <1>1, <2>1, <2>3 DEF Inv, Phases
  <2>6. QED
    BY <2>2, <2>3, <2>4, <2>5 DEF Inv
<1>4. CASE ~Takes(proc[dvrinfo[k].pid].peer)
  <2>1. RestartDvr(k, "command")
    BY <1>4 DEF Command
  <2>2. /\ pc' \in {"command", "exit"}
        /\ fds' \subseteq Fds /\ proc' \in Seq(Processes)
        /\ dvrinfo' \in Seq(DriverEntries) /\ DOMAIN dvrinfo' = DOMAIN dvrinfo
        /\ Len(dvrinfo') = Len(dvrinfo)
        /\ \A g \in DOMAIN dvrinfo : /\ dvrinfo'[g].name = dvrinfo[g].name
                                     /\ dvrinfo'[g].pid \in DOMAIN proc'
    BY <1>1, <1>2, <2>1, RestartTypes
  <2>3. TypeOK'
    BY <1>1, <1>2, <2>2 DEF Inv, TypeOK
  <2>4. Phases' /\ DriversNamed' /\ ClientsListed'
    BY <1>1, <2>2 DEF Inv, Phases, DriversNamed, ClientsListed, Active
  <2>5. Separate' /\ Named'
    BY <1>1, <1>2, <2>1, RestartSeparate
  <2>6. QED
    BY <2>3, <2>4, <2>5 DEF Inv
<1>5. QED
  BY <1>3, <1>4

(* CommandDone keeps the invariant.                                         *)
LEMMA CommandDoneStep ==
  ASSUME Inv, CommandDone
  PROVE  Inv'
<1>1. /\ pc = "command" /\ NextMessage
      /\ UNCHANGED <<conn, proc, fds, lsocket, clinfo, dvrinfo, rs, s, i, aired, mishaps>>
  BY DEF CommandDone, peers, tables, loop
<1>2. batch # <<>> /\ reader # 0 /\ reader \in Active
  BY <1>1 DEF Inv, Phases
<1>3. /\ batch' \in Seq(Messages) /\ k' = 1
      /\ (pc' = "relay" /\ batch' # <<>> /\ reader' = reader) \/ (pc' = "clients" /\ reader' = 0)
  BY <1>1, <1>2, NextMessageFacts DEF Inv
<1>4. TypeOK'
  BY <1>1, <1>3, TablesFinite DEF Inv, TypeOK
<1>5. DriversNamed' /\ Separate' /\ Named' /\ Active' = Active /\ Len(dvrinfo') <= Len(Argv)
  BY <1>1, <1>3, TablesKept
<1>6. ClientsListed'
  BY <1>1, ListedKept
<1>7. Phases'
  BY <1>1, <1>2, <1>3, <1>5 DEF Phases
<1>8. QED
  BY <1>4, <1>5, <1>6, <1>7 DEF Inv

(* The invariant holds at the start.                                        *)
LEMMA InvInit ==
  ASSUME Init
  PROVE  Inv
<1>1. \A T : <<>> \in Seq(T)
  BY EmptySeq
<1>2. TypeOK
  BY <1>1, IndiServerAssumption DEF Init, TypeOK, Connections, PeerStates
<1>3. Active = {} /\ Len(dvrinfo) = 0 /\ Len(proc) = 0
  BY DEF Init, Active
<1>4. Phases /\ DriversNamed
  BY <1>3, ArgvFacts DEF Init, Phases, DriversNamed
<1>5. ClientsListed /\ Separate
  BY <1>3 DEF Init, ClientsListed, Separate
<1>6. Named
  BY <1>3 DEF Init, Named, ListenFds, ClientFds, ReadFds, WriteFds
<1>7. QED
  BY <1>2, <1>4, <1>5, <1>6 DEF Inv

(* Every step keeps the invariant.                                          *)
LEMMA InvStep ==
  ASSUME DistinctNames, Inv, [Next]_vars
  PROVE  Inv'
<1>1. CASE World
  BY <1>1, WorldStep
<1>2. CASE StartDvr
  BY <1>2, StartDvrStep
<1>3. CASE IndiListen
  BY <1>3, IndiListenStep
<1>4. CASE Select
  BY <1>4, SelectStep
<1>5. CASE NewClient
  BY <1>5, NewClientStep
<1>6. CASE NoNewClient
  BY <1>6, NoNewClientStep
<1>7. CASE ReadClient
  BY <1>7, ReadClientStep
<1>8. CASE ReadClientFails
  BY <1>8, ReadClientFailsStep
<1>9. CASE ClientsDone \/ DriversDone
  BY <1>9, LoopDoneStep
<1>10. CASE ReadDriver
  BY <1>10, ReadDriverStep
<1>11. CASE ReadDriverFails
  BY <1>11, ReadDriverFailsStep
<1>12. CASE RelayFromDriver
  BY <1>12, RelayFromDriverStep
<1>13. CASE RelayFromClient
  BY <1>13, RelayFromClientStep
<1>14. CASE Command
  BY <1>14, CommandStep
<1>15. CASE CommandDone
  BY <1>15, CommandDoneStep
<1>16. CASE UNCHANGED vars
  <2>1. UNCHANGED <<conn, proc, fds, lsocket, clinfo, dvrinfo, pc, rs, s, i, k, batch,
                    reader, aired, mishaps>>
    BY <1>16 DEF vars, peers, tables, loop, relay
  <2>2. TypeOK'
    BY <2>1 DEF Inv, TypeOK
  <2>3. DriversNamed' /\ Separate' /\ Named' /\ Active' = Active
    BY <2>1 DEF Inv, DriversNamed, Separate, Named, Active, ListenFds, ClientFds, ReadFds,
                WriteFds
  <2>4. ClientsListed' /\ Phases'
    BY <2>1, <2>3 DEF Inv, ClientsListed, Phases
  <2>5. QED
    BY <2>2, <2>3, <2>4 DEF Inv
<1>17. QED
  BY <1>1, <1>2, <1>3, <1>4, <1>5, <1>6, <1>7, <1>8, <1>9, <1>10, <1>11, <1>12, <1>13,
     <1>14, <1>15, <1>16 DEF Next, Server

(* With every driver named once on the command line, the types hold, and    *)
(* the descriptors open are those the tables name, each of them once: what  *)
(* the server closes, reuses and restarts leaks none and closes none that   *)
(* is another's, for any clients and drivers and however they fail.         *)
THEOREM NoDescriptorIsLost ==
  ASSUME DistinctNames
  PROVE  Spec => [](TypeOK /\ NoDescriptorLost)
<1>1. Init => Inv
  BY InvInit
<1>2. Inv /\ [Next]_vars => Inv'
  BY InvStep
<1>3. Inv => TypeOK /\ NoDescriptorLost
  <2>1. SUFFICES ASSUME Inv, pc \notin {"start", "exit"}
                 PROVE  /\ fds = {lsocket} \union {clinfo[e].s : e \in Active}
                                   \union {dvrinfo[d].rfd : d \in DOMAIN dvrinfo}
                                   \union {dvrinfo[d].wfd : d \in DOMAIN dvrinfo}
                        /\ Cardinality(fds) = 1 + Cardinality(Active) + 2 * Len(dvrinfo)
    BY DEF NoDescriptorLost, Inv
  <2>2. QED
    BY <2>1, FdsCounted DEF Inv, Named, ListenFds, ClientFds, ReadFds, WriteFds
<1>4. QED
  BY <1>1, <1>2, <1>3, PTL DEF Spec


-----------------------------------------------------------------------------
(* Drivers.                                                                 *)

(* What a step makes of the processes: nothing the server listens to        *)
(* changes, or a process is added to the table, or one takes another's      *)
(* place in it.                                                             *)
LEMMA DriversChange ==
  ASSUME DistinctNames, Inv, [Next]_vars
  PROVE  \/ /\ dvrinfo' = dvrinfo /\ DOMAIN proc' = DOMAIN proc
            /\ \A p \in DOMAIN proc : proc[p].peer = "gone" => proc'[p].peer = "gone"
         \/ /\ pc = "start" /\ DOMAIN dvrinfo = 1 .. Len(proc)
            /\ DOMAIN dvrinfo' = 1 .. Len(proc) + 1 /\ DOMAIN proc' = 1 .. Len(proc) + 1
            /\ dvrinfo'[Len(proc) + 1].pid = Len(proc) + 1
            /\ \A d \in DOMAIN dvrinfo : dvrinfo'[d] = dvrinfo[d]
            /\ \A p \in DOMAIN proc : proc'[p] = proc[p]
         \/ /\ pc \in {"drivers", "command"}
            /\ \E d \in DOMAIN dvrinfo : RestartDvr(d, pc)
<1>1. CASE World
  BY <1>1, WorldActs DEF ServerUnchanged, tables, DriverActs, Inv
<1>2. CASE StartDvr
  <2> DEFINE n    == Len(proc)
             name == Argv[n + 1]
  <2>1. /\ pc = "start" /\ n \in Nat /\ name \in Names
        /\ DOMAIN dvrinfo = 1 .. n /\ DOMAIN proc = 1 .. n
        /\ DOMAIN proc' = 1 .. n + 1
        /\ proc' = Append(proc, NewProcess(name)) /\ proc \in Seq(Processes)
    BY <1>2, StartDvrFacts DEF Inv, TypeOK
  <2>2. PICK r, w \in Fds \ fds :
          /\ DOMAIN dvrinfo' = 1 .. n + 1
          /\ dvrinfo'[n + 1] = [name |-> name, pid |-> n + 1, restarts |-> 0,
                                rfd |-> r, wfd |-> w]
          /\ \A d \in 1 .. n : dvrinfo'[d] = dvrinfo[d]
    BY <1>2, StartDvrFacts
  <2>3. NewProcess(name) \in Processes
    BY <2>1, NewProcessType
  <2>4. \A p \in 1 .. n : proc'[p] = proc[p]
    <3> HIDE DEF name
    <3>1. QED
      BY <2>1, <2>3, AppendProperties
  <2>5. dvrinfo'[n + 1].pid = n + 1
    BY <2>2
  <2> HIDE DEF name
  <2>6. QED
    BY <2>1, <2>2, <2>4, <2>5
<1>3. CASE ReadDriver
  <2> DEFINE p == dvrinfo[Least(ToHear)].pid
  <2>1. PICK n \in 1 .. Len(proc[p].out) :
          /\ DOMAIN proc' = DOMAIN proc
          /\ proc'[p] = [proc[p] EXCEPT !.out = Unread(proc[p].out, n)]
          /\ \A z \in DOMAIN proc : z # p => proc'[z] = proc[z]
    BY <1>3, ReadDriverFacts
  <2>2. dvrinfo' = dvrinfo /\ p \in DOMAIN proc
    BY <1>3, ReadDriverFacts, ToHearFacts DEF Inv, ReadDriver
  <2> HIDE DEF p
  <2>3. proc[p] \in Processes
    BY <2>2, TablesFinite DEF Inv
  <2>4. proc'[p].peer = proc[p].peer
    BY <2>1, <2>3 DEF Processes
  <2>5. QED
    BY <2>1, <2>2, <2>4
<1>4. CASE ReadDriverFails
  <2>1. pc = "drivers" /\ RestartDvr(Least(ToHear), "drivers")
        /\ Least(ToHear) \in DOMAIN dvrinfo
    BY <1>4, ToHearFacts DEF Inv, ReadDriverFails
  <2>2. QED
    BY <2>1
<1>5. CASE Command
  <2>1. k \in DOMAIN dvrinfo
    BY <1>5, TablesFinite DEF Command, Inv, TypeOK
  <2>2. CASE Takes(proc[dvrinfo[k].pid].peer)
    <3> DEFINE p == dvrinfo[k].pid
    <3>1. /\ p \in DOMAIN proc /\ dvrinfo' = dvrinfo /\ DOMAIN proc' = DOMAIN proc
          /\ proc'[p] = [proc[p] EXCEPT !.got = Append(proc[p].got, Head(batch))]
          /\ \A z \in DOMAIN proc : z # p => proc'[z] = proc[z]
      BY <1>5, <2>2, CommandTaken
    <3> HIDE DEF p
    <3>2. proc[p] \in Processes
      BY <3>1, TablesFinite DEF Inv
    <3>3. proc'[p].peer = proc[p].peer
      BY <3>1, <3>2 DEF Processes
    <3>4. QED
      BY <3>1, <3>3
  <2>3. CASE ~Takes(proc[dvrinfo[k].pid].peer)
    <3>1. pc = "command" /\ RestartDvr(k, "command")
      BY <1>5, <2>3 DEF Command
    <3>2. QED
      BY <2>1, <3>1
  <2>4. QED
    BY <2>2, <2>3
<1>6. CASE \/ IndiListen \/ Select \/ NewClient \/ NoNewClient \/ ReadClient
           \/ ReadClientFails \/ ClientsDone \/ DriversDone \/ RelayFromDriver
           \/ RelayFromClient \/ CommandDone \/ UNCHANGED vars
  <2>1. proc' = proc /\ dvrinfo' = dvrinfo
    BY <1>6 DEF IndiListen, Select, NewClient, NoNewClient, ReadClient, ReadClientFails,
                ClientsDone, DriversDone, RelayFromDriver, RelayFromClient, CommandDone,
                vars, peers, tables
  <2>2. QED
    BY <2>1
<1>7. QED
  BY <1>1, <1>2, <1>3, <1>4, <1>5, <1>6 DEF Next, Server

(* What a restart makes of them.                                            *)
LEMMA RestartProcs ==
  ASSUME Inv, pc \in {"drivers", "command"}, NEW d \in DOMAIN dvrinfo, RestartDvr(d, pc)
  PROVE  \/ dvrinfo' = dvrinfo /\ proc' = Killed(d)
         \/ /\ DOMAIN dvrinfo' = DOMAIN dvrinfo /\ Len(proc') = Len(proc) + 1
            /\ DOMAIN proc' = 1 .. Len(proc) + 1
            /\ \A p \in DOMAIN proc : proc'[p] = Killed(d)[p]
            /\ proc'[Len(proc) + 1] = NewProcess(dvrinfo[d].name)
            /\ dvrinfo'[d].pid = Len(proc) + 1
            /\ \A g \in DOMAIN dvrinfo : g # d => dvrinfo'[g] = dvrinfo[g]
<1> DEFINE y == NewProcess(dvrinfo[d].name)
<1>1. Killed(d) \in Seq(Processes) /\ Len(Killed(d)) = Len(proc) /\ y \in Processes
      /\ DOMAIN proc = 1 .. Len(proc) /\ Len(proc) \in Nat
  BY KilledFacts, NewProcessType, TablesFinite DEF Inv, TypeOK, DriverEntries
<1>2. CASE dvrinfo' = dvrinfo /\ proc' = Killed(d)
  BY <1>2
<1>3. ASSUME proc' = Append(Killed(d), y),
             NEW r, NEW w, NEW t,
             dvrinfo' = [dvrinfo EXCEPT ![d] =
                           [name |-> dvrinfo[d].name, pid |-> Len(proc) + 1, restarts |-> t,
                            rfd |-> r, wfd |-> w]]
      PROVE  /\ DOMAIN dvrinfo' = DOMAIN dvrinfo /\ Len(proc') = Len(proc) + 1
             /\ DOMAIN proc' = 1 .. Len(proc) + 1
             /\ \A p \in DOMAIN proc : proc'[p] = Killed(d)[p]
             /\ proc'[Len(proc) + 1] = y
             /\ dvrinfo'[d].pid = Len(proc) + 1
             /\ \A g \in DOMAIN dvrinfo : g # d => dvrinfo'[g] = dvrinfo[g]
  <2> DEFINE K == Killed(d)
  <2>1. proc' = Append(K, y) /\ K \in Seq(Processes) /\ Len(K) = Len(proc)
    BY <1>1, <1>3
  <2> HIDE DEF K, y
  <2>2. /\ Len(proc') = Len(proc) + 1 /\ DOMAIN proc' = 1 .. Len(proc) + 1
        /\ \A p \in DOMAIN proc : proc'[p] = K[p]
        /\ proc'[Len(proc) + 1] = y
    <3>1. y \in Processes
      BY <1>1
    <3>2. /\ proc' \in Seq(Processes) /\ Len(proc') = Len(proc) + 1
          /\ \A p \in 1 .. Len(proc) : proc'[p] = K[p]
          /\ proc'[Len(proc) + 1] = y
      BY <2>1, <3>1, AppendProperties
    <3>3. QED
      BY <1>1, <3>2, LenProperties
  <2>3. QED
    BY <1>3, <2>2 DEF K
<1> HIDE DEF y
<1>4. QED
  BY <1>2, <1>3, RestartFacts DEF y

(* Every step keeps EveryDriverHeard: a process that loses its entry is     *)
(* killed.                                                                  *)
LEMMA HeardStep ==
  ASSUME DistinctNames, Inv, EveryDriverHeard, [Next]_vars
  PROVE  EveryDriverHeard'
<1> DEFINE n == Len(proc)
<1>1. /\ DOMAIN proc = 1 .. n /\ n \in Nat
      /\ \A p \in DOMAIN proc :
           proc[p].peer # "gone" => \E d \in DOMAIN dvrinfo : dvrinfo[d].pid = p
  BY TablesFinite DEF Inv, EveryDriverHeard
<1>2. CASE /\ dvrinfo' = dvrinfo /\ DOMAIN proc' = DOMAIN proc
           /\ \A p \in DOMAIN proc : proc[p].peer = "gone" => proc'[p].peer = "gone"
  BY <1>1, <1>2 DEF EveryDriverHeard
<1>3. CASE /\ pc = "start" /\ DOMAIN dvrinfo = 1 .. n
           /\ DOMAIN dvrinfo' = 1 .. n + 1 /\ DOMAIN proc' = 1 .. n + 1
           /\ dvrinfo'[n + 1].pid = n + 1
           /\ \A d \in DOMAIN dvrinfo : dvrinfo'[d] = dvrinfo[d]
           /\ \A p \in DOMAIN proc : proc'[p] = proc[p]
  <2>1. SUFFICES ASSUME NEW p \in 1 .. n + 1, proc'[p].peer # "gone"
                 PROVE  \E d \in 1 .. n + 1 : dvrinfo'[d].pid = p
    BY <1>3 DEF EveryDriverHeard
  <2>2. CASE p = n + 1
    BY <1>1, <1>3, <2>2
  <2>3. CASE p # n + 1
    <3>1. p \in DOMAIN proc /\ proc[p].peer # "gone"
      BY <1>1, <1>3, <2>1, <2>3
    <3>2. PICK d \in DOMAIN dvrinfo : dvrinfo[d].pid = p
      BY <1>1, <3>1
    <3>3. d \in 1 .. n + 1 /\ dvrinfo'[d].pid = p
      BY <1>1, <1>3, <3>2
    <3>4. QED
      BY <3>3
  <2>4. QED
    BY <2>2, <2>3
<1>4. ASSUME pc \in {"drivers", "command"}, NEW d \in DOMAIN dvrinfo, RestartDvr(d, pc)
      PROVE  EveryDriverHeard'
  <2>1. /\ DOMAIN Killed(d) = DOMAIN proc /\ Killed(d)[dvrinfo[d].pid].peer = "gone"
        /\ \A p \in DOMAIN proc : p # dvrinfo[d].pid => Killed(d)[p] = proc[p]
    BY KilledFacts DEF Inv
  <2>2. CASE dvrinfo' = dvrinfo /\ proc' = Killed(d)
    BY <1>1, <2>1, <2>2 DEF EveryDriverHeard
  <2>3. CASE /\ DOMAIN dvrinfo' = DOMAIN dvrinfo
             /\ DOMAIN proc' = 1 .. n + 1
             /\ \A p \in DOMAIN proc : proc'[p] = Killed(d)[p]
             /\ dvrinfo'[d].pid = n + 1
             /\ \A g \in DOMAIN dvrinfo : g # d => dvrinfo'[g] = dvrinfo[g]
    <3>1. SUFFICES ASSUME NEW p \in 1 .. n + 1, proc'[p].peer # "gone"
                   PROVE  \E g \in DOMAIN dvrinfo : dvrinfo'[g].pid = p
      BY <2>3 DEF EveryDriverHeard
    <3>2. CASE p = n + 1
      BY <1>4, <2>3, <3>2
    <3>3. CASE p # n + 1
      <4>1. p \in DOMAIN proc /\ p # dvrinfo[d].pid /\ proc[p].peer # "gone"
        BY <1>1, <2>1, <2>3, <3>1, <3>3
      <4>2. PICK g \in DOMAIN dvrinfo : dvrinfo[g].pid = p
        BY <1>1, <4>1
      <4>3. dvrinfo'[g].pid = p
        BY <2>3, <4>1, <4>2
      <4>4. QED
        BY <4>3
    <3>4. QED
      BY <3>2, <3>3
  <2>4. QED
    BY <1>4, <2>2, <2>3, RestartProcs
<1>5. QED
  BY <1>2, <1>3, <1>4, DriversChange

(* With every driver named once on the command line, every driver process   *)
(* alive is one the server listens to, however drivers die, stall and are   *)
(* restarted.                                                               *)
THEOREM DriversAreHeard ==
  ASSUME DistinctNames
  PROVE  Spec => []EveryDriverHeard
<1>1. Init => Inv /\ EveryDriverHeard
  <2>1. Init => EveryDriverHeard
    BY DEF Init, EveryDriverHeard
  <2>2. QED
    BY <2>1, InvInit
<1>2. Inv /\ EveryDriverHeard /\ [Next]_vars => (Inv /\ EveryDriverHeard)'
  BY InvStep, HeardStep
<1>3. QED
  BY <1>1, <1>2, PTL DEF Spec

-----------------------------------------------------------------------------
(* Clients.                                                                 *)

(* From select() to the end of the loop over the clients.                   *)
ServingClients == pc \in {"accept", "clients"} \/ (pc \in {"relay", "command"} /\ reader # 0)

(* The clients select() reported and the loop has not come to have          *)
(* something to read, or have left.                                         *)
StillReady ==
  ServingClients => \A e \in Active : e >= i /\ clinfo[e].s \in rs => ClientReady(clinfo[e].conn)

(* What select() reports is ready.                                          *)
LEMMA SelectedReady ==
  ASSUME Inv, Select
  PROVE  StillReady'
<1>1. /\ pc = "select" /\ rs' = Readable
      /\ UNCHANGED <<conn, lsocket, clinfo, dvrinfo>> /\ Active' = Active
  BY DEF Select, peers, tables, Active
<1>2. ASSUME NEW e \in Active, clinfo[e].s \in Readable
      PROVE  ClientReady(clinfo[e].conn)
  <2>1. clinfo[e].s # lsocket /\ \A d \in DOMAIN dvrinfo : clinfo[e].s # dvrinfo[d].rfd
    BY <1>1 DEF Inv, Separate
  <2>2. PICK f \in Active : ClientReady(clinfo[f].conn) /\ clinfo[f].s = clinfo[e].s
    BY <1>2, <2>1 DEF Readable
  <2>3. QED
    BY <2>2 DEF Inv, Separate
<1>3. QED
  BY <1>1, <1>2 DEF StillReady, ClientReady

(* The loop goes on, and what was ready stays so.                           *)
LEMMA ReadyKept ==
  ASSUME Inv, StillReady, ServingClients, rs' = rs, i' \in Nat, i' >= i,
         Active' \subseteq Active,
         \A e \in Active' : /\ clinfo'[e].s = clinfo[e].s /\ clinfo'[e].conn = clinfo[e].conn
                            /\ e >= i' /\ ClientReady(clinfo[e].conn)
                                 => ClientReady(clinfo[e].conn)'
  PROVE  StillReady'
<1>1. i \in Nat /\ Active \subseteq Nat
  BY TablesFinite DEF Inv, TypeOK
<1>2. ASSUME NEW e \in Active', e >= i', clinfo'[e].s \in rs
      PROVE  ClientReady(clinfo[e].conn)'
  <2>1. e \in Active /\ e >= i /\ clinfo[e].s \in rs
    BY <1>1, <1>2
  <2>2. ClientReady(clinfo[e].conn)
    BY <2>1 DEF StillReady
  <2>3. QED
    BY <1>2, <2>2
<1>3. QED
  BY <1>2 DEF StillReady

(* Every step keeps StillReady: only the server reads, and a descriptor it  *)
(* opens meanwhile is no client before i.                                   *)
LEMMA ReadyStep ==
  ASSUME DistinctNames, Inv, StillReady, [Next]_vars
  PROVE  StillReady'
<1>1. /\ i \in Nat /\ Active \subseteq DOMAIN clinfo /\ Active \subseteq Nat
      /\ \A e \in Active : clinfo[e].conn \in Conns
      /\ \A c \in Conns : conn[c] \in Connections
  BY TablesFinite DEF Inv, TypeOK, ClientEntries
<1>2. CASE World
  <2>1. /\ UNCHANGED <<clinfo, pc, rs, i, reader>>
        /\ \A c \in Conns : ClientActs(c, conn[c], conn'[c])
    BY <1>2, WorldActs DEF Inv, ServerUnchanged, tables, loop, relay
  <2>2. ASSUME NEW c \in Conns, ClientReady(c)
        PROVE  conn'[c].out # <<>> \/ conn'[c].peer = "gone"
    <3>0. conn[c] \in Connections
      BY <1>1, <2>2
    <3>1. conn[c].out \in Seq(Messages) /\ conn[c].sent \in Nat
      BY <3>0 DEF Connections
    <3>2. \A new \in BOOLEAN : Append(conn[c].out, ClientMessage(c, conn[c].sent + 1, new)) # <<>>
      <4> TAKE new \in BOOLEAN
      <4> DEFINE m == ClientMessage(c, conn[c].sent + 1, new)
      <4>1. m \in Messages
        BY <3>1 DEF ClientMessage, Messages
      <4> HIDE DEF m
      <4>2. QED
        BY <3>1, <4>1, AppendProperties
    <3>3. QED
      BY <2>1, <2>2, <3>2 DEF ClientActs, ClientReady
  <2>3. Active' = Active
    BY <2>1 DEF Active
  <2>4. CASE ServingClients
    <3>1. \A e \in Active' : ClientReady(clinfo[e].conn) => ClientReady(clinfo[e].conn)'
      BY <1>1, <2>1, <2>2, <2>3 DEF ClientReady
    <3>2. QED
      BY <1>1, <2>1, <2>3, <2>4, <3>1, ReadyKept
  <2>5. QED
    BY <2>1, <2>4 DEF StillReady, ServingClients
<1>3. CASE StartDvr \/ IndiListen
  BY <1>3 DEF StartDvr, IndiListen, StillReady, ServingClients, relay
<1>4. CASE Select
  BY <1>4, SelectedReady
<1>5. CASE NewClient
  <2>1. /\ pc = "accept" /\ i' = i /\ rs' = rs /\ rs \subseteq fds
        /\ \A e \in Active : clinfo'[e] = clinfo[e]
    BY <1>5, NewClientFacts DEF Inv, Phases
  <2>2. PICK c \in Conns, fd \in Fds \ fds, y \in DOMAIN clinfo' :
          /\ conn[c].st = "calling" /\ Active' = Active \union {y} /\ clinfo'[y].s = fd
          /\ \A z \in Conns : z # c => conn'[z] = conn[z]
    BY <1>5, NewClientFacts
  <2>3. \A e \in Active : clinfo[e].conn # c
    BY <2>2 DEF Inv, ClientsListed
  <2>4. ASSUME NEW e \in Active', e >= i, clinfo'[e].s \in rs
        PROVE  ClientReady(clinfo[e].conn)'
    <3>1. e \in Active
      BY <2>1, <2>2, <2>4
    <3>2. ClientReady(clinfo[e].conn)
      BY <2>1, <2>4, <3>1 DEF StillReady, ServingClients
    <3>3. conn'[clinfo'[e].conn] = conn[clinfo[e].conn]
      BY <1>1, <2>1, <2>2, <2>3, <3>1
    <3>4. QED
      BY <3>2, <3>3 DEF ClientReady
  <2>5. QED
    BY <2>1, <2>4 DEF StillReady
<1>6. CASE NoNewClient
  <2>1. UNCHANGED <<conn, clinfo, rs, i>> /\ pc = "accept"
    BY <1>6 DEF NoNewClient, peers, tables, loop
  <2>2. QED
    BY <1>1, <2>1, ReadyKept DEF ServingClients, Active, ClientReady
<1>7. CASE ReadClient
  <2> DEFINE e == Least(ToRead)
             c == clinfo[e].conn
  <2>1. /\ pc = "clients" /\ i' = e + 1 /\ rs' = rs /\ clinfo' = clinfo
        /\ \A z \in Conns : z # c => conn'[z] = conn[z]
    BY <1>7, ReadClientFacts
  <2>2. e \in Active /\ e \in Nat /\ e >= i
    BY <1>1, <1>7, ToReadFacts DEF Inv, ReadClient, TypeOK
  <2> HIDE DEF e
  <2>3. Active' = Active
    BY <2>1 DEF Active
  <2>4. \A f \in Active : f >= i' => clinfo[f].conn # c
    BY <1>1, <2>1, <2>2 DEF Inv, ClientsListed
  <2>5. \A f \in Active : f >= i' /\ ClientReady(clinfo[f].conn) => ClientReady(clinfo[f].conn)'
    BY <1>1, <2>1, <2>4 DEF ClientReady
  <2>6. i' \in Nat /\ i' >= i
    BY <1>1, <2>1, <2>2
  <2>7. QED
    BY <2>1, <2>3, <2>5, <2>6, ReadyKept DEF ServingClients
<1>8. CASE ReadClientFails
  <2> DEFINE e == Least(ToRead)
             c == clinfo[e].conn
  <2>1. /\ pc = "clients" /\ i' = e + 1 /\ rs' = rs /\ Active' = Active \ {e}
        /\ e \in Active /\ e \in Nat
        /\ \A g \in DOMAIN clinfo : g # e => clinfo'[g] = clinfo[g]
        /\ \A z \in Conns : z # c => conn'[z] = conn[z]
    BY <1>8, ReadClientFailsFacts
  <2>2. e >= i
    BY <1>1, <1>8, ToReadFacts DEF Inv, ReadClientFails, TypeOK
  <2> HIDE DEF e
  <2>4. \A f \in Active' : clinfo[f].conn # c /\ f \in Active /\ clinfo'[f] = clinfo[f]
    BY <1>1, <2>1 DEF Inv, ClientsListed
  <2>5. \A f \in Active' : ClientReady(clinfo[f].conn) => ClientReady(clinfo[f].conn)'
    BY <1>1, <2>1, <2>4 DEF ClientReady
  <2>6. i' \in Nat /\ i' >= i
    BY <1>1, <2>1, <2>2
  <2>7. QED
    BY <2>1, <2>4, <2>5, <2>6, ReadyKept DEF ServingClients
<1>9. CASE ClientsDone \/ DriversDone \/ ReadDriver
  BY <1>9 DEF ClientsDone, DriversDone, ReadDriver, StillReady, ServingClients
<1>10. CASE ReadDriverFails
  <2>1. pc' \in {"drivers", "exit"}
    BY <1>10 DEF ReadDriverFails, RestartDvr
  <2>2. QED
    BY <2>1 DEF StillReady, ServingClients
<1>11. CASE RelayFromDriver
  <2>1. pc = "relay" /\ reader = 0 /\ NextMessage /\ batch # <<>>
    BY <1>11 DEF RelayFromDriver, Inv, Phases
  <2>2. reader' = 0 /\ pc' \in {"relay", "drivers"}
    BY <2>1, NextMessageFacts DEF Inv
  <2>3. QED
    BY <2>2 DEF StillReady, ServingClients
<1>12. CASE RelayFromClient
  <2> DEFINE m == Head(batch)
  <2>1. /\ pc = "relay" /\ reader # 0 /\ UNCHANGED <<rs, i>>
        /\ Air(m) \/ UNCHANGED <<conn, clinfo>>
    BY <1>12 DEF RelayFromClient, loop
  <2>2. m \in Messages
    BY <2>1, BatchFacts DEF Inv, Phases
  <2> HIDE DEF m
  <2>3. CASE Air(m)
    <3>1. PICK lost : Aired(m, lost) /\ Active' = Active \ lost
      BY <2>2, <2>3, AirFacts DEF Inv
    <3>2. \A e \in Active : clinfo'[e].s = clinfo[e].s /\ clinfo'[e].conn = clinfo[e].conn
      BY <1>1, <2>2, <2>3, AirFacts DEF Inv
    <3>3. ASSUME NEW e \in Active'
          PROVE  /\ conn'[clinfo[e].conn].out = conn[clinfo[e].conn].out
                 /\ conn'[clinfo[e].conn].peer = conn[clinfo[e].conn].peer
      <4>1. CASE e \in Audience
        <5>1. e \in Audience \ lost /\ conn[clinfo[e].conn] \in Connections
          BY <1>1, <3>1, <4>1
        <5>2. conn'[clinfo[e].conn]
                = [conn[clinfo[e].conn] EXCEPT !.got = Append(conn[clinfo[e].conn].got, m)]
          BY <3>1, <5>1 DEF Aired
        <5>3. QED
          BY <5>1, <5>2 DEF Connections
      <4>2. CASE e \notin Audience
        <5>1. \A f \in Audience : clinfo[f].conn # clinfo[e].conn
          BY <3>1, <4>2 DEF Inv, ClientsListed, Audience
        <5>2. QED
          BY <1>1, <3>1, <5>1 DEF Aired
      <4>3. QED
        BY <4>1, <4>2
    <3>4. \A e \in Active' : ClientReady(clinfo[e].conn) => ClientReady(clinfo[e].conn)'
      BY <3>1, <3>2, <3>3 DEF ClientReady
    <3>5. QED
      BY <1>1, <2>1, <3>1, <3>2, <3>4, ReadyKept DEF ServingClients
  <2>4. CASE UNCHANGED <<conn, clinfo>>
    BY <1>1, <2>1, <2>4, ReadyKept DEF ServingClients, Active, ClientReady
  <2>5. QED
    BY <2>1, <2>3, <2>4
<1>13. CASE Command \/ CommandDone
  <2>1. UNCHANGED <<conn, clinfo, rs, i>> /\ pc = "command"
    BY <1>13 DEF Command, CommandDone, peers, tables, loop
  <2>2. QED
    BY <1>1, <2>1, ReadyKept DEF ServingClients, Active, ClientReady, Inv, Phases
<1>14. CASE UNCHANGED vars
  BY <1>14 DEF vars, peers, tables, loop, relay, StillReady, ServingClients, ClientReady, Active
<1>15. QED
  BY <1>2, <1>3, <1>4, <1>5, <1>6, <1>7, <1>8, <1>9, <1>10, <1>11, <1>12, <1>13, <1>14
  DEF Next, Server

(* What closes a client.                                                    *)
LEMMA AirCloses ==
  ASSUME Inv, NEW m \in Messages, Air(m), NEW c \in Conns,
         conn[c].st = "open", conn'[c].st = "closed"
  PROVE  conn[c].peer # "ok"
<1>1. PICK lost : Aired(m, lost)
  BY AirFacts DEF Inv
<1>2. /\ conn[c] \in Connections /\ lost \subseteq Audience
  BY <1>1 DEF Inv, TypeOK, Aired
<1>3. PICK e \in Audience : clinfo[e].conn = c
  BY <1>1 DEF Aired
<1>4. CASE e \in lost
  BY <1>1, <1>3, <1>4 DEF Aired, PeerOf
<1>5. CASE e \notin lost
  <2>1. conn'[c] = [conn[c] EXCEPT !.got = Append(conn[c].got, m)]
    BY <1>1, <1>3, <1>5 DEF Aired
  <2>2. conn'[c].st = conn[c].st
    BY <1>2, <2>1 DEF Connections
  <2>3. QED
    BY <2>2
<1>6. QED
  BY <1>4, <1>5

(* A step that closes a client has a cause.                                 *)
LEMMA ClosedStep ==
  ASSUME Inv, StillReady, [Next]_vars, NEW c \in Conns,
         conn[c].st = "open", conn'[c].st = "closed"
  PROVE  conn[c].peer # "ok"
<1>1. CASE World
  BY <1>1, WorldActs DEF Inv, ClientActs
<1>2. CASE NewClient
  <2>1. PICK z \in Conns : /\ conn[z].st = "calling"
                          /\ \A x \in Conns : x # z => conn'[x] = conn[x]
    BY <1>2, NewClientFacts
  <2>2. QED
    BY <2>1
<1>3. CASE ReadClient
  <2> DEFINE z == clinfo[Least(ToRead)].conn
  <2>1. PICK n \in 1 .. Len(conn[z].out) :
          /\ conn'[z] = [conn[z] EXCEPT !.out = Unread(conn[z].out, n)]
          /\ \A x \in Conns : x # z => conn'[x] = conn[x]
    BY <1>3, ReadClientFacts
  <2> HIDE DEF z
  <2>2. conn[c] \in Connections
    BY DEF Inv, TypeOK
  <2>3. conn'[c].st = conn[c].st
    BY <2>1, <2>2 DEF Connections
  <2>4. QED
    BY <2>3
<1>4. CASE ReadClientFails
  <2> DEFINE e == Least(ToRead)
             z == clinfo[e].conn
  <2>1. /\ pc = "clients" /\ e \in Active
        /\ conn[z].peer = "gone" \/ conn[z].out = <<>>
        /\ \A x \in Conns : x # z => conn'[x] = conn[x]
    BY <1>4, ReadClientFailsFacts
  <2>2. e >= i /\ clinfo[e].s \in rs
    BY <1>4, ToReadFacts DEF Inv, ReadClientFails, TypeOK
  <2> HIDE DEF e
  <2>3. ClientReady(z)
    BY <2>1, <2>2 DEF StillReady, ServingClients
  <2>4. c = z
    BY <2>1
  <2>5. QED
    BY <2>1, <2>3, <2>4 DEF ClientReady
<1>5. CASE RelayFromDriver \/ RelayFromClient
  <2>1. Head(batch) \in Messages
    BY <1>5, BatchFacts DEF RelayFromDriver, RelayFromClient, Inv, Phases
  <2>2. Air(Head(batch))
    BY <1>5 DEF RelayFromDriver, RelayFromClient
  <2>3. QED
    BY <2>1, <2>2, AirCloses
<1>6. CASE ~(World \/ NewClient \/ ReadClient \/ ReadClientFails \/ RelayFromDriver
             \/ RelayFromClient)
  <2>1. conn' = conn
    BY <1>6 DEF Next, Server, StartDvr, IndiListen, Select, NoNewClient, ClientsDone,
                ReadDriver, ReadDriverFails, DriversDone, Command, CommandDone,
                vars, peers
  <2>2. QED
    BY <2>1
<1>7. QED
  BY <1>1, <1>2, <1>3, <1>4, <1>5, <1>6

(* A client is closed only when it has left or does not take what it is     *)
(* sent: what select() reported of it is still so when the loop comes to    *)
(* it, whatever entries and descriptors were reused in between.             *)
THEOREM ClosedOnlyForCause ==
  ASSUME DistinctNames
  PROVE  Spec => ClosedForCause
<1>1. Init => Inv /\ StillReady
  <2>1. Init => StillReady
    BY DEF Init, StillReady, ServingClients
  <2>2. QED
    BY <2>1, InvInit
<1>2. Inv /\ StillReady /\ [Next]_vars => (Inv /\ StillReady)'
  BY InvStep, ReadyStep
<1>3. Inv /\ StillReady /\ [Next]_vars
        => [\A c \in Conns : conn[c].st = "open" /\ conn'[c].st = "closed"
                                => conn[c].peer # "ok"]_vars
  BY ClosedStep
<1>4. QED
  BY <1>1, <1>2, <1>3, PTL DEF Spec, ClosedForCause

-----------------------------------------------------------------------------
(* Picking messages out of a sequence.                                      *)

(* The function Only defines by recursion, along the first h members of q.  *)
Selects(q, S, h, f) ==
  f = [n \in 0 .. h |-> IF n = 0 THEN <<>>
                        ELSE IF q[n] \in S THEN Append(f[n - 1], q[n]) ELSE f[n - 1]]

(* There is such a function.                                                *)
LEMMA SelectsExists ==
  ASSUME NEW q, NEW S, NEW h \in Nat
  PROVE  \E f : Selects(q, S, h, f)
<1> DEFINE Bad == {n \in Nat : ~ \E f : Selects(q, S, n, f)}
<1>1. SUFFICES ASSUME Bad # {} PROVE FALSE
  OBVIOUS
<1>2. PICK n \in Bad : \A m \in Bad : n <= m
  BY <1>1, LeastOf
<1>3. CASE n = 0
  <2> DEFINE f == [m \in 0 .. 0 |-> <<>>]
  <2>1. Selects(q, S, 0, f)
    BY DEF Selects
  <2>2. QED
    BY <1>3, <2>1
<1>4. CASE n # 0
  <2>1. n - 1 \in Nat /\ n - 1 \notin Bad
    BY <1>2, <1>4
  <2>2. PICK f : Selects(q, S, n - 1, f)
    BY <2>1
  <2> DEFINE last == IF q[n] \in S THEN Append(f[n - 1], q[n]) ELSE f[n - 1]
             g == [m \in 0 .. n |-> IF m = n THEN last ELSE f[m]]
  <2>3. \A m \in 0 .. n - 1 : g[m] = f[m]
    BY <2>1
  <2>4. g[n] = last /\ g[0] = <<>>
    BY <1>4, <2>1, <2>2 DEF Selects
  <2>5. \A m \in 1 .. n - 1 :
          g[m] = IF q[m] \in S THEN Append(g[m - 1], q[m]) ELSE g[m - 1]
    <3> TAKE m \in 1 .. n - 1
    <3>0. m \in 0 .. n - 1 /\ m # 0
      BY <2>1
    <3>1. f[m] = IF q[m] \in S THEN Append(f[m - 1], q[m]) ELSE f[m - 1]
      BY <2>2, <3>0 DEF Selects
    <3> HIDE DEF g
    <3>2. QED
      BY <2>1, <2>3, <3>1
  <2>6. g[n] = IF q[n] \in S THEN Append(g[n - 1], q[n]) ELSE g[n - 1]
    BY <2>1, <2>3, <2>4
  <2>7. DOMAIN g = 0 .. n /\ g = [m \in 0 .. n |-> g[m]]
    OBVIOUS
  <2> HIDE DEF g
  <2>8. \A m \in 0 .. n : g[m] = IF m = 0 THEN <<>>
                        ELSE IF q[m] \in S THEN Append(g[m - 1], q[m]) ELSE g[m - 1]
    BY <2>1, <2>4, <2>5, <2>6
  <2>9. Selects(q, S, n, g)
    BY <2>7, <2>8 DEF Selects
  <2>10. QED
    BY <2>9
<1>5. QED
  BY <1>3, <1>4

(* Only is its last value.                                                  *)
LEMMA OnlySelects ==
  ASSUME NEW q, NEW S, Len(q) \in Nat
  PROVE  \E f : Selects(q, S, Len(q), f) /\ Only(q, S) = f[Len(q)]
<1> DEFINE f == CHOOSE f : Selects(q, S, Len(q), f)
<1>1. Selects(q, S, Len(q), f)
  BY SelectsExists
<1>2. Only(q, S) = f[Len(q)]
  BY DEF Only, Selects
<1>3. QED
  BY <1>1, <1>2

(* Two such functions agree where both are defined and their sequences do.  *)
LEMMA SelectsAgree ==
  ASSUME NEW q, NEW r, NEW S, NEW h \in Nat, NEW l \in Nat, h <= l,
         \A n \in 1 .. h : q[n] = r[n],
         NEW f, NEW g, Selects(q, S, h, f), Selects(r, S, l, g)
  PROVE  f[h] = g[h]
<1> DEFINE Bad == {n \in 0 .. h : f[n] # g[n]}
<1>1. SUFFICES ASSUME Bad # {} PROVE FALSE
  OBVIOUS
<1>2. Bad \in SUBSET Nat
  OBVIOUS
<1>3. PICK n \in Bad : \A m \in Bad : n <= m
  BY <1>1, <1>2, LeastOf
<1>4. n # 0
  BY <1>3 DEF Selects
<1>5. n - 1 \in 0 .. h /\ n - 1 \notin Bad
  BY <1>3, <1>4
<1>9. n \in 0 .. h /\ n \in 0 .. l
  BY <1>3
<1>6. f[n] = IF q[n] \in S THEN Append(f[n - 1], q[n]) ELSE f[n - 1]
  BY <1>4, <1>9 DEF Selects
<1>7. g[n] = IF r[n] \in S THEN Append(g[n - 1], r[n]) ELSE g[n - 1]
  BY <1>4, <1>9 DEF Selects
<1>8. QED
  BY <1>3, <1>4, <1>5, <1>6, <1>7

(* Only picks nothing out of nothing,                                       *)
LEMMA OnlyEmpty == ASSUME NEW S PROVE Only(<<>>, S) = <<>>
<1>1. PICK f : Selects(<<>>, S, 0, f) /\ Only(<<>>, S) = f[0]
  BY OnlySelects
<1>2. QED
  BY <1>1 DEF Selects

(* appends what is picked last,                                             *)
LEMMA OnlyAppend ==
  ASSUME NEW T, NEW S, NEW q \in Seq(T), NEW m \in T
  PROVE  Only(Append(q, m), S) = IF m \in S THEN Append(Only(q, S), m) ELSE Only(q, S)
<1> DEFINE l == Len(q)
           r == Append(q, m)
<1>1. l \in Nat /\ Len(r) = l + 1 /\ r[l + 1] = m /\ \A n \in 1 .. l : q[n] = r[n]
  BY AppendProperties, LenProperties
<1> HIDE DEF r
<1>2. PICK f : Selects(q, S, l, f) /\ Only(q, S) = f[l]
  BY <1>1, OnlySelects
<1>3. PICK g : Selects(r, S, l + 1, g) /\ Only(r, S) = g[l + 1]
  BY <1>1, OnlySelects
<1>4. f[l] = g[l]
  BY <1>1, <1>2, <1>3, SelectsAgree
<1>5. g[l + 1] = IF m \in S THEN Append(g[l], m) ELSE g[l]
  <2>1. l + 1 \in 0 .. l + 1 /\ l + 1 # 0 /\ l + 1 - 1 = l
    BY <1>1
  <2>2. g[l + 1] = IF r[l + 1] \in S THEN Append(g[l + 1 - 1], r[l + 1]) ELSE g[l + 1 - 1]
    <3>1. \A x \in 0 .. l + 1 :
            x # 0 => g[x] = IF r[x] \in S THEN Append(g[x - 1], r[x]) ELSE g[x - 1]
      BY <1>3 DEF Selects
    <3>2. QED
      BY <2>1, <3>1
  <2>3. QED
    BY <1>1, <2>1, <2>2
<1>6. QED
  BY <1>2, <1>3, <1>4, <1>5 DEF r

(* and picks members of the sequence.                                       *)
LEMMA OnlyType ==
  ASSUME NEW T, NEW S, NEW q \in Seq(T)
  PROVE  Only(q, S) \in Seq(T)
<1> DEFINE l == Len(q)
<1>1. l \in Nat /\ \A n \in 1 .. l : q[n] \in T
  BY LenProperties, ElementOfSeq
<1>2. PICK f : Selects(q, S, l, f) /\ Only(q, S) = f[l]
  BY <1>1, OnlySelects
<1> DEFINE Bad == {n \in 0 .. l : f[n] \notin Seq(T)}
<1>3. SUFFICES ASSUME Bad # {} PROVE FALSE
  BY <1>1, <1>2
<1>4. Bad \in SUBSET Nat
  OBVIOUS
<1>5. PICK n \in Bad : \A m \in Bad : n <= m
  BY <1>3, <1>4, LeastOf
<1>6. n # 0
  <2>1. f[0] = <<>> /\ <<>> \in Seq(T)
    BY <1>1, <1>2, EmptySeq DEF Selects
  <2>2. QED
    BY <1>5, <2>1
<1>7. n - 1 \in 0 .. l /\ n - 1 \notin Bad
  BY <1>1, <1>5, <1>6
<1>8. f[n] = IF q[n] \in S THEN Append(f[n - 1], q[n]) ELSE f[n - 1]
  BY <1>1, <1>2, <1>5, <1>6 DEF Selects
<1>9. f[n] \in Seq(T)
  BY <1>1, <1>5, <1>6, <1>7, <1>8, AppendProperties
<1>10. QED
  BY <1>5, <1>9

(* What is left after the first n, when a message is added.                 *)
LEMMA DropAppend ==
  ASSUME NEW q \in Seq(Messages), NEW m \in Messages, NEW n \in 0 .. Len(q)
  PROVE  /\ Drop(q, n) \in Seq(Messages)
         /\ Drop(Append(q, m), n) = Append(Drop(q, n), m)
<1> DEFINE l == Len(q)
           r == Append(q, m)
           a == SubSeq(q, n + 1, l)
           b == SubSeq(r, n + 1, l + 1)
<1>1. /\ l \in Nat /\ r \in Seq(Messages) /\ Len(r) = l + 1 /\ r[l + 1] = m
      /\ \A x \in 1 .. l : r[x] = q[x]
  BY LenProperties, AppendProperties
<1>2. /\ \A x \in 1 .. l : q[x] \in Messages
      /\ \A x \in 1 .. l + 1 : r[x] \in Messages
  BY <1>1, ElementOfSeq
<1> HIDE DEF r
<1>3. /\ a \in Seq(Messages) /\ Len(a) = l - n
      /\ \A x \in 1 .. l - n : a[x] = q[n + x]
  <2>1. /\ a \in Seq(Messages) /\ Len(a) = IF n + 1 <= l THEN l - (n + 1) + 1 ELSE 0
        /\ \A x \in 1 .. l - (n + 1) + 1 : a[x] = q[n + 1 + x - 1]
    BY <1>1, <1>2, SubSeqProperties
  <2>2. QED
    BY <1>1, <2>1
<1>4. /\ b \in Seq(Messages) /\ Len(b) = l + 1 - n
      /\ \A x \in 1 .. l + 1 - n : b[x] = r[n + x]
  <2>1. /\ b \in Seq(Messages) /\ Len(b) = IF n + 1 <= l + 1 THEN l + 1 - (n + 1) + 1 ELSE 0
        /\ \A x \in 1 .. l + 1 - (n + 1) + 1 : b[x] = r[n + 1 + x - 1]
    BY <1>1, <1>2, SubSeqProperties
  <2>2. QED
    BY <1>1, <2>1
<1> HIDE DEF a, b
<1> DEFINE z == Append(a, m)
<1>5. /\ z \in Seq(Messages) /\ Len(z) = l - n + 1 /\ z[l - n + 1] = m
      /\ \A x \in 1 .. l - n : z[x] = a[x]
  BY <1>3, AppendProperties
<1> HIDE DEF z
<1>6. \A x \in 1 .. l + 1 - n : b[x] = z[x]
  <2> TAKE x \in 1 .. l + 1 - n
  <2>1. b[x] = r[n + x]
    BY <1>4
  <2>2. CASE x = l - n + 1
    <3>1. n + x = l + 1
      BY <1>1, <2>2
    <3>2. b[x] = m
      BY <1>1, <2>1, <3>1
    <3>3. QED
      BY <1>5, <2>2, <3>2
  <2>3. CASE x # l - n + 1
    <3>1. x \in 1 .. l - n /\ n + x \in 1 .. l
      BY <1>1, <2>3
    <3>2. b[x] = q[n + x] /\ z[x] = q[n + x]
      BY <1>1, <1>3, <1>5, <2>1, <3>1
    <3>3. QED
      BY <3>2
  <2>4. QED
    BY <2>2, <2>3
<1>7. b = z
  BY <1>1, <1>4, <1>5, <1>6, SeqEqual
<1>8. Drop(q, n) = a /\ Drop(r, n) = b
  BY <1>1 DEF Drop, a, b
<1>9. QED
  BY <1>3, <1>7, <1>8 DEF z, r

(* The beginnings of a sequence are beginnings of a longer one.             *)
LEMMA Beginning ==
  ASSUME NEW q \in Seq(Messages)
  PROVE  /\ SubSeq(q, 1, Len(q)) = q /\ Len(q) \in Nat
         /\ \A m \in Messages, n \in 0 .. Len(q) :
              SubSeq(Append(q, m), 1, n) = SubSeq(q, 1, n) /\ n \in 0 .. Len(Append(q, m))
<1>1. SubSeq(q, 1, Len(q)) = q /\ Len(q) \in Nat
  BY SubSeqFull, LenProperties
<1>2. ASSUME NEW m \in Messages, NEW n \in 0 .. Len(q)
      PROVE  SubSeq(Append(q, m), 1, n) = SubSeq(q, 1, n) /\ n \in 0 .. Len(Append(q, m))
  <2> DEFINE r == Append(q, m)
             a == SubSeq(q, 1, n)
             b == SubSeq(r, 1, n)
  <2>1. /\ r \in Seq(Messages) /\ Len(r) = Len(q) + 1 /\ \A x \in 1 .. Len(q) : r[x] = q[x]
    BY <1>2, AppendProperties
  <2>2. \A x \in 1 .. Len(q) : q[x] \in Messages
    BY ElementOfSeq
  <2> HIDE DEF r
  <2>3. /\ a \in Seq(Messages) /\ Len(a) = IF 1 <= n THEN n - 1 + 1 ELSE 0
        /\ \A x \in 1 .. n - 1 + 1 : a[x] = q[1 + x - 1]
    <3>1. \A x \in 1 .. n : q[x] \in Messages
      BY <1>1, <1>2, <2>2
    <3>2. QED
      BY <1>2, <3>1, SubSeqProperties
  <2>4. /\ b \in Seq(Messages) /\ Len(b) = IF 1 <= n THEN n - 1 + 1 ELSE 0
        /\ \A x \in 1 .. n - 1 + 1 : b[x] = r[1 + x - 1]
    <3>1. \A x \in 1 .. n : r[x] \in Messages
      BY <1>1, <1>2, <2>1, <2>2
    <3>2. QED
      BY <1>2, <3>1, SubSeqProperties
  <2> HIDE DEF a, b
  <2>5. \A x \in 1 .. Len(a) : a[x] = b[x]
    BY <1>1, <1>2, <2>1, <2>3, <2>4
  <2>6. a = b
    BY <2>3, <2>4, <2>5, SeqEqual
  <2>7. n \in 0 .. Len(r)
    BY <1>1, <1>2, <2>1
  <2>8. QED
    BY <2>6, <2>7 DEF a, b, r
<1>3. QED
  BY <1>1, <1>2

-----------------------------------------------------------------------------
(* Messages and their numbers.                                              *)

(* The messages of q are those of one author up to the number last.         *)
Own(q, by, id, last) ==
  \A x \in 1 .. Len(q) : q[x].by = by /\ q[x].id = id /\ q[x].n = last - Len(q) + x

(* Who the messages being processed were read from, and how many messages   *)
(* of a client or driver the server has read.                               *)
FromClient == pc \in {"relay", "command"} /\ reader # 0
FromDriver == pc = "relay" /\ reader = 0
Source     == clinfo[reader].conn
Speaker    == dvrinfo[i - 1].pid

ReadOf(peer) == peer.sent - Len(peer.out)

(* What is under way is numbered without a gap from what was read to what   *)
(* was sent.                                                                *)
Numbered ==
  /\ \A c \in Conns : Own(conn[c].out, "client", c, conn[c].sent)
  /\ \A p \in DOMAIN proc : Own(proc[p].out, "driver", p, proc[p].sent)
  /\ FromClient => Own(batch, "client", Source, ReadOf(conn[Source]))
  /\ FromDriver => i - 1 \in DOMAIN dvrinfo /\ Own(batch, "driver", Speaker, ReadOf(proc[Speaker]))
  /\ pc \notin {"command", "exit"} => k = 1


(* A message sent continues the numbering,                                  *)
LEMMA OwnAppend ==
  ASSUME NEW q \in Seq(Messages), NEW by, NEW id, NEW last \in Nat, Own(q, by, id, last),
         NEW m \in Messages, m.by = by, m.id = id, m.n = last + 1
  PROVE  /\ Own(Append(q, m), by, id, last + 1) /\ Len(Append(q, m)) = Len(q) + 1
         /\ Len(q) \in Nat
<1> DEFINE r == Append(q, m)
<1>1. /\ Len(q) \in Nat /\ Len(r) = Len(q) + 1 /\ r[Len(q) + 1] = m
      /\ \A x \in 1 .. Len(q) : r[x] = q[x]
  BY AppendProperties, LenProperties
<1> HIDE DEF r
<1>2. ASSUME NEW x \in 1 .. Len(r)
      PROVE  r[x].by = by /\ r[x].id = id /\ r[x].n = last + 1 - Len(r) + x
  <2>1. CASE x = Len(q) + 1
    BY <1>1, <2>1
  <2>2. CASE x # Len(q) + 1
    <3>1. x \in 1 .. Len(q)
      BY <1>1, <1>2, <2>2
    <3>2. r[x].by = by /\ r[x].id = id /\ r[x].n = last - Len(q) + x
      BY <1>1, <3>1 DEF Own
    <3>3. QED
      BY <1>1, <3>1, <3>2
  <2>3. QED
    BY <2>1, <2>2
<1>3. QED
  BY <1>1, <1>2 DEF Own, r

(* a read cuts it in two,                                                   *)
LEMMA OwnRead ==
  ASSUME NEW q \in Seq(Messages), NEW by, NEW id, NEW last \in Nat, Own(q, by, id, last),
         NEW n \in 1 .. Len(q)
  PROVE  /\ Own(Unread(q, n), by, id, last)
         /\ Own(SubSeq(q, 1, n), by, id, last - Len(Unread(q, n)))
<1> DEFINE a == SubSeq(q, 1, n)
           b == Unread(q, n)
<1>1. /\ Len(a) = n /\ \A x \in 1 .. n : a[x] = q[x]
      /\ Len(b) = Len(q) - n /\ \A x \in 1 .. Len(q) - n : b[x] = q[n + x]
      /\ Len(q) \in Nat
  BY ReadTakes, LenProperties
<1> HIDE DEF a, b
<1>2. Own(b, by, id, last)
  <2>1. ASSUME NEW x \in 1 .. Len(b)
        PROVE  b[x].by = by /\ b[x].id = id /\ b[x].n = last - Len(b) + x
    <3>1. n + x \in 1 .. Len(q) /\ b[x] = q[n + x]
      BY <1>1, <2>1
    <3>2. q[n + x].n = last - Len(q) + (n + x) /\ q[n + x].by = by /\ q[n + x].id = id
      BY <3>1 DEF Own
    <3>3. QED
      BY <1>1, <2>1, <3>1, <3>2
  <2>2. QED
    BY <2>1 DEF Own
<1>3. Own(a, by, id, last - Len(b))
  <2>1. ASSUME NEW x \in 1 .. Len(a)
        PROVE  a[x].by = by /\ a[x].id = id /\ a[x].n = (last - Len(b)) - Len(a) + x
    <3>1. x \in 1 .. Len(q) /\ a[x] = q[x]
      BY <1>1, <2>1
    <3>2. q[x].n = last - Len(q) + x /\ q[x].by = by /\ q[x].id = id
      BY <3>1 DEF Own
    <3>3. QED
      BY <1>1, <2>1, <3>1, <3>2
  <2>2. QED
    BY <2>1 DEF Own
<1>4. QED
  BY <1>2, <1>3 DEF a, b

(* and the first of a batch is the oldest.                                  *)
LEMMA OwnTail ==
  ASSUME NEW q \in Seq(Messages), NEW by, NEW id, NEW last \in Int, Own(q, by, id, last),
         q # <<>>
  PROVE  /\ Own(Tail(q), by, id, last) /\ Len(Tail(q)) = Len(q) - 1 /\ Len(q) \in Nat
         /\ Head(q).by = by /\ Head(q).id = id /\ Head(q).n = last - Len(q) + 1
<1> DEFINE b == Tail(q)
<1>1. /\ Len(b) = Len(q) - 1 /\ \A x \in 1 .. Len(b) : b[x] = q[x + 1]
      /\ Len(q) \in Nat /\ Len(q) # 0 /\ Head(q) = q[1]
  BY HeadTailProperties, LenProperties, EmptySeq
<1> HIDE DEF b
<1>2. ASSUME NEW x \in 1 .. Len(b)
      PROVE  b[x].by = by /\ b[x].id = id /\ b[x].n = last - Len(b) + x
  <2>1. x + 1 \in 1 .. Len(q) /\ b[x] = q[x + 1]
    BY <1>1, <1>2
  <2>2. q[x + 1].n = last - Len(q) + (x + 1) /\ q[x + 1].by = by /\ q[x + 1].id = id
    BY <2>1 DEF Own
  <2>3. QED
    BY <1>1, <1>2, <2>1, <2>2
<1>3. 1 \in 1 .. Len(q)
  BY <1>1
<1>4. Head(q).by = by /\ Head(q).id = id /\ Head(q).n = last - Len(q) + 1
  BY <1>1, <1>3 DEF Own
<1>5. QED
  BY <1>1, <1>2, <1>4 DEF Own, b

(* What a step of the server may change of a connection, and of a process.  *)
LEMMA ConnSteps ==
  ASSUME Inv, [Next]_vars, NEW c \in Conns
  PROVE  /\ ~World /\ ~ReadClient => conn'[c].out = conn[c].out /\ conn'[c].sent = conn[c].sent
         /\ pc # "relay" \/ World => conn'[c].got = conn[c].got
         /\ ~NewClient => conn'[c].since = conn[c].since
<1>1. conn[c] \in Connections
  BY DEF Inv, TypeOK
<1>2. CASE World
  BY <1>2, WorldActs DEF Inv, ClientActs, World, NewClient, ServerUnchanged
<1>3. CASE NewClient
  <2>1. PICK z \in Conns : /\ conn'[z] = [conn[z] EXCEPT !.st = "open", !.since = Len(aired)]
                          /\ \A x \in Conns : x # z => conn'[x] = conn[x]
    BY <1>3, NewClientFacts
  <2>2. conn'[c] = conn[c] \/ conn'[c] = [conn[c] EXCEPT !.st = "open", !.since = Len(aired)]
    BY <2>1
  <2>3. QED
    BY <1>1, <1>3, <2>2 DEF Connections
<1>4. CASE ReadClient
  <2> DEFINE z == clinfo[Least(ToRead)].conn
  <2>1. PICK n \in 1 .. Len(conn[z].out) :
          /\ conn'[z] = [conn[z] EXCEPT !.out = Unread(conn[z].out, n)]
          /\ \A x \in Conns : x # z => conn'[x] = conn[x]
    BY <1>4, ReadClientFacts
  <2> HIDE DEF z
  <2>2. conn'[c] = conn[c] \/ conn'[c] = [conn[c] EXCEPT !.out = Unread(conn[c].out, n)]
    BY <2>1
  <2>3. QED
    BY <1>1, <1>4, <2>2 DEF Connections
<1>5. CASE ReadClientFails
  <2> DEFINE z == clinfo[Least(ToRead)].conn
  <2>1. /\ conn'[z] = [conn[z] EXCEPT !.st = "closed"]
        /\ \A x \in Conns : x # z => conn'[x] = conn[x]
    BY <1>5, ReadClientFailsFacts
  <2> HIDE DEF z
  <2>2. conn'[c] = conn[c] \/ conn'[c] = [conn[c] EXCEPT !.st = "closed"]
    BY <2>1
  <2>3. QED
    BY <1>1, <1>5, <2>2 DEF Connections
<1>6. CASE ~World /\ (RelayFromDriver \/ RelayFromClient)
  <2> DEFINE m == Head(batch)
  <2>1. /\ pc = "relay"
        /\ Air(m) \/ conn' = conn
    BY <1>6 DEF RelayFromDriver, RelayFromClient
  <2>2. m \in Messages
    BY <1>6, BatchFacts DEF RelayFromDriver, RelayFromClient, Inv, Phases
  <2> HIDE DEF m
  <2>3. CASE conn' = conn
    BY <2>3
  <2>4. CASE Air(m)
    <3>1. PICK lost : Aired(m, lost)
      BY <2>2, <2>4, AirFacts DEF Inv
    <3>2. \/ conn'[c] = conn[c]
          \/ conn'[c] = [conn[c] EXCEPT !.st = "closed"]
          \/ conn'[c] = [conn[c] EXCEPT !.got = Append(conn[c].got, m)]
      BY <3>1 DEF Aired
    <3>3. QED
      BY <1>1, <1>6, <2>1, <3>2 DEF Connections
  <2>5. QED
    BY <2>1, <2>3, <2>4
<1>7. CASE ~(World \/ NewClient \/ ReadClient \/ ReadClientFails \/ RelayFromDriver
             \/ RelayFromClient)
  <2>1. conn' = conn
    BY <1>7 DEF Next, Server, StartDvr, IndiListen, Select, NoNewClient, ClientsDone,
                ReadDriver, ReadDriverFails, DriversDone, Command, CommandDone,
                vars, peers
  <2>2. QED
    BY <2>1
<1>8. QED
  BY <1>2, <1>3, <1>4, <1>5, <1>6, <1>7

(* Which steps change what driver processes have sent and got.              *)
LEMMA ProcSteps ==
  ASSUME DistinctNames, Inv, [Next]_vars
  PROVE  /\ DOMAIN proc \subseteq DOMAIN proc'
         /\ \A p \in DOMAIN proc :
              /\ ~World /\ ~ReadDriver => proc'[p].out = proc[p].out /\ proc'[p].sent = proc[p].sent
              /\ pc # "command" \/ World => proc'[p].got = proc[p].got
         /\ \A p \in DOMAIN proc' : p \notin DOMAIN proc => proc'[p].out = <<>> /\ proc'[p].got = <<>>
<1> DEFINE n == Len(proc)
<1>1. DOMAIN proc = 1 .. n /\ n \in Nat /\ \A p \in DOMAIN proc : proc[p] \in Processes
  BY TablesFinite DEF Inv
<1>2. CASE World
  BY <1>2, WorldActs DEF Inv, DriverActs
<1>3. CASE StartDvr
  <2> DEFINE y == NewProcess(Argv[n + 1])
  <2>1. /\ DOMAIN proc' = 1 .. n + 1 /\ proc' = Append(proc, y) /\ proc \in Seq(Processes)
        /\ y \in Processes
    BY <1>3, StartDvrFacts, NewProcessType DEF Inv, TypeOK
  <2>2. y.out = <<>> /\ y.got = <<>>
    BY DEF NewProcess
  <2> HIDE DEF y
  <2>3. proc'[n + 1] = y /\ \A p \in 1 .. n : proc'[p] = proc[p]
    BY <2>1, AppendProperties
  <2>4. QED
    BY <1>1, <2>1, <2>2, <2>3
<1>4. CASE ReadDriver
  <2> DEFINE z == dvrinfo[Least(ToHear)].pid
  <2>1. PICK x \in 1 .. Len(proc[z].out) :
          /\ DOMAIN proc' = DOMAIN proc
          /\ proc'[z] = [proc[z] EXCEPT !.out = Unread(proc[z].out, x)]
          /\ \A p \in DOMAIN proc : p # z => proc'[p] = proc[p]
    BY <1>4, ReadDriverFacts
  <2> HIDE DEF z
  <2>2. \A p \in DOMAIN proc : \/ proc'[p] = proc[p]
                             \/ proc'[p] = [proc[p] EXCEPT !.out = Unread(proc[p].out, x)]
    BY <2>1
  <2>3. QED
    BY <1>1, <1>4, <2>1, <2>2 DEF Processes
<1>5. ASSUME pc \in {"drivers", "command"}, NEW d \in DOMAIN dvrinfo, RestartDvr(d, pc)
      PROVE  /\ DOMAIN proc \subseteq DOMAIN proc'
             /\ \A p \in DOMAIN proc : /\ proc'[p].out = proc[p].out
                                      /\ proc'[p].sent = proc[p].sent
                                      /\ proc'[p].got = proc[p].got
             /\ \A p \in DOMAIN proc' :
                  p \notin DOMAIN proc => proc'[p].out = <<>> /\ proc'[p].got = <<>>
  <2> DEFINE K == Killed(d)
             y == NewProcess(dvrinfo[d].name)
  <2>1. /\ DOMAIN K = DOMAIN proc
        /\ \A p \in DOMAIN proc : /\ K[p].out = proc[p].out
                                 /\ K[p].sent = proc[p].sent
                                 /\ K[p].got = proc[p].got
    BY <1>5, KilledFacts DEF Inv
  <2>2. \/ proc' = K
        \/ /\ DOMAIN proc' = 1 .. n + 1 /\ \A p \in DOMAIN proc : proc'[p] = K[p]
           /\ proc'[n + 1] = y
    BY <1>5, RestartProcs
  <2>3. y.out = <<>> /\ y.got = <<>>
    BY DEF NewProcess
  <2> HIDE DEF K, y
  <2>4. QED
    BY <1>1, <2>1, <2>2, <2>3
<1>6. CASE ReadDriverFails
  <2>1. pc = "drivers" /\ RestartDvr(Least(ToHear), pc) /\ Least(ToHear) \in DOMAIN dvrinfo
    BY <1>6, ToHearFacts DEF Inv, ReadDriverFails
  <2>2. QED
    BY <1>5, <2>1
<1>7. CASE Command /\ ~World
  <2>1. k \in DOMAIN dvrinfo /\ pc = "command"
    BY <1>7, TablesFinite DEF Command, Inv, TypeOK
  <2>2. CASE Takes(proc[dvrinfo[k].pid].peer)
    <3> DEFINE z == dvrinfo[k].pid
    <3>1. /\ DOMAIN proc' = DOMAIN proc
          /\ proc'[z] = [proc[z] EXCEPT !.got = Append(proc[z].got, Head(batch))]
          /\ \A p \in DOMAIN proc : p # z => proc'[p] = proc[p]
      BY <1>7, <2>2, CommandTaken
    <3> HIDE DEF z
    <3>2. \A p \in DOMAIN proc :
            \/ proc'[p] = proc[p]
            \/ proc'[p] = [proc[p] EXCEPT !.got = Append(proc[p].got, Head(batch))]
      BY <3>1
    <3>3. QED
      BY <1>1, <1>7, <2>1, <3>1, <3>2 DEF Processes
  <2>3. CASE ~Takes(proc[dvrinfo[k].pid].peer)
    <3>1. RestartDvr(k, pc)
      BY <1>7, <2>1, <2>3 DEF Command
    <3>2. QED
      BY <1>5, <2>1, <3>1
  <2>4. QED
    BY <2>2, <2>3
<1>8. CASE ~(World \/ StartDvr \/ ReadDriver \/ ReadDriverFails \/ Command)
  <2>1. proc' = proc
    BY <1>8 DEF Next, Server, IndiListen, Select, NewClient, NoNewClient, ReadClient,
                ReadClientFails, ClientsDone, DriversDone, RelayFromDriver,
                RelayFromClient, CommandDone, vars, peers
  <2>2. QED
    BY <2>1
<1>9. QED
  BY <1>2, <1>3, <1>4, <1>6, <1>7, <1>8

(* No two entries of the driver table name one process.                     *)
OneProcessEach == \A d, g \in DOMAIN dvrinfo : dvrinfo[d].pid = dvrinfo[g].pid => d = g

(* Every step keeps it: a restarted driver gets a new process.              *)
LEMMA OneProcessStep ==
  ASSUME DistinctNames, Inv, OneProcessEach, [Next]_vars
  PROVE  OneProcessEach'
<1> DEFINE n == Len(proc)
<1>1. /\ DOMAIN proc = 1 .. n /\ n \in Nat
      /\ \A d \in DOMAIN dvrinfo : dvrinfo[d].pid \in 1 .. n
  BY TablesFinite DEF Inv, TypeOK
<1>2. CASE dvrinfo' = dvrinfo
  BY <1>2 DEF OneProcessEach
<1>3. CASE /\ DOMAIN dvrinfo = 1 .. n /\ DOMAIN dvrinfo' = 1 .. n + 1
           /\ dvrinfo'[n + 1].pid = n + 1
           /\ \A d \in DOMAIN dvrinfo : dvrinfo'[d] = dvrinfo[d]
  <2>1. \A d \in 1 .. n + 1 : d \in 1 .. n \/ d = n + 1
    BY <1>1
  <2>2. \A d \in 1 .. n : dvrinfo'[d].pid # n + 1
    BY <1>1, <1>3
  <2>3. QED
    BY <1>1, <1>3, <2>1, <2>2 DEF OneProcessEach
<1>4. ASSUME pc \in {"drivers", "command"}, NEW d \in DOMAIN dvrinfo, RestartDvr(d, pc)
      PROVE  OneProcessEach'
  <2>1. \/ dvrinfo' = dvrinfo
        \/ /\ DOMAIN dvrinfo' = DOMAIN dvrinfo /\ dvrinfo'[d].pid = n + 1
           /\ \A g \in DOMAIN dvrinfo : g # d => dvrinfo'[g] = dvrinfo[g]
    BY <1>4, RestartProcs
  <2>2. \A g \in DOMAIN dvrinfo : dvrinfo[g].pid # n + 1
    BY <1>1
  <2>3. QED
    BY <1>2, <1>4, <2>1, <2>2 DEF OneProcessEach
<1>5. QED
  BY <1>2, <1>3, <1>4, DriversChange

(* Clients and drivers add to what they have sent.                          *)
LEMMA WorldNumbered ==
  ASSUME Inv, Numbered, World
  PROVE  /\ \A c \in Conns : Own(conn'[c].out, "client", c, conn'[c].sent)
         /\ \A p \in DOMAIN proc : Own(proc'[p].out, "driver", p, proc'[p].sent)
         /\ \A c \in Conns : ReadOf(conn'[c]) = ReadOf(conn[c])
         /\ \A p \in DOMAIN proc : ReadOf(proc'[p]) = ReadOf(proc[p])
<1>1. /\ \A c \in Conns : ClientActs(c, conn[c], conn'[c])
      /\ \A p \in DOMAIN proc : DriverActs(p, proc[p], proc'[p])
  BY WorldActs DEF Inv
<1>2. ASSUME NEW c \in Conns
      PROVE  /\ Own(conn'[c].out, "client", c, conn'[c].sent)
             /\ ReadOf(conn'[c]) = ReadOf(conn[c])
  <2>1. conn[c] \in Connections /\ ClientActs(c, conn[c], conn'[c])
    BY <1>1, <1>2 DEF Inv, TypeOK
  <2>2. conn[c].out \in Seq(Messages) /\ conn[c].sent \in Nat
    BY <2>1 DEF Connections
  <2>3. Own(conn[c].out, "client", c, conn[c].sent)
    BY <1>2 DEF Numbered
  <2>4. ASSUME NEW new \in BOOLEAN,
               conn'[c].out = Append(conn[c].out, ClientMessage(c, conn[c].sent + 1, new)),
               conn'[c].sent = conn[c].sent + 1
        PROVE  /\ Own(conn'[c].out, "client", c, conn'[c].sent)
               /\ ReadOf(conn'[c]) = ReadOf(conn[c])
    <3> DEFINE m == ClientMessage(c, conn[c].sent + 1, new)
    <3>1. m \in Messages /\ m.by = "client" /\ m.id = c /\ m.n = conn[c].sent + 1
      BY <1>2, <2>2, <2>4 DEF ClientMessage, Messages
    <3> HIDE DEF m
    <3>2. /\ Own(Append(conn[c].out, m), "client", c, conn[c].sent + 1)
          /\ Len(Append(conn[c].out, m)) = Len(conn[c].out) + 1 /\ Len(conn[c].out) \in Nat
      BY <2>2, <2>3, <3>1, OwnAppend
    <3>3. QED
      BY <2>2, <2>4, <3>2 DEF ReadOf, m
  <2>5. QED
    BY <2>1, <2>3, <2>4 DEF ClientActs, ReadOf
<1>3. ASSUME NEW p \in DOMAIN proc
      PROVE  /\ Own(proc'[p].out, "driver", p, proc'[p].sent)
             /\ ReadOf(proc'[p]) = ReadOf(proc[p])
  <2>1. proc[p] \in Processes /\ p \in Nat /\ DriverActs(p, proc[p], proc'[p])
    BY <1>1, <1>3, TablesFinite DEF Inv
  <2>2. proc[p].out \in Seq(Messages) /\ proc[p].sent \in Nat
    BY <2>1 DEF Processes
  <2>3. Own(proc[p].out, "driver", p, proc[p].sent)
    BY <1>3 DEF Numbered
  <2>4. CASE /\ proc'[p].out = Append(proc[p].out, DriverMessage(p, proc[p].sent + 1))
             /\ proc'[p].sent = proc[p].sent + 1
    <3> DEFINE m == DriverMessage(p, proc[p].sent + 1)
    <3>1. m \in Messages /\ m.by = "driver" /\ m.id = p /\ m.n = proc[p].sent + 1
      BY <2>1, <2>2 DEF DriverMessage, Messages
    <3> HIDE DEF m
    <3>2. /\ Own(Append(proc[p].out, m), "driver", p, proc[p].sent + 1)
          /\ Len(Append(proc[p].out, m)) = Len(proc[p].out) + 1 /\ Len(proc[p].out) \in Nat
      BY <2>2, <2>3, <3>1, OwnAppend
    <3>3. QED
      BY SMTT(30), <2>2, <2>4, <3>2 DEF ReadOf, m
  <2>5. QED
    BY <2>1, <2>3, <2>4 DEF DriverActs, ReadOf
<1>4. QED
  BY <1>2, <1>3

(* What is read leaves the rest numbered as it was.                         *)
LEMMA ReadClientNumbered ==
  ASSUME Inv, Numbered, ReadClient
  PROVE  /\ \A c \in Conns : Own(conn'[c].out, "client", c, conn'[c].sent)
         /\ FromClient' /\ Own(batch', "client", Source', ReadOf(conn'[Source']))
<1> DEFINE e == Least(ToRead)
           z == clinfo[e].conn
<1>1. /\ pc' = "relay" /\ reader' = e /\ clinfo' = clinfo /\ e \in Nat \ {0} /\ z \in Conns
  BY ReadClientFacts, ToReadFacts DEF Inv, ReadClient
<1>2. PICK n \in 1 .. Len(conn[z].out) :
        /\ batch' = SubSeq(conn[z].out, 1, n)
        /\ conn'[z] = [conn[z] EXCEPT !.out = Unread(conn[z].out, n)]
        /\ \A x \in Conns : x # z => conn'[x] = conn[x]
  BY ReadClientFacts
<1> HIDE DEF e
<1>3. FromClient' /\ Source' = z
  BY <1>1 DEF FromClient, Source
<1> HIDE DEF z
<1>4. /\ conn[z] \in Connections /\ conn[z].out \in Seq(Messages) /\ conn[z].sent \in Nat
      /\ Own(conn[z].out, "client", z, conn[z].sent)
  BY <1>1 DEF Inv, TypeOK, Numbered, Connections
<1>5. /\ Own(Unread(conn[z].out, n), "client", z, conn[z].sent)
      /\ Own(SubSeq(conn[z].out, 1, n), "client", z, conn[z].sent - Len(Unread(conn[z].out, n)))
  BY <1>2, <1>4, OwnRead
<1>6. conn'[z].out = Unread(conn[z].out, n) /\ conn'[z].sent = conn[z].sent
  BY <1>2, <1>4 DEF Connections
<1>7. \A c \in Conns : Own(conn'[c].out, "client", c, conn'[c].sent)
  BY <1>2, <1>5, <1>6 DEF Numbered
<1>8. QED
  BY <1>2, <1>3, <1>5, <1>6, <1>7 DEF ReadOf

(* ReadDriver takes the oldest of a driver's messages.                      *)
LEMMA ReadDriverNumbered ==
  ASSUME Inv, Numbered, ReadDriver
  PROVE  /\ \A p \in DOMAIN proc : Own(proc'[p].out, "driver", p, proc'[p].sent)
         /\ FromDriver' /\ i' - 1 \in DOMAIN dvrinfo'
         /\ Own(batch', "driver", Speaker', ReadOf(proc'[Speaker']))
<1> DEFINE e == Least(ToHear)
           z == dvrinfo[e].pid
<1>1. /\ pc' = "relay" /\ reader' = 0 /\ dvrinfo' = dvrinfo /\ i' = e + 1
      /\ e \in Nat \ {0} /\ e \in DOMAIN dvrinfo /\ z \in DOMAIN proc
  BY ReadDriverFacts, ToHearFacts DEF Inv, ReadDriver
<1>2. PICK n \in 1 .. Len(proc[z].out) :
        /\ batch' = SubSeq(proc[z].out, 1, n)
        /\ proc'[z] = [proc[z] EXCEPT !.out = Unread(proc[z].out, n)]
        /\ \A x \in DOMAIN proc : x # z => proc'[x] = proc[x]
  BY ReadDriverFacts
<1> HIDE DEF e
<1>3. FromDriver' /\ i' - 1 = e /\ i' - 1 \in DOMAIN dvrinfo' /\ Speaker' = z
  BY <1>1 DEF FromDriver, Speaker
<1> HIDE DEF z
<1>4. /\ proc[z] \in Processes /\ proc[z].out \in Seq(Messages) /\ proc[z].sent \in Nat
      /\ Own(proc[z].out, "driver", z, proc[z].sent)
  BY <1>1, TablesFinite DEF Inv, Numbered, Processes
<1>5. /\ Own(Unread(proc[z].out, n), "driver", z, proc[z].sent)
      /\ Own(SubSeq(proc[z].out, 1, n), "driver", z, proc[z].sent - Len(Unread(proc[z].out, n)))
  BY <1>2, <1>4, OwnRead
<1>6. proc'[z].out = Unread(proc[z].out, n) /\ proc'[z].sent = proc[z].sent
  BY <1>2, <1>4 DEF Processes
<1>7. \A p \in DOMAIN proc : Own(proc'[p].out, "driver", p, proc'[p].sent)
  BY <1>2, <1>5, <1>6 DEF Numbered
<1>8. QED
  BY <1>2, <1>3, <1>5, <1>6, <1>7 DEF ReadOf

(* These counts are numbers.                                                *)
LEMMA ReadOfInt ==
  ASSUME Inv
  PROVE  /\ \A c \in Conns : ReadOf(conn[c]) \in Int
         /\ \A p \in DOMAIN proc : ReadOf(proc[p]) \in Int
<1>1. ASSUME NEW a, a \in Connections \/ a \in Processes
      PROVE  ReadOf(a) \in Int
  <2>1. a.out \in Seq(Messages) /\ a.sent \in Nat
    BY <1>1 DEF Connections, Processes
  <2>2. Len(a.out) \in Nat
    BY <2>1, LenProperties
  <2>3. QED
    BY <2>1, <2>2 DEF ReadOf
<1>2. QED
  BY <1>1, TablesFinite DEF Inv, TypeOK

(* The messages being processed stay those of the peer they were read from. *)
LEMMA ClientBatchNumbered ==
  ASSUME DistinctNames, Inv, Numbered, [Next]_vars, FromClient'
  PROVE  Own(batch', "client", Source', ReadOf(conn'[Source']))
<1>1. CASE ReadClient
  BY <1>1, ReadClientNumbered
<1>2. ASSUME FromClient
      PROVE  /\ Source \in Conns /\ reader \in DOMAIN clinfo /\ ReadOf(conn[Source]) \in Int
             /\ Own(batch, "client", Source, ReadOf(conn[Source])) /\ batch \in Seq(Messages)
  BY <1>2, TablesFinite, ReadOfInt
  DEF FromClient, Source, Inv, Phases, TypeOK, Numbered, ClientEntries
<1>3. CASE World
  <2>1. UNCHANGED <<clinfo, pc, reader, batch>>
    BY <1>3, WorldActs DEF Inv, ServerUnchanged, tables, relay
  <2>2. FromClient /\ Source' = Source
    BY <2>1 DEF FromClient, Source
  <2>3. QED
    BY <1>2, <1>3, <2>1, <2>2, WorldNumbered
<1>4. CASE ~World /\ (RelayFromClient \/ Command \/ CommandDone)
  <2>1. FromClient
    BY <1>4 DEF RelayFromClient, Command, CommandDone, FromClient, Inv, Phases
  <2>2. ~ReadClient
    BY <2>1 DEF FromClient, ReadClient
  <2>3. ReadOf(conn'[Source]) = ReadOf(conn[Source])
    BY <1>2, <1>4, <2>1, <2>2, ConnSteps DEF ReadOf
  <2>4. CASE RelayFromClient \/ Command
    <3>1. reader' = reader /\ batch' = batch
      BY <2>4 DEF RelayFromClient, Command, relay
    <3>2. CASE clinfo' = clinfo
      BY <1>2, <2>1, <2>3, <3>1, <3>2 DEF Source
    <3>3. CASE Air(Head(batch))
      <4>1. Head(batch) \in Messages
        BY <2>1, BatchFacts DEF FromClient, Inv, Phases
      <4>2. clinfo'[reader].conn = clinfo[reader].conn
        BY <1>2, <2>1, <3>3, <4>1, AirFacts DEF Inv
      <4>3. QED
        BY <1>2, <2>1, <2>3, <3>1, <4>2 DEF Source
    <3>4. QED
      BY <2>4, <3>2, <3>3 DEF RelayFromClient, Command
  <2>5. CASE CommandDone
    <3>1. /\ batch' = Tail(batch) /\ clinfo' = clinfo /\ batch # <<>>
          /\ reader' = reader \/ reader' = 0
      BY <2>1, <2>5 DEF CommandDone, NextMessage, tables, FromClient, Inv, Phases
    <3>2. Source' = Source
      BY <3>1 DEF FromClient, Source
    <3>3. Own(Tail(batch), "client", Source, ReadOf(conn[Source]))
      BY <1>2, <2>1, <3>1, OwnTail
    <3>4. QED
      BY <2>3, <3>1, <3>2, <3>3
  <2>6. QED
    BY <1>4, <2>4, <2>5
<1>5. CASE UNCHANGED vars
  <2>1. UNCHANGED <<conn, clinfo, pc, reader, batch>>
    BY <1>5 DEF vars, peers, tables, relay
  <2>2. FromClient /\ Source' = Source
    BY <2>1 DEF FromClient, Source
  <2>3. QED
    BY <1>2, <2>1, <2>2
<1>6. CASE StartDvr \/ IndiListen \/ Select \/ NewClient \/ NoNewClient \/ ReadClientFails
           \/ ClientsDone \/ ReadDriver \/ DriversDone
  <2>1. pc' \in {"start", "select", "accept", "clients", "drivers"} \/ reader' = 0
    BY <1>6 DEF StartDvr, IndiListen, Select, NewClient, NoNewClient, ReadClientFails,
                ClientsDone, ReadDriver, DriversDone
  <2>2. QED
    BY <2>1 DEF FromClient
<1>7. CASE ReadDriverFails
  BY <1>7 DEF ReadDriverFails, RestartDvr, FromClient
<1>8. CASE RelayFromDriver
  BY <1>8, NextMessageFacts DEF RelayFromDriver, FromClient, Inv, Phases
<1>9. QED
  BY <1>1, <1>3, <1>4, <1>5, <1>6, <1>7, <1>8 DEF Next, Server

(* What is left of a batch of a driver continues what was processed.        *)
LEMMA DriverBatchNumbered ==
  ASSUME DistinctNames, Inv, Numbered, [Next]_vars, FromDriver'
  PROVE  /\ i' - 1 \in DOMAIN dvrinfo'
         /\ Own(batch', "driver", Speaker', ReadOf(proc'[Speaker']))
<1>1. CASE ReadDriver
  BY <1>1, ReadDriverNumbered
<1>2. ASSUME FromDriver
      PROVE  /\ Speaker \in DOMAIN proc /\ i - 1 \in DOMAIN dvrinfo
             /\ ReadOf(proc[Speaker]) \in Int
             /\ Own(batch, "driver", Speaker, ReadOf(proc[Speaker])) /\ batch \in Seq(Messages)
  BY <1>2, ReadOfInt DEF FromDriver, Speaker, Inv, TypeOK, Numbered
<1>3. CASE World
  <2>1. UNCHANGED <<dvrinfo, pc, i, reader, batch>>
    BY <1>3, WorldActs DEF Inv, ServerUnchanged, tables, loop, relay
  <2>2. FromDriver /\ Speaker' = Speaker
    BY <2>1 DEF FromDriver, Speaker
  <2>3. QED
    BY <1>2, <1>3, <2>1, <2>2, WorldNumbered
<1>4. CASE RelayFromDriver
  <2>1. FromDriver /\ batch' = Tail(batch) /\ batch # <<>> /\ UNCHANGED <<proc, dvrinfo, i>>
    BY <1>4 DEF RelayFromDriver, NextMessage, FromDriver, loop, Inv, Phases
  <2>2. Own(Tail(batch), "driver", Speaker, ReadOf(proc[Speaker]))
    BY <1>2, <2>1, OwnTail
  <2>3. QED
    BY <1>2, <2>1, <2>2 DEF Speaker
<1>5. CASE UNCHANGED vars
  <2>1. UNCHANGED <<proc, dvrinfo, pc, i, reader, batch>>
    BY <1>5 DEF vars, peers, tables, loop, relay
  <2>2. FromDriver
    BY <2>1 DEF FromDriver
  <2>3. QED
    BY <1>2, <2>1, <2>2 DEF Speaker
<1>6. CASE StartDvr \/ IndiListen \/ Select \/ NewClient \/ NoNewClient \/ ReadClientFails
           \/ ClientsDone \/ DriversDone \/ RelayFromClient
  <2>1. pc' # "relay"
    BY <1>6 DEF StartDvr, IndiListen, Select, NewClient, NoNewClient, ReadClientFails,
                ClientsDone, DriversDone, RelayFromClient
  <2>2. QED
    BY <2>1 DEF FromDriver
<1>7. CASE ReadClient
  BY <1>7, ReadClientNumbered DEF FromClient, FromDriver
<1>8. CASE ReadDriverFails \/ Command
  BY <1>8 DEF ReadDriverFails, Command, RestartDvr, FromDriver
<1>9. CASE CommandDone
  BY <1>9, NextMessageFacts DEF CommandDone, FromDriver, Inv, Phases
<1>10. QED
  BY <1>1, <1>3, <1>4, <1>5, <1>6, <1>7, <1>8, <1>9 DEF Next, Server

(* Every step keeps the numbering.                                          *)
LEMMA NumberedStep ==
  ASSUME DistinctNames, Inv, Numbered, [Next]_vars
  PROVE  Numbered'
<1>1. \A c \in Conns : Own(conn'[c].out, "client", c, conn'[c].sent)
  <2>1. CASE ~World /\ ~ReadClient
    BY <2>1, ConnSteps DEF Numbered
  <2>2. QED
    BY <2>1, WorldNumbered, ReadClientNumbered
<1>2. \A p \in DOMAIN proc' : Own(proc'[p].out, "driver", p, proc'[p].sent)
  <2>1. \A p \in DOMAIN proc : Own(proc'[p].out, "driver", p, proc'[p].sent)
    <3>1. CASE ~World /\ ~ReadDriver
      BY <3>1, ProcSteps DEF Numbered
    <3>2. QED
      BY <3>1, WorldNumbered, ReadDriverNumbered
  <2>2. ASSUME NEW p \in DOMAIN proc', p \notin DOMAIN proc
        PROVE  Own(proc'[p].out, "driver", p, proc'[p].sent)
    <3>1. proc'[p].out = <<>> /\ Len(<<>>) = 0
      BY <2>2, ProcSteps, EmptySeq
    <3>2. QED
      BY <3>1 DEF Own
  <2>3. QED
    BY <2>1, <2>2
<1>3. FromClient' => Own(batch', "client", Source', ReadOf(conn'[Source']))
  BY ClientBatchNumbered
<1>4. FromDriver' => /\ i' - 1 \in DOMAIN dvrinfo'
                     /\ Own(batch', "driver", Speaker', ReadOf(proc'[Speaker']))
  BY DriverBatchNumbered
<1>5. pc' \notin {"command", "exit"} => k' = 1
  <2>1. CASE World
    BY <2>1, WorldActs DEF Inv, ServerUnchanged, relay, Numbered
  <2>2. CASE RelayFromDriver \/ CommandDone
    BY <2>2 DEF RelayFromDriver, CommandDone, NextMessage
  <2>3. CASE Command
    BY <2>3 DEF Command, RestartDvr
  <2>4. CASE ~(World \/ RelayFromDriver \/ CommandDone \/ Command)
    <3>1. k' = k /\ (pc \notin {"command", "exit"} \/ pc' = pc)
      BY <2>4 DEF Next, Server, StartDvr, IndiListen, Select, NewClient, NoNewClient,
                  ReadClient, ReadClientFails, ClientsDone, ReadDriver, ReadDriverFails,
                  DriversDone, RelayFromClient, vars, relay
    <3>2. QED
      BY <3>1 DEF Numbered
  <2>5. QED
    BY <2>1, <2>2, <2>3, <2>4
<1>6. QED
  BY <1>1, <1>2, <1>3, <1>4, <1>5 DEF Numbered

-----------------------------------------------------------------------------
(* What clients have seen.                                                  *)

(* The messages that are not of client c, and those it is due after n.      *)
NotOwn(c) == {m \in Messages : ~(m.by = "client" /\ m.id = c)}
DueOf(air, c, n) == Only(Drop(air, n), NotOwn(c))

(* So stands client c, of state a, when air has been sent.                  *)
Seen(a, c, air) ==
  /\ a.since <= Len(air)
  /\ a.st \in {"away", "calling"} => a.got = <<>>
  /\ a.st = "open" => a.got = DueOf(air, c, a.since)
  /\ a.st = "closed" => \E n \in 0 .. Len(DueOf(air, c, a.since)) :
                          a.got = SubSeq(DueOf(air, c, a.since), 1, n)

(* Every client has seen what it should.                                    *)
SeenSoFar == \A c \in Conns : Seen(conn[c], c, aired)

(* A message more that was sent is one more that is due.                    *)
LEMMA DueAfter ==
  ASSUME NEW air \in Seq(Messages), NEW c, NEW n \in Nat, n <= Len(air)
  PROVE  /\ DueOf(air, c, n) \in Seq(Messages)
         /\ \A m \in Messages :
              DueOf(Append(air, m), c, n) = IF m \in NotOwn(c) THEN Append(DueOf(air, c, n), m)
                                            ELSE DueOf(air, c, n)
<1>1. n \in 0 .. Len(air)
  BY LenProperties
<1>2. Drop(air, n) \in Seq(Messages)
  <2>1. Len(air) \in Nat /\ \A x \in 1 .. Len(air) : air[x] \in Messages
    BY LenProperties, ElementOfSeq
  <2>2. QED
    BY <1>1, <2>1, SubSeqProperties DEF Drop
<1>3. DueOf(air, c, n) \in Seq(Messages)
  BY <1>2, OnlyType DEF DueOf
<1>4. ASSUME NEW m \in Messages
      PROVE  DueOf(Append(air, m), c, n) = IF m \in NotOwn(c) THEN Append(DueOf(air, c, n), m)
                                           ELSE DueOf(air, c, n)
  <2>1. Drop(Append(air, m), n) = Append(Drop(air, n), m)
    BY <1>1, <1>4, DropAppend
  <2>2. QED
    BY <1>2, <1>4, <2>1, OnlyAppend DEF DueOf
<1>5. QED
  BY <1>3, <1>4

(* A client connects or does nothing the server notices.                    *)
LEMMA SeenKept ==
  ASSUME NEW a, NEW b, NEW c, NEW air, Seen(a, c, air),
         b.st = a.st \/ (a.st = "away" /\ b.st = "calling"), b.got = a.got, b.since = a.since
  PROVE  Seen(b, c, air)
BY DEF Seen

(* It is accepted.                                                          *)
LEMMA SeenAccepted ==
  ASSUME NEW a, NEW b, NEW c, NEW air \in Seq(Messages), Seen(a, c, air),
         a.st = "calling", b.st = "open", b.got = a.got, b.since = Len(air)
  PROVE  Seen(b, c, air)
<1>1. Len(air) \in Nat
  BY LenProperties
<1>2. Drop(air, Len(air)) = <<>>
  BY <1>1, SubSeqEmpty DEF Drop
<1>3. DueOf(air, c, Len(air)) = <<>>
  BY <1>2, OnlyEmpty DEF DueOf
<1>4. QED
  BY <1>1, <1>3 DEF Seen

(* It is closed.                                                            *)
LEMMA SeenClosed ==
  ASSUME NEW a, NEW b, NEW c, NEW air \in Seq(Messages), Seen(a, c, air), a.since \in Nat,
         a.st = "open", b.st = "closed", b.got = a.got, b.since = a.since
  PROVE  Seen(b, c, air)
<1> DEFINE due == DueOf(air, c, a.since)
<1>1. a.got = due /\ a.since <= Len(air)
  BY DEF Seen
<1>2. due \in Seq(Messages)
  BY <1>1, DueAfter
<1> HIDE DEF due
<1>3. due = SubSeq(due, 1, Len(due)) /\ Len(due) \in 0 .. Len(due)
  BY <1>2, Beginning
<1>4. \E n \in 0 .. Len(due) : b.got = SubSeq(due, 1, n)
  BY <1>1, <1>3
<1>5. QED
  BY <1>1, <1>4 DEF Seen, due

(* A message is sent: to others, if it is not open or sent it itself.       *)
LEMMA SeenByOthers ==
  ASSUME NEW a, NEW c, NEW air \in Seq(Messages), Seen(a, c, air), a.since \in Nat,
         NEW m \in Messages, a.st # "open" \/ m \notin NotOwn(c)
  PROVE  Seen(a, c, Append(air, m))
<1> DEFINE due == DueOf(air, c, a.since)
           new == DueOf(Append(air, m), c, a.since)
<1>1. a.since <= Len(air)
  BY DEF Seen
<1>2. due \in Seq(Messages) /\ new = IF m \in NotOwn(c) THEN Append(due, m) ELSE due
  BY <1>1, DueAfter
<1> HIDE DEF due, new
<1>3. a.since <= Len(Append(air, m))
  BY <1>1, AppendProperties, LenProperties
<1>4. a.st = "open" => a.got = new
  BY <1>2 DEF Seen, due
<1>5. ASSUME a.st = "closed"
      PROVE  \E n \in 0 .. Len(new) : a.got = SubSeq(new, 1, n)
  <2>1. PICK n \in 0 .. Len(due) : a.got = SubSeq(due, 1, n)
    BY <1>5 DEF Seen, due
  <2>2. SubSeq(Append(due, m), 1, n) = SubSeq(due, 1, n) /\ n \in 0 .. Len(Append(due, m))
    BY <1>2, Beginning
  <2>3. QED
    BY <1>2, <2>1, <2>2
<1>6. QED
  BY <1>3, <1>4, <1>5 DEF Seen, new

(* To this client.                                                          *)
LEMMA SeenByIt ==
  ASSUME NEW a, NEW b, NEW c, NEW air \in Seq(Messages), Seen(a, c, air), a.since \in Nat,
         NEW m \in NotOwn(c), a.st = "open", b.st = "open", b.since = a.since,
         b.got = Append(a.got, m)
  PROVE  Seen(b, c, Append(air, m))
<1>1. a.since <= Len(air) /\ a.got = DueOf(air, c, a.since) /\ m \in Messages
  BY DEF Seen, NotOwn
<1>2. DueOf(Append(air, m), c, a.since) = Append(a.got, m)
  BY <1>1, DueAfter
<1>3. a.since <= Len(Append(air, m))
  BY <1>1, AppendProperties, LenProperties
<1>4. QED
  BY <1>2, <1>3 DEF Seen

(* A message sent to all clients but the one it was read from.              *)
LEMMA AirSeen ==
  ASSUME Inv, Numbered, SeenSoFar, pc = "relay", Air(Head(batch))
  PROVE  SeenSoFar'
<1> DEFINE m == Head(batch)
<1>1. m \in Messages /\ batch # <<>> /\ batch \in Seq(Messages) /\ aired \in Seq(Messages)
  BY BatchFacts DEF Inv, Phases, TypeOK
<1>2. /\ reader = 0 => m.by = "driver"
      /\ reader # 0 => reader \in Active /\ m.by = "client" /\ m.id = Source
  <2>1. CASE reader = 0
    <3>1. FromDriver /\ Speaker \in DOMAIN proc
      BY <2>1 DEF FromDriver, Speaker, Numbered, Inv, TypeOK
    <3>2. QED
      BY <1>1, <2>1, <3>1, ReadOfInt, OwnTail DEF Numbered
  <2>2. CASE reader # 0
    <3>1. FromClient /\ Source \in Conns /\ reader \in Active
      BY <2>2, TablesFinite DEF FromClient, Source, Inv, Phases, ClientEntries
    <3>2. QED
      BY <1>1, <2>2, <3>1, ReadOfInt, OwnTail DEF Numbered
  <2>3. QED
    BY <2>1, <2>2
<1> HIDE DEF m
<1>3. aired' = Append(aired, m)
  BY <1>1, AirFacts DEF Inv, m
<1>4. PICK lost : Aired(m, lost)
  BY <1>1, AirFacts DEF Inv, m
<1>5. /\ Active \subseteq Nat \ {0} /\ \A e \in Active : clinfo[e].conn \in Conns
      /\ \A e \in Active : conn[clinfo[e].conn].st = "open"
      /\ \A e, f \in Active : clinfo[e].conn = clinfo[f].conn => e = f
      /\ \A c \in Conns : conn[c].st = "open" => \E e \in Active : clinfo[e].conn = c
  BY TablesFinite DEF Inv, ClientsListed, ClientEntries
<1>6. ASSUME NEW c \in Conns
      PROVE  Seen(conn'[c], c, aired')
  <2>1. conn[c] \in Connections /\ Seen(conn[c], c, aired) /\ conn[c].since \in Nat
    BY <1>6 DEF Inv, TypeOK, SeenSoFar, Connections
  <2>2. CASE \A e \in Audience : clinfo[e].conn # c
    <3>1. conn'[c] = conn[c]
      BY <1>4, <1>6, <2>2 DEF Aired
    <3>2. conn[c].st # "open" \/ m \notin NotOwn(c)
      <4>1. SUFFICES ASSUME conn[c].st = "open" PROVE m \notin NotOwn(c)
        OBVIOUS
      <4>2. PICK e \in Active : clinfo[e].conn = c
        BY <1>5, <1>6, <4>1
      <4>3. e = reader /\ reader # 0
        BY <1>5, <2>2, <4>2 DEF Audience
      <4>4. QED
        BY <1>2, <4>2, <4>3 DEF NotOwn, Source
    <3>3. QED
      BY <1>1, <1>3, <2>1, <3>1, <3>2, SeenByOthers
  <2>3. ASSUME NEW e \in Audience, clinfo[e].conn = c
        PROVE  Seen(conn'[c], c, aired')
    <3>1. e \in Active /\ e # reader /\ conn[c].st = "open"
      BY <1>5, <2>3 DEF Audience
    <3>2. m \in NotOwn(c)
      BY <1>1, <1>2, <1>5, <2>3, <3>1 DEF NotOwn, Source
    <3>3. CASE e \in lost
      <4>1. conn'[c] = [conn[c] EXCEPT !.st = "closed"]
        BY <1>4, <2>3, <3>3 DEF Aired
      <4>2. /\ conn'[c].st = "closed" /\ conn'[c].got = conn[c].got
            /\ conn'[c].since = conn[c].since
        BY <2>1, <4>1 DEF Connections
      <4>3. Seen(conn'[c], c, aired)
        BY <1>1, <2>1, <3>1, <4>2, SeenClosed
      <4>4. QED
        BY <1>1, <1>3, <2>1, <4>2, <4>3, SeenByOthers
    <3>4. CASE e \notin lost
      <4>1. conn'[c] = [conn[c] EXCEPT !.got = Append(conn[c].got, m)]
        BY <1>4, <2>3, <3>4 DEF Aired
      <4>2. /\ conn'[c].st = "open" /\ conn'[c].got = Append(conn[c].got, m)
            /\ conn'[c].since = conn[c].since
        BY <2>1, <3>1, <4>1 DEF Connections
      <4>3. QED
        BY <1>1, <1>3, <2>1, <3>1, <3>2, <4>2, SeenByIt
    <3>5. QED
      BY <3>3, <3>4
  <2>4. QED
    BY <2>2, <2>3
<1>7. QED
  BY <1>6 DEF SeenSoFar

(* Every step keeps SeenSoFar.                                              *)
LEMMA SeenStep ==
  ASSUME DistinctNames, Inv, Numbered, SeenSoFar, [Next]_vars
  PROVE  SeenSoFar'
<1>1. /\ aired \in Seq(Messages)
      /\ \A c \in Conns : /\ conn[c] \in Connections /\ conn[c].since \in Nat
                          /\ Seen(conn[c], c, aired)
  BY DEF Inv, TypeOK, Connections, SeenSoFar
<1>2. CASE World
  BY <1>1, <1>2, WorldActs, SeenKept DEF Inv, ClientActs, ServerUnchanged, SeenSoFar
<1>3. CASE NewClient
  <2>1. PICK z \in Conns : /\ conn[z].st = "calling"
                          /\ conn'[z] = [conn[z] EXCEPT !.st = "open", !.since = Len(aired)]
                          /\ \A x \in Conns : x # z => conn'[x] = conn[x]
    BY <1>3, NewClientFacts
  <2>2. aired' = aired
    BY <1>3 DEF NewClient
  <2>3. /\ conn'[z].st = "open" /\ conn'[z].got = conn[z].got /\ conn'[z].since = Len(aired)
    BY <1>1, <2>1 DEF Connections
  <2>4. Seen(conn'[z], z, aired)
    BY <1>1, <2>1, <2>3, SeenAccepted
  <2>5. QED
    BY <1>1, <2>1, <2>2, <2>4 DEF SeenSoFar
<1>4. CASE ReadClientFails
  <2> DEFINE z == clinfo[Least(ToRead)].conn
  <2>1. /\ conn'[z] = [conn[z] EXCEPT !.st = "closed"] /\ z \in Conns /\ aired' = aired
        /\ Least(ToRead) \in Active
        /\ \A x \in Conns : x # z => conn'[x] = conn[x]
    BY <1>4, ReadClientFailsFacts
  <2>2. conn[z].st = "open"
    BY <2>1 DEF Inv, ClientsListed
  <2> HIDE DEF z
  <2>3. /\ conn'[z].st = "closed" /\ conn'[z].got = conn[z].got
        /\ conn'[z].since = conn[z].since
    BY <1>1, <2>1 DEF Connections
  <2>4. Seen(conn'[z], z, aired)
    BY <1>1, <2>1, <2>2, <2>3, SeenClosed
  <2>5. QED
    BY <1>1, <2>1, <2>4 DEF SeenSoFar
<1>5. CASE ReadClient
  <2> DEFINE z == clinfo[Least(ToRead)].conn
  <2>1. PICK n \in 1 .. Len(conn[z].out) :
          /\ conn'[z] = [conn[z] EXCEPT !.out = Unread(conn[z].out, n)]
          /\ \A x \in Conns : x # z => conn'[x] = conn[x]
    BY <1>5, ReadClientFacts
  <2>2. aired' = aired
    BY <1>5 DEF ReadClient
  <2> HIDE DEF z
  <2>3. \A c \in Conns : \/ conn'[c] = conn[c]
                         \/ conn'[c] = [conn[c] EXCEPT !.out = Unread(conn[c].out, n)]
    BY <2>1
  <2>4. \A c \in Conns : /\ conn'[c].st = conn[c].st /\ conn'[c].got = conn[c].got
                         /\ conn'[c].since = conn[c].since
    BY <1>1, <2>3 DEF Connections
  <2>5. QED
    BY <1>1, <2>2, <2>4, SeenKept DEF SeenSoFar
<1>6. CASE RelayFromDriver \/ (RelayFromClient /\ Head(batch).new)
  BY <1>6, AirSeen DEF RelayFromDriver, RelayFromClient
<1>7. CASE ~(World \/ NewClient \/ ReadClientFails \/ ReadClient \/ RelayFromDriver
             \/ (RelayFromClient /\ Head(batch).new))
  <2>1. conn' = conn /\ aired' = aired
    BY <1>7 DEF Next, Server, StartDvr, IndiListen, Select, NoNewClient, ClientsDone,
                ReadDriver, ReadDriverFails, DriversDone, RelayFromClient, Command,
                CommandDone, vars, peers
  <2>2. QED
    BY <2>1 DEF SeenSoFar
<1>8. QED
  BY <1>2, <1>3, <1>4, <1>5, <1>6, <1>7

(* The numbering, and what was seen, at the start.                          *)
LEMMA NumberedInit ==
  ASSUME Init
  PROVE  Numbered /\ SeenSoFar /\ OneProcessEach
<1>1. Len(<<>>) = 0 /\ DOMAIN proc = {} /\ DOMAIN dvrinfo = {}
  BY EmptySeq DEF Init
<1>2. Numbered
  BY <1>1 DEF Init, Numbered, FromClient, FromDriver, Own
<1>3. SeenSoFar
  BY <1>1 DEF Init, SeenSoFar, Seen
<1>4. QED
  BY <1>1, <1>2, <1>3 DEF OneProcessEach

(* Every client sees all that was sent since it was accepted, in its order  *)
(* and less its own, and one that was closed a beginning of it, however     *)
(* clients and drivers come, go and fail and whichever entries are reused.  *)
THEOREM ClientsSeeAllSent ==
  ASSUME DistinctNames
  PROVE  Spec => []ClientsSeeAll
<1>1. Init => Inv /\ Numbered /\ SeenSoFar
  BY InvInit, NumberedInit
<1>2. Inv /\ Numbered /\ SeenSoFar /\ [Next]_vars => (Inv /\ Numbered /\ SeenSoFar)'
  BY InvStep, NumberedStep, SeenStep
<1>3. SeenSoFar => ClientsSeeAll
  BY DEF SeenSoFar, Seen, ClientsSeeAll, Due, DueOf, NotOwn
<1>4. QED
  BY <1>1, <1>2, <1>3, PTL DEF Spec

-----------------------------------------------------------------------------
(* No gaps.                                                                 *)

(* The numbers follow each other; the last one is n.                        *)
Follow(q)    == \A x \in 1 .. Len(q) - 1 : q[x + 1].n = q[x].n + 1
EndsAt(q, n) == q = <<>> \/ q[Len(q)].n = n

(* The next number may be appended.                                         *)
LEMMA FollowAppend ==
  ASSUME NEW q \in Seq(Messages), NEW m \in Messages, NEW n \in Int, m.n = n + 1,
         Follow(q), EndsAt(q, n)
  PROVE  Follow(Append(q, m)) /\ EndsAt(Append(q, m), n + 1)
<1> DEFINE r == Append(q, m)
<1>1. /\ Len(q) \in Nat /\ Len(r) = Len(q) + 1 /\ r[Len(q) + 1] = m
      /\ \A x \in 1 .. Len(q) : r[x] = q[x]
  BY AppendProperties, LenProperties
<1> HIDE DEF r
<1>2. ASSUME NEW x \in 1 .. Len(r) - 1
      PROVE  r[x + 1].n = r[x].n + 1
  <2>1. x \in 1 .. Len(q) /\ r[x] = q[x]
    BY <1>1, <1>2
  <2>2. CASE x = Len(q)
    <3>1. q # <<>>
      BY <2>1, <2>2, EmptySeq
    <3>2. q[Len(q)].n = n
      BY <3>1 DEF EndsAt
    <3>3. QED
      BY <1>1, <2>1, <2>2, <3>2
  <2>3. CASE x # Len(q)
    <3>1. x \in 1 .. Len(q) - 1 /\ x + 1 \in 1 .. Len(q)
      BY <1>1, <2>1, <2>3
    <3>2. q[x + 1].n = q[x].n + 1 /\ r[x + 1] = q[x + 1]
      BY <1>1, <3>1 DEF Follow
    <3>3. QED
      BY <2>1, <3>2
  <2>4. QED
    BY <2>2, <2>3
<1>3. Follow(r)
  BY <1>2 DEF Follow
<1>4. EndsAt(r, n + 1)
  BY <1>1 DEF EndsAt
<1>5. QED
  BY <1>3, <1>4 DEF r

(* Of nothing, nothing is missing.                                          *)
LEMMA FromNothing ==
  ASSUME NEW by, NEW id
  PROVE  /\ From(<<>>, by, id) = <<>> /\ Follow(From(<<>>, by, id))
         /\ \A n : EndsAt(From(<<>>, by, id), n)
BY OnlyEmpty, EmptySeq DEF From, Follow, EndsAt

(* What is picked out of a sequence that gets one more.                     *)
LEMMA FromAppend ==
  ASSUME NEW q \in Seq(Messages), NEW m \in Messages, NEW by, NEW id
  PROVE  /\ From(q, by, id) \in Seq(Messages)
         /\ m.by = by /\ m.id = id => From(Append(q, m), by, id) = Append(From(q, by, id), m)
         /\ ~(m.by = by /\ m.id = id) => From(Append(q, m), by, id) = From(q, by, id)
BY OnlyType, OnlyAppend DEF From

(* Drivers.                                                                 *)

(* The messages being processed are those of client c.                      *)
Reading(c) == FromClient /\ Source = c

(* The number of the last message of client c that driver d was sent.       *)
Told(c, d) ==
  ReadOf(conn[c]) - (IF Reading(c) THEN Len(batch) ELSE 0)
                  + (IF Reading(c) /\ pc = "command" /\ d < k THEN 1 ELSE 0)

(* Each driver process got the messages of each client without a gap, up    *)
(* to the one being sent.                                                   *)
DriversTold ==
  /\ \A p \in DOMAIN proc, c \in Conns : Follow(From(proc[p].got, "client", c))
  /\ pc # "exit" => \A d \in DOMAIN dvrinfo, c \in Conns :
                      EndsAt(From(proc[dvrinfo[d].pid].got, "client", c), Told(c, d))

(* An entry of the driver table names the process it did, or a new one.     *)
LEMMA EntriesKept ==
  ASSUME DistinctNames, Inv, [Next]_vars
  PROVE  \A d \in DOMAIN dvrinfo' :
           \/ d \in DOMAIN dvrinfo /\ dvrinfo'[d].pid = dvrinfo[d].pid
           \/ dvrinfo'[d].pid \in DOMAIN proc' \ DOMAIN proc
<1> DEFINE n == Len(proc)
<1>1. DOMAIN proc = 1 .. n /\ n \in Nat
  BY TablesFinite DEF Inv
<1>2. CASE dvrinfo' = dvrinfo
  BY <1>2
<1>3. CASE /\ DOMAIN dvrinfo = 1 .. n /\ DOMAIN dvrinfo' = 1 .. n + 1
           /\ DOMAIN proc' = 1 .. n + 1 /\ dvrinfo'[n + 1].pid = n + 1
           /\ \A d \in DOMAIN dvrinfo : dvrinfo'[d] = dvrinfo[d]
  BY <1>1, <1>3
<1>4. ASSUME pc \in {"drivers", "command"}, NEW g \in DOMAIN dvrinfo, RestartDvr(g, pc)
      PROVE  \A d \in DOMAIN dvrinfo' :
               \/ d \in DOMAIN dvrinfo /\ dvrinfo'[d].pid = dvrinfo[d].pid
               \/ dvrinfo'[d].pid \in DOMAIN proc' \ DOMAIN proc
  <2>1. \/ dvrinfo' = dvrinfo
        \/ /\ DOMAIN dvrinfo' = DOMAIN dvrinfo /\ dvrinfo'[g].pid = n + 1
           /\ DOMAIN proc' = 1 .. n + 1
           /\ \A d \in DOMAIN dvrinfo : d # g => dvrinfo'[d] = dvrinfo[d]
    BY <1>4, RestartProcs
  <2>2. QED
    BY <1>1, <2>1
<1>5. QED
  BY <1>2, <1>3, <1>4, DriversChange

(* Only commands add to what the drivers were told.                         *)
LEMMA ToldKept ==
  ASSUME DistinctNames, Inv, Numbered, [Next]_vars, ~Command \/ World, NEW c \in Conns,
         NEW d \in DOMAIN dvrinfo
  PROVE  Told(c, d)' = Told(c, d)
<1>1. /\ ReadOf(conn[c]) \in Int /\ batch \in Seq(Messages) /\ Len(batch) \in Nat
      /\ d \in Nat \ {0} /\ DOMAIN dvrinfo = 1 .. Len(dvrinfo) /\ Len(dvrinfo) \in Nat
      /\ k \in Nat
  BY ReadOfInt, TablesFinite, LenProperties DEF Inv, TypeOK
<1>2. CASE World
  <2>1. UNCHANGED <<clinfo, pc, reader, batch, k>>
    BY <1>2, WorldActs DEF Inv, ServerUnchanged, tables, relay
  <2>2. Reading(c)' = Reading(c)
    BY <2>1 DEF Reading, FromClient, Source
  <2>3. QED
    BY <1>2, <2>1, <2>2, WorldNumbered DEF Told
<1>3. CASE ReadClient
  <2> DEFINE z == clinfo[Least(ToRead)].conn
  <2>1. /\ pc = "clients" /\ pc' = "relay" /\ reader' = Least(ToRead) /\ clinfo' = clinfo
        /\ Least(ToRead) \in Nat \ {0}
    BY <1>3, ReadClientFacts, ToReadFacts DEF Inv, ReadClient
  <2>2. PICK n \in 1 .. Len(conn[z].out) :
          /\ batch' = SubSeq(conn[z].out, 1, n)
          /\ conn'[z] = [conn[z] EXCEPT !.out = Unread(conn[z].out, n)]
          /\ \A x \in Conns : x # z => conn'[x] = conn[x]
    BY <1>3, ReadClientFacts
  <2>3. ~Reading(c) /\ (Reading(c)' <=> z = c)
    BY <2>1 DEF Reading, FromClient, Source
  <2> HIDE DEF z
  <2>4. Told(c, d) = ReadOf(conn[c]) /\ Told(c, d)' = ReadOf(conn'[c]) - (IF z = c THEN Len(batch') ELSE 0)
    <3>1. Told(c, d) = ReadOf(conn[c])
      BY <1>1, <2>3 DEF Told
    <3>2. ReadOf(conn'[c]) \in Int /\ Len(batch') \in Nat
      <4>1. /\ conn'[c] \in Connections /\ conn[z] \in Connections
            /\ conn[z].out \in Seq(Messages)
        BY <1>3, <2>1, ReadClientFacts, ToReadFacts DEF Inv, TypeOK, Connections, z, ReadClient
      <4>2. conn'[c].sent \in Nat /\ conn'[c].out \in Seq(Messages)
        BY <4>1 DEF Connections
      <4>3. Len(conn'[c].out) \in Nat /\ Len(batch') = n /\ n \in Nat
        BY <2>2, <4>1, <4>2, ReadTakes, LenProperties
      <4>4. QED
        BY <4>2, <4>3 DEF ReadOf
    <3>3. Told(c, d)' = ReadOf(conn'[c]) - (IF z = c THEN Len(batch') ELSE 0)
      BY <2>1, <2>3, <3>2 DEF Told
    <3>4. QED
      BY <3>1, <3>3
  <2>5. CASE z = c
    <3>1. conn[c] \in Connections /\ conn[c].out \in Seq(Messages) /\ conn[c].sent \in Nat
      BY DEF Inv, TypeOK, Connections
    <3>2. conn'[c].sent = conn[c].sent /\ conn'[c].out = Unread(conn[c].out, n)
      BY <2>2, <2>5, <3>1 DEF Connections
    <3>3. Len(conn'[c].out) = Len(conn[c].out) - n /\ Len(batch') = n /\ Len(conn[c].out) \in Nat
      BY <2>2, <2>5, <3>1, <3>2, ReadTakes, LenProperties
    <3>4. QED
      BY <2>2, <2>4, <2>5, <3>1, <3>2, <3>3 DEF ReadOf
  <2>6. CASE z # c
    BY <1>1, <2>2, <2>4, <2>6
  <2>7. QED
    BY <2>5, <2>6
<1>4. CASE ~World /\ ~ReadClient /\ ~RelayFromClient /\ ~CommandDone /\ ~Command
  <2>1. ReadOf(conn'[c]) = ReadOf(conn[c])
    BY <1>4, ConnSteps DEF ReadOf
  <2>2. (~FromClient' /\ ~FromClient) \/ UNCHANGED vars
    <3>1. CASE RelayFromDriver
      BY <3>1, NextMessageFacts DEF RelayFromDriver, FromClient, Inv, Phases
    <3>2. CASE ReadDriverFails
      BY <3>2 DEF ReadDriverFails, RestartDvr, FromClient
    <3>3. CASE ~RelayFromDriver /\ ~ReadDriverFails
      BY <1>4, <3>3 DEF Next, Server, StartDvr, IndiListen, Select, NewClient, NoNewClient,
                        ReadClientFails, ClientsDone, ReadDriver, DriversDone, FromClient
    <3>4. QED
      BY <3>1, <3>2, <3>3
  <2>3. CASE ~FromClient' /\ ~FromClient
    BY <1>1, <2>1, <2>3 DEF Told, Reading
  <2>4. CASE UNCHANGED vars
    <3>1. UNCHANGED <<conn, clinfo, pc, reader, batch, k>>
      BY <2>4 DEF vars, peers, tables, relay
    <3>2. QED
      BY <3>1 DEF Told, Reading, FromClient, Source
  <2>5. QED
    BY <2>2, <2>3, <2>4
<1>5. CASE ~World /\ RelayFromClient
  <2>1. /\ pc = "relay" /\ pc' = "command" /\ reader # 0 /\ UNCHANGED <<k, batch, reader>>
        /\ k = 1 /\ FromClient /\ FromClient'
    BY <1>5 DEF RelayFromClient, relay, Numbered, FromClient
  <2>2. ReadOf(conn'[c]) = ReadOf(conn[c])
    BY <1>5, <2>1, ConnSteps DEF ReadOf, ReadClient
  <2>3. Source' = Source
    <3>1. CASE clinfo' = clinfo
      BY <2>1, <3>1 DEF Source
    <3>2. CASE Air(Head(batch))
      <4>1. Head(batch) \in Messages /\ reader \in DOMAIN clinfo
        BY <2>1, BatchFacts, TablesFinite DEF Inv, Phases
      <4>2. QED
        BY <2>1, <3>2, <4>1, AirFacts DEF Inv, Source
    <3>3. QED
      BY <1>5, <3>1, <3>2 DEF RelayFromClient
  <2>4. Reading(c)' = Reading(c)
    BY <2>1, <2>3 DEF Reading
  <2>5. QED
    BY <1>1, <2>1, <2>2, <2>4 DEF Told
<1>6. CASE ~World /\ CommandDone
  <2>1. /\ pc = "command" /\ k > Len(dvrinfo) /\ reader # 0 /\ batch # <<>> /\ FromClient
        /\ batch' = Tail(batch) /\ k' = 1 /\ clinfo' = clinfo /\ conn' = conn
        /\ \/ Len(batch) > 1 /\ pc' = "relay" /\ reader' = reader
           \/ ~(Len(batch) > 1) /\ pc' = "clients" /\ reader' = 0
    BY <1>6 DEF CommandDone, NextMessage, FromClient, peers, tables, Inv, Phases
  <2>2. Len(batch') = Len(batch) - 1 /\ Len(batch) # 0
    BY <1>1, <2>1, HeadTailProperties, EmptySeq
  <2>3. d < k
    BY <1>1, <2>1
  <2>4. CASE ~Reading(c)
    <3>1. ~Reading(c)'
      BY <2>1, <2>4 DEF Reading, FromClient, Source
    <3>2. QED
      BY <1>1, <2>1, <2>4, <3>1 DEF Told
  <2>5. CASE Reading(c)
    <3>1. Told(c, d) = ReadOf(conn[c]) - Len(batch) + 1
      BY <1>1, <2>1, <2>3, <2>5 DEF Told
    <3>2. CASE Len(batch) > 1
      <4>1. Reading(c)' /\ pc' = "relay"
        BY <2>1, <2>5, <3>2 DEF Reading, FromClient, Source
      <4>2. QED
        BY <1>1, <2>1, <2>2, <3>1, <4>1 DEF Told
    <3>3. CASE ~(Len(batch) > 1)
      <4>1. ~Reading(c)' /\ Len(batch) = 1
        BY <1>1, <2>1, <2>2, <3>3 DEF Reading, FromClient
      <4>2. QED
        BY <1>1, <2>1, <3>1, <4>1 DEF Told
    <3>4. QED
      BY <3>2, <3>3
  <2>6. QED
    BY <2>4, <2>5
<1>7. QED
  BY <1>2, <1>3, <1>4, <1>5, <1>6

(* What a driver process was sent before stays, but for commands.           *)
LEMMA GotKept ==
  ASSUME DistinctNames, Inv, [Next]_vars, ~Command \/ World, NEW p \in DOMAIN proc
  PROVE  p \in DOMAIN proc' /\ proc'[p].got = proc[p].got
<1>1. CASE pc # "command" \/ World
  BY <1>1, ProcSteps
<1>2. CASE pc = "command" /\ ~World
  <2>1. proc' = proc
    BY <1>2 DEF Next, Server, StartDvr, IndiListen, Select, NewClient, NoNewClient, ReadClient,
                ReadClientFails, ClientsDone, ReadDriver, ReadDriverFails, DriversDone,
                RelayFromDriver, RelayFromClient, CommandDone, peers, vars
  <2>2. QED
    BY <2>1
<1>3. QED
  BY <1>1, <1>2

(* A server that gave up takes no step.                                     *)
LEMMA ExitStays ==
  ASSUME [Next]_vars, pc = "exit"
  PROVE  UNCHANGED vars
BY DEF Next, World, Server, StartDvr, IndiListen, Select, NewClient, NoNewClient, ReadClient,
       ReadClientFails, ClientsDone, ReadDriver, ReadDriverFails, DriversDone,
       RelayFromDriver, RelayFromClient, Command, CommandDone

(* A command adds one message to what driver k was told by the client it is *)
(* from, and nothing to what others were.                                   *)
LEMMA CommandTells ==
  ASSUME Inv, Numbered, Command, k' = k + 1
  PROVE  LET m == Head(batch)
         IN  /\ pc = "command" /\ k \in DOMAIN dvrinfo
             /\ m \in Messages /\ m.by = "client" /\ m.id = Source /\ Source \in Conns
             /\ \A c \in Conns, d \in DOMAIN dvrinfo : Told(c, d) \in Int
             /\ m.n = Told(Source, k) + 1
             /\ pc' = "command" =>
                  \A c \in Conns, d \in DOMAIN dvrinfo :
                    Told(c, d)' = IF c = Source /\ d = k THEN Told(c, d) + 1 ELSE Told(c, d)
<1>1. /\ pc = "command" /\ k <= Len(dvrinfo) /\ reader # 0 /\ batch # <<>> /\ FromClient
      /\ UNCHANGED <<conn, clinfo, batch, reader>>
  BY DEF Command, Inv, Phases, FromClient
<1>2. /\ batch \in Seq(Messages) /\ Len(batch) \in Nat /\ k \in Nat \ {0}
      /\ DOMAIN dvrinfo = 1 .. Len(dvrinfo) /\ Len(dvrinfo) \in Nat
      /\ reader \in DOMAIN clinfo /\ Source \in Conns
      /\ \A c \in Conns : ReadOf(conn[c]) \in Int
  <2>1. /\ batch \in Seq(Messages) /\ Len(batch) \in Nat /\ k \in Nat \ {0}
        /\ DOMAIN dvrinfo = 1 .. Len(dvrinfo) /\ Len(dvrinfo) \in Nat
        /\ reader \in DOMAIN clinfo
        /\ \A c \in Conns : ReadOf(conn[c]) \in Int
    BY <1>1, ReadOfInt, TablesFinite, LenProperties DEF Inv, TypeOK
  <2>2. clinfo[reader] \in ClientEntries
    BY <2>1, TablesFinite DEF Inv
  <2>3. QED
    BY <2>1, <2>2 DEF Source, ClientEntries
<1>3. Own(batch, "client", Source, ReadOf(conn[Source]))
  BY <1>1 DEF Numbered
<1>4. /\ Head(batch).by = "client" /\ Head(batch).id = Source
      /\ Head(batch).n = ReadOf(conn[Source]) - Len(batch) + 1
  BY <1>1, <1>2, <1>3, OwnTail
<1>5. Head(batch) \in Messages
  BY <1>1, BatchFacts DEF Inv
<1>6. k \in DOMAIN dvrinfo
  BY <1>1, <1>2
<1>7. \A c \in Conns, d \in DOMAIN dvrinfo :
        Told(c, d) = IF c = Source
                     THEN ReadOf(conn[c]) - Len(batch) + (IF d < k THEN 1 ELSE 0)
                     ELSE ReadOf(conn[c])
  BY <1>1, <1>2 DEF Told, Reading
<1>8. ASSUME pc' = "command"
      PROVE  \A c \in Conns, d \in DOMAIN dvrinfo :
               Told(c, d)' = IF c = Source
                             THEN ReadOf(conn[c]) - Len(batch) + (IF d < k + 1 THEN 1 ELSE 0)
                             ELSE ReadOf(conn[c])
  <2>1. FromClient' /\ Source' = Source
    BY <1>1, <1>8 DEF FromClient, Source
  <2>2. QED
    BY <1>1, <1>2, <1>8, <2>1 DEF Told, Reading
<1>9. \A c \in Conns, d \in DOMAIN dvrinfo : Told(c, d) \in Int
  BY <1>2, <1>7
<1>10. Head(batch).n = Told(Source, k) + 1
  <2>1. Told(Source, k) = ReadOf(conn[Source]) - Len(batch) + (IF k < k THEN 1 ELSE 0)
    BY <1>2, <1>6, <1>7
  <2>2. ReadOf(conn[Source]) \in Int
    BY <1>2
  <2>3. QED
    BY <1>2, <1>4, <2>1, <2>2
<1>11. ASSUME pc' = "command", NEW c \in Conns, NEW d \in DOMAIN dvrinfo
       PROVE  Told(c, d)' = IF c = Source /\ d = k THEN Told(c, d) + 1 ELSE Told(c, d)
  <2> DEFINE a == ReadOf(conn[c]) - Len(batch)
  <2>1. a \in Int /\ d \in Nat
    BY <1>2
  <2>2. /\ Told(c, d) = IF c = Source THEN a + (IF d < k THEN 1 ELSE 0) ELSE ReadOf(conn[c])
        /\ Told(c, d)' = IF c = Source THEN a + (IF d < k + 1 THEN 1 ELSE 0) ELSE ReadOf(conn[c])
    BY <1>7, <1>8, <1>11
  <2> HIDE DEF a
  <2>3. QED
    BY <1>2, <2>1, <2>2
<1>12. QED
  BY <1>1, <1>2, <1>4, <1>5, <1>6, <1>9, <1>10, <1>11

(* Every step keeps DriversTold: a driver that cannot be told is replaced   *)
(* by a process that has got nothing yet.                                   *)
LEMMA DriversToldStep ==
  ASSUME DistinctNames, Inv, Numbered, OneProcessEach, DriversTold, [Next]_vars
  PROVE  DriversTold'
<1>1. CASE ~Command \/ World
  <2>1. ASSUME NEW p \in DOMAIN proc', NEW c \in Conns
        PROVE  Follow(From(proc'[p].got, "client", c))
    <3>1. CASE p \in DOMAIN proc
      <4>1. proc'[p].got = proc[p].got
        BY <1>1, <3>1, GotKept
      <4>2. QED
        BY <2>1, <3>1, <4>1 DEF DriversTold
    <3>2. CASE p \notin DOMAIN proc
      BY <2>1, <3>2, ProcSteps, FromNothing
    <3>3. QED
      BY <3>1, <3>2
  <2>2. ASSUME pc' # "exit", NEW d \in DOMAIN dvrinfo', NEW c \in Conns
        PROVE  EndsAt(From(proc'[dvrinfo'[d].pid].got, "client", c), Told(c, d)')
    <3>1. pc # "exit"
      BY <2>2, ExitStays DEF vars
    <3>2. CASE d \in DOMAIN dvrinfo /\ dvrinfo'[d].pid = dvrinfo[d].pid
      <4>1. dvrinfo[d].pid \in DOMAIN proc
        BY <3>2 DEF Inv, TypeOK
      <4>2. proc'[dvrinfo'[d].pid].got = proc[dvrinfo[d].pid].got
        BY <1>1, <3>2, <4>1, GotKept
      <4>3. Told(c, d)' = Told(c, d)
        BY <1>1, <2>2, <3>2, ToldKept
      <4>4. QED
        BY <2>2, <3>1, <3>2, <4>2, <4>3 DEF DriversTold
    <3>3. CASE dvrinfo'[d].pid \in DOMAIN proc' \ DOMAIN proc
      BY <3>3, ProcSteps, FromNothing
    <3>4. QED
      BY <2>2, <3>2, <3>3, EntriesKept
  <2>3. QED
    BY <2>1, <2>2 DEF DriversTold
<1>2. CASE Command /\ ~World
  <2> DEFINE m == Head(batch)
             p == dvrinfo[k].pid
  <2>1. /\ pc = "command" /\ k \in DOMAIN dvrinfo /\ k' = k + 1
        /\ m \in Messages /\ m.by = "client" /\ m.id = Source /\ Source \in Conns
        /\ \A c \in Conns, d \in DOMAIN dvrinfo : Told(c, d) \in Int
        /\ m.n = Told(Source, k) + 1
        /\ pc' = "command" =>
             \A c \in Conns, d \in DOMAIN dvrinfo :
               Told(c, d)' = IF c = Source /\ d = k THEN Told(c, d) + 1 ELSE Told(c, d)
    BY <1>2, CommandTells DEF Command
  <2>2. p \in DOMAIN proc
    BY <2>1 DEF Inv, TypeOK
  <2>3. \A x \in DOMAIN proc : proc[x].got \in Seq(Messages)
    BY TablesFinite DEF Inv, Processes
  <2>4. \A d \in DOMAIN dvrinfo, c \in Conns :
          EndsAt(From(proc[dvrinfo[d].pid].got, "client", c), Told(c, d))
    BY <2>1 DEF DriversTold
  <2>5. CASE Takes(proc[p].peer)
    <3>1. /\ dvrinfo' = dvrinfo /\ pc' = pc /\ DOMAIN proc' = DOMAIN proc
          /\ proc'[p] = [proc[p] EXCEPT !.got = Append(proc[p].got, m)]
          /\ \A z \in DOMAIN proc : z # p => proc'[z] = proc[z]
      BY <1>2, <2>5, CommandTaken
    <3>2. proc'[p].got = Append(proc[p].got, m)
      <4>1. proc[p] \in Processes
        BY <2>2, TablesFinite DEF Inv
      <4>2. QED
        BY <3>1, <4>1 DEF Processes
    <3> HIDE DEF m, p
    <3>3. ASSUME NEW c \in Conns, NEW g \in DOMAIN dvrinfo, g = k
          PROVE  /\ Follow(From(proc'[p].got, "client", c))
                 /\ EndsAt(From(proc'[p].got, "client", c), Told(c, g)')
      <4> DEFINE q == From(proc[p].got, "client", c)
      <4>1. /\ q \in Seq(Messages) /\ Follow(q) /\ EndsAt(q, Told(c, g))
        BY <2>1, <2>2, <2>3, <2>4, <3>3, FromAppend DEF DriversTold, p
      <4>2. CASE c = Source
        <5>1. From(proc'[p].got, "client", c) = Append(q, m)
          BY SMTT(30), <2>1, <2>2, <2>3, <3>2, <4>2, FromAppend
        <5> HIDE DEF q
        <5>2. Follow(Append(q, m)) /\ EndsAt(Append(q, m), Told(c, g) + 1)
          BY <2>1, <3>3, <4>1, <4>2, FollowAppend
        <5>3. Told(c, g)' = Told(c, g) + 1
          BY <2>1, <3>1, <3>3, <4>2
        <5>4. QED
          BY <5>1, <5>2, <5>3
      <4>3. CASE c # Source
        <5>1. From(proc'[p].got, "client", c) = q
          BY <2>1, <2>2, <2>3, <3>2, <4>3, FromAppend
        <5>2. Told(c, g)' = Told(c, g)
          BY <2>1, <3>1, <3>3, <4>3
        <5>3. QED
          BY <4>1, <5>1, <5>2
      <4>4. QED
        BY <4>2, <4>3
    <3>4. ASSUME NEW x \in DOMAIN proc', NEW c \in Conns
          PROVE  Follow(From(proc'[x].got, "client", c))
      <4>1. CASE x = p
        BY <2>1, <3>3, <3>4, <4>1
      <4>2. CASE x # p
        BY <3>1, <3>4, <4>2 DEF DriversTold
      <4>3. QED
        BY <4>1, <4>2
    <3>5. ASSUME NEW d \in DOMAIN dvrinfo', NEW c \in Conns
          PROVE  EndsAt(From(proc'[dvrinfo'[d].pid].got, "client", c), Told(c, d)')
      <4>1. CASE d = k
        BY <3>1, <3>3, <3>5, <4>1 DEF p
      <4>2. CASE d # k
        <5>1. dvrinfo[d].pid \in DOMAIN proc /\ dvrinfo[d].pid # p
          BY <2>1, <3>1, <3>5, <4>2 DEF OneProcessEach, Inv, TypeOK, p
        <5>2. proc'[dvrinfo'[d].pid] = proc[dvrinfo[d].pid]
          BY <3>1, <5>1
        <5>3. Told(c, d)' = Told(c, d)
          BY <2>1, <3>1, <3>5, <4>2
        <5>4. QED
          BY <2>4, <3>1, <3>5, <5>2, <5>3
      <4>3. QED
        BY <4>1, <4>2
    <3>6. QED
      BY <3>4, <3>5 DEF DriversTold
  <2>6. CASE ~Takes(proc[p].peer)
    <3>1. RestartDvr(k, pc)
      BY <1>2, <2>1, <2>6 DEF Command
    <3>2. \/ pc' = "exit" /\ dvrinfo' = dvrinfo /\ proc' = Killed(k)
          \/ /\ pc' = "command" /\ DOMAIN dvrinfo' = DOMAIN dvrinfo
             /\ DOMAIN proc' = 1 .. Len(proc) + 1
             /\ \A x \in DOMAIN proc : proc'[x] = Killed(k)[x]
             /\ proc'[Len(proc) + 1].got = <<>> /\ dvrinfo'[k].pid = Len(proc) + 1
             /\ \A g \in DOMAIN dvrinfo : g # k => dvrinfo'[g] = dvrinfo[g]
      <4>1. \/ pc' = "exit" /\ dvrinfo' = dvrinfo /\ proc' = Killed(k)
            \/ pc' = "command" /\ dvrinfo'[k].pid = Len(proc) + 1
        <5>1. \/ pc' = "exit" /\ dvrinfo' = dvrinfo /\ proc' = Killed(k)
              \/ /\ pc' = pc
                 /\ proc' = Append(Killed(k), NewProcess(dvrinfo[k].name))
          BY <2>1, <3>1, RestartFacts
        <5>2. Len(Killed(k)) = Len(proc) /\ Len(proc) \in Nat /\ Killed(k) \in Seq(Processes)
          BY <2>1, KilledFacts, TablesFinite DEF Inv
        <5>3. ASSUME proc' = Append(Killed(k), NewProcess(dvrinfo[k].name))
              PROVE  proc' # Killed(k)
          <6>1. Len(proc') = Len(proc) + 1
            BY <5>2, <5>3, AppendProperties
          <6>2. QED
            BY <5>2, <6>1
        <5>4. QED
          BY <2>1, <3>1, <5>1, <5>3, RestartProcs
      <4>2. CASE pc' = "command" /\ dvrinfo'[k].pid = Len(proc) + 1
        <5>1. dvrinfo[k].pid # Len(proc) + 1
          BY <2>2, TablesFinite DEF Inv
        <5>2. /\ DOMAIN dvrinfo' = DOMAIN dvrinfo
              /\ DOMAIN proc' = 1 .. Len(proc) + 1
              /\ \A x \in DOMAIN proc : proc'[x] = Killed(k)[x]
              /\ proc'[Len(proc) + 1] = NewProcess(dvrinfo[k].name)
              /\ \A g \in DOMAIN dvrinfo : g # k => dvrinfo'[g] = dvrinfo[g]
          BY <2>1, <3>1, <4>2, <5>1, RestartProcs
        <5>3. QED
          BY <4>2, <5>2 DEF NewProcess
      <4>3. QED
        BY <4>1, <4>2
    <3>3. \A x \in DOMAIN proc : Killed(k)[x].got = proc[x].got
      BY <2>1, KilledFacts DEF Inv
    <3>4. DOMAIN proc = 1 .. Len(proc) /\ Len(proc) \in Nat /\ DOMAIN Killed(k) = DOMAIN proc
      BY <2>1, TablesFinite, KilledFacts DEF Inv
    <3>5. ASSUME NEW x \in DOMAIN proc', NEW c \in Conns
          PROVE  Follow(From(proc'[x].got, "client", c))
      <4>1. CASE x \in DOMAIN proc
        <5>1. proc'[x].got = proc[x].got
          BY <3>2, <3>3, <4>1
        <5>2. QED
          BY <3>5, <4>1, <5>1 DEF DriversTold
      <4>2. CASE x \notin DOMAIN proc
        <5>1. proc'[x].got = <<>>
          BY <3>2, <3>4, <3>5, <4>2
        <5>2. QED
          BY <5>1, FromNothing
      <4>3. QED
        BY <4>1, <4>2
    <3>6. ASSUME pc' # "exit", NEW d \in DOMAIN dvrinfo', NEW c \in Conns
          PROVE  EndsAt(From(proc'[dvrinfo'[d].pid].got, "client", c), Told(c, d)')
      <4>1. CASE d = k
        BY <3>2, <3>6, <4>1, FromNothing
      <4>2. CASE d # k
        <5>1. d \in DOMAIN dvrinfo /\ dvrinfo'[d] = dvrinfo[d]
          BY <3>2, <3>6, <4>2
        <5>2. dvrinfo[d].pid \in DOMAIN proc
          BY <5>1 DEF Inv, TypeOK
        <5>3. proc'[dvrinfo[d].pid].got = proc[dvrinfo[d].pid].got
          BY <3>2, <3>3, <3>6, <5>2
        <5>4. Told(c, d)' = Told(c, d)
          BY <2>1, <3>2, <3>6, <4>2, <5>1
        <5>5. QED
          BY <2>4, <3>6, <5>1, <5>3, <5>4
      <4>3. QED
        BY <4>1, <4>2
    <3>7. QED
      BY <3>5, <3>6 DEF DriversTold
  <2>7. QED
    BY <2>5, <2>6
<1>3. QED
  BY <1>1, <1>2

(* Clients.                                                                 *)

(* The number of the last message of driver process p that was sent on.     *)
Spoken(p) ==
  ReadOf(proc[p]) - (IF FromDriver /\ Speaker = p THEN Len(batch) ELSE 0)

(* Each client got the messages of each driver process without a gap, and   *)
(* while it is open, up to the one being sent.                              *)
ClientsTold ==
  \A c \in Conns, p \in Nat :
    LET q == From(conn[c].got, "driver", p)
    IN  /\ Follow(q)
        /\ p \notin DOMAIN proc => q = <<>>
        /\ p \in DOMAIN proc /\ conn[c].st = "open" => EndsAt(q, Spoken(p))

(* What is sent to the clients goes to all that are open.                   *)
LEMMA AirReaches ==
  ASSUME Inv, NEW m \in Messages, Air(m), NEW c \in Conns
  PROVE  \/ conn'[c].got = conn[c].got /\ (conn'[c].st = "open" => conn[c].st = "open" /\ reader \in Active)
         \/ conn'[c].got = Append(conn[c].got, m) /\ conn[c].st = "open"
<1>1. PICK lost : Aired(m, lost)
  BY AirFacts DEF Inv
<1>2. conn[c] \in Connections
  BY DEF Inv, TypeOK
<1>3. CASE \E e \in Audience : clinfo[e].conn = c
  <2>1. PICK e \in Audience : clinfo[e].conn = c
    BY <1>3
  <2>2. conn[c].st = "open"
    BY <2>1 DEF Audience, Inv, ClientsListed
  <2>3. CASE e \in lost
    <3>1. conn'[c] = [conn[c] EXCEPT !.st = "closed"]
      BY <1>1, <2>1, <2>3 DEF Aired
    <3>2. QED
      BY <1>2, <3>1 DEF Connections
  <2>4. CASE e \notin lost
    <3>1. conn'[c] = [conn[c] EXCEPT !.got = Append(@, m)]
      BY <1>1, <2>1, <2>4 DEF Aired
    <3>2. QED
      BY <1>2, <2>2, <3>1 DEF Connections
  <2>5. QED
    BY <2>3, <2>4
<1>4. CASE \A e \in Audience : clinfo[e].conn # c
  <2>1. conn'[c] = conn[c]
    BY <1>1, <1>4 DEF Aired
  <2>2. ASSUME conn[c].st = "open" PROVE reader \in Active
    <3>1. PICK e \in Active : clinfo[e].conn = c
      BY <2>2 DEF Inv, ClientsListed
    <3>2. QED
      BY <1>4, <3>1 DEF Audience
  <2>3. QED
    BY <2>1, <2>2
<1>5. QED
  BY <1>3, <1>4

(* Only messages of drivers add to what the clients were told by them.      *)
LEMMA ClientGotKept ==
  ASSUME Inv, Numbered, SeenSoFar, [Next]_vars, ~RelayFromDriver \/ World, NEW c \in Conns
  PROVE  /\ \A p : From(conn'[c].got, "driver", p) = From(conn[c].got, "driver", p)
         /\ conn'[c].st = "open" => conn[c].st = "open" \/ conn[c].got = <<>>
<1>1. conn[c] \in Connections /\ conn[c].got \in Seq(Messages)
  BY DEF Inv, TypeOK, Connections
<1>2. CASE World
  <2>1. ClientActs(c, conn[c], conn'[c])
    BY <1>2, WorldActs DEF Inv
  <2>2. QED
    BY <2>1 DEF ClientActs
<1>3. CASE ~World /\ NewClient
  <2>1. conn'[c].got = conn[c].got
    BY <1>3, ConnSteps DEF NewClient
  <2>2. conn'[c] = conn[c] \/ conn[c].st = "calling"
    BY <1>3, NewClientFacts
  <2>3. conn[c].st = "calling" => conn[c].got = <<>>
    BY DEF SeenSoFar, Seen
  <2>4. QED
    BY <2>1, <2>2, <2>3
<1>4. CASE ReadClient
  <2> DEFINE z == clinfo[Least(ToRead)].conn
  <2>1. conn'[c] = conn[c] \/ \E q : conn'[c] = [conn[c] EXCEPT !.out = q]
    BY <1>4, ReadClientFacts
  <2>2. QED
    BY <1>1, <2>1 DEF Connections
<1>5. CASE ReadClientFails
  <2>1. conn'[c] = conn[c] \/ conn'[c] = [conn[c] EXCEPT !.st = "closed"]
    BY <1>5, ReadClientFailsFacts
  <2>2. QED
    BY <1>1, <2>1 DEF Connections
<1>6. CASE RelayFromClient /\ conn' # conn
  <2>1. /\ pc = "relay" /\ reader # 0 /\ batch # <<>> /\ FromClient /\ Air(Head(batch))
    BY <1>6 DEF RelayFromClient, Inv, Phases, FromClient
  <2>2. Head(batch) \in Messages /\ batch \in Seq(Messages)
    BY <2>1, BatchFacts DEF Inv, TypeOK
  <2>3. Head(batch).by = "client"
    <3>1. ReadOf(conn[Source]) \in Int
      <4>1. reader \in DOMAIN clinfo
        BY <2>1, TablesFinite DEF Inv, TypeOK
      <4>2. clinfo[reader] \in ClientEntries
        BY <4>1, TablesFinite DEF Inv
      <4>3. Source \in Conns
        BY <4>2 DEF Source, ClientEntries
      <4>4. QED
        BY <4>3, ReadOfInt
    <3>2. QED
      BY <2>1, <2>2, <3>1, OwnTail DEF Numbered
  <2>4. \/ conn'[c].got = conn[c].got /\ (conn'[c].st = "open" => conn[c].st = "open")
        \/ conn'[c].got = Append(conn[c].got, Head(batch)) /\ conn[c].st = "open"
    BY <2>1, <2>2, AirReaches
  <2>5. \A p : From(Append(conn[c].got, Head(batch)), "driver", p) = From(conn[c].got, "driver", p)
    <3>1. ASSUME NEW p
          PROVE  From(Append(conn[c].got, Head(batch)), "driver", p) = From(conn[c].got, "driver", p)
      <4>1. ~(Head(batch).by = "driver" /\ Head(batch).id = p)
        BY <2>3
      <4>2. QED
        BY <1>1, <2>2, <4>1, FromAppend
    <3>2. QED
      BY <3>1
  <2>6. QED
    BY <2>4, <2>5
<1>7. CASE ~World /\ ~NewClient /\ ~ReadClient /\ ~ReadClientFails
           /\ ~(RelayFromClient /\ conn' # conn)
  <2>1. conn' = conn
    BY <1>7 DEF Next, Server, StartDvr, IndiListen, Select, NoNewClient,
                ClientsDone, ReadDriver, ReadDriverFails, DriversDone,
                RelayFromClient, Command, CommandDone, peers, vars
  <2>2. QED
    BY <2>1
<1>8. QED
  BY <1>2, <1>3, <1>4, <1>5, <1>6, <1>7

(* Only RelayFromDriver changes what was sent on of a driver process.       *)
LEMMA SpokenKept ==
  ASSUME DistinctNames, Inv, Numbered, [Next]_vars, ~RelayFromDriver \/ World,
         NEW p \in DOMAIN proc
  PROVE  Spoken(p)' = Spoken(p)
<1>1. /\ ReadOf(proc[p]) \in Int /\ batch \in Seq(Messages) /\ Len(batch) \in Nat
      /\ proc[p] \in Processes
  BY ReadOfInt, TablesFinite, LenProperties DEF Inv, TypeOK
<1>2. CASE World
  <2>1. UNCHANGED <<dvrinfo, pc, reader, batch, i>>
    BY <1>2, WorldActs DEF Inv, ServerUnchanged, tables, relay, loop
  <2>2. FromDriver' = FromDriver /\ Speaker' = Speaker
    BY <2>1 DEF FromDriver, Speaker
  <2>3. QED
    BY <1>2, <2>1, <2>2, WorldNumbered DEF Spoken
<1>3. CASE ReadDriver
  <2> DEFINE z == dvrinfo[Least(ToHear)].pid
  <2>1. /\ pc = "drivers" /\ pc' = "relay" /\ reader' = 0 /\ i' = Least(ToHear) + 1
        /\ dvrinfo' = dvrinfo /\ Least(ToHear) \in Nat \ {0} /\ z \in DOMAIN proc
    BY <1>3, ReadDriverFacts, ToHearFacts DEF Inv, ReadDriver
  <2>2. PICK n \in 1 .. Len(proc[z].out) :
          /\ batch' = SubSeq(proc[z].out, 1, n)
          /\ proc'[z] = [proc[z] EXCEPT !.out = Unread(proc[z].out, n)]
          /\ \A x \in DOMAIN proc : x # z => proc'[x] = proc[x]
    BY <1>3, ReadDriverFacts
  <2>3. ~FromDriver /\ FromDriver' /\ Speaker' = z
    BY <2>1 DEF FromDriver, Speaker
  <2> HIDE DEF z
  <2>4. /\ proc[z] \in Processes /\ proc[z].out \in Seq(Messages) /\ proc[z].sent \in Nat
    BY <2>1, TablesFinite DEF Inv, Processes
  <2>5. proc'[z].sent = proc[z].sent /\ proc'[z].out = Unread(proc[z].out, n)
    BY <2>2, <2>4 DEF Processes
  <2>6. /\ Len(proc'[z].out) = Len(proc[z].out) - n /\ Len(batch') = n
        /\ Len(proc[z].out) \in Nat /\ n \in Nat
    BY <2>2, <2>4, <2>5, ReadTakes, LenProperties
  <2>7. Spoken(p) = ReadOf(proc[p])
    BY <1>1, <2>3 DEF Spoken
  <2>8. CASE p = z
    <3>1. Spoken(p)' = ReadOf(proc'[p]) - Len(batch')
      BY <2>3, <2>8 DEF Spoken
    <3>2. QED
      BY <2>4, <2>5, <2>6, <2>7, <2>8, <3>1 DEF ReadOf
  <2>9. CASE p # z
    <3>1. ReadOf(proc'[p]) = ReadOf(proc[p])
      BY <2>2, <2>9
    <3>2. Spoken(p)' = ReadOf(proc'[p]) - 0
      BY <2>3, <2>9 DEF Spoken
    <3>3. QED
      BY <1>1, <2>7, <3>1, <3>2
  <2>10. QED
    BY <2>8, <2>9
<1>4. CASE ~World /\ ~ReadDriver /\ ~RelayFromDriver
  <2>1. ReadOf(proc'[p]) = ReadOf(proc[p])
    BY <1>4, ProcSteps DEF ReadOf
  <2>2. (~FromDriver' /\ ~FromDriver) \/ UNCHANGED vars
    <3>1. CASE CommandDone
      BY <3>1, NextMessageFacts DEF CommandDone, FromDriver, Inv, Phases
    <3>2. CASE ReadDriverFails
      BY <3>2 DEF ReadDriverFails, RestartDvr, FromDriver
    <3>3. CASE Command
      BY <3>3 DEF Command, RestartDvr, FromDriver
    <3>4. CASE ReadClient
      BY <3>4, ToReadFacts DEF ReadClient, FromDriver, Inv
    <3>5. CASE ~CommandDone /\ ~ReadDriverFails /\ ~Command /\ ~ReadClient
      BY <1>4, <3>5 DEF Next, Server, StartDvr, IndiListen, Select, NewClient, NoNewClient,
                        ReadClientFails, ClientsDone, DriversDone,
                        RelayFromClient, FromDriver
    <3>6. QED
      BY <3>1, <3>2, <3>3, <3>4, <3>5
  <2>3. CASE ~FromDriver' /\ ~FromDriver
    BY <1>1, <2>1, <2>3 DEF Spoken
  <2>4. CASE UNCHANGED vars
    BY <2>4 DEF vars, peers, tables, relay, loop, Spoken, FromDriver, Speaker
  <2>5. QED
    BY <2>2, <2>3, <2>4
<1>5. QED
  BY <1>2, <1>3, <1>4

(* A message of a driver, sent on.                                          *)
LEMMA DriverSpeaks ==
  ASSUME Inv, Numbered, RelayFromDriver
  PROVE  LET m == Head(batch)
         IN  /\ m \in Messages /\ m.by = "driver" /\ m.id = Speaker
             /\ \A p \in DOMAIN proc : Spoken(p) \in Int
             /\ Speaker \in DOMAIN proc /\ m.n = Spoken(Speaker) + 1
             /\ proc' = proc
             /\ \A p \in DOMAIN proc :
                  Spoken(p)' = IF p = Speaker THEN Spoken(p) + 1 ELSE Spoken(p)
<1>1. /\ pc = "relay" /\ reader = 0 /\ batch # <<>> /\ FromDriver /\ NextMessage
      /\ UNCHANGED <<proc, dvrinfo, i>>
  BY DEF RelayFromDriver, Inv, Phases, FromDriver, loop
<1>2. /\ i - 1 \in DOMAIN dvrinfo /\ Own(batch, "driver", Speaker, ReadOf(proc[Speaker]))
  BY <1>1 DEF Numbered
<1>3. Speaker \in DOMAIN proc
  BY <1>2 DEF Speaker, Inv, TypeOK
<1>4. /\ batch \in Seq(Messages) /\ Len(batch) \in Nat
      /\ \A p \in DOMAIN proc : ReadOf(proc[p]) \in Int
  BY ReadOfInt, LenProperties DEF Inv, TypeOK
<1>5. /\ Head(batch).by = "driver" /\ Head(batch).id = Speaker /\ Head(batch) \in Messages
      /\ Head(batch).n = ReadOf(proc[Speaker]) - Len(batch) + 1
      /\ Len(Tail(batch)) = Len(batch) - 1
  BY <1>1, <1>2, <1>3, <1>4, OwnTail, BatchFacts DEF Inv
<1>6. \A p \in DOMAIN proc :
        Spoken(p) = IF p = Speaker THEN ReadOf(proc[p]) - Len(batch) ELSE ReadOf(proc[p])
  BY <1>1, <1>4 DEF Spoken
<1>7. \A p \in DOMAIN proc :
        Spoken(p)' = IF p = Speaker THEN ReadOf(proc[p]) - (Len(batch) - 1) ELSE ReadOf(proc[p])
  <2>1. Speaker' = Speaker /\ batch' = Tail(batch)
    BY <1>1 DEF Speaker, NextMessage
  <2>2. CASE Len(batch) > 1
    <3>1. FromDriver'
      BY <1>1, <2>2 DEF NextMessage, FromDriver
    <3>2. QED
      BY <1>1, <1>4, <1>5, <2>1, <3>1 DEF Spoken
  <2>3. CASE ~(Len(batch) > 1)
    <3>1. ~FromDriver'
      BY <1>1, <2>3 DEF NextMessage, FromDriver
    <3>2. Len(batch) = 1
      <4>1. Len(batch) # 0
        BY <1>1, <1>4, EmptySeq
      <4>2. QED
        <5>1. Len(batch) \in Nat
          BY <1>4
        <5>2. \A n \in Nat : n # 0 /\ ~(n > 1) => n = 1
          OBVIOUS
        <5>3. QED
          BY <2>3, <4>1, <5>1, <5>2
    <3>3. QED
      BY <1>1, <1>4, <2>1, <3>1, <3>2 DEF Spoken
  <2>4. QED
    BY <2>2, <2>3
<1>8. QED
  <2>1. Speaker \in DOMAIN proc /\ Head(batch).n = Spoken(Speaker) + 1
    BY <1>3, <1>4, <1>5, <1>6
  <2>2. \A p \in DOMAIN proc : Spoken(p) \in Int
    BY <1>4, <1>6
  <2>3. \A p \in DOMAIN proc :
          Spoken(p)' = IF p = Speaker THEN Spoken(p) + 1 ELSE Spoken(p)
    BY <1>4, <1>6, <1>7
  <2>4. QED
    BY <1>1, <1>5, <2>1, <2>2, <2>3

(* Every step keeps ClientsTold.                                            *)
LEMMA ClientsToldStep ==
  ASSUME DistinctNames, Inv, Numbered, SeenSoFar, ClientsTold, [Next]_vars
  PROVE  ClientsTold'
<1>1. SUFFICES ASSUME NEW c \in Conns, NEW p \in Nat
               PROVE  LET q == From(conn'[c].got, "driver", p)
                      IN  /\ Follow(q)
                          /\ p \notin DOMAIN proc' => q = <<>>
                          /\ p \in DOMAIN proc' /\ conn'[c].st = "open"
                               => EndsAt(q, Spoken(p)')
  BY DEF ClientsTold
<1> DEFINE q == From(conn[c].got, "driver", p)
           r == From(conn'[c].got, "driver", p)
<1>2. /\ Follow(q)
      /\ p \notin DOMAIN proc => q = <<>>
      /\ p \in DOMAIN proc /\ conn[c].st = "open" => EndsAt(q, Spoken(p))
  BY <1>1 DEF ClientsTold
<1>3. DOMAIN proc \subseteq DOMAIN proc'
  BY ProcSteps
<1>4. conn[c].got \in Seq(Messages)
  BY <1>1 DEF Inv, TypeOK, Connections
<1>5. CASE ~RelayFromDriver \/ World
  <2>1. r = q
    BY <1>1, <1>5, ClientGotKept
  <2>2. conn'[c].st = "open" => conn[c].st = "open" \/ q = <<>>
    BY <1>1, <1>5, ClientGotKept, FromNothing
  <2>3. p \in DOMAIN proc => Spoken(p)' = Spoken(p)
    BY <1>5, SpokenKept
  <2> HIDE DEF q, r
  <2>4. p \in DOMAIN proc' /\ conn'[c].st = "open" => EndsAt(r, Spoken(p)')
    BY <1>2, <2>1, <2>2, <2>3 DEF EndsAt
  <2>5. QED
    BY <1>2, <1>3, <2>1, <2>4 DEF r
<1>6. CASE RelayFromDriver /\ ~World
  <2> DEFINE m == Head(batch)
  <2>1. /\ m \in Messages /\ m.by = "driver" /\ m.id = Speaker
        /\ \A x \in DOMAIN proc : Spoken(x) \in Int
        /\ Speaker \in DOMAIN proc /\ m.n = Spoken(Speaker) + 1
        /\ proc' = proc
        /\ \A x \in DOMAIN proc :
             Spoken(x)' = IF x = Speaker THEN Spoken(x) + 1 ELSE Spoken(x)
    BY <1>6, DriverSpeaks
  <2>2. Air(m) /\ reader \notin Active
    BY <1>6, TablesFinite DEF RelayFromDriver, Inv
  <2> HIDE DEF m
  <2>3. \/ conn'[c].got = conn[c].got /\ conn'[c].st # "open"
        \/ conn'[c].got = Append(conn[c].got, m) /\ conn[c].st = "open"
    BY <1>1, <2>1, <2>2, AirReaches
  <2>4. CASE conn'[c].got = conn[c].got /\ conn'[c].st # "open"
    BY <1>2, <2>1, <2>4
  <2>5. CASE conn'[c].got = Append(conn[c].got, m) /\ conn[c].st = "open" /\ p = Speaker
    <3>1. r = Append(q, m) /\ q \in Seq(Messages)
      BY SMTT(30), <1>4, <2>1, <2>5, FromAppend
    <3> HIDE DEF q, r
    <3>2. Follow(r) /\ EndsAt(r, Spoken(p) + 1)
      BY <1>2, <2>1, <2>5, <3>1, FollowAppend
    <3>3. QED
      BY <2>1, <2>5, <3>2 DEF r
  <2>6. CASE conn'[c].got = Append(conn[c].got, m) /\ conn[c].st = "open" /\ p # Speaker
    <3>1. r = q
      BY <1>4, <2>1, <2>6, FromAppend
    <3> HIDE DEF q, r
    <3>2. QED
      BY <1>2, <2>1, <2>6, <3>1 DEF r
  <2>7. QED
    BY <2>3, <2>4, <2>5, <2>6
<1>7. QED
  BY <1>5, <1>6

(* Nobody was told anything at the start.                                   *)
LEMMA ToldInit ==
  ASSUME Init
  PROVE  DriversTold /\ ClientsTold
<1>1. DriversTold
  BY DEF Init, DriversTold
<1>2. ASSUME NEW c \in Conns
      PROVE  conn[c].got = <<>> /\ conn[c].st # "open"
  BY <1>2 DEF Init
<1>3. QED
  BY <1>1, <1>2, FromNothing DEF ClientsTold

(* NoGaps holds in every state: messages go through the server without a    *)
(* gap, whoever fails.                                                      *)
THEOREM NoMessageIsLost ==
  ASSUME DistinctNames
  PROVE  Spec => []NoGaps
<1> DEFINE All == Inv /\ Numbered /\ SeenSoFar /\ OneProcessEach /\ DriversTold /\ ClientsTold
<1>1. Init => All
  BY InvInit, NumberedInit, ToldInit
<1>2. All /\ [Next]_vars => All'
  <2>1. ASSUME All, [Next]_vars PROVE All'
    BY <2>1, InvStep, NumberedStep, SeenStep, OneProcessStep, DriversToldStep, ClientsToldStep
  <2>2. QED
    BY <2>1
<1>3. All => NoGaps
  <2>1. ASSUME All PROVE NoGaps
    <3>1. DOMAIN proc \subseteq Nat
      BY <2>1, TablesFinite DEF Inv
    <3>2. QED
      BY <2>1, <3>1 DEF DriversTold, ClientsTold, Follow, NoGaps
  <2>2. QED
    BY <2>1
<1>4. QED
  BY <1>1, <1>2, <1>3, PTL DEF Spec
=============================================================================
