----------------------------- MODULE IndiServer -----------------------------
(***************************************************************************)
(* indiserver.c: the process that starts the drivers, accepts clients and  *)
(* relays messages between them.                                           *)
(*                                                                         *)
(* The server is one thread.  A pass of indiRun() is                       *)
(*     select -> accept -> clients -> drivers -> select                    *)
(* and while the messages of one read() are processed pc is relay (to the  *)
(* other clients) or command (to the drivers, one step for each).  Clients *)
(* and drivers act between any two steps: they connect, send, stop         *)
(* reading, leave or die.                                                  *)
(*                                                                         *)
(* A message is a whole XML element, known by its author and its number;   *)
(* one read() may complete several.  File descriptors are numbers, because *)
(* the server keeps the set select() filled while it closes descriptors    *)
(* and opens others, and the kernel hands out the lowest free one.         *)
(***************************************************************************)
EXTENDS Integers, Sequences, FiniteSets

CONSTANTS
  Argv,      (* the driver names on the command line                        *)
  MaxRs,     (* maxrs, the -r option                                        *)
  Conns,     (* client connections, each made at most once                  *)
  Failures,  (* what may go wrong outside, a subset of Mishaps              *)
  MaxMishaps,  (* bound: how often something goes wrong                     *)
  ClientMsgs,  (* bound: messages of each client                            *)
  DriverMsgs,  (* bound: messages of each process of a driver, by its name  *)
  Fds        (* bound: descriptors the kernel may hand out                  *)

Mishaps == {"clientStalls", "clientLeaves", "driverStalls", "driverDies"}

Names == {Argv[a] : a \in DOMAIN Argv}

(* There are descriptors for a server with all its drivers and clients, and *)
(* those of a pipe pair it closes (with none left it says so and exits).    *)
ASSUME IndiServerAssumption ==
  /\ Argv \in Seq(Names) /\ Argv # <<>>
  /\ IsFiniteSet(Conns)
  /\ MaxRs \in Nat /\ MaxMishaps \in Nat
  /\ ClientMsgs \in Nat /\ DriverMsgs \in [Names -> Nat]
  /\ Failures \subseteq Mishaps
  /\ Fds \subseteq Nat /\ IsFiniteSet(Fds)
  /\ Cardinality(Fds) >= 2 * Len(Argv) + Cardinality(Conns) + 3

VARIABLES
  conn,     (* clients and their sockets, as the kernel knows them          *)
  proc,     (* the driver processes started so far, dead ones included      *)
  fds,      (* descriptors the server has open                              *)
  lsocket,  (* the listening socket, or 0 before indiListen()               *)
  clinfo,   (* client table; entries are reused                             *)
  dvrinfo,  (* driver table, one entry for each name                        *)
  pc,       (* where the server is                                          *)
  rs, s,    (* the descriptors the last select() reported; how many it has  *)
            (* still to serve                                               *)
  i,        (* index of the table loop in indiRun()                         *)
  k,        (* index of the loop in send2AllDrivers()                       *)
  batch,    (* messages read and not yet processed                          *)
  reader,   (* entry of the client they were read from, or 0: from a driver *)
  aired,    (* history: messages sent to clients, in order                  *)
  mishaps   (* history: how often something went wrong                      *)

peers  == <<conn, proc>>
loop   == <<rs, s, i>>
relay  == <<k, batch, reader>>
tables == <<clinfo, dvrinfo>>
vars == <<peers, fds, lsocket, tables, pc, loop, relay, aired, mishaps>>

-----------------------------------------------------------------------------
(* Definitions named <Definition>_<Slip> are slips of the pen in the code a *)
(* definition models; the properties are checked to tell them apart.        *)

(* The n-th of the descriptors the kernel would hand out next.              *)
FreeBelow(F, fd) == {g \in Fds \ F : g < fd}
FreeFd(F, n) == CHOOSE fd \in Fds \ F : Cardinality(FreeBelow(F, fd)) = n - 1

ClientMessage(c, n, new) == [by |-> "client", id |-> c, n |-> n, new |-> new]
DriverMessage(p, n) == [by |-> "driver", id |-> p, n |-> n, new |-> FALSE]

Least(S) == CHOOSE x \in S : \A y \in S : x <= y

Drop(q, n) == SubSeq(q, n + 1, Len(q))

(* What a read of n messages leaves unread.                                 *)
Unread_RestDropped(q, n) == <<>>
Unread(q, n) == Drop(q, n)

Takes(peer) == peer = "ok"   (* a write to it cannot fail                    *)

Init ==
  /\ conn = [c \in Conns |->
               [st |-> "away", peer |-> "ok", sent |-> 0, out |-> <<>>,
                got |-> <<>>, since |-> 0]]
  /\ proc = <<>>
  /\ fds = {} /\ lsocket = 0
  /\ clinfo = <<>> /\ dvrinfo = <<>>
  /\ pc = "start" /\ rs = {} /\ s = 0 /\ i = 1
  /\ k = 1 /\ batch = <<>> /\ reader = 0
  /\ aired = <<>> /\ mishaps = 0

-----------------------------------------------------------------------------
(* Clients and drivers.                                                     *)

ServerUnchanged == UNCHANGED <<fds, lsocket, tables, pc, loop, relay, aired>>

(* The listen queue takes the connection before the server does.            *)
Connect(c) ==
  /\ lsocket # 0 /\ conn[c].st = "away"
  /\ conn' = [conn EXCEPT ![c].st = "calling"]
  /\ UNCHANGED <<proc, mishaps>> /\ ServerUnchanged

ClientSends(c, new) ==
  /\ conn[c].st \in {"calling", "open"} /\ conn[c].peer # "gone"
  /\ conn[c].sent < ClientMsgs
  /\ conn' = [conn EXCEPT ![c].sent = @ + 1,
                          ![c].out = Append(@, ClientMessage(c, conn[c].sent + 1, new))]
  /\ UNCHANGED <<proc, mishaps>> /\ ServerUnchanged

GoesWrong(mishap) ==
  /\ mishap \in Failures /\ mishaps < MaxMishaps
  /\ mishaps' = mishaps + 1

(* It stops reading and the socket's buffer fills up.                       *)
ClientStalls(c) ==
  /\ GoesWrong("clientStalls")
  /\ conn[c].st = "open" /\ conn[c].peer = "ok"
  /\ conn' = [conn EXCEPT ![c].peer = "stalled"]
  /\ UNCHANGED proc /\ ServerUnchanged

ClientLeaves(c) ==
  /\ GoesWrong("clientLeaves")
  /\ conn[c].st \in {"calling", "open"} /\ conn[c].peer # "gone"
  /\ conn' = [conn EXCEPT ![c].peer = "gone"]
  /\ UNCHANGED proc /\ ServerUnchanged

DriverReports(p) ==
  /\ proc[p].peer # "gone" /\ proc[p].sent < DriverMsgs[proc[p].name]
  /\ proc' = [proc EXCEPT ![p].sent = @ + 1,
                          ![p].out = Append(@, DriverMessage(p, proc[p].sent + 1))]
  /\ UNCHANGED <<conn, mishaps>> /\ ServerUnchanged

DriverStalls(p) ==
  /\ GoesWrong("driverStalls") /\ proc[p].peer = "ok"
  /\ proc' = [proc EXCEPT ![p].peer = "stalled"]
  /\ UNCHANGED conn /\ ServerUnchanged

DriverDies(p) ==
  /\ GoesWrong("driverDies") /\ proc[p].peer # "gone"
  /\ proc' = [proc EXCEPT ![p].peer = "gone"]
  /\ UNCHANGED conn /\ ServerUnchanged

World ==
  /\ pc # "exit"
  /\ \/ \E c \in Conns : \/ Connect(c)
                         \/ \E new \in BOOLEAN : ClientSends(c, new)
                         \/ ClientStalls(c) \/ ClientLeaves(c)
     \/ \E p \in DOMAIN proc : DriverReports(p) \/ DriverStalls(p) \/ DriverDies(p)

-----------------------------------------------------------------------------
(* Starting, restarting and closing.                                        *)

Entries(name) == {d \in DOMAIN dvrinfo : dvrinfo[d].name = name}

(* The entry of the name, or a new one; its restarts survive.               *)
WithDriver(name, restarts, F) ==
  LET e == [name |-> name, pid |-> Len(proc) + 1, restarts |-> restarts,
            rfd |-> FreeFd(F, 1), wfd |-> FreeFd(F, 4)]
  IN  IF Entries(name) = {} THEN Append(dvrinfo, e)
      ELSE [dvrinfo EXCEPT ![Least(Entries(name))] = e]

NewProcess(name) ==
  [name |-> name, peer |-> "ok", sent |-> 0, out |-> <<>>, got |-> <<>>]

(* Of two new pipes the server keeps the read end of one and the write end  *)
(* of the other.                                                            *)
StartDvr ==
  /\ pc = "start" /\ Len(proc) < Len(Argv)
  /\ LET name == Argv[Len(proc) + 1]
         old  == IF Entries(name) = {} THEN 0
                 ELSE dvrinfo[Least(Entries(name))].restarts
     IN  /\ dvrinfo' = WithDriver(name, old, fds)
         /\ proc' = Append(proc, NewProcess(name))
  /\ fds' = fds \union {FreeFd(fds, 1), FreeFd(fds, 4)}
  /\ UNCHANGED <<conn, lsocket, clinfo, pc, loop, relay, aired, mishaps>>

IndiListen ==
  /\ pc = "start" /\ Len(proc) = Len(Argv)
  /\ lsocket' = FreeFd(fds, 1)
  /\ fds' = fds \union {lsocket'}
  /\ pc' = "select"
  /\ UNCHANGED <<peers, tables, loop, relay, aired, mishaps>>

Closed_DriverReadEndKept(d) == fds \ {dvrinfo[d].wfd}
Closed(d) == fds \ {dvrinfo[d].wfd, dvrinfo[d].rfd}

TooMany(restarts) == restarts > MaxRs

Killed_LeftAlone(d) == proc
Killed(d) == [proc EXCEPT ![dvrinfo[d].pid].peer = "gone"]

(* The process is killed and its pipes closed; whatever it had written is   *)
(* lost, and so is the command that could not be sent.  The server gives up *)
(* when the driver has failed too often; else then names where it goes on.  *)
RestartDvr(d, then) ==
  LET F        == Closed(d)
      restarts == dvrinfo[d].restarts + 1
  IN  IF TooMany(restarts)
      THEN /\ pc' = "exit"
           /\ fds' = F /\ proc' = Killed(d) /\ UNCHANGED dvrinfo
      ELSE /\ pc' = then
           /\ fds' = F \union {FreeFd(F, 1), FreeFd(F, 4)}
           /\ proc' = Append(Killed(d), NewProcess(dvrinfo[d].name))
           /\ dvrinfo' = WithDriver(dvrinfo[d].name, restarts, F)

Inactive == {e \in DOMAIN clinfo : ~clinfo[e].active}

ClosedEntry(e) == [e EXCEPT !.active = FALSE]

-----------------------------------------------------------------------------
(* indiRun().                                                               *)

(* Descriptors read() would not wait on.                                    *)
ClientReady(c) == conn[c].out # <<>> \/ conn[c].peer = "gone"
DriverReady(p) == proc[p].out # <<>> \/ proc[p].peer = "gone"

Active == {e \in DOMAIN clinfo : clinfo[e].active}

Readable ==
  {lsocket : c \in {c \in Conns : conn[c].st = "calling"}}
    \union {clinfo[e].s : e \in {e \in Active : ClientReady(clinfo[e].conn)}}
    \union {dvrinfo[d].rfd : d \in {d \in DOMAIN dvrinfo : DriverReady(dvrinfo[d].pid)}}

Count(ready) == Cardinality(ready)

Select ==
  /\ pc = "select" /\ Readable # {}
  /\ rs' = Readable /\ s' = Count(rs')
  /\ pc' = "accept" /\ i' = 1
  /\ UNCHANGED <<peers, fds, lsocket, tables, relay, aired, mishaps>>

NewEntry(c, fd) == [active |-> TRUE, s |-> fd, conn |-> c]

PutClient(e) ==
  IF Inactive = {} THEN Append(clinfo, e)
  ELSE [clinfo EXCEPT ![Least(Inactive)] = e]

NewClient ==
  /\ pc = "accept" /\ lsocket \in rs
  /\ \E c \in Conns :
       /\ conn[c].st = "calling"
       /\ conn' = [conn EXCEPT ![c].st = "open", ![c].since = Len(aired)]
       /\ clinfo' = PutClient(NewEntry(c, FreeFd(fds, 1)))
  /\ fds' = fds \union {FreeFd(fds, 1)}
  /\ s' = s - 1 /\ pc' = "clients"
  /\ UNCHANGED <<proc, lsocket, dvrinfo, rs, i, relay, aired, mishaps>>

NoNewClient ==
  /\ pc = "accept" /\ lsocket \notin rs
  /\ pc' = "clients"
  /\ UNCHANGED <<peers, fds, lsocket, tables, loop, relay, aired, mishaps>>

(* The entries the rest of the loop will find in rs, and the first of them. *)
ToRead_SkipsLast == {e \in i .. Len(clinfo) - 1 : clinfo[e].active /\ clinfo[e].s \in rs}
ToRead_AnyActive == {e \in i .. Len(clinfo) : clinfo[e].active}
ToRead == {e \in i .. Len(clinfo) : clinfo[e].active /\ clinfo[e].s \in rs}
ToHear == {d \in i .. Len(dvrinfo) : dvrinfo[d].rfd \in rs}

ReadClient ==
  /\ pc = "clients" /\ s > 0 /\ ToRead # {}
  /\ LET c == clinfo[Least(ToRead)].conn
     IN  \E n \in 1 .. Len(conn[c].out) :
           /\ batch' = SubSeq(conn[c].out, 1, n)
           /\ conn' = [conn EXCEPT ![c].out = Unread(@, n)]
  /\ reader' = Least(ToRead)
  /\ pc' = "relay" /\ s' = s - 1 /\ i' = Least(ToRead) + 1
  /\ UNCHANGED <<proc, fds, lsocket, tables, rs, k, aired, mishaps>>

(* End of file, a reset connection, or nothing to read after all: the       *)
(* socket does not block, so that is an error too.                          *)
ReadClientFails ==
  /\ pc = "clients" /\ s > 0 /\ ToRead # {}
  /\ LET e == Least(ToRead)
         c == clinfo[e].conn
     IN  /\ conn[c].peer = "gone" \/ conn[c].out = <<>>
         /\ conn' = [conn EXCEPT ![c].st = "closed"]
         /\ clinfo' = [clinfo EXCEPT ![e] = ClosedEntry(@)]
         /\ fds' = fds \ {clinfo[e].s}
         /\ i' = e + 1
  /\ s' = s - 1
  /\ UNCHANGED <<proc, lsocket, dvrinfo, pc, rs, relay, aired, mishaps>>

ClientsDone ==
  /\ pc = "clients" /\ (s = 0 \/ ToRead = {})
  /\ pc' = "drivers" /\ i' = 1
  /\ UNCHANGED <<peers, fds, lsocket, tables, rs, s, relay, aired, mishaps>>

(* A driver's pipe blocks: with nothing to read the server waits here.      *)
ReadDriver ==
  /\ pc = "drivers" /\ s > 0 /\ ToHear # {}
  /\ LET p == dvrinfo[Least(ToHear)].pid
     IN  \E n \in 1 .. Len(proc[p].out) :
           /\ batch' = SubSeq(proc[p].out, 1, n)
           /\ proc' = [proc EXCEPT ![p].out = Unread(@, n)]
  /\ reader' = 0
  /\ pc' = "relay" /\ s' = s - 1 /\ i' = Least(ToHear) + 1
  /\ UNCHANGED <<conn, fds, lsocket, tables, rs, k, aired, mishaps>>

ReadDriverFails ==
  /\ pc = "drivers" /\ s > 0 /\ ToHear # {}
  /\ LET d == Least(ToHear)
     IN  /\ proc[dvrinfo[d].pid].peer = "gone" /\ proc[dvrinfo[d].pid].out = <<>>
         /\ RestartDvr(d, "drivers")
         /\ i' = d + 1
  /\ s' = s - 1
  /\ UNCHANGED <<conn, lsocket, clinfo, rs, relay, aired, mishaps>>

DriversDone ==
  /\ pc = "drivers" /\ (s = 0 \/ ToHear = {})
  /\ pc' = "select" /\ s' = 0 /\ i' = 1
  /\ UNCHANGED <<peers, fds, lsocket, tables, rs, relay, aired, mishaps>>

-----------------------------------------------------------------------------
(* Relaying what was read.                                                  *)

NextMessage ==
  /\ batch' = Tail(batch)
  /\ k' = 1
  /\ IF Len(batch) > 1
     THEN pc' = "relay" /\ UNCHANGED reader
     ELSE pc' = (IF reader = 0 THEN "drivers" ELSE "clients") /\ reader' = 0

(* send2AllClients(): all active clients but the one it was read from; one  *)
(* that cannot take it is closed.  The write may still succeed when the     *)
(* client has just left.                                                    *)
Audience_ReaderToo == Active
Audience == Active \ {reader}
PeerOf(e) == conn[clinfo[e].conn].peer

Air(m) ==
  \E lost \in SUBSET {e \in Audience : ~Takes(PeerOf(e))} :
    /\ \A e \in Audience : PeerOf(e) = "stalled" => e \in lost
    /\ LET conns(S) == {clinfo[e].conn : e \in S}
       IN  conn' = [c \in Conns |->
                      IF c \in conns(lost) THEN [conn[c] EXCEPT !.st = "closed"]
                      ELSE IF c \in conns(Audience) THEN [conn[c] EXCEPT !.got = Append(@, m)]
                      ELSE conn[c]]
    /\ clinfo' = [e \in DOMAIN clinfo |->
                    IF e \in lost THEN ClosedEntry(clinfo[e]) ELSE clinfo[e]]
    /\ fds' = fds \ {clinfo[e].s : e \in lost}
    /\ aired' = Append(aired, m)

(* What a client reads goes to the other clients if it is a newXXX, then to *)
(* the drivers; what a driver reads goes to all clients.                    *)
RelayFromDriver ==
  /\ pc = "relay" /\ reader = 0
  /\ Air(Head(batch)) /\ NextMessage
  /\ UNCHANGED <<proc, lsocket, dvrinfo, loop, mishaps>>

RelayFromClient ==
  /\ pc = "relay" /\ reader # 0
  /\ IF Head(batch).new THEN Air(Head(batch))
     ELSE UNCHANGED <<conn, clinfo, fds, aired>>
  /\ pc' = "command"
  /\ UNCHANGED <<proc, lsocket, dvrinfo, loop, relay, mishaps>>

(* One round of send2AllDrivers()'s loop.                                   *)
Command ==
  /\ pc = "command" /\ k <= Len(dvrinfo)
  /\ LET p == dvrinfo[k].pid
     IN  IF Takes(proc[p].peer)
         THEN /\ proc' = [proc EXCEPT ![p].got = Append(@, Head(batch))]
              /\ UNCHANGED <<fds, dvrinfo, pc>>
         ELSE RestartDvr(k, "command")
  /\ k' = k + 1
  /\ UNCHANGED <<conn, lsocket, clinfo, loop, batch, reader, aired, mishaps>>

CommandDone ==
  /\ pc = "command" /\ k > Len(dvrinfo)
  /\ NextMessage
  /\ UNCHANGED <<peers, fds, lsocket, tables, loop, aired, mishaps>>

Server ==
  \/ StartDvr \/ IndiListen
  \/ Select \/ NewClient \/ NoNewClient
  \/ ReadClient \/ ReadClientFails \/ ClientsDone
  \/ ReadDriver \/ ReadDriverFails \/ DriversDone
  \/ RelayFromDriver \/ RelayFromClient \/ Command \/ CommandDone

Next == World \/ Server

Spec == Init /\ [][Next]_vars

(* The server runs whenever it is not waiting; clients and drivers owe it   *)
(* nothing.                                                                 *)
FairSpec == Spec /\ WF_vars(Server)

-----------------------------------------------------------------------------
Messages == [by : {"client", "driver"}, id : Nat \union Conns, n : Nat, new : BOOLEAN]
PeerStates == {"ok", "stalled", "gone"}
Connections ==
  [st : {"away", "calling", "open", "closed"}, peer : PeerStates, sent : Nat,
   out : Seq(Messages), got : Seq(Messages), since : Nat]
Processes ==
  [name : Names, peer : PeerStates, sent : Nat, out : Seq(Messages), got : Seq(Messages)]
ClientEntries == [active : BOOLEAN, s : Fds, conn : Conns]
DriverEntries == [name : Names, pid : Nat, restarts : 0 .. MaxRs, rfd : Fds, wfd : Fds]

(* Every variable has the type its C declaration gives it.                  *)
TypeOK ==
  /\ conn \in [Conns -> Connections] /\ proc \in Seq(Processes)
  /\ fds \subseteq Fds /\ lsocket \in Fds \union {0}
  /\ clinfo \in Seq(ClientEntries) /\ dvrinfo \in Seq(DriverEntries)
  /\ \A d \in DOMAIN dvrinfo : dvrinfo[d].pid \in DOMAIN proc
  /\ pc \in {"start", "select", "accept", "clients", "drivers", "relay", "command", "exit"}
  /\ rs \subseteq Fds /\ s \in Nat
  /\ i \in Nat \ {0} /\ k \in Nat \ {0}
  /\ batch \in Seq(Messages) /\ reader \in 0 .. Len(clinfo)
  /\ aired \in Seq(Messages) /\ mishaps \in 0 .. MaxMishaps

(* The members of q that are in S, in their order.  (SelectSeq, in a form   *)
(* the prover can expand.)                                                  *)
Only(q, S) ==
  LET only[n \in 0 .. Len(q)] ==
        IF n = 0 THEN <<>>
        ELSE IF q[n] \in S THEN Append(only[n - 1], q[n]) ELSE only[n - 1]
  IN  only[Len(q)]

(* What a client that joined after the first n messages should have seen:   *)
(* all that was sent to clients since, but for its own.                     *)
Due(c, n) ==
  Only(Drop(aired, n), {m \in Messages : ~(m.by = "client" /\ m.id = c)})

(* "Clients can come and go and will see each device reported by each       *)
(* driver. All newXXX() received from one Client are sent to all other      *)
(* Clients": every client sees one and the same sequence of messages from   *)
(* the moment it was accepted, less its own, however entries are reused;    *)
(* one that was dropped has seen a beginning of it.                         *)
ClientsSeeAll ==
  \A c \in Conns :
    LET due == Due(c, conn[c].since)
    IN  /\ conn[c].st = "open" => conn[c].got = due
        /\ conn[c].st = "closed" =>
             \E n \in 0 .. Len(due) : conn[c].got = SubSeq(due, 1, n)

From(q, by, id) == Only(q, {m \in Messages : m.by = by /\ m.id = id})

(* No message is lost, repeated or overtaken on its way through the server: *)
(* a driver process gets the messages of a client without a gap, whatever   *)
(* clients and drivers fail meanwhile, and so does a client those of a      *)
(* driver process.                                                          *)
NoGaps ==
  /\ \A p \in DOMAIN proc, c \in Conns :
       LET q == From(proc[p].got, "client", c)
       IN  \A x \in 1 .. Len(q) - 1 : q[x + 1].n = q[x].n + 1
  /\ \A c \in Conns, p \in DOMAIN proc :
       LET q == From(conn[c].got, "driver", p)
       IN  \A x \in 1 .. Len(q) - 1 : q[x + 1].n = q[x].n + 1

(* The descriptors open are those the tables name, all different: closing   *)
(* and restarting leaks none and closes none that is another's.             *)
NoDescriptorLost ==
  pc \in {"select", "accept", "clients", "drivers", "relay", "command"} =>
    /\ fds = {lsocket} \union {clinfo[e].s : e \in Active}
               \union {dvrinfo[d].rfd : d \in DOMAIN dvrinfo}
               \union {dvrinfo[d].wfd : d \in DOMAIN dvrinfo}
    /\ Cardinality(fds) = 1 + Cardinality(Active) + 2 * Len(dvrinfo)

(* "shut down client if gives us any trouble", and no other: a client that  *)
(* reads what it is sent and does not leave is never closed.                *)
ClosedForCause ==
  [][\A c \in Conns : conn[c].st = "open" /\ conn'[c].st = "closed"
                        => conn[c].peer # "ok"]_vars

(* Every driver process that runs is one the server listens to: clients     *)
(* "will see each device reported by each driver", and no second process of *)
(* a driver is left running beside the first.                               *)
EveryDriverHeard ==
  \A p \in DOMAIN proc :
    proc[p].peer # "gone" => \E d \in DOMAIN dvrinfo : dvrinfo[d].pid = p

(* "accept and service clients until fatal error": what a client sends is   *)
(* read, or the client closed.                                              *)
ClientsServiced ==
  \A c \in Conns :
    conn[c].out # <<>> /\ conn[c].st = "open"
      ~> (conn[c].out = <<>> \/ conn[c].st = "closed" \/ pc = "exit")
=============================================================================
