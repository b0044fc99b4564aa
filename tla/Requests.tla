------------------------------ MODULE Requests ------------------------------
(***************************************************************************)
(* A driver's answers to the requests of clients: INDIHandler and the      *)
(* handlers of number, text and BLOB vectors (driver/handler.cpp), what    *)
(* Device and PluginBase do with a request that passed (items/device.cpp,  *)
(* items/plugbase.cpp), and what the vectors print (items/propvector.cpp,  *)
(* items/property.cpp).  Requests for switches are in module SwitchVector. *)
(*                                                                         *)
(* A driver has one thread: it handles the requests of one read() in turn, *)
(* and its plug-ins change properties between two reads.  What it prints   *)
(* goes to all clients.                                                    *)
(***************************************************************************)
EXTENDS Integers, Sequences, FiniteSets

CONSTANTS
  Devices,       (* the driver's devices                                     *)
  Implemented,   (* those with a plug-in                                     *)
  Vectors,       (* their vectors, without lights and switches               *)
  DeviceOf,      (* the device of a vector                                   *)
  Kind,          (* "number", "text" or "blob"                               *)
  Writable,      (* the vectors clients may write                            *)
  Members,       (* the names of a vector's properties                       *)
  Min, Max,      (* the range of a vector's numbers                          *)
  Values,        (* values of properties, here numbers whatever the kind     *)
  Settings,      (* those of them in files and set by plug-ins               *)
  Rounded,       (* numbers as they are printed: %g, six digits              *)
  MayWait,       (* the vectors whose plug-in may set without sending        *)
  Junk,          (* a datum that is no number                                *)
  Freed,         (* the data of a BLOB whose XML element has been deleted    *)
  Missing,       (* an attribute left out                                    *)
  Elsewhere,     (* the name of a device of another driver                   *)
  Unknown,       (* a name the device or vector does not have                *)
  Nothing,       (* no request; what is shown of a property never printed    *)
  Asked          (* the requests clients make                                *)

Of(v) == {v} \X Members[v]
Properties == UNION {Of(v) : v \in Vectors}

Names(v) == Members[v] \union {Missing, Unknown}
Data == Values \union {Junk}

(* A request for new values of one of the driver's vectors, or for one it   *)
(* does not have; the elements' tags are right or wrong.                    *)
Items(v) == [tag : {"one", "other"}, name : Names(v), datum : Data]

IsNewVector(r) ==
  /\ r.tag = "new"
  /\ r.device \in Devices \union {Missing, Elsewhere}
  /\ r.vector \in Vectors \union {Missing, Unknown}
  /\ r.vector \in Vectors /\ r.device \in Devices => r.device = DeviceOf[r.vector]
  /\ r.vector \in Vectors => r.items \in Seq(Items(r.vector))

(* getProperties names no device, or any.                                   *)
IsGetProperties(r) ==
  /\ r.tag = "getProperties"
  /\ r.version \in {"ours", "newer", "missing"}
  /\ r.device \in Devices \union {Missing, Elsewhere}

ASSUME RequestsAssumption ==
  /\ Implemented \subseteq Devices /\ DeviceOf \in [Vectors -> Devices]
  /\ Kind \in [Vectors -> {"number", "text", "blob"}]
  /\ Writable \subseteq Vectors
  /\ Min \in Int /\ Max \in Int /\ Values \subseteq Int /\ Settings \subseteq Values
  /\ Rounded \in [Values -> Values]
  /\ MayWait \subseteq {v \in Vectors : Kind[v] # "blob"}
  /\ Junk \notin Values /\ Freed \notin Data
  /\ Nothing \notin Data \union {Freed} /\ Nothing \notin Asked
  /\ \A v \in Vectors : Members[v] \intersect {Missing, Unknown} = {}
  /\ {Missing, Elsewhere} \intersect Devices = {}
  /\ {Missing, Unknown} \intersect Vectors = {}
  /\ \A r \in Asked : IsNewVector(r) \/ IsGetProperties(r) \/ r = [tag |-> "unknown"]

VARIABLES
  value,     (* the value of each property                                  *)
  changed,   (* the properties whose changed flag is set                    *)
  shown,     (* history: what clients were last told of each property       *)
  refuses,   (* protoNotSupported                                           *)
  reading,   (* handleRequest() is at work on the characters of one read()  *)
  request,   (* the complete element it is to handle, or Nothing            *)
  ended,     (* the program has used a null pointer                         *)
  answer     (* history: what the last step printed                         *)

properties == <<value, changed, shown>>
vars == <<value, changed, shown, refuses, reading, request, ended, answer>>

-----------------------------------------------------------------------------
(* Definitions named <Definition>_<Slip> are slips of the pen in the code a *)
(* definition models; the properties are checked to tell them apart.        *)

(* What a vector, or several, are left like: values and flags, and what the *)
(* clients have been told.                                                  *)
State == [value |-> value, changed |-> changed, shown |-> shown]

Shows(p, x) == IF Kind[p[1]] = "number" /\ x \in Values THEN Rounded[x] ELSE x

(* indiSetProperty: the members with the changed flag are printed.          *)
SetProperty(s, v) ==
  [s EXCEPT !.shown = [p \in Properties |->
                         IF p \in Of(v) \intersect s.changed THEN Shows(p, s.value[p]) ELSE @[p]],
            !.changed = @ \ Of(v)]

(* indiDefProperty of some vectors: every member is printed but the data of *)
(* BLOBs, and no flag is left set.                                          *)
DefProperty_Changed(s, vs) ==
  [s EXCEPT !.shown = [p \in Properties |->
                         IF p[1] \in vs /\ Kind[p[1]] # "blob" /\ p \in s.changed
                           THEN Shows(p, s.value[p]) ELSE @[p]],
            !.changed = {p \in @ : p[1] \notin vs}]
DefProperty(s, vs) ==
  [s EXCEPT !.shown = [p \in Properties |->
                         IF p[1] \in vs /\ Kind[p[1]] # "blob"
                           THEN Shows(p, s.value[p]) ELSE @[p]],
            !.changed = {p \in @ : p[1] \notin vs}]

(* forceChange, then indiSetProperty: what the clients get when they asked  *)
(* for something that will not be done.                                     *)
TellAll_NotForced(s, v) == SetProperty(s, v)
TellAll(s, v) == SetProperty([s EXCEPT !.changed = @ \union Of(v)], v)

(* setValue for each item in turn: of two for one member, the last counts.  *)
Naming(items, p) == {i \in DOMAIN items : items[i].name = p[2]}
LastDatum(items, p) ==
  items[CHOOSE i \in Naming(items, p) : \A j \in Naming(items, p) : j <= i].datum
Named(v, items) == {p \in Of(v) : Naming(items, p) # {}}

SetValues_Unmarked(s, v, items) ==
  [s EXCEPT !.value = [p \in Properties |->
                         IF p \in Named(v, items) THEN LastDatum(items, p) ELSE @[p]]]
SetValues(s, v, items) ==
  [s EXCEPT !.value = [p \in Properties |->
                         IF p \in Named(v, items) THEN LastDatum(items, p) ELSE @[p]],
            !.changed = @ \union Named(v, items)]

(* The elements of a BLOB request are deleted once it is handled, and the   *)
(* vector still points to their data.                                       *)
DeleteElement(s, v, items) ==
  IF Kind[v] = "blob"
    THEN [s EXCEPT !.value = [p \in Properties |->
                                IF p \in Named(v, items) THEN Freed ELSE @[p]]]
    ELSE s

-----------------------------------------------------------------------------
(* Values come from the file; numbers have got their range, which sets the  *)
(* changed flag.  BLOBs have no value in the file: a null pointer, which    *)
(* stands for any value here.                                               *)
Init ==
  /\ value \in [Properties -> Settings]
  /\ changed = {p \in Properties : Kind[p[1]] = "number"}
  /\ shown = [p \in Properties |-> Nothing]
  /\ refuses = FALSE /\ reading = FALSE
  /\ request = Nothing /\ ended = FALSE /\ answer = {}

Become(s) == value' = s.value /\ changed' = s.changed /\ shown' = s.shown

(* read() returns; after a request of another version nothing is parsed.    *)
ReadRequests ==
  /\ ~reading /\ ~ended
  /\ IF refuses THEN reading' = FALSE /\ answer' = {"message"}
                ELSE reading' = TRUE /\ answer' = {}
  /\ UNCHANGED <<properties, refuses, request, ended>>

(* readXMLEle returns a complete element, or there are no more characters.  *)
ReadElement ==
  /\ reading /\ request = Nothing
  /\ request' \in Asked /\ answer' = {}
  /\ UNCHANGED <<properties, refuses, reading, ended>>

EndOfRead ==
  /\ reading /\ request = Nothing
  /\ reading' = FALSE /\ answer' = {}
  /\ UNCHANGED <<properties, refuses, request, ended>>

Answers(said) == request' = Nothing /\ answer' = said /\ UNCHANGED <<reading, ended>>

(* checkTag, checkOneName and setData of one <oneXXX> element.              *)
DatumRight(v, d) == Kind[v] = "number" => d # Junk /\ d >= Min /\ d <= Max
ItemRight(v, e) == e.tag = "one" /\ e.name \in Members[v] /\ DatumRight(v, e.datum)
ItemsRight_FirstOnly(v, items) == items = <<>> \/ ItemRight(v, items[1])
ItemsRight(v, items) == \A i \in DOMAIN items : ItemRight(v, items[i])

(* Device::update: the plug-in's update(), by default PluginBase's, or none.*)
(* The message for a text vector without plug-in is never printed: it is    *)
(* left with the device, which only prints messages of its own.             *)
Update(v, items) ==
  IF DeviceOf[v] \in Implemented
    THEN /\ Become(DeleteElement(SetProperty(SetValues(State, v, items), v), v, items))
         /\ Answers({"values"})
    ELSE /\ Become(TellAll(State, v))
         /\ Answers(IF Kind[v] = "text" THEN {"values"} ELSE {"values", "message"})

(* checkDriverName, by the first check that fails.                          *)
ForOthers(r) == r.device \in {Missing, Elsewhere}
MayWrite(r) == r.vector \in Writable

Handles(tag) == ~ended /\ request # Nothing /\ request.tag = tag

HandleNewVector ==
  /\ Handles("new")
  /\ IF ForOthers(request) THEN UNCHANGED properties /\ Answers({})
     ELSE IF ~MayWrite(request) THEN UNCHANGED properties /\ Answers({"message"})
     ELSE IF ItemsRight(request.vector, request.items)
       THEN Update(request.vector, request.items)
       ELSE Become(TellAll(State, request.vector)) /\ Answers({"values", "message"})
  /\ UNCHANGED refuses

(* A device the driver does not have is a null pointer that is used.        *)
GetsElsewhere(r) == r.version = "ours" /\ r.device = Elsewhere

HandleGetProperties ==
  /\ Handles("getProperties") /\ ~GetsElsewhere(request)
  /\ IF request.version = "ours"
       THEN /\ Become(DefProperty(State, {v \in Vectors :
                                            request.device \in {Missing, DeviceOf[v]}}))
            /\ Answers({"definitions"}) /\ UNCHANGED refuses
       ELSE /\ refuses' = TRUE /\ UNCHANGED properties /\ Answers({"message"})

GetElsewhere ==
  /\ Handles("getProperties") /\ GetsElsewhere(request)
  /\ ended' = TRUE /\ answer' = {}
  /\ UNCHANGED <<properties, refuses, reading, request>>

HandleUnknown ==
  /\ Handles("unknown")
  /\ UNCHANGED <<properties, refuses>> /\ Answers({"message"})

(* A plug-in, called back from elsewhere, sets a property and sends it, or  *)
(* leaves that for later.                                                   *)
Set(s, p, x) == [s EXCEPT !.value[p] = x, !.changed = @ \union {p}]

PluginSets(p, x) ==
  /\ ~reading /\ ~ended /\ DeviceOf[p[1]] \in Implemented
  /\ \/ p[1] \in MayWait /\ Become(Set(State, p, x)) /\ answer' = {}
     \/ Become(SetProperty(Set(State, p, x), p[1])) /\ answer' = {"values"}
  /\ UNCHANGED <<refuses, reading, request, ended>>

PluginSends(v) ==
  /\ ~reading /\ ~ended /\ DeviceOf[v] \in Implemented
  /\ Become(SetProperty(State, v)) /\ answer' = {"values"}
  /\ UNCHANGED <<refuses, reading, request, ended>>

Next ==
  \/ ReadRequests \/ ReadElement \/ EndOfRead
  \/ HandleNewVector \/ HandleGetProperties \/ GetElsewhere \/ HandleUnknown
  \/ \E p \in Properties, x \in Settings : PluginSets(p, x)
  \/ \E v \in Vectors : PluginSends(v)

Spec == Init /\ [][Next]_vars

-----------------------------------------------------------------------------
TypeOK ==
  /\ value \in [Properties -> Data \union {Freed}]
  /\ changed \subseteq Properties
  /\ shown \in [Properties -> Data \union {Freed, Nothing}]
  /\ refuses \in BOOLEAN /\ reading \in BOOLEAN
  /\ request \in Asked \union {Nothing} /\ (~reading => request = Nothing)
  /\ ended \in BOOLEAN
  /\ answer \subseteq {"message", "values", "definitions"}

(* What clients show of a number or text is true, to the digits printed,    *)
(* unless the change is marked, to be sent with the next message of its     *)
(* vector: flags are cleared by three ways of printing and set by five of   *)
(* changing (property.h, property.cpp).                                     *)
ClientsKnow ==
  \A p \in Properties :
    Kind[p[1]] # "blob" /\ p \notin changed /\ shown[p] # Nothing
      => shown[p] = Shows(p, value[p])

Handled == request # Nothing /\ request' = Nothing

(* What a request must be for its values to be taken.                       *)
Acceptable(r) ==
  /\ r.tag = "new" /\ r.vector \in Writable
  /\ r.device = DeviceOf[r.vector] /\ r.device \in Implemented
  /\ \A i \in DOMAIN r.items :
       /\ r.items[i].tag = "one" /\ r.items[i].name \in Members[r.vector]
       /\ Kind[r.vector] = "number" => r.items[i].datum \in Min .. Max

(* A request changes all the properties it names or none: its elements are  *)
(* checked one after the other, and a later one may be wrong                *)
(* (PropertyVectorHandler::handle).                                         *)
AllOrNothing ==
  [][Handled =>
       \/ value' = value
       \/ /\ Acceptable(request)
          /\ value' = [p \in Properties |->
                         IF p \notin Named(request.vector, request.items) THEN value[p]
                         ELSE IF Kind[p[1]] = "blob" THEN Freed
                         ELSE LastDatum(request.items, p)]]_vars

(* A client that asks for new values of one of the driver's devices is not  *)
(* left waiting: it is shown what it asked for, or told why not and shown   *)
(* what holds.  Text vectors without a plug-in get no explanation           *)
(* (device.cpp:127 leaves it with the device).                              *)
RequestsAnswered ==
  [][Handled /\ request.tag = "new" /\ request.device \in Devices =>
       /\ \/ "message" \in answer'
          \/ request.vector \in Vectors /\ Kind[request.vector] = "text"
                /\ DeviceOf[request.vector] \notin Implemented
          \/ \A p \in Named(request.vector, request.items) :
               shown'[p] = Shows(p, LastDatum(request.items, p))
       /\ request.vector \in Writable =>
            \A p \in Named(request.vector, request.items) :
              Kind[p[1]] # "blob" => shown'[p] = Shows(p, value'[p])]_vars

(* A client that asks for the properties sees them all, whoever else has    *)
(* been shown which of them before; BLOBs come when they change.            *)
DefinitionsComplete ==
  [][Handled /\ request.tag = "getProperties" /\ request.version = "ours" =>
       \A p \in Properties :
         Kind[p[1]] # "blob" /\ request.device \in {Missing, DeviceOf[p[1]]}
           => shown'[p] = Shows(p, value'[p])]_vars
=============================================================================
