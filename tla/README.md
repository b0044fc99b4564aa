# A verification project for INDICOR

INDICOR is a C/C++ implementation of the INDI protocol for astronomical
instruments.  A *server* (`indiserver.c`) starts *drivers* and relays XML
messages between them and remote *clients*.  A driver is a single thread around
an event loop; it keeps devices with vectors of properties, answers clients'
requests about them, and talks to the hardware through a queue of commands.

The modules here are TLA+ models of that code, translated from the source,
model-checked with TLC on small instances, and in part proved with TLAPS for
every value of their constants.  `PROJECT.json` holds the tables: which lines a
definition stands for, what each run checks, and which slip of the pen in the
code each property is known to catch.

## 1. Inventory

| Component | Source | State | Operations | Talks to |
|---|---|---|---|---|
| Event loop | `common/eventloop.c` | tables of callbacks and work procedures, sorted list of timers, last one served of each | add and remove of each, `eventLoop` | calls the registered functions, which call back its API |
| Server | `indiserver.c` | client table, driver table, parsers, `select` set | one pass of `indiRun`: accept, read and relay, restart | driver processes (pipes), clients (sockets) |
| Command queue | `resources/corqueue.*`, `qcommand.*`, `alarmimp.h`, `macrocmd.*` | queue, alarm id of each command, step of each macro | `add`, `remove`, `clear`, `response`, `timeout` | timers of the event loop, plug-in delegates |
| Switch vectors | `items/propvector.*`, `driver/handler.cpp` | switches, changed flags, rule, cache of the one last turned on | `setValue`, `on`, `off`, requests, messages | clients, plug-ins |
| Property vectors and observers | `items/propvector.*`, `property.*` | state, permission, members, observers | set, define, delete, notify | other devices, the network |
| Item tree | `items/compoitem.*`, `device.*` | maps of children | find, add, remove, define, set, delete | property vectors |
| Request handling | `driver/handler.*` | accumulated names and values of a request, protocol flag | `handle` for every request | XML parser, item tree |
| XML parser | `common/lilxml.*` | state, element under construction | one character at a time | server, handler, readers |
| Configuration readers | `driver/devreader.*`, `relreader.*` | the tree being built | read of devices and relationships | XML parser, item tree |
| Driver start-up | `drivermain.cpp`, `driver/driver.*`, `manager.*` | devices, work procedure | `init`, `postInit` | event loop, readers, plug-ins |
| Pipe event sources | `resources/pipevent.h` | a pipe, a callback id | `generate`, `changed` | event loop, vectors' observers |
| Adaptive timers | `resources/adaptimer.h` | receivers, the current one, a timer id | `add`, `remove`, `start`, `stop`, `tick` | event loop |
| UDP multiplexer, demultiplexer | `resources/udpmux.*`, `udpdemux.h` | a socket, its peer and broadcast option, a map of listeners | `setPeer`, `sendMessage`, `add`, `remove`, `handle` | event loop, plug-ins, the controller of the observatory (COR) |
| COR protocol, factories, log, formats | `resources/corproto.*`, `factory/`, `log/`, `common/indicom.c` | none or singletons | pure functions | everything |

What is hard about them, and what makes each correct:

* *Event loop.*  A registered function changes the tables while the loop is in
  the middle of an iteration: the readiness set it computed, the timer it is about
  to drop and the slot it scans from may all be stale.  Correct: counts agree
  with the tables, a timer runs once and not too early, nothing starves, no scan
  runs for ever.
* *Server.*  Clients and drivers fail at any moment, and the server notices in
  the middle of a pass over a set of descriptor numbers that it closes and
  reopens.  Correct: everyone sees the same messages in the same order, only those
  that fail are dropped, no descriptor or process is leaked, everyone is served.
* *Command queue.*  Answers, timeouts and the delegates' own additions race.
  Correct: the queue never waits without a deadline, no deadline outlives what it
  was for, the assertion in `remove()` holds, the order is kept.
* *Switch vectors.*  The rules trust a cached pointer.  Correct: the rule holds
  after any sequence of operations, and what clients show is true.
* *Requests.*  The elements of a request are checked while they are gathered, and
  a plug-in changes properties in between.  Correct: a request is done whole or
  not at all, answered, and what clients show is true.
* *XML parser.*  It trusts that elements, attributes and strings are there whatever
  came before.  Correct: they are, and what the server relays is what it read.
* *Device files and driver start-up.*  A driver reads again what its predecessor
  wrote, perhaps half; a reader function fails, or ends the program; a device that
  failed is deleted while the tree still names it.  Correct: what was saved is
  restored, what the manager tells clients is so, relationships are made in spite of
  wrong ones among them, and the driver gets to its loop with its timer running.
* *Observers.*  An event only says what has changed; it waits in a pipe that its
  writer must read.  Correct: every observer finds out about the last change, and the
  driver never waits on its own pipe.
* *Shared timer and socket.*  Plug-ins stop and start the timer while it calls
  them, register and unregister while datagrams come in, and set the peer in turn.
  Correct: each is called in turn, no sooner than its period, and hears only what is
  meant for it; the socket allows what is sent.

## 2. Plan

Done, in this order: `EventLoop` (with its abstract specification
`TimerService`), `CommandQueue`, `SwitchVector`, `IndiServer`, `Requests`,
`LilXML` and `XMLRelay`, `DeviceFile` and `DriverStart`, `Observers`,
`AdaptiveTimer` and `UDPLink`, composed by `Hub`.

The modules that are left to write would be of components without behaviour over
time (section 6), and what is left to prove is out of the prover's reach (section 5).

## 3. The modules

### EventLoop

`pc` is where the one thread is: `setup` (before `eventLoop()`), the steps of
`oneLoop()` (`select`, `checkTimer`, `dispatch`), inside a registered function
(`inTimer`, `inCallback`, `inWorkProc`), or at an end (`exit` after a failed
`select`, `spin` in a scan that finds nothing, `undefined` after the timer list's
length went below 0).  `cback`, `wproc` and `timef` are the C arrays, in order;
a C index is the TLA+ index less one.  The functions are unknown: each makes at
most `MaxCalls` of the API calls `Calls` grants its kind.  `now` ticks `Sub`
times a millisecond, so that rounding shows, and `Epoch` is the tick of a second at
which the loop was entered: `Elapsed` takes the difference of the seconds and that of
what is beyond them each by itself, as `EPOCHDT` does, and C's division rounds the
second towards zero, up in one part of a second and down in the other.  Ints wrap at
`IntHalf`.
`at` and `ms` of a timer, `running` and `fate` are history.

`TimerService` says what timers promise without saying how they are kept;
`ImplementsTimerService` maps it to the list without the entry that is running.

### IndiServer

`conn` and `proc` are the outside: sockets with what clients have sent
(`out`) and been sent (`got`), and processes likewise.  `fds` is the set of open
descriptor numbers; the kernel hands out the lowest free ones, and a pipe pair
takes four of which the server keeps the first and the last.  `clinfo` and
`dvrinfo` are the tables, `rs` the set `select` filled, `s` its count, `i` the
index of the table loops, `batch` the complete messages of one `read`, `reader`
whose they are.  A message to all clients is one step (what one client does
during it cannot affect another); a command to all drivers is a step for each,
since each may restart its driver.  `Only` picks the messages of a sequence that are in
a set, for the properties; it is a recursive function rather than `SelectSeq`, which the
prover does not expand.  A write to a peer that reads cannot fail, one
to a peer that has stopped reading fails, one to a dead driver fails, and one to
a client that has just left may do either.  `aired`, `since` and `mishaps` are
history.  XML is not modelled here: `readXMLEle` is taken to return each element
when its last character is read, which is what `XMLRelay` checks.

### CommandQueue

`queue` is `cmdList`; `at[c]` the step a busy command awaits an answer for;
`alarm` the commands whose `alarmId` is set; `armed` those with a timer in the
event loop.  The two differ exactly in the window inside `AlarmImp::timeout`,
after the receivers ran and before `alarmId` is reset.  A handler is one action,
with everything it calls: the alarm cancelled, `remove()` with the requests it
sends, and the delegate, which is external and may add one command, its own too.
`retried` is history: the command in front, if it was put there by its own delegate
at its timeout.

### SwitchVector

`sv` holds the switches that are on, those with the changed flag, the cache
`lastOn`, and whether the null pointer has been used; `shown` is what clients were
last told.  `Init` is the reader with its repairs (`Repaired`), `Accept` and
`Refuse` are `SwitchVectorHandler::handle` up to the message it sends, the other
actions are the plug-in's calls.  `on()` and `off()` set one switch after the other
(`SetEach`).  `Misread` is the request whose datum is neither On nor Off, which trips an
assertion (`proputils.cpp:88`) and ends the program: `ended`.

### Requests

One driver: `INDIHandler` and its handlers of numbers, texts and BLOBs.  `value`
and `changed` are the properties' values and flags, `shown` what clients were last
told of each, `refuses` the flag that another protocol version sets.  The
thread is in a read (`reading`) or free for the plug-ins; `request` is the element
`readXMLEle` has returned and `handle` has not yet answered, `answer` what the
handling printed.  A handler is one action, from the checks of names, types and
data (`ForOthers`, `MayWrite`, `ItemsRight`, in the code's order) to what is set
(`Update`) and printed (`TellAll`, `SetProperty`, `DefProperty`).  What is printed of a
number is what `%g` makes of it, six digits (`Rounded`); `shown` holds that.
`GetElsewhere` is the `getProperties` for a device of another driver, which ends the
program (`ended`).  Plug-ins set
properties and send them in two steps (`PluginSets`, `PluginSends`), since the code
leaves them free to; requests come between.  `value` holds numbers whatever the
kind of a property: only comparison with the range looks at them.  The pointer a
BLOB keeps into its request is the value `Freed` once the request is deleted.

### LilXML and XMLRelay

`LilXML` is the parser as operators: `OneXMLChar` by states, `ReadXMLEle` around
it, on a record `p` with the fields of `struct _LilXML`.  The elements under
construction are the sequence `p.ce`, outermost first; characters are grouped in
letters, digits, blanks, marks and others.  `Structure` says what the C code trusts.
`PrXMLEle` is a recursive function of where an element is in the one printed (`Within`),
as the C function recurs from an element to its children.

`XMLRelay` runs two of them: a peer writes `input`, the server's parser reads it,
`PrXMLEle` prints each element to `wire`, a driver's parser reads that.
`parsed`, `arrived` and `meant` are history.  The peer writes elements in
various ways (either quote, blanks and newlines where XML allows them, comments,
nested elements after content) and garbage (truncated elements, wrong
closing tags, characters out of place, a null character).

### DeviceFile and DriverStart

`DeviceFile` is a device's file as operators: `SaveDevice` prints a device as the
element its parser will make of the file, `ReadFile` reads one.  The data are
abstract: a text is known by what trimming leaves of it (`Trimmed`) and whether it
breaks the file (`Unprintable`), a number by what `%g` prints (`Rounded`) and whether
that has a negative exponent (`Tiny`).  A reader function succeeds, fails (`Failure`)
or ends the program (`Death`): a keyword the conversions do not know trips an
assertion, and a failure before the item is made asks a null pointer for its name
when it is logged.  `ReadChildren` is the loop of every reader: the children up to the
first that is wrong, of those of one name the first.  Vectors are records with all the
fields there are; those a kind does not have are as its constructor would leave them.
`Kept` says what a file keeps of a device, `IsRestorable` of which.

`DriverStart` is one driver from `main` to its loop, and again after it has ended.
`files` is the disk; `tree` the devices by name, `Dangling` for one that was deleted
when its file proved wrong and is named by the tree still; `loading` the manager's
vectors to come; `registered` the observers.  A save is two actions, since the
driver may end between: the file is empty from `OpenToSave` to `Save`.
The relationships ask of a name only whether the tree has something under it, since
`DYNAMIC_CAST` is a C cast (`utils.h:47`): a deleted device is made an observer like any
other, and as an observable it is asked for vectors, of which its memory holds what it
may (`found`) - or the driver ends there (`UsesDeleted`).  What a registration of a
deleted observer does once it is notified is not in the module.  The vectors with `CONFIG`, `MODULE` and `PARAMS` are asked
for one after the other as loading goes on (`LoadsOn`), and a missing one ends the
driver, as one that is no text vector is taken to do, of which the code has an unchecked
cast.  A timer counts from the loop's epoch, so that it is running (`timer`) only if it
was started in the loop.
`Inserted` is `std::map::insert`, which leaves what has the name already. A manager
without vectors goes from `init` to its relationships at once.
`saved`, `crashed` and `strays` are history (a stray is a vector whose device has the
name of another: the tree keeps the first).

### Observers

`datum` is what each vector holds and the state it is in, together as the pairs of
vector and topic observers are registered for.  A change writes an event to `pipe`;
`ReadEvent`, `Update` and `EndNotify` are the loop's callback, one call of an
observer at a time; `AllSwitches`, `Status` and `Without` (`std::list::remove`) are
recursive functions, for the prover's sake; the plug-in called looks at the vector (`told`) and may set one of
its own.  A write to a full pipe is the end: `pc` is `blocked`.

### AdaptiveTimer, UDPLink and Hub

`AdaptiveTimer` keeps `timef` as the set of the timers it has in the event loop, with
the time left to each; the loop may be `Late`.  `pc` is `tick` while a receiver is
called, in which it may do all a plug-in may.  `waiting`, `since` and `stopped` are
history.  `UDPLink` is the socket, as operators on its state: `air` holds the
datagrams on their way, which `Hub` loses, repeats and delivers in any order.
`Hub` composes the two: plug-ins send when they are called by either.

### Proof modules

`EventLoopProofs`, `CommandQueueProofs`, `SwitchVectorProofs`, `IndiServerProofs`,
`DriverStartProofs`, `ObserversProofs` and `HubProofs` extend the module they are about;
`DriverStartProofs` is about `DeviceFile` too, `HubProofs` about `AdaptiveTimer` and
`UDPLink`.  `MessageProofs` is about what becomes of a message: `LilXML`, `XMLRelay` and
`Requests`.  Each begins with the premises of its theorems, if they have any, and lemmas
on the operators of its module.

## 4. What the runs check

| Run | Bounds | Shows |
|---|---|---|
| `loop_timers` | 4 timers, delays 1 and 3 ms, 2 calls per function, 7 half-milliseconds | the list is sorted and holds what is pending, no timer runs two milliseconds early, the list refines `TimerService`, so that each timer runs once, and each runs or is removed |
| `loop_served` | 2 descriptors, 2 slots of each kind, 1 timer | counts agree, the scan ends, callbacks and work procedures are served in turn |
| `server_clients` | 2 clients, 1 driver that does not fail, 1 message each, 2 mishaps | one order of messages for everyone, only failing clients dropped, everyone served |
| `server_drivers` | 2 drivers, 1 restart each, one of them with a message of each process, 1 client with 3, 2 mishaps of any kind | no descriptor or process lost, unbroken runs of messages |
| `server_waits` | 1 driver, 2 restarts, 1 client with 2 messages | **fails**: after a restart the server waits in `read()` for ever |
| `queue_deadlines` | 4 commands (simple, macro, unanswered), any additions, `clear()` | the queue waits without a deadline only for a command that its delegate added again in `timeout()`; until it is cleared every timeout finds its command in front, and everything is sent unless the queue is stuck behind such a one; order |
| `switch_rules` | 3 switches, all rules, all correct files | rules, what clients show |
| `requests` | 2 devices, 1 with a plug-in, a writable number, text and BLOB vector and a read-only one, 2 values, right and wrong requests of up to two elements | requests change all they name or nothing and are answered; what clients show is true |
| `xml_relay` | 3 texts out of 11 elements and 11 pieces of garbage | neither parser uses what is not there, elements are read as meant and relayed as read |
| `driver_start` | a manager with 2 devices, 2 starts, 2 changes by plug-ins; some 50 vectors in files, right and wrong, each alone and beside a right one; modules that load, do not, or refuse | what was saved is restored, the manager's states are true, the relationships are made, the driver gets to its timer |
| `observers` | 4 devices, 2 of them with plug-ins, a switch and a light vector, a pipe of 3 events | every observer finds out; the pipe does not fill |
| `hub` | 3 plug-ins, 2 of them with one peripheral, a period of 4 ms, the loop up to 1 ms late, 1 datagram on its way | turns, periods, who hears what, sends allowed |

The bounds are enough for the cases to occur: three timers make the bubble sort
move an entry both ways and four leave one behind a removal; two descriptors are
needed for a scan to miss the one it wants; a client table entry is reused as soon
as one client leaves and another comes; two failures of one driver reach the
restart limit; a message is missed only between two others, so that a gap takes three
from one sender, a client in `server_drivers` (that clients miss nothing is
`ClientsSeeAll`, of `server_clients`); an epoch half way through a second has the clock rounded down in its
one half and up in the other; three switches give the rules a first, a middle and a last; three
receivers make a turn with one between two others, and 4 ms among them a remainder;
two starts are one that saves and one that reads; a pipe of three events is what two that
wait and a device's two vectors need (`Calm`).  One datagram at a time is in the air in
`hub`, which is lost or repeated but does not overtake another; with two, `HeardRight`
has been seen to hold as well (3 million states), and `PluginsHearRight` proves it for
any number.

`CHECK_DEADLOCK FALSE` is set where the program may rightly wait for ever (an
idle loop or server) or stop (a failed `select` or assertion, a peer that has
written all it will, a driver at the bound of its starts).

Every property of a passing run has a mutant in `PROJECT.json`, a slip of the
pen in one definition that makes TLC find the property violated.

### Fairness

* `EventLoop`: the clock ticks, and the thread takes its next step when it has
  one, which says that registered functions return and `select` returns when it
  may; a signal need not interrupt it (`Proceed` is `Loop` without).  Nothing is assumed
  of descriptors.  They have precedence, so that
  `WorkProcsServed` is for a loop that finds all of them idle again and again, however
  busy they are between: it excludes only that from some time on it never does.
* `IndiServer`: the server takes its next step when it has one.  Clients and
  drivers owe it nothing.
* `CommandQueue`: timers in the event loop run, which is `TimersRun` of
  `EventLoop`.  Neither device nor driver owes anything.

* `DriverStart`: the driver takes the next step of its start and ends a save;
  strongly fair for the work procedure, which the loop runs when no descriptor is
  readable (`WorkProcsServed`), while saves come between.  Nothing is assumed of crashes.
* `Observers`: the loop reads the pipe (`CallbacksServed`), and calls return.
* `Hub`: none, its properties are safety.

### Outside the runs' assumptions

The passing runs leave out uses of the code that break it, or end the program there, or
have properties that say less for them.  `server_waits` shows one.  The others, visible in
the definitions:

* A timer may run early by less than two milliseconds, though `eventloop.c:26` says "no
  sooner than a specified delay": the milliseconds of `EPOCHDT` (`eventloop.c:74`) may be
  rounded down when it is set, and up, in the next second, when it runs. `NoSooner` is
  violated in the instance of `loop_timers`, and `NoSoonerByTwo` holds.
* A delegate that adds its own command in `timeout()`, as `qcommand.h:113` provides for,
  with nothing else queued: `alarmId` is reset only after the receivers ran
  (`alarmimp.h:147`) and `start()` does nothing while it is set, so that the command is
  sent without a deadline, and if its answer does not come the queue waits for ever.
  `FrontHasDeadline` is violated in the instance of `queue_deadlines`;
  `DeadlineUnlessRetried` says that this is the only way, and `EveryCommandSent` excepts
  the commands behind such a one.
* A request to set a switch to a value that is neither On nor Off ends the driver:
  `sState4Str` asserts that there is none before it can report it (`proputils.cpp:88`),
  which its caller would answer with a message (`handler.cpp:317`). The model ends there
  (`Misread`).
* A `getProperties` for a device of another driver dereferences the null pointer
  `find()` returned (`handler.cpp:631`), though the server sends it to all drivers. The
  model ends there (`GetElsewhere`).
* A timer function that sets a timer with no delay: `checkTimer` drops the last entry
  after the function has run (`eventloop.c:324`), which is then the new timer's, so
  that it is lost and the one that ran runs again, though `eventloop.h:91` says a
  timer runs once. With 0 in `Delays`, `ImplementsTimerService` is violated.
* A OneOfMany vector read with several switches on: `updateLastOn` turns on the first
  and leaves the cache at the last it found (`propvector.cpp:506`); requests then
  break the rule. With `FileErrors = {"several"}`, `RuleHolds` is violated. In
  `DriverStart` such a device is changed as the cache says, and is not `IsRestorable`
  when it is saved.
* Permission `wo` in a device's file ends the driver: `perm4Str` tests for `ro` twice
  (`proputils.cpp:148`). So does a number printed with a negative exponent, of which
  `f_scansexa` blanks the sign: a driver that saves such a value does not start
  again. `IsRestorable` excludes both, `Startable` the files that end the driver.
* A `timeout` that is no number is taken for read, and the vector gets what the variable
  held (`devreader.cpp:366`). The model has `Junk` there, whose printing it does not know,
  so that `IsRestorable` asks for vectors whose timeout is a number.
* A device's own label and the contents of BLOBs are not saved; `Kept` says so.
* A device file that cannot be opened for writing is printed to a null stream
  (`device.cpp:81`): the driver ends.
* Relationships that name a device whose file was wrong use its deleted object: the
  model lets the driver end there or go on, and
  `RelationsEstablished` then says nothing of what has to do with that device. That one is
  made an observer, though the reader would leave out those that are not there
  (`relreader.cpp:216`), is seen with `ObserversThere`, which is violated in the instance
  of `driver_start`.
* Plug-ins that change things while `Calm` events wait, or answer one event with
  several, fill the pipe: the driver then waits for itself.
* The contents of BLOBs, and all lights set at once by `idle()` and its like, change
  without an event (`SetSilently`).
* Removing from the adaptive timer the receiver whose turn is next while others
  remain goes on from an erased iterator (`adaptimer.h:262`); stopping and starting
  it in one tick leaves two timers running; a period below the number of receivers
  gives a delay of 0. A `stop()` in a receiver's tick is undone by `tick()`
  (`adaptimer.h:221`), which the model has (`TickReturns`), with the timer that
  `checkTimer` then drops. A receiver is called every `n * (period / n)` ms, which
  may be less than the period.
* `UDPMux::init` fails silently (a second driver on the host: `SO_REUSEADDR` is set
  after `bind`); an address that is none leaves the old one with broadcasts switched
  off, so that the next send ends the driver; the broadcast address of a subnet is
  not allowed for.
* The message buffer of the demultiplexer is one for all: a datagram shorter than a
  header is dispatched by what was there before. Datagrams have a peripheral here.
* A driver whose host name resolves to no address of an interface hears its own
  broadcasts.

* A timer set before `eventLoop()` gets a trigger time measured from another
  epoch (`TriggerTimes`); the instances set none.
* Trigger times wrap after 2^31 ms; the instances stay below `IntHalf`.
* A timer function that removes its own timer makes the loop drop another one.
* A timer function that removes the only callback whose descriptor `select()` has
  just reported, while others remain, makes `callCallback` scan for ever: no slot in
  use is in the set (`eventloop.c:298`).  Timer functions of `loop_served` remove
  no callback; granting them `rmCallback` in `DispatchCalls` breaks `NeverSpins`.
* `rmTimer` reallocates the list in units of the callback record; where that is
  smaller than the timer record (64-bit pointers) the list outgrows its memory.
  The instances give both 16 bytes, as with 32-bit pointers.
* `clear()` while a command waits makes the assertion in `remove()` fail at its
  timeout: the deadlines it leaves are exempted through the history variable `cleared`.
* A OneOfMany vector read with no switch on keeps a null cache that the next
  request uses; a plug-in that turns off switches of a OneOfMany vector breaks its
  rule (`FileErrors` and `TurnsOff` are empty).
* A request of another kind than its vector (`newTextVector` for numbers) is an
  unchecked cast; requests in `Asked` are of their vector's kind.
* A number whose range is not given has min = max = 0 and takes no value but 0,
  though `property.h:435` says that a range with max = min is to be ignored; the
  instance has a range, which is constant (the code shares the last range printed
  among all numbers).
* BLOBs are printed when they change only, and a definition clears their flag
  without printing them, so that one set and not yet sent is lost.  `ClientsKnow`
  leaves out BLOBs; in the instance only numbers are set without being sent
  (`MayWait`).
* A writable text vector of a device without a plug-in answers a request with its
  old values and no message (`RequestsAnswered` says so).
* A client of another protocol version makes the driver deaf to all later
  requests, of any client (`refuses`); no property is about it.
* The command whose write found a driver dead is not sent to its next process
  (`indiserver.c:540`): clients are not told.
* A BLOB keeps a pointer into the request that brought it, which is deleted once
  the request is handled (`plugbase.cpp:65`); the model has the value `Freed`.
* A peer that breaks off inside an element has all that follows taken for its
  children until the tags match again; a syntax error loses the memory of the
  element under construction (`lilxml.c:582`), which is not modelled.
* Double quotes in an attribute's value are written unescaped by the relay;
  `RelayFaithful` is about elements without (`Printable`).
* A driver name given twice on the command line takes over the entry of the
  first; `Argv` has distinct names.

## 5. What is proved

For every value of the constants that satisfies the modules' `ASSUME`s, and the premises
named, each of which is a definition of the proof module.

**Event loop** (`EventLoopProofs`)

* `TypesAndCounts`: types, and `ncbinuse` and `nwpinuse` equal the number of slots in
  use, `CountsAgree`. The pair is inductive: the step for removals needs that a slot
  freed was in use, which is its guard, and that an addition takes a slot that was not,
  lemma `FreeSlotIsFree`.
* `TimersAlwaysSorted`: the timer list is in decreasing order of trigger time,
  `TimersSorted`, even when trigger times wrap. Insertion is the only step with work to
  do: the entry goes behind all that are due no sooner.
* `NeverHangs`: `NeverSpins`, if timer functions remove no callback
  (`TimersKeepCallbacks`). Inductive with `ReportedWatched`: what `select()` reported
  keeps a slot in use until it is dispatched.
* `TimersAreListed`: `PendingListed`, no registration is lost or doubled, if no timer has
  a delay of 0 or removes itself (`ProperTimers`) and the clock's milliseconds, rounded
  up, fit into an int (`ClockFits`, some 24 days). The inductive invariant is `Listed`: while a
  timer's function runs its entry is the last of the list, and due, so that what the
  function adds goes before it, and it is the one dropped afterwards.
* `TimersNotTooSoon`: `NoSoonerByTwo`, an action property, if besides the program sets
  no timer before `eventLoop()` (`NoneBefore`): no timer runs two milliseconds early,
  wherever in a second the epoch is. It needs `OnTime`: trigger times are what their
  registrations asked for, by the program's clock, which is less than a millisecond off
  to either side (`ElapsedNear`).
* `TimersServe`: under the same premises the loop implements `TimerService`,
  `ImplementsTimerService`. Initial states map to initial states, and every step to a
  step or a stutter: `Tick` to `Advance` or nothing, additions to `Register`, removals to
  `Cancel`, `FireTimer` to `Run`, which needs that the last entry is the soonest
  (`TimersSorted`), and the drop afterwards to nothing.

**Server** (`IndiServerProofs`; premise: no driver is named twice, `DistinctNames`)

* `NoDescriptorIsLost`: `NoDescriptorLost`. The inductive invariant `Inv` says at every
  step of a pass, restarts in the middle of it included, which descriptors the tables
  name, that all differ, and that they are those open (`Named`, `Separate`). The kernel
  has a free descriptor when one is needed because the `ASSUME` grants as many.
* `DriversAreHeard`: `EveryDriverHeard`. A restart replaces the entry of the driver of
  that name, the one that died, which is where the premise is needed: of two of one name
  the second takes the entry of the first.
* `ClosedOnlyForCause`: `ClosedForCause`, an action property. It takes `StillReady`: those
  `select()` reported and the loop has not come to are ready still, though descriptors are
  closed and reused in between, for a new client or driver is not in the set.
* `ClientsSeeAllSent`: `ClientsSeeAll`, from `SeenSoFar`, which says the same of each
  client at each step, and `Numbered`: what is under way from a peer is numbered without a
  gap from what was read of it to what it has sent.
* `NoMessageIsLost`: `NoGaps`, from `DriversTold` and `ClientsTold`, which say up to where
  each has been told, in the middle of a command too, when the drivers before the current
  one are one message ahead; and `OneProcessEach`, that no two entries of the driver table
  name one process.

**Command queue** (`CommandQueueProofs`)

* `DeadlinesKept`: `DeadlineUnlessRetried`, without premises: the queue waits without a
  deadline only for a command that timed out with nothing behind it and was added again
  at once by its delegate. The inductive invariant is `TypeOK`, `NoDuplicates`,
  `DeadlineUnlessRetried` and `AlarmsKnown` together with the fact that a command that
  awaits no answer is never in front: the first alone is not inductive, for an answer must
  find the alarm it cancels, and a duplicate would be sent with its alarm set. Lemma
  `OnlyRetried` is the step the exception comes from: a timeout leaves in front, without
  an alarm, only the command itself.
* `TimeoutsFindTheirCommand`: until the queue is cleared, the assertion in `remove()`
  holds: the only timer is that of the command in front, which every step keeps.
* `CommandsInOrder`: `FirstComeFirstServed`, an action property, without premises: what a
  step takes off the queue is its beginning, and of that only the first awaited an answer.

**Switch vectors** (`SwitchVectorProofs`)

* `RulesKept`: with correct files and plug-ins that do not turn off OneOfMany switches
  (`WellUsed`), the rule, the cache and the absence of null dereferences hold for any
  number of switches. The rule alone is not inductive: it takes `LastOnRight`, that the
  cache is the switch that is on.
* `ClientsAreRight`: `ClientsKnow`, without premises: wrong files and a wrong cache do not
  make clients be told what is not so. Each way to set switches marks those it changes
  (`Marked`), which goes through from one to the next; inductive is `KnownInv`.

**Requests** (`MessageProofs`, without premises)

* `ClientsAreTold`: types and `ClientsKnow`. Inductive together: each of the ways to
  change, print or force out properties keeps a state sound, and each handler is one of
  them.
* `RequestsAreAtomic`: `AllOrNothing`, an action property, from the same invariant and
  lemmas on what `PluginBase::update` leaves of the elements of a request, the last for
  each name.
* `RequestsGetAnswers`, `DefinitionsShowAll`: the action properties `RequestsAnswered` and
  `DefinitionsComplete`, from what each way to print shows of each property, numbers as
  they are printed.

**XML parser** (`MessageProofs`, without premises)

* `ParserSound`: `Structure` holds initially and `ReadXMLEle` keeps it for every input
  value, in all thirteen states; `LtClosesNothing`: a `<` closes no element.
* `NothingMissing`: `NeverNull`, that neither parser of the relay reaches for an element,
  attribute or string that is not there, whatever peers write and the server prints. It is
  what the first says of each of the two; nothing need be known of the printer, since the
  parser is sound on any characters.

**Driver start-up** (`DriverStartProofs`, without premises)

The inductive invariant `IInv` is five facts. `FilesInv`: what is in the files is trees of
known names and texts, and a file that was last written whole is what its device was saved
to. `TreeInv`: what is in the tree are devices, with files that are there, or pointers to
deleted ones; the manager's is one, without a file or plug-in. `LoadInv`: each device loaded
is that of its file, and each vector seen to says what became of its own (`SeenTo`) - which
later vectors cannot change, for the tree keeps the first of a name and those whose name
was taken are strays. `LoopInv`: from then on the states are true (`Truthful`), which
saving, and what plug-ins do to devices other than the manager's, leaves so.
`RelationsInv`: the observers are those of the relationships' file, for some contents of
the memory of deleted devices.

* `ReadsWhatItSaved`: reading what is saved of a device that is restorable gives what the
  file keeps of it, for every kind of vector and member. What printing a number or text
  leaves of it reads as itself; the children come in the order of the map, each name once,
  so that none hides another; the rule of a switch vector needs no repair.
* `SavedIsRestored`: `Restores`, an action property, from the first and `FilesInv`.
* `ManagerIsTruthful`: `ManagerTruthful`, from `LoopInv` and, before the loop, `LoadInv`.
  It takes lemmas on what the readers make of any tree, well formed or not: what is read is
  a vector, a device (`ReadVectorIs`, `ReadFileIs`).
* `RelationsAreEstablished`: `RelationsEstablished`, which counts the registrations
  between devices that are there, whatever is registered of deleted ones. The observers come from sequences of
  sequences put together, of elements within elements within elements; `Lists` says that a
  function tells what is at each place of a sequence, by other names for the places, and
  `FlattenLists` that sequences put together are listed by pairs of places (`Joined`).
  So the observers are listed by the places of what the reader takes for a mention
  (`Told`, `Proper`), which are those `Mentions` counts where both devices are there.

**Observers** (`ObserversProofs`)

* `ObserversFindOut`: `SeenOrOwed` as long as the driver is not blocked, without premises;
  once it is, a change whose event the pipe did not take is owed to nobody. Inductive
  with the types. `Tells` says what a handler may do to vectors and pipe, silent changes
  included, and goes through from one change to the next, so that `AllSwitches` and
  `Status` do it too (`Iterates`, `StaysIn`).
* `PipeHasRoom`: `NeverBlocked`, if of the observers of one thing one at most answers with
  a change, and a turn's events fit behind those that may wait (`Modest`). Inductive is
  `Roomy`: the one answer has the room that the event it answers has left. With it, the
  first holds always.

**Shared timer and socket** (`HubProofs`, without premises)

* `PluginsInTurn`: `InTurn`, from `TurnInv`: those a receiver waits for come before it in
  the turns to come, around the end of the set too.
* `PluginsKeepPeriod`: `PeriodKept`, from `OneTimer` and `PaceInv`: each turn a receiver
  has waited took its share of the period, and what is left of the current one is on the
  timer, or was when it was stopped. It takes a longest period, which ints have.
* `SocketAllowsSends`, `PluginsHearRight`: `SendsAllowed` and `HeardRight`, from
  `LinkInv`: who is registered for a peripheral uses it, and the option is on when the
  peer is all.
* The first two are proved of `AdaptiveTimer` and hold of `Hub` because it implements it,
  lemma `HubHasTimer`.

The premises are boundaries the code needs: the items under "Outside the runs'
assumptions" say what happens beyond them, and the runs of the
properties satisfy them.  Where a theorem has none it holds beyond
what its run explores, as `ClientsAreRight` does for wrong files.

What `Only`, `AllSwitches`, `Status`, `Without`, `SetEach`, `InOrder` and `FlattenSeq`
compute by recursion is proved about with lemmas on the recursive function each defines:
that there is one (`Iterates`), and what it does at each index (`StaysIn`), by taking the
smallest index at which it fails.  Several of the proof modules have these lemmas, and
`NatMin` and `NatMax` on such indices.

`NoStaleDeadline` of `CommandQueue` and `LastOnRight` of `SwitchVector` are parts of
these theorems that no run repeats, like the types of the modules (`TypeOK`) and
`NoDuplicates` and `AlarmsKnown` of `CommandQueue`.

Only model-checked:

* the liveness properties: fairness and ENABLED are beyond the prover;
* `ParsedAsMeant` and `RelayFaithful`, of the relay of XML elements: what is meant by a
  text is a recursive definition over nested elements, and so is what the printer makes
  of one; that the parser undoes either is an induction over that data, out of the
  prover's reach.

## 6. What is not modelled

The wire format of the COR's messages (macros over `sprintf` and `sscanf`, without
state), the log (formatting), Julian dates and the printing of sexagesimal numbers
(real arithmetic), and the plug-ins (written by users; they are the environment of the
other modules).  Of the factories the modules have only what they make.  Of the property
vectors and the item tree: deletion, and what plug-ins may set of labels, groups,
permissions and limits after start-up.
Within modelled components: messages to the log, option parsing, exhaustion of
memory, processes or descriptors (the program exits), a failing `select()` in the
server, and destructors, which run at the end of the process or in an order that is the
plug-ins'.
