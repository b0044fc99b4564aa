---------------------------- MODULE DriverStart ----------------------------
(***************************************************************************)
(* A driver from its start to its event loop (drivermain.cpp, driver/): the*)
(* master file says which devices it has and which plug-in implements each;*)
(* the manager loads them one by one and reports how that went; then the   *)
(* relationships between devices are read, the descriptors and a work      *)
(* procedure registered, and the loop entered, where the work procedure    *)
(* starts the timers.  Plug-ins change their devices and save them.  A     *)
(* driver may end at any moment, half way through a file too, and is       *)
(* started again by the server.                                            *)
(***************************************************************************)
EXTENDS DeviceFile, SequencesExt

CONSTANTS
  Disks,         (* what the files may hold at first: the master file, the   *)
                 (* relationships and the files of devices, by path          *)
  ConfigText, ModuleText, ParamsText,   (* the members of the manager's vectors          *)
  NullModule,    (* the module's name of a device without a plug-in          *)
  Library,       (* what comes of loading each module                        *)
  NewValues,     (* what plug-ins set the members of each kind to            *)
  ReadOnly,      (* the paths that cannot be written                         *)
  NoImp,         (* the null pointer to a plug-in                            *)
  Nothing,       (* of a file: not saved by any driver                       *)
  MaxStarts,     (* bound: how often the driver is started                   *)
  MaxChanges     (* bound: how often plug-ins change something               *)

(* What can be on a disk: elements, whose names and texts are known.        *)
IsDisk(disk) ==
  /\ DOMAIN disk = {"config", "relations", "devices"}
  /\ IsDeviceTree(disk.config) /\ IsTree(disk.relations)
  /\ \A p \in DOMAIN disk.devices : IsDeviceTree(disk.devices[p])

ASSUME DriverStartAssumption ==
  /\ {ConfigText, ModuleText, ParamsText} \subseteq Names
  /\ NullModule \in DOMAIN Library
  /\ \A m \in DOMAIN Library : Library[m] \in {"plugin", "noLibrary", "noFactory", "badParameters"}
  /\ NoImp \notin Texts /\ Nothing \notin Texts
  /\ \A disk \in Disks : IsDisk(disk)
  /\ NewValues.number \subseteq Numbers /\ NewValues.light \subseteq States
  /\ NewValues.text \subseteq Texts
  /\ MaxStarts \in Nat \ {0} /\ MaxChanges \in Nat

VARIABLES
  pc,          (* how far the driver is                                      *)
  files,       (* the files                                                  *)
  tree,        (* the driver's devices by name, with their files and plug-ins*)
  manager,     (* the name of the manager's device                           *)
  loading,     (* the manager's vectors not yet seen to                      *)
  strays,      (* those whose device is not the one the tree has of its name *)
  registered,  (* the observers of all vectors, the latest first             *)
  wrk, timer,  (* the work procedure is registered; the hub timer runs       *)
  saving,      (* the device whose file is being written                     *)
  saved,       (* history: the device each file was last made of             *)
  crashed,     (* history: the driver ended otherwise than reading its files *)
  starts, changes

vars == <<pc, files, tree, manager, loading, strays, registered, wrk, timer, saving, saved,
          crashed, starts, changes>>

Paths == DOMAIN files.devices
Alive(n) == n \in DOMAIN tree /\ ~tree[n].deleted
Manager == tree[manager].device

-----------------------------------------------------------------------------
Init ==
  /\ pc = "init" /\ files \in Disks
  /\ tree = <<>> /\ manager = Nothing /\ loading = <<>> /\ strays = {} /\ registered = <<>>
  /\ wrk = FALSE /\ timer = FALSE /\ saving = Nothing
  /\ saved = [p \in Paths |-> Nothing]
  /\ crashed = FALSE /\ starts = 1 /\ changes = 0

(* std::map::insert: what has the name already stays.                       *)
Inserted(map, n, item) == [m \in DOMAIN map \union {n} |-> IF m \in DOMAIN map THEN map[m] ELSE item]

(* What the tree has under a name: a device, or a pointer to one that was   *)
(* deleted.                                                                 *)
NewItem(device, path) == [deleted |-> FALSE, device |-> device, fileName |-> path, imp |-> NoImp]
Dangling == [deleted |-> TRUE]

(* Driver::init up to the manager: without it the driver gives up.          *)
ReadConfig ==
  LET read == ReadFile(files.config)
  IN  /\ pc = "init"
      /\ IF read.result = "ok"
         THEN /\ tree' = Inserted(tree, read.item.name, NewItem(read.item, Nothing))
              /\ manager' = read.item.name
              /\ loading' = InOrder[DOMAIN read.item.vectors]
              /\ pc' = IF DOMAIN read.item.vectors = {} THEN "relations" ELSE "load"
         ELSE pc' = "ended" /\ UNCHANGED <<tree, manager, loading>>
      /\ UNCHANGED <<files, strays, registered, wrk, timer, saving, saved, crashed, starts, changes>>

(* DeviceManager::loadDevice of the next vector.  The device joins the tree *)
(* when it is made, whatever becomes of it, unless one of its name is there.*)
Asked == Manager.vectors[Head(loading)]
AskedText(m) == Asked.members[m].value
FileAsked == IF AskedText(ConfigText) \in Paths THEN files.devices[AskedText(ConfigText)] ELSE NoFile

Reported(t, state) == [t EXCEPT ![manager].device.vectors[Head(loading)].state = state]

IsDeviceFile(f) == f.tag = "defDevice"

NotRead ==
  IF IsDeviceFile(FileAsked)
  THEN Inserted(Reported(tree, "Alert"), FileAsked.at.name, Dangling)
  ELSE Reported(tree, "Alert")

HasFactory(module) == module # NullModule /\ Library[module] \in {"plugin", "badParameters"}
HasPlugin(module) == module # NullModule /\ Library[module] = "plugin"
Item(device) ==
  [NewItem(device, AskedText(ConfigText)) EXCEPT
     !.imp = IF HasPlugin(AskedText(ModuleText)) THEN AskedText(ModuleText) ELSE @]
Loaded_Unreported(device) == Inserted(Reported(tree, "Ok"), device.name, Item(device))
Loaded(device) ==
  LET module == AskedText(ModuleText)
  IN  Inserted(Reported(tree, IF module = NullModule \/ HasPlugin(module) THEN "Ok" ELSE "Alert"),
               device.name, Item(device))

(* The texts asked of the vector are looked up where they are needed, and   *)
(* used without a test; a vector of another kind, cast to one of texts,     *)
(* ends the driver here.                                                    *)
LoadsOn ==
  LET read == ReadFile(FileAsked)
  IN  /\ Asked.kind = "text" /\ ConfigText \in DOMAIN Asked.members
      /\ read.result # "dies"
      /\ read.result = "ok" => ModuleText \in DOMAIN Asked.members
      /\ read.result = "ok" /\ HasFactory(AskedText(ModuleText))
           => ParamsText \in DOMAIN Asked.members

LoadDevice ==
  LET read == ReadFile(FileAsked)
  IN  /\ pc = "load" /\ loading # <<>>
      /\ IF LoadsOn
         THEN /\ tree' = IF read.result = "ok" THEN Loaded(read.item) ELSE NotRead
              /\ strays' = IF read.result = "ok" /\ read.item.name \in DOMAIN tree
                           THEN strays \union {Head(loading)} ELSE strays
              /\ loading' = Tail(loading)
              /\ pc' = IF Tail(loading) = <<>> THEN "relations" ELSE pc
         ELSE pc' = "ended" /\ UNCHANGED <<tree, strays, loading>>
      /\ UNCHANGED <<files, manager, registered, wrk, timer, saving, saved, crashed, starts, changes>>

-----------------------------------------------------------------------------
(* RelationshipsReader: whom each entry makes an observer of what.  What is *)
(* wrong with one entry does not keep it from the next.  Of a name it only  *)
(* asks whether the tree has something under it: a device that was deleted  *)
(* is made an observer like any other, and what it has as an observable, at *)
(* the places in found, is what its memory holds by then.                   *)
Topics == {"value", "state"}

IsProperty(e) == e.tag = "property" /\ Has(e, "topic") /\ e.at.topic \in Topics
IsObservable(e) == e.tag = "observable" /\ Named(e) /\ e.at.name \in DOMAIN tree
IsObserver(e) == e.tag = "observer" /\ Named(e) /\ e.at.name \in DOMAIN tree

Finds(e, place, observable, found) ==
  IF Alive(observable) THEN e.pcdata \in DOMAIN tree[observable].device.vectors
                       ELSE place \in found

RelationsProperty(e, place, observer, observable, found) ==
  IF IsProperty(e) /\ Finds(e, place, observable, found)
  THEN <<[observer |-> observer, observable |-> observable, vector |-> e.pcdata,
          topic |-> e.at.topic]>>
  ELSE <<>>

RelationsObservable(e, i, j, observer, found) ==
  IF IsObservable(e)
  THEN FlattenSeq([k \in DOMAIN e.el |->
                     RelationsProperty(e.el[k], <<i, j, k>>, observer, e.at.name, found)])
  ELSE <<>>

RelationsObserver(e, i, found) ==
  IF IsObserver(e)
  THEN FlattenSeq([j \in DOMAIN e.el |->
                     RelationsObservable(e.el[j], i, j, e.at.name, found)])
  ELSE <<>>

Relationships_UntilWrong(f, found) ==
  IF f.tag = "relationships"
  THEN LET each == [i \in DOMAIN f.el |-> RelationsObserver(f.el[i], i, found)]
       IN  FlattenSeq([i \in DOMAIN each |->
             IF \E j \in 1 .. i : each[j] = <<>> THEN <<>> ELSE each[i]])
  ELSE <<>>
Relationships(f, found) ==
  IF f.tag = "relationships"
  THEN FlattenSeq([i \in DOMAIN f.el |-> RelationsObserver(f.el[i], i, found)])
  ELSE <<>>

(* The places where a deleted device is asked for something: an observable  *)
(* for a vector or its name, an observer for its name once registered.      *)
UsesDeleted(f) ==
  LET Uses(e, o, n) ==
        /\ IsProperty(e)
        /\ \/ ~Alive(n)
           \/ ~Alive(o) /\ e.pcdata \in DOMAIN tree[n].device.vectors
      Observers == {i \in DOMAIN f.el : IsObserver(f.el[i])}
      Observables(o) == {j \in DOMAIN o.el : IsObservable(o.el[j])}
      Properties(o, n) == {k \in DOMAIN n.el : Uses(n.el[k], o.at.name, n.at.name)}
  IN  IF f.tag # "relationships" THEN {}
      ELSE UNION {UNION {{<<i, j, k>> : k \in Properties(f.el[i], f.el[i].el[j])} :
                           j \in Observables(f.el[i])} : i \in Observers}

ReadRelationships ==
  LET places == UsesDeleted(files.relations)
  IN  /\ pc = "relations"
      /\ \/ /\ pc' = "setup"
            /\ \E found \in SUBSET places :
                 registered' = Reverse(Relationships(files.relations, found))
         \/ places # {} /\ pc' = "ended" /\ UNCHANGED registered
      /\ UNCHANGED <<files, tree, manager, loading, strays, wrk, timer, saving, saved, crashed,
                     starts, changes>>

(* The rest of Driver::init, and the loop is entered.                       *)
(* A timer's time is measured from the epoch, which the loop sets when it is*)
(* entered: one started before is not due for decades.                      *)
StartTimer == timer' = (pc = "loop")

SetUp_TimerAtOnce ==
  /\ pc = "setup"
  /\ pc' = "loop" /\ StartTimer
  /\ UNCHANGED <<files, tree, manager, loading, strays, registered, wrk, saving, saved,
                 crashed, starts, changes>>
SetUp ==
  /\ pc = "setup"
  /\ pc' = "loop" /\ wrk' = TRUE
  /\ UNCHANGED <<files, tree, manager, loading, strays, registered, timer, saving, saved, crashed,
                 starts, changes>>

PostInit ==
  /\ pc = "loop" /\ wrk
  /\ StartTimer /\ wrk' = FALSE
  /\ UNCHANGED <<pc, files, tree, manager, loading, strays, registered, saving, saved, crashed,
                 starts, changes>>

-----------------------------------------------------------------------------
(* What plug-ins do in the loop: one sets a member, or saves its device.    *)
(* A switch turned on turns off the one the cache holds, which is null if   *)
(* the file had none on.                                                    *)
Implemented == {n \in DOMAIN tree : Alive(n) /\ tree[n].imp # NoImp}

SwitchedOn(v, m) ==
  LET off == IF v.rule = "AnyOfMany" THEN {} ELSE {v.lastOn}
  IN  [v EXCEPT !.lastOn = m, !.members = Turned(@, (On(@) \ off) \union {m})]

PluginChanges(n) ==
  /\ pc = "loop" /\ changes < MaxChanges
  /\ \E v \in DOMAIN tree[n].device.vectors :
       LET vector == tree[n].device.vectors[v]
           null == vector.kind = "switch" /\ vector.rule = "OneOfMany" /\ vector.lastOn = Blank
       IN  \/ /\ ~null
              /\ \E m \in DOMAIN vector.members, x \in NewValues[vector.kind] :
                   tree' = [tree EXCEPT ![n].device.vectors[v] =
                              IF vector.kind = "switch" THEN SwitchedOn(@, m)
                              ELSE [@ EXCEPT !.members[m].value = x]]
              /\ UNCHANGED <<pc, crashed>>
           \/ /\ null
              /\ pc' = "ended" /\ crashed' = TRUE /\ UNCHANGED tree
  /\ changes' = changes + 1
  /\ UNCHANGED <<files, manager, loading, strays, registered, wrk, timer, saving, saved, starts>>

(* Device::xmlSave: the file is emptied when it is opened, and whole when it*)
(* is closed.  A file that cannot be opened is written to all the same.     *)
OpenToSave(n) ==
  LET path == tree[n].fileName
  IN  /\ pc = "loop"
      /\ IF path \in ReadOnly
         THEN pc' = "ended" /\ crashed' = TRUE /\ UNCHANGED <<files, saving, saved>>
         ELSE /\ pc' = "saving" /\ saving' = n
              /\ files' = [files EXCEPT !.devices[path] = NoFile]
              /\ saved' = [saved EXCEPT ![path] = Nothing] /\ UNCHANGED crashed
      /\ UNCHANGED <<tree, manager, loading, strays, registered, wrk, timer, starts, changes>>

Save ==
  LET item == tree[saving]
  IN  /\ pc = "saving"
      /\ files' = [files EXCEPT !.devices[item.fileName] = SaveDevice(item.device)]
      /\ saved' = [saved EXCEPT ![item.fileName] = item.device]
      /\ pc' = "loop" /\ saving' = Nothing
      /\ UNCHANGED <<tree, manager, loading, strays, registered, wrk, timer, crashed, starts,
                     changes>>

(* The driver ends for any other reason; the server starts it again.        *)
Crash ==
  /\ pc # "ended" /\ starts < MaxStarts
  /\ pc' = "ended" /\ crashed' = TRUE
  /\ UNCHANGED <<files, tree, manager, loading, strays, registered, wrk, timer, saving, saved,
                 starts, changes>>

Restart ==
  /\ pc = "ended" /\ starts < MaxStarts
  /\ pc' = "init" /\ starts' = starts + 1
  /\ tree' = <<>> /\ manager' = Nothing /\ loading' = <<>> /\ strays' = {} /\ registered' = <<>>
  /\ wrk' = FALSE /\ timer' = FALSE /\ saving' = Nothing /\ crashed' = FALSE
  /\ UNCHANGED <<files, saved, changes>>

-----------------------------------------------------------------------------
Next ==
  \/ ReadConfig
  \/ LoadDevice
  \/ ReadRelationships
  \/ SetUp
  \/ PostInit
  \/ \E n \in Implemented : PluginChanges(n)
  \/ \E n \in Implemented : OpenToSave(n)
  \/ Save
  \/ Crash
  \/ Restart

(* The driver goes on by itself; the loop gets to its work procedures       *)
(* whatever the plug-ins do in between.                                     *)
Spec ==
  /\ Init /\ [][Next]_vars
  /\ WF_vars(ReadConfig) /\ WF_vars(LoadDevice) /\ WF_vars(ReadRelationships) /\ WF_vars(SetUp)
  /\ WF_vars(Save) /\ SF_vars(PostInit)

-----------------------------------------------------------------------------
(* What a driver saves, the next one has again: a device whose file was     *)
(* last written whole is read as it was then, but for its own label, the    *)
(* contents of BLOBs and what printing takes from numbers and texts.        *)
(* (Device::xmlSave, DeviceReader::read)                                    *)
Whole == Asked.kind = "text" /\ {ConfigText, ModuleText, ParamsText} \subseteq DOMAIN Asked.members

Restores ==
  [][LoadDevice /\ Whole /\ AskedText(ConfigText) \in Paths /\ saved[AskedText(ConfigText)] # Nothing =>
       LET device == saved[AskedText(ConfigText)]
       IN  IsRestorable(device) /\ device.name \notin DOMAIN tree =>
             /\ device.name \in DOMAIN tree' /\ ~tree'[device.name].deleted
             /\ tree'[device.name].device = Kept(device)]_vars

(* What the manager tells clients of the devices is so: a vector is Ok if   *)
(* its device is in the tree with the plug-in asked for, if any, and Alert  *)
(* if not; but for the vectors whose device's name was taken.               *)
(* (DeviceManager::loadDevice)                                              *)
HasDevice(v) ==
  \E n \in DOMAIN tree :
    /\ Alive(n) /\ tree[n].fileName = Manager.vectors[v].members[ConfigText].value
    /\ Manager.vectors[v].members[ModuleText].value \in {tree[n].imp, NullModule}

ManagerTruthful ==
  pc \in {"relations", "setup", "loop", "saving"} =>
    \A v \in DOMAIN Manager.vectors \ strays :
      Manager.vectors[v].state = IF HasDevice(v) THEN "Ok" ELSE "Alert"

(* When the loop is entered a device observes a vector once for every       *)
(* mention of it in the relationships, whatever is wrong with others of     *)
(* them: with all that is registered but deleted devices have to do with.   *)
(* (RelationshipsReader::read)                                              *)
Mentions(r) ==
  LET f == files.relations.el
      Is(e, tag, name) == e.tag = tag /\ "name" \in DOMAIN e.at /\ e.at.name = name
      Of(e) == e.tag = "property" /\ "topic" \in DOMAIN e.at /\ e.at.topic = r.topic
                 /\ e.pcdata = r.vector
      observers == {i \in DOMAIN f : Is(f[i], "observer", r.observer)}
      observables(i) == {j \in DOMAIN f[i].el : Is(f[i].el[j], "observable", r.observable)}
  IN  UNION {UNION {{<<i, j, k>> : k \in {l \in DOMAIN f[i].el[j].el : Of(f[i].el[j].el[l])}} :
                      j \in observables(i)} : i \in observers}

Registrations ==
  {[observer |-> o, observable |-> n, vector |-> v, topic |-> t] :
     o \in {x \in DOMAIN tree : Alive(x)}, n \in {x \in DOMAIN tree : Alive(x)},
     v \in Names, t \in Topics}

RelationsEstablished ==
  pc = "setup" /\ files.relations.tag = "relationships" =>
    /\ \A i \in DOMAIN registered :
         LET r == registered[i]
         IN  /\ {r.observer, r.observable} \subseteq DOMAIN tree
             /\ Alive(r.observer) /\ Alive(r.observable)
                  => r \in Registrations /\ r.vector \in DOMAIN tree[r.observable].device.vectors
    /\ \A r \in Registrations : r.vector \in DOMAIN tree[r.observable].device.vectors =>
         Cardinality({i \in DOMAIN registered : registered[i] = r}) = Cardinality(Mentions(r))

(* Who observes a vector is there to be called: the reader looks observers  *)
(* up, "Can't find an observer with name" (relreader.cpp:216).  It is not   *)
(* so of a device that could not be read: it is deleted (devreader.cpp:715) *)
(* and found.                                                               *)
ObserversThere ==
  pc = "loop" => \A i \in DOMAIN registered : Alive(registered[i].observer)

(* A driver whose files do not end it at once starts: the hub timer runs,   *)
(* once the loop does, whichever devices could not be loaded, unless the    *)
(* driver ends for some other reason.  So it does on files it has saved.    *)
(* (Driver::init, Driver::postInit)                                         *)
Startable ==
  LET config == ReadFile(files.config)
  IN  /\ config.result = "ok"
      /\ \A v \in DOMAIN config.item.vectors :
           /\ config.item.vectors[v].kind = "text"
           /\ {ConfigText, ModuleText, ParamsText} \subseteq DOMAIN config.item.vectors[v].members
      /\ \A p \in Paths :
           IF saved[p] # Nothing THEN IsRestorable(saved[p])
           ELSE /\ ReadFile(files.devices[p]).result # "dies"
                /\ IsDeviceFile(files.devices[p]) => ReadFile(files.devices[p]).result = "ok"

StartsUp == (pc = "init" /\ Startable) ~> (timer \/ crashed)
=============================================================================
