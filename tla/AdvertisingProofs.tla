-------------------------- MODULE AdvertisingProofs --------------------------
(***************************************************************************)
(* Proofs about the way from the hardware to the plugins, for any hardware *)
(* and any number of changes, failing reads, failing Starts and failing    *)
(* Stops.  The facts about the scan are those of InventoryProofs.          *)
(***************************************************************************)
EXTENDS Advertising, InventoryProofs

\* What lists and plugins are, in terms of the scan.
LEMMA OfferNames ==
    /\ Plugin = Resource \ {Nothing}
    /\ DeviceList = [Device -> Health \cup {"absent"}]
    /\ NoDevices = [d \in Device |-> "absent"]
BY DEF Plugin, DeviceList, NoDevices, Absent

-----------------------------------------------------------------------------
(***************************************************************************)
(* The inductive invariant: the scan's own (ScanInv), the types, and who   *)
(* holds what while reconcile goes from plugin to plugin (Held).  Outside  *)
(* m.plugins there are no devices, no plugin is without; those the range   *)
(* is done with hold their group of the last scan, also when a Stop that   *)
(* failed ended it; and what is left to start is found in that scan.       *)
(***************************************************************************)
Held ==
    /\ \A r \in Plugin \ plugins : devices[r] = NoDevices
    /\ \A r \in plugins : devices[r] # NoDevices
    /\ \A r \in plugins \ toVisit : devices[r] = Group(r)
    /\ phase = "apply" => pc = "idle" /\ \A r \in fresh : \E d \in Device : advertised[d] = r

OfferInv == ScanInv /\ OfferTypeOK /\ Held /\ LogTellsInventory

-----------------------------------------------------------------------------
(* The records *)

\* Records that tell the health of devices of a list, with its counts, and
\* warn of those that are unusable.
WellMade(records, list) ==
    \A x \in records :
        /\ x.device \in Device
        /\ x.health = list[x.device]
        /\ x.counts = healthCounts(list)
        /\ x.level \in {"info", "warn"}
        /\ x.health = "Unhealthy" => x.level = "warn"

\* Every device on which the two lists differ has a record.
Covers(records, old, new) ==
    \A d \in Device : old[d] # new[d] => \E x \in records : x.device = d

LEMMA RecordFields ==
    ASSUME NEW level, NEW d, NEW h, NEW list
    PROVE  /\ Record(level, d, h, list).level = level
           /\ Record(level, d, h, list).device = d
           /\ Record(level, d, h, list).health = h
           /\ Record(level, d, h, list).counts = healthCounts(list)
BY DEF Record

\* The level of a device's record is a warning if it is unusable.
LEMMA LevelOfHealth ==
    ASSUME NEW h
    PROVE  /\ levelForHealth(h) \in {"info", "warn"}
           /\ h = "Unhealthy" => levelForHealth(h) = "warn"
BY DEF levelForHealth

\* logInventoryDelta tells every difference.
LEMMA DeltaRecords ==
    ASSUME NEW old \in DeviceList, NEW new \in DeviceList
    PROVE  /\ WellMade(logInventoryDelta(old, new), new)
           /\ Covers(logInventoryDelta(old, new), old, new)
<1> DEFINE Kept == Added(old, new) \cup Changed(old, new)
           Gone == Removed(old, new)
           KeptRecord(d) == Record(levelForHealth(new[d]), d, new[d], new)
           GoneRecord(d) == Record("warn", d, Absent, new)
<1>1. logInventoryDelta(old, new) = {KeptRecord(d) : d \in Kept} \cup {GoneRecord(d) : d \in Gone}
    BY DEF logInventoryDelta
<1>2. /\ Kept \subseteq Device
      /\ \A d \in Gone : d \in Device /\ new[d] = Absent
      /\ \A d \in Device : old[d] # new[d] => d \in Kept \cup Gone
    BY OfferNames DEF Added, Changed, Removed
<1>3. \A d : /\ KeptRecord(d).device = d /\ KeptRecord(d).health = new[d]
             /\ KeptRecord(d).counts = healthCounts(new)
             /\ KeptRecord(d).level = levelForHealth(new[d])
    BY RecordFields
<1>4. \A d : /\ GoneRecord(d).device = d /\ GoneRecord(d).health = Absent
             /\ GoneRecord(d).counts = healthCounts(new)
             /\ GoneRecord(d).level = "warn"
    BY RecordFields
<1> HIDE DEF Kept, Gone, KeptRecord, GoneRecord
<1>5. WellMade(logInventoryDelta(old, new), new)
    BY <1>1, <1>2, <1>3, <1>4, LevelOfHealth DEF WellMade
<1>6. Covers(logInventoryDelta(old, new), old, new)
    BY <1>1, <1>2, <1>3, <1>4 DEF Covers
<1> QED
    BY <1>5, <1>6

\* "Device exposed" tells every device of a new plugin.
LEMMA ExposedRecords ==
    ASSUME NEW new \in DeviceList
    PROVE  /\ WellMade(Exposed(new), new)
           /\ Covers(Exposed(new), NoDevices, new)
<1> DEFINE Shown == Added(NoDevices, new)
           ShownRecord(d) == Record(levelForHealth(new[d]), d, new[d], new)
<1>1. Exposed(new) = {ShownRecord(d) : d \in Shown}
    BY DEF Exposed
<1>2. /\ Shown \subseteq Device
      /\ \A d \in Device : NoDevices[d] # new[d] => d \in Shown
    BY OfferNames DEF Added, Absent
<1>3. \A d : /\ ShownRecord(d).device = d /\ ShownRecord(d).health = new[d]
             /\ ShownRecord(d).counts = healthCounts(new)
             /\ ShownRecord(d).level = levelForHealth(new[d])
    BY RecordFields
<1> HIDE DEF Shown, ShownRecord
<1> QED
    BY <1>1, <1>2, <1>3, LevelOfHealth DEF WellMade, Covers

\* Which records pass the gate: warnings unless the level is error, the others
\* too unless it is warn.
LEMMA Gate ==
    /\ env # "error" => Enabled("warn")
    /\ env \notin {"warn", "warning", "error"} => Enabled("info") /\ Enabled("warn")
<1>1. env # "error" => setupFromEnv \in {"debug", "info", "warn"}
    BY DEF setupFromEnv, parseLevel
<1>2. env \notin {"warn", "warning", "error"} => setupFromEnv \in {"debug", "info"}
    BY DEF setupFromEnv, parseLevel
<1>3. /\ Severity["debug"] = 0 /\ Severity["info"] = 1
      /\ Severity["warn"] = 2 /\ Severity["error"] = 3
    BY DEF Severity
<1> QED
    BY <1>1, <1>2, <1>3 DEF Enabled

\* What a reader makes of the records of a step.
LEMMA Replay ==
    ASSUME told \in [Plugin -> DeviceList], NEW r \in Plugin,
           NEW before \in DeviceList, NEW new \in DeviceList, NEW records,
           WellMade(records, new), Log(r, before, records)
    PROVE  /\ told' \in [Plugin -> DeviceList]
           /\ \A q \in Plugin : q # r => told'[q] = told[q]
           /\ \A d \in Device :
                told'[r][d] = IF \E x \in log' : x.device = d THEN new[d] ELSE before[d]
           /\ log' = {x \in records : Enabled(x.level)}
           /\ env' = env
<1> DEFINE read == [d \in Device |-> IF \E x \in log' : x.device = d
                                     THEN (CHOOSE x \in log' : x.device = d).health
                                     ELSE before[d]]
<1>1. /\ log' = {x \in records : Enabled(x.level)}
      /\ told' = [told EXCEPT ![r] = read]
      /\ env' = env
    BY OfferNames DEF Log
<1>2. ASSUME NEW d \in Device, \E x \in log' : x.device = d
      PROVE  (CHOOSE x \in log' : x.device = d).health = new[d]
    <2> DEFINE y == CHOOSE x \in log' : x.device = d
    <2>1. y \in log' /\ y.device = d
        BY <1>2
    <2> HIDE DEF y
    <2>2. y.health = new[d]
        BY <1>1, <2>1 DEF WellMade
    <2> QED
        BY <2>2 DEF y
<1>3. \A d \in Device : read[d] = IF \E x \in log' : x.device = d THEN new[d] ELSE before[d]
    BY <1>2
<1>4. read \in DeviceList
    <2>1. \A d \in Device : read[d] \in Health \cup {"absent"}
        BY <1>3, OfferNames
    <2> QED
        BY <2>1, OfferNames
<1> HIDE DEF read
<1> QED
    BY <1>1, <1>3, <1>4

-----------------------------------------------------------------------------
(* The scan, as a part of the larger system *)

\* The larger system's steps are the scan's or leave it alone, but for the
\* count of errors, which failing Starts and Stops share.
LEMMA ScanKept ==
    ASSUME ScanInv, [OfferNext]_offerVars
    PROVE  ScanInv'
<1> USE DEF hardware, scan, result
<1>1. CASE Discovering
    BY <1>1, ScanStep DEF Discovering, Next, Scan
<1>2. CASE Discovered
    BY <1>2, ScanStep DEF Discovered, Next, Scan
<1>3. CASE Hardware
    BY <1>3, ScanStep DEF Hardware, Next
<1>4. ASSUME NEW r \in Plugin,
             \/ UpdateDevices(r) \/ StopAbsent(r) \/ Start(r)
             \/ Reconciled \/ ListAndWatch(r) \/ UNCHANGED offerVars
      PROVE  ScanInv'
    <2>1. UNCHANGED vars
        BY <1>4 DEF UpdateDevices, StopAbsent, Start, Apply, Visit,
           Reconciled, ListAndWatch, Connect, Send, Streaming, offerVars,
           vars, hardware, scan, result
    <2> QED
        BY <2>1, ScanStep
<1>5. ASSUME NEW r \in Plugin, StopFails(r) \/ StartFails(r)
      PROVE  ScanInv'
    <2>1. /\ UNCHANGED <<pc, todo, dev, resource, groups, health>>
          /\ UNCHANGED <<advertised, advHealth, steady, clean>>
          /\ UNCHANGED hardware
        BY <1>5 DEF StopFails, StartFails, Apply, hardware
    <2>2. errors' \in 0 .. MaxErrors
        BY <1>5, BoundsAssumption DEF StopFails, StartFails, ReconcileError, CountError, ScanInv, TypeOK
    <2>3. /\ Present' = Present
          /\ \A e : Expected(e)' = Expected(e)
          /\ UNCHANGED <<plugged, numVFs, ready, changes>>
        BY <2>1, HardwareDecides
    <2>4. TypeOK' /\ Position' /\ Pending'
        BY <2>1, <2>2, <2>3 DEF ScanInv, TypeOK, Position, Pending
    <2>5. Sound' /\ Complete'
        BY <2>1, <2>3 DEF ScanInv, Sound, Complete
    <2>6. Published'
        BY <2>1, <2>3 DEF ScanInv, Published,
           UndisturbedScanExact, ErrorsNeverMisfile, ErrorsNeverDrain
    <2> QED
        BY <2>4, <2>5, <2>6 DEF ScanInv
<1>6. Generic \in Plugin
    BY ResourceTypes, OfferNames
<1> QED
    BY <1>1, <1>2, <1>3, <1>4, <1>5, <1>6 DEF OfferNext, Reconcile

-----------------------------------------------------------------------------
(* Who holds what *)

LEMMA GroupType ==
    ASSUME ScanInv
    PROVE  /\ \A r : Group(r) \in DeviceList
           /\ \A r : \A d \in Device : advertised[d] = r <=> Group(r)[d] # "absent"
           /\ NoDevices \in DeviceList
<1>1. \A d \in Device : advHealth[d] \in Health /\ advHealth[d] # "absent"
    BY DEF ScanInv, TypeOK, Health
<1> QED
    BY <1>1, OfferNames DEF Group, Absent

\* The step of a plugin, r, whose list becomes new.
LEMMA TellsStep ==
    ASSUME OfferInv, NEW r \in Plugin, NEW new \in DeviceList,
           NEW before \in DeviceList, NEW records,
           WellMade(records, new), Covers(records, before, new),
           Log(r, before, records),
           devices' \in [Plugin -> DeviceList],
           \A q \in Plugin : devices'[q] = IF q = r THEN new ELSE devices[q]
    PROVE  told' \in [Plugin -> DeviceList] /\ env' = env /\ LogTellsInventory'
<1>1. told \in [Plugin -> DeviceList]
    BY DEF OfferInv, OfferTypeOK
<1>2. /\ told' \in [Plugin -> DeviceList]
      /\ \A q \in Plugin : q # r => told'[q] = told[q]
      /\ \A d \in Device :
           told'[r][d] = IF \E x \in log' : x.device = d THEN new[d] ELSE before[d]
      /\ log' = {x \in records : Enabled(x.level)}
      /\ env' = env
    BY <1>1, Replay
<1>3. ASSUME env \notin {"warn", "warning", "error"}
      PROVE  told' = devices' /\ \A x \in log' : \E q \in Plugin : x.counts = healthCounts(told'[q])
    <2>1. log' = records
        BY <1>2, <1>3, Gate DEF WellMade
    <2>2. \A d \in Device : told'[r][d] = new[d]
        BY <1>2, <2>1 DEF Covers
    <2>3. told'[r] = new
        <3>1. told'[r] \in [Device -> Health \cup {"absent"}]
            BY <1>2, OfferNames
        <3>2. new \in [Device -> Health \cup {"absent"}]
            BY OfferNames
        <3> QED
            BY <2>2, <3>1, <3>2
    <2>4. told = devices
        BY <1>3 DEF OfferInv, LogTellsInventory
    <2>5. \A q \in Plugin : told'[q] = devices'[q]
        BY <1>2, <2>3, <2>4
    <2>6. told' = devices'
        BY <1>2, <2>5
    <2>7. \A x \in log' : x.counts = healthCounts(told'[r])
        BY <2>1, <2>3 DEF WellMade
    <2> QED
        BY <2>6, <2>7
<1> QED
    BY <1>2, <1>3 DEF LogTellsInventory

\* Until a scan is published the last one stands.
LEMMA ResultKept ==
    /\ Discover => UNCHANGED <<advertised, advHealth>>
    /\ Environment => UNCHANGED <<advertised, advHealth, pc>>
<1>1. ASSUME NEW d, NextDevice(d) \/ ReadHealth(d)
      PROVE  UNCHANGED <<advertised, advHealth>>
    BY <1>1 DEF NextDevice, ReadHealth, result
<1>2. ASSUME NEW d, LstatPhysfn(d) \/ ReadlinkPhysfn(d) \/ ReadParentNumVFs(d) \/ ReadOwnNumVFs(d)
      PROVE  UNCHANGED <<advertised, advHealth>>
    BY <1>2 DEF LstatPhysfn, ReadlinkPhysfn, ReadParentNumVFs, ReadOwnNumVFs, Read, result
<1>3. List => UNCHANGED <<advertised, advHealth>>
    BY DEF List, result
<1>4. Environment => UNCHANGED <<advertised, advHealth, pc>>
    BY DEF Environment, Repartition, Hotplug, StatusChange, HardwareChange, scan, result
<1> QED
    BY <1>1, <1>2, <1>3, <1>4 DEF Discover

\* Steps that leave the manager, its plugins and the feeds alone.
LEMMA ElsewhereOffer ==
    ASSUME OfferInv, Discovering \/ Hardware \/ UNCHANGED offerVars
    PROVE  OfferTypeOK' /\ Held' /\ LogTellsInventory'
<1>1. /\ UNCHANGED <<booting, phase, plugins, toVisit, fresh, devices, down>>
      /\ UNCHANGED <<streams, updateCh, view, env, told>>
      /\ log' = {} \/ UNCHANGED log
    BY DEF Discovering, Hardware, Quiet, manager, feed, logger, offerVars
<1>2. UNCHANGED <<advertised, advHealth>> /\ (phase = "apply" => UNCHANGED pc)
    BY ResultKept DEF Discovering, Hardware, offerVars, vars, scan, result
<1>3. \A r : Group(r)' = Group(r)
    BY <1>2 DEF Group
<1>4. OfferTypeOK'
    BY <1>1 DEF OfferInv, OfferTypeOK
<1>5. Held'
    BY <1>1, <1>2, <1>3 DEF OfferInv, Held
<1>6. LogTellsInventory'
    BY <1>1 DEF OfferInv, LogTellsInventory
<1> QED
    BY <1>4, <1>5, <1>6

\* The steps of ListAndWatch.
LEMMA StreamOffer ==
    ASSUME OfferInv, NEW r \in Plugin, ListAndWatch(r)
    PROVE  OfferTypeOK' /\ Held' /\ LogTellsInventory'
<1>1. /\ UNCHANGED <<booting, phase, plugins, toVisit, fresh, devices, down, env, told>>
      /\ UNCHANGED <<advertised, advHealth, pc>>
      /\ log' = {}
    BY DEF ListAndWatch, Connect, Send, Streaming, Quiet,
       manager, scan, result
<1>2. /\ streams' \subseteq plugins \ down
      /\ view' \in [Plugin -> DeviceList]
      /\ updateCh' \in [Plugin -> SUBSET DeviceList]
      /\ \A q \in Plugin : \A x, y \in updateCh'[q] : x = y
    <2>1. CASE Connect(r)
        BY <2>1 DEF Connect, OfferInv, OfferTypeOK
    <2>2. CASE Send(r)
        BY <2>2 DEF Send, OfferInv, OfferTypeOK
    <2> QED
        BY <2>1, <2>2 DEF ListAndWatch
<1>3. OfferTypeOK'
    BY <1>1, <1>2 DEF OfferInv, OfferTypeOK
<1>4. \A q : Group(q)' = Group(q)
    BY <1>1 DEF Group
<1>5. Held'
    BY <1>1, <1>4 DEF OfferInv, Held
<1>6. LogTellsInventory'
    BY <1>1 DEF OfferInv, LogTellsInventory
<1> QED
    BY <1>3, <1>5, <1>6

\* The beginning and the end of the rest of reconcile.
LEMMA DiscoveredOffer ==
    ASSUME OfferInv, Discovered \/ Reconciled
    PROVE  OfferTypeOK' /\ Held' /\ LogTellsInventory'
<1>1. /\ UNCHANGED <<plugins, devices, down, streams, updateCh, view, env, told>>
      /\ log' = {}
    BY DEF Discovered, Reconciled, Quiet, feed
<1>2. /\ booting' \in BOOLEAN /\ phase' \in {"scan", "apply"}
      /\ toVisit' \subseteq plugins /\ fresh' \subseteq Plugin
    BY DEF Discovered, Reconciled, OfferInv, OfferTypeOK
<1>3. OfferTypeOK'
    BY <1>1, <1>2 DEF OfferInv, OfferTypeOK
<1>4. LogTellsInventory'
    BY <1>1 DEF OfferInv, LogTellsInventory
<1>5. CASE Discovered
    <2>1. /\ phase' = "apply" /\ toVisit' = plugins /\ pc' = "idle"
          /\ \A r \in fresh' : \E d \in Device : advertised'[d] = r
        BY <1>5, OfferNames DEF Discovered, Publish
    <2>2. Held'
        BY <1>1, <2>1 DEF OfferInv, Held
    <2> QED
        BY <1>3, <1>4, <2>2
<1>6. CASE Reconciled
    <2>1. /\ toVisit = {} /\ toVisit' = {} /\ phase' = "scan"
          /\ UNCHANGED <<advertised, advHealth>>
        BY <1>6 DEF Reconciled, Apply, result
    <2>2. \A r : Group(r)' = Group(r)
        BY <2>1 DEF Group
    <2>3. Held'
        BY <1>1, <2>1, <2>2 DEF OfferInv, Held
    <2> QED
        BY <1>3, <1>4, <2>3
<1> QED
    BY <1>5, <1>6

LEMMA UpdateOffer ==
    ASSUME OfferInv, NEW r \in Plugin, UpdateDevices(r)
    PROVE  OfferTypeOK' /\ Held' /\ LogTellsInventory'
<1>1. /\ phase = "apply" /\ r \in toVisit /\ r \in fresh
      /\ toVisit' = toVisit \ {r} /\ fresh' = fresh \ {r}
      /\ devices' = [devices EXCEPT ![r] = Group(r)]
      /\ updateCh' = [updateCh EXCEPT ![r] = {Group(r)}]
      /\ UNCHANGED <<booting, phase, plugins, down, streams, view>>
      /\ UNCHANGED <<advertised, advHealth, pc>>
      /\ Log(r, told[r], logInventoryDelta(devices[r], Group(r)))
    BY DEF UpdateDevices, Updated, Apply, Visit, scan, result
<1>2. Group(r) \in DeviceList /\ Group(r) # NoDevices
    <2>1. PICK d \in Device : advertised[d] = r
        BY <1>1 DEF OfferInv, Held
    <2> QED
        BY <2>1, GroupType, OfferNames DEF OfferInv
<1>3. /\ devices' \in [Plugin -> DeviceList]
      /\ \A q \in Plugin : devices'[q] = IF q = r THEN Group(r) ELSE devices[q]
    BY <1>1, <1>2 DEF OfferInv, OfferTypeOK
<1>4. devices[r] \in DeviceList /\ told[r] \in DeviceList
    BY DEF OfferInv, OfferTypeOK
<1>5. /\ told' \in [Plugin -> DeviceList] /\ env' = env
      /\ LogTellsInventory'
    <2>1. WellMade(logInventoryDelta(devices[r], Group(r)), Group(r))
        BY <1>2, <1>4, DeltaRecords
    <2>2. /\ told' \in [Plugin -> DeviceList] /\ env' = env
        BY <1>1, <1>2, <1>4, <2>1, Replay DEF OfferInv, OfferTypeOK
    <2>3. CASE env \in {"warn", "warning", "error"}
        BY <2>2, <2>3 DEF LogTellsInventory
    <2>4. CASE env \notin {"warn", "warning", "error"}
        <3>1. told[r] = devices[r]
            BY <2>4 DEF OfferInv, LogTellsInventory
        <3>2. Covers(logInventoryDelta(devices[r], Group(r)), told[r], Group(r))
            BY <1>2, <1>4, <3>1, DeltaRecords
        <3> QED
            BY <1>1, <1>2, <1>3, <1>4, <2>1, <2>2, <3>2, TellsStep
    <2> QED
        BY <2>2, <2>3, <2>4
<1>6. /\ updateCh' \in [Plugin -> SUBSET DeviceList]
      /\ \A q \in Plugin : \A x, y \in updateCh'[q] : x = y
    BY <1>1, <1>2 DEF OfferInv, OfferTypeOK
<1>7. OfferTypeOK'
    BY <1>1, <1>3, <1>5, <1>6 DEF OfferInv, OfferTypeOK
<1>8. \A q : Group(q)' = Group(q)
    BY <1>1 DEF Group
<1>9. Held'
    BY <1>1, <1>2, <1>3, <1>8 DEF OfferInv, Held, OfferTypeOK
<1> QED
    BY <1>5, <1>7, <1>9

\* What Stop of some plugins leaves of the plugins and their lists.
LEMMA StoppedType ==
    ASSUME OfferInv, NEW S \in SUBSET Plugin, Stopped(S)
    PROVE  /\ plugins' = plugins \ S /\ down' \subseteq plugins'
           /\ streams' \subseteq plugins' \ down'
           /\ devices' \in [Plugin -> DeviceList]
           /\ \A q \in Plugin : devices'[q] = IF q \in S THEN NoDevices ELSE devices[q]
           /\ view' \in [Plugin -> DeviceList]
           /\ updateCh' \in [Plugin -> SUBSET DeviceList]
           /\ \A q \in Plugin : \A x, y \in updateCh'[q] : x = y
<1>1. NoDevices \in DeviceList
    BY GroupType DEF OfferInv
<1>2. /\ plugins' = plugins \ S /\ down' \subseteq plugins'
      /\ streams' \subseteq plugins' \ down'
    BY DEF Stopped, EndedStreams, OfferInv, OfferTypeOK
<1>3. /\ devices' \in [Plugin -> DeviceList]
      /\ \A q \in Plugin : devices'[q] = IF q \in S THEN NoDevices ELSE devices[q]
    BY <1>1 DEF Stopped, OfferInv, OfferTypeOK
<1>4. view' \in [Plugin -> DeviceList]
    BY <1>1 DEF Stopped, OfferInv, OfferTypeOK
<1>5. /\ updateCh' \in [Plugin -> SUBSET DeviceList]
      /\ \A q \in Plugin : \A x, y \in updateCh'[q] : x = y
    BY DEF Stopped, OfferInv, OfferTypeOK
<1> QED
    BY <1>2, <1>3, <1>4, <1>5

\* "Registered" and "Stopped" make the reader begin anew, where they are logged.
LEMMA AnewType ==
    ASSUME OfferInv, NEW r \in Plugin
    PROVE  /\ Anew(r) \in DeviceList
           /\ env \notin {"warn", "warning", "error"} => Anew(r) = NoDevices
BY GroupType, Gate DEF Anew, OfferInv, OfferTypeOK

LEMMA StopOffer ==
    ASSUME OfferInv, NEW r \in Plugin, StopAbsent(r)
    PROVE  OfferTypeOK' /\ Held' /\ LogTellsInventory'
<1>1. /\ phase = "apply" /\ r \in toVisit
      /\ toVisit' = toVisit \ {r}
      /\ Stopped({r})
      /\ UNCHANGED <<booting, phase, fresh>>
      /\ UNCHANGED <<advertised, advHealth, pc>>
      /\ Log(r, Anew(r), {})
    BY DEF StopAbsent, Apply, Visit, scan, result
<1>2. /\ plugins' = plugins \ {r} /\ down' \subseteq plugins'
      /\ streams' \subseteq plugins' \ down'
      /\ devices' \in [Plugin -> DeviceList]
      /\ \A q \in Plugin : devices'[q] = IF q = r THEN NoDevices ELSE devices[q]
      /\ view' \in [Plugin -> DeviceList]
      /\ updateCh' \in [Plugin -> SUBSET DeviceList]
      /\ \A q \in Plugin : \A x, y \in updateCh'[q] : x = y
    BY <1>1, StoppedType
<1>3. NoDevices \in DeviceList
    BY GroupType DEF OfferInv
<1>4. WellMade({}, NoDevices)
    BY DEF WellMade
<1>5. told' \in [Plugin -> DeviceList] /\ env' = env
    BY <1>1, <1>3, <1>4, AnewType, Replay DEF OfferInv, OfferTypeOK
<1>6. LogTellsInventory'
    <2>1. CASE env \in {"warn", "warning", "error"}
        BY <1>5, <2>1 DEF LogTellsInventory
    <2>2. CASE env \notin {"warn", "warning", "error"}
        <3>1. Covers({}, Anew(r), NoDevices)
            BY <2>2, AnewType DEF Covers
        <3> QED
            BY <1>1, <1>2, <1>3, <1>4, <3>1, AnewType, TellsStep
    <2> QED
        BY <2>1, <2>2
<1>7. OfferTypeOK'
    BY <1>1, <1>2, <1>5 DEF OfferInv, OfferTypeOK
<1>8. \A q : Group(q)' = Group(q)
    BY <1>1 DEF Group
<1>9. Held'
    BY <1>1, <1>2, <1>8 DEF OfferInv, Held, OfferTypeOK
<1> QED
    BY <1>6, <1>7, <1>9

\* A Stop that fails: the lists stay, and the range is done with no more plugins.
LEMMA StopFailsOffer ==
    ASSUME OfferInv, NEW r \in Plugin, StopFails(r)
    PROVE  OfferTypeOK' /\ Held' /\ LogTellsInventory'
<1>1. /\ r \in toVisit /\ fresh' = {} /\ phase' = "scan" /\ log' = {}
      /\ UNCHANGED <<booting, toVisit, plugins, devices, updateCh, env, told>>
      /\ UNCHANGED <<advertised, advHealth>>
      /\ down' = down \cup {r} /\ streams' = streams \ {r}
      /\ view' = [view EXCEPT ![r] = NoDevices]
    BY DEF StopFails, ReconcileError, EndedStreams, Quiet, Apply, result
<1>2. OfferTypeOK'
    <2>1. NoDevices \in DeviceList
        BY GroupType DEF OfferInv
    <2>2. view' \in [Plugin -> DeviceList]
        BY <1>1, <2>1 DEF OfferInv, OfferTypeOK
    <2>3. down' \subseteq plugins /\ streams' \subseteq plugins \ down'
        BY <1>1 DEF OfferInv, OfferTypeOK
    <2> QED
        BY <1>1, <2>2, <2>3 DEF OfferInv, OfferTypeOK
<1>3. \A q : Group(q)' = Group(q)
    BY <1>1 DEF Group
<1>4. Held'
    BY <1>1, <1>3 DEF OfferInv, Held
<1>5. LogTellsInventory'
    BY <1>1 DEF OfferInv, LogTellsInventory
<1> QED
    BY <1>2, <1>4, <1>5

LEMMA StartOffer ==
    ASSUME OfferInv, NEW r \in Plugin, Start(r)
    PROVE  OfferTypeOK' /\ Held' /\ LogTellsInventory'
<1>1. /\ phase = "apply" /\ toVisit = {} /\ r \in fresh
      /\ fresh' = fresh \ {r} /\ plugins' = plugins \cup {r}
      /\ devices' = [devices EXCEPT ![r] = Group(r)]
      /\ UNCHANGED <<booting, phase, toVisit, down, streams, updateCh, view>>
      /\ UNCHANGED <<advertised, advHealth, pc>>
      /\ Log(r, Anew(r), Exposed(Group(r)))
    BY DEF Start, Apply, feed, scan, result
<1>2. Group(r) \in DeviceList /\ Group(r) # NoDevices
    <2>1. PICK d \in Device : advertised[d] = r
        BY <1>1 DEF OfferInv, Held
    <2> QED
        BY <2>1, GroupType, OfferNames DEF OfferInv
<1>3. /\ devices' \in [Plugin -> DeviceList]
      /\ \A q \in Plugin : devices'[q] = IF q = r THEN Group(r) ELSE devices[q]
    BY <1>1, <1>2 DEF OfferInv, OfferTypeOK
<1>4. WellMade(Exposed(Group(r)), Group(r))
    BY <1>2, ExposedRecords
<1>5. told' \in [Plugin -> DeviceList] /\ env' = env
    BY <1>1, <1>2, <1>4, AnewType, Replay DEF OfferInv, OfferTypeOK
<1>6. LogTellsInventory'
    <2>1. CASE env \in {"warn", "warning", "error"}
        BY <1>5, <2>1 DEF LogTellsInventory
    <2>2. CASE env \notin {"warn", "warning", "error"}
        <3>1. Covers(Exposed(Group(r)), Anew(r), Group(r))
            BY <1>2, <2>2, AnewType, ExposedRecords
        <3> QED
            BY <1>1, <1>2, <1>3, <1>4, <3>1, AnewType, TellsStep
    <2> QED
        BY <2>1, <2>2
<1>7. OfferTypeOK'
    BY <1>1, <1>3, <1>5 DEF OfferInv, OfferTypeOK
<1>8. \A q : Group(q)' = Group(q)
    BY <1>1 DEF Group
<1>9. Held'
    BY <1>1, <1>2, <1>3, <1>8 DEF OfferInv, Held, OfferTypeOK
<1> QED
    BY <1>6, <1>7, <1>9

LEMMA StartFailsOffer ==
    ASSUME OfferInv, NEW r \in Plugin, StartFails(r)
    PROVE  OfferTypeOK' /\ Held' /\ LogTellsInventory'
<1>1. /\ toVisit = {} /\ fresh' = {} /\ phase' = "scan" /\ log' = {}
      /\ UNCHANGED <<booting, toVisit, env, advertised, advHealth>>
    BY DEF StartFails, ReconcileError, Apply, result
<1>2. \A q : Group(q)' = Group(q)
    BY <1>1 DEF Group
<1>3. CASE UNCHANGED <<plugins, devices, down, feed, told>>
    <2>1. OfferTypeOK'
        BY <1>1, <1>3 DEF OfferInv, OfferTypeOK, feed
    <2>2. Held'
        BY <1>1, <1>2, <1>3 DEF OfferInv, Held
    <2>3. LogTellsInventory'
        BY <1>1, <1>3 DEF OfferInv, LogTellsInventory
    <2> QED
        BY <2>1, <2>2, <2>3
<1>4. CASE Stopped(plugins) /\ told' = [p \in Plugin |-> NoDevices]
    <2>1. plugins \in SUBSET Plugin /\ NoDevices \in DeviceList
        BY GroupType DEF OfferInv, OfferTypeOK
    <2>2. /\ plugins' = {} /\ down' \subseteq plugins'
          /\ streams' \subseteq plugins' \ down'
          /\ devices' \in [Plugin -> DeviceList]
          /\ \A q \in Plugin : devices'[q] = NoDevices
          /\ view' \in [Plugin -> DeviceList]
          /\ updateCh' \in [Plugin -> SUBSET DeviceList]
          /\ \A q \in Plugin : \A x, y \in updateCh'[q] : x = y
        BY <1>4, <2>1, StoppedType DEF OfferInv, Held
    <2>3. told' \in [Plugin -> DeviceList] /\ told' = devices'
        BY <1>4, <2>1, <2>2
    <2>4. OfferTypeOK'
        BY <1>1, <2>2, <2>3 DEF OfferInv, OfferTypeOK
    <2>5. Held'
        BY <1>1, <2>2 DEF Held
    <2>6. LogTellsInventory'
        BY <1>1, <2>3 DEF LogTellsInventory
    <2> QED
        BY <2>4, <2>5, <2>6
<1> QED
    BY <1>3, <1>4 DEF StartFails

-----------------------------------------------------------------------------
(* The theorems *)

LEMMA InitOffer == OfferInit => OfferInv
<1> SUFFICES ASSUME OfferInit
             PROVE  OfferInv
    OBVIOUS
<1>1. ScanInv
    BY InitScan DEF OfferInit
<1>2. NoDevices \in DeviceList
    BY <1>1, GroupType
<1>3. OfferTypeOK
    BY <1>2 DEF OfferInit, OfferTypeOK
<1>4. Held /\ LogTellsInventory
    BY DEF OfferInit, Held, LogTellsInventory
<1> QED
    BY <1>1, <1>3, <1>4 DEF OfferInv

\* OfferInv holds in every reachable state.
THEOREM OfferInvariance == OfferSpec => []OfferInv
<1>1. OfferInv /\ [OfferNext]_offerVars => OfferInv'
    <2> SUFFICES ASSUME OfferInv, [OfferNext]_offerVars
                 PROVE  OfferInv'
        OBVIOUS
    <2>1. ScanInv'
        BY ScanKept DEF OfferInv
    <2>2. OfferTypeOK' /\ Held' /\ LogTellsInventory'
        BY ElsewhereOffer, StreamOffer, DiscoveredOffer, UpdateOffer, StopOffer, StopFailsOffer,
           StartOffer, StartFailsOffer
        DEF OfferNext, Reconcile
    <2> QED
        BY <2>1, <2>2 DEF OfferInv
<1> QED
    BY <1>1, InitOffer, PTL DEF OfferSpec

\* Every reachable state of the larger system is well typed.
THEOREM OfferTypeCorrect == OfferSpec => []OfferTypeOK
<1>1. OfferInv => OfferTypeOK
    BY DEF OfferInv
<1> QED
    BY <1>1, OfferInvariance, PTL

\* Between two reconciles every plugin holds exactly its group of the last scan,
\* whichever plugins came, went or failed to start, but for those a failing Stop
\* kept the range from; and every plugin has devices.
THEOREM PluginsAgree == OfferSpec => []PluginsHoldScan
<1>1. OfferInv => PluginsHoldScan
    BY DEF OfferInv, Held, PluginsHoldScan
<1> QED
    BY <1>1, OfferInvariance, PTL

\* A plugin the range is done with has only what the scan found under its resource.
LEMMA OffersScan ==
    ASSUME OfferInv, NEW r \in Plugin \ toVisit, NEW d \in Device,
           devices[r][d] # Absent
    PROVE  advertised[d] = r /\ r # Nothing
<1>1. r \in plugins
    BY OfferNames DEF OfferInv, Held, Absent
<1>2. devices[r] = Group(r)
    BY <1>1 DEF OfferInv, Held
<1> QED
    BY <1>2, GroupType, OfferNames DEF OfferInv, Absent

\* No scan hands out compute twice: on hardware that did not change under the
\* scan, and at any moment of the reconcile that follows, the plugins the range
\* is done with have no physical function beside one of its own VFs, whichever
\* reads, Starts and Stops failed.
THEOREM NothingCountedTwice == OfferSpec => []NoDoubleCount
<1>1. OfferInv => NoDoubleCount
    <2> SUFFICES ASSUME OfferInv, steady, pc = "idle", NEW p \in PFs,
                        CountedTwice(p, Plugin \ toVisit)
                 PROVE  FALSE
        BY DEF NoDoubleCount
    <2>1. PICK q \in Plugin \ toVisit, r \in Plugin \ toVisit, i \in 1 .. MaxVFs :
            devices[q][<<p, 0>>] # Absent /\ devices[r][<<p, i>>] # Absent
        BY DEF CountedTwice
    <2>2. i \in Nat /\ i > 0 /\ <<p, 0>> \in Device /\ <<p, i>> \in Device
        BY ModesAssumption DEF Device
    <2>3. advertised[<<p, 0>>] # Nothing /\ advertised[<<p, i>>] # Nothing
        BY <2>1, <2>2, OffersScan
    <2>4. Expected(<<p, 0>>) # Nothing /\ Expected(<<p, i>>) # Nothing
        BY <2>2, <2>3 DEF OfferInv, ScanInv, Published, ErrorsNeverMisfile
    <2>5. numVFs[p] = 0
        BY <2>4 DEF Expected, IsVF
    <2>6. i <= numVFs[p]
        BY <2>4 DEF Expected, Present
    <2> QED
        BY <2>2, <2>5, <2>6
<1> QED
    BY <1>1, OfferInvariance, PTL

\* Replaying the log, at any level that shows information, gives every plugin's
\* devices with their health, and its counts are right.
THEOREM LogIsEnough == OfferSpec => []LogTellsInventory
<1>1. OfferInv => LogTellsInventory
    BY DEF OfferInv
<1> QED
    BY <1>1, OfferInvariance, PTL

\* A list that a plugin gets with its records: what is unusable in it, and was
\* not before, is warned of.
LEMMA AlertStep ==
    ASSUME OfferInv, env # "error", NEW r \in Plugin, NEW old \in DeviceList, NEW before \in DeviceList,
           NEW new \in DeviceList, NEW records, WellMade(records, new), Covers(records, old, new),
           Log(r, before, records),
           NEW d \in Device, old[d] # "Unhealthy", new[d] = "Unhealthy"
    PROVE  Warned(d)
<1>1. log' = {x \in records : Enabled(x.level)}
    BY DEF Log
<1>2. PICK x \in records : x.device = d
    BY DEF Covers
<1>3. x.level = "warn"
    BY <1>2 DEF WellMade
<1>4. x \in log'
    BY <1>1, <1>3, Gate
<1>5. Severity[x.level] >= Severity["warn"]
    BY <1>3 DEF Severity
<1> QED
    BY <1>2, <1>4, <1>5 DEF Warned

\* Alerting on warn misses no unusable hardware: a step that makes a device
\* unusable in a plugin's list, or finds it so, logs a warning of it, unless the
\* level was set to error.
THEOREM FaultsAreAlerted == OfferSpec => FaultsAlerted
<1>1. ASSUME OfferInv, OfferNext, env # "error",
             NEW r \in Plugin, NEW d \in Device, Faults(r, d)
      PROVE  Warned(d)
    <2>1. /\ d \in Device /\ devices \in [Plugin -> DeviceList]
          /\ devices[r][d] # "Unhealthy" /\ devices'[r][d] = "Unhealthy"
        BY <1>1, OfferNames DEF Faults, OfferInv, OfferTypeOK
    <2>2. ~(UNCHANGED devices)
        BY <2>1
    <2>3. ASSUME NEW S, Stopped(S)
          PROVE  FALSE
        BY <2>1, <2>3, OfferNames DEF Stopped
    <2>4. PICK q \in Plugin : UpdateDevices(q) \/ Start(q)
        BY <1>1, <2>2, <2>3 DEF OfferNext, Reconcile, Discovering, Discovered, Reconciled,
           StopAbsent, StopFails, StartFails, Hardware, ListAndWatch, Connect, Send,
           Streaming, manager
    <2>5. devices' = [devices EXCEPT ![q] = Group(q)]
        BY <2>4 DEF UpdateDevices, Updated, Start
    <2>6. q = r /\ Group(r)[d] = "Unhealthy"
        BY <2>1, <2>5
    <2>7. /\ Group(r) \in DeviceList /\ NoDevices \in DeviceList
          /\ devices[r] \in DeviceList /\ told[r] \in DeviceList
        BY <1>1, GroupType DEF OfferInv, OfferTypeOK
    <2>8. CASE UpdateDevices(q)
        <3>1. Log(r, told[r], logInventoryDelta(devices[r], Group(r)))
            BY <2>6, <2>8 DEF UpdateDevices, Updated
        <3> QED
            BY <1>1, <2>1, <2>6, <2>7, <3>1, DeltaRecords, AlertStep
    <2>9. CASE Start(q)
        <3>1. Log(r, Anew(r), Exposed(Group(r)))
            BY <2>6, <2>9 DEF Start
        <3>2. NoDevices[d] # "Unhealthy"
            BY <2>1, OfferNames
        <3> QED
            BY <1>1, <2>1, <2>6, <2>7, <3>1, <3>2, AnewType, ExposedRecords, AlertStep
    <2> QED
        BY <2>4, <2>8, <2>9
<1>2. OfferInv /\ [OfferNext]_offerVars
        => [env # "error" => \A r \in Plugin, d \in Device :
              Faults(r, d) => Warned(d)]_offerVars
    BY <1>1
<1> QED
    BY <1>2, OfferInvariance, PTL DEF FaultsAlerted, OfferSpec
=============================================================================
