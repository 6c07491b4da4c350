--------------------------- MODULE DeviceLifecycle ---------------------------
(***************************************************************************)
(* The life of a device document in MongoDB: DeviceService adds a device   *)
(* to a group, moves a group between groups and disabledGroups (virtual    *)
(* delete and restore), edits the document, and an hourly cron job removes *)
(* the groups disabled for longer than the retention period, and finally   *)
(* the document and its sensors.                                           *)
(*                                                                         *)
(* There is no transaction: every handler reads the document in one        *)
(* database call, computes the fields to write from what it read, and      *)
(* writes them in a later call.  One handler call on several devices runs  *)
(* each device on its own (Promise.all), so a request below is one device  *)
(* of one call.                                                            *)
(***************************************************************************)
EXTENDS Naturals, Sequences, FiniteSets, SequencesExt

CONSTANTS
    Devices,      \* device ids of the CHT IoT platform
    Groups,       \* divisions; all of them exist in the database
    Requests,     \* slots for requests being served
    SensorIds,    \* ids of sensor documents
    MaxDocs,      \* documents that can be created per device id
    Retention,    \* age at which a disabled group is dropped (30 days)
    MaxClock,     \* bound: the clock stops here
    MaxEvents,    \* bound: requests and restarts in a behaviour
    Overlap       \* TRUE: requests and the cron job interleave
                  \* FALSE: each one ends before the next one starts

ASSUME LifecycleAssumption ==
    /\ MaxDocs \in Nat \ {0}
    /\ Retention \in Nat
    /\ MaxClock \in Nat
    /\ MaxEvents \in Nat
    /\ Overlap \in BOOLEAN

VARIABLES
    doc,        \* the devices collection
    stored,     \* the ids in the sensors collection
    allocated,  \* the sensor ids ever given out (ObjectIds are never reused)
    request,    \* what each request in flight is about to write
    cron,       \* what the cron job is about to do to each document it found
    clock,      \* the time, in units of the retention period
    events      \* number of requests and restarts so far

vars == <<doc, stored, allocated, request, cron, clock, events>>

-----------------------------------------------------------------------------
(* The documents.  Nothing but the application keeps deviceId unique, so a *)
(* device id may have several documents.                                   *)

Docs == Devices \X (1..MaxDocs)

Entry == [group : Groups, at : 0..MaxClock]

Document == [state : {"unused", "live", "purged"},
             groups : Seq(Groups), disabled : Seq(Entry), sensors : SUBSET SensorIds]

NoDocument(state) ==
    [state |-> state, groups |-> <<>>, disabled |-> <<>>, sensors |-> {}]

Live(d) == doc[d].state = "live"

\* Mutation: the look-up only sees devices that are in a group.
VisibleOnlyMutation(dev) == {d \in Docs : d[1] = dev /\ Live(d) /\ doc[d].groups # <<>>}

Found(dev) == {d \in Docs : d[1] = dev /\ Live(d)}

\* Mutation: findByIdAndUpdate with upsert brings a deleted document back.
UpsertMutation(d, set) == [doc EXCEPT ![d] = set]

\* findByIdAndUpdate: without upsert, so nothing happens to a document that is gone.
Updated(d, set) == IF Live(d) THEN [doc EXCEPT ![d] = set] ELSE doc

-----------------------------------------------------------------------------
(* Requests.                                                               *)

Idle == [stage |-> "idle"]

Asleep == [stage |-> "asleep"]

Quiet ==
    /\ \A r \in Requests : request[r] = Idle
    /\ \A d \in Docs : cron[d] = Asleep

MayStart == Overlap \/ Quiet

Start(r, next) ==
    /\ MayStart
    /\ request[r] = Idle
    /\ events < MaxEvents
    /\ events' = events + 1
    /\ request' = [request EXCEPT ![r] = next]
    /\ UNCHANGED <<doc, stored, allocated, cron, clock>>

Finish(r) == request' = [request EXCEPT ![r] = Idle]

\* What request r is going to write to the fields of a document; a request on
\* a device that has no document yet has doc = <<>>.
Pending(stage, dev, d, groups, disabled, sensors) ==
    [stage |-> stage, dev |-> dev, doc |-> d,
     groups |-> groups, disabled |-> disabled, sensors |-> sensors]

\* The whole document, as update(_id, device) sends it.
Whole(r) ==
    [state |-> "live", groups |-> request[r].groups,
     disabled |-> request[r].disabled, sensors |-> request[r].sensors]

-----------------------------------------------------------------------------
(* addDevices: look the device up, fetch its sensors from the platform and *)
(* create the ones not known yet, then create the document or write all of *)
(* it back.                                                                *)

PushIfAbsent(groups, g) == IF Contains(groups, g) THEN groups ELSE Append(groups, g)

AddRead(r, dev, g) ==
    \/ /\ Found(dev) = {}
       /\ \E n \in 1..MaxDocs : doc[<<dev, n>>].state = "unused"
       /\ Start(r, Pending("sensors", dev, <<>>, <<g>>, <<>>, {}))
    \/ \E d \in Found(dev) :
          Start(r, Pending("sensors", dev, <<d>>, PushIfAbsent(doc[d].groups, g),
                           doc[d].disabled, doc[d].sensors))

\* Mutation: existing sensor documents are handed out again.
SharedSensorsMutation == SensorIds

UnusedSensorIds == SensorIds \ allocated

\* sensorService.create(newSensors): the platform may know any number of sensors
\* that the document does not list yet.
AddSensors(r) ==
    /\ request[r].stage = "sensors"
    /\ \E new \in SUBSET UnusedSensorIds :
          /\ stored' = stored \cup new
          /\ allocated' = allocated \cup new
          /\ request' = [request EXCEPT ![r] =
                Pending(IF request[r].doc = <<>> THEN "create" ELSE "write",
                        request[r].dev, request[r].doc, request[r].groups,
                        request[r].disabled, request[r].sensors \cup new)]
    /\ UNCHANGED <<doc, cron, clock, events>>

AddCreate(r) ==
    /\ request[r].stage = "create"
    /\ \E n \in 1..MaxDocs :
          LET d == <<request[r].dev, n>>
          IN  /\ doc[d].state = "unused"
              /\ doc' = [doc EXCEPT ![d] = Whole(r)]
    /\ Finish(r)
    /\ UNCHANGED <<stored, allocated, cron, clock, events>>

-----------------------------------------------------------------------------
(* editDevice: the whole document is read, sent to the platform, and       *)
(* written back.                                                           *)

EditRead(r, dev) ==
    \E d \in Found(dev) :
        Start(r, Pending("platform", dev, <<d>>, doc[d].groups, doc[d].disabled,
                         doc[d].sensors))

\* The last step of editDevice, and of addDevices on a known device.
WriteWhole(r) ==
    /\ request[r].stage \in {"write", "platform"}
    /\ doc' = Updated(request[r].doc[1], Whole(r))
    /\ Finish(r)
    /\ UNCHANGED <<stored, allocated, cron, clock, events>>

\* A call to the platform or to the map service throws (addDevices, editDevice).
Fail(r) ==
    /\ request[r].stage \in {"sensors", "create", "platform"}
    /\ Finish(r)
    /\ UNCHANGED <<doc, stored, allocated, cron, clock, events>>

-----------------------------------------------------------------------------
(* deleteDevices and restoreDevices write groups and disabledGroups only.  *)

\* Mutation: the entry is stored without its time.
UntimedMutation(g) == [group |-> g]

DisabledGroup(g) == [group |-> g, at |-> clock]

\* Mutation: the new entry replaces the earlier ones.
ReplacedEntriesMutation(d, g) == <<DisabledGroup(g)>>

WithDisabled(d, g) == Append(doc[d].disabled, DisabledGroup(g))

DeleteRead(r, dev, g) ==
    \E d \in Found(dev) :
        /\ Contains(doc[d].groups, g)
        /\ Start(r, Pending("membership", dev, <<d>>, RemoveFirst(doc[d].groups, g),
                            WithDisabled(d, g), {}))

EntriesOf(d, g) == {k \in DOMAIN doc[d].disabled : doc[d].disabled[k].group = g}

\* The group comes back without a test that the document lists it already.
RestoreRead(r, dev, g) ==
    \E d \in Found(dev) :
        /\ EntriesOf(d, g) # {}
        /\ Start(r, Pending("membership", dev, <<d>>, Append(doc[d].groups, g),
                   RemoveFirstMatch(doc[d].disabled, LAMBDA e : e.group = g), {}))

WriteMembership(r) ==
    /\ request[r].stage = "membership"
    /\ LET d == request[r].doc[1]
       IN  doc' = Updated(d, [state |-> "live", groups |-> request[r].groups,
                              disabled |-> request[r].disabled,
                              sensors |-> doc[d].sensors])
    /\ Finish(r)
    /\ UNCHANGED <<stored, allocated, cron, clock, events>>

-----------------------------------------------------------------------------
(* handleCron.                                                             *)

\* disabledAt <= timing selects a document; disabledAt < timing drops an entry.
Due(entries) == \E k \in DOMAIN entries : entries[k].at + Retention <= clock

Expired(e) == e.at + Retention < clock

\* `for (const e of entries)` while the loop body splices entries: the entry
\* after a removed one takes its place and is not visited.
Sweep(entries) ==
    LET swept[k \in 0..Len(entries)] ==
          IF k = 0 THEN [kept |-> <<>>, skip |-> FALSE]
          ELSE IF ~swept[k - 1].skip /\ Expired(entries[k])
               THEN [kept |-> swept[k - 1].kept, skip |-> TRUE]
               ELSE [kept |-> Append(swept[k - 1].kept, entries[k]), skip |-> FALSE]
    IN  swept[Len(entries)].kept

PurgeDocument(d) == [stage |-> "purge", sensors |-> doc[d].sensors]

UpdateDocument(d) == [stage |-> "update", disabled |-> Sweep(doc[d].disabled)]

\* Mutation: the groups the device is still in are not looked at.
CarelessPurgeMutation(d) ==
    IF Sweep(doc[d].disabled) = <<>> THEN PurgeDocument(d) ELSE UpdateDocument(d)

\* Mutation: the document is never deleted.
NoPurgeMutation(d) == UpdateDocument(d)

CronPlan(d) ==
    IF Sweep(doc[d].disabled) = <<>> /\ doc[d].groups = <<>>
    THEN PurgeDocument(d) ELSE UpdateDocument(d)

CronFind ==
    /\ MayStart
    /\ \A d \in Docs : cron[d] = Asleep
    /\ \E d \in Docs : Live(d) /\ Due(doc[d].disabled)
    /\ cron' = [d \in Docs |-> IF Live(d) /\ Due(doc[d].disabled)
                               THEN CronPlan(d) ELSE Asleep]
    /\ UNCHANGED <<doc, stored, allocated, request, clock, events>>

CronUpdate(d) ==
    /\ cron[d].stage = "update"
    /\ doc' = Updated(d, [state |-> "live", groups |-> doc[d].groups,
                          disabled |-> cron[d].disabled, sensors |-> doc[d].sensors])
    /\ cron' = [cron EXCEPT ![d] = Asleep]
    /\ UNCHANGED <<stored, allocated, request, clock, events>>

CronDelete(d) ==
    /\ cron[d].stage = "purge"
    /\ doc' = IF Live(d) THEN [doc EXCEPT ![d] = NoDocument("purged")] ELSE doc
    /\ cron' = [cron EXCEPT ![d] = [stage |-> "clean", sensors |-> cron[d].sensors]]
    /\ UNCHANGED <<stored, allocated, request, clock, events>>

CronDeleteSensor(d) ==
    /\ cron[d].stage = "clean"
    /\ \/ /\ cron[d].sensors = {}
          /\ cron' = [cron EXCEPT ![d] = Asleep]
          /\ UNCHANGED stored
       \/ \E s \in cron[d].sensors :
             /\ stored' = stored \ {s}
             /\ cron' = [cron EXCEPT ![d] = [stage |-> "clean",
                                             sensors |-> cron[d].sensors \ {s}]]
    /\ UNCHANGED <<doc, allocated, request, clock, events>>

-----------------------------------------------------------------------------
Tick ==
    /\ clock < MaxClock
    /\ clock' = clock + 1
    /\ UNCHANGED <<doc, stored, allocated, request, cron, events>>

\* The process dies: what was in flight is forgotten, the database is not.
Restart ==
    /\ ~Quiet
    /\ events < MaxEvents
    /\ events' = events + 1
    /\ request' = [r \in Requests |-> Idle]
    /\ cron' = [d \in Docs |-> Asleep]
    /\ UNCHANGED <<doc, stored, allocated, clock>>

Init ==
    /\ doc = [d \in Docs |-> NoDocument("unused")]
    /\ stored = {}
    /\ allocated = {}
    /\ request = [r \in Requests |-> Idle]
    /\ cron = [d \in Docs |-> Asleep]
    /\ clock = 0
    /\ events = 0

RequestStep(r) ==
    \/ \E dev \in Devices, g \in Groups :
          AddRead(r, dev, g) \/ DeleteRead(r, dev, g) \/ RestoreRead(r, dev, g)
    \/ \E dev \in Devices : EditRead(r, dev)
    \/ AddSensors(r)
    \/ AddCreate(r)
    \/ WriteWhole(r)
    \/ WriteMembership(r)
    \/ Fail(r)

CronStep == CronFind \/ \E d \in Docs : CronUpdate(d) \/ CronDelete(d) \/ CronDeleteSensor(d)

Next == (\E r \in Requests : RequestStep(r)) \/ CronStep \/ Tick \/ Restart

Spec == Init /\ [][Next]_vars

\* The scheduler fires every hour and an issued database call returns.
FairSpec ==
    /\ Spec
    /\ WF_vars(CronStep)
    /\ \A r \in Requests : WF_vars(AddSensors(r) \/ AddCreate(r) \/ WriteWhole(r) \/ WriteMembership(r))

-----------------------------------------------------------------------------
(* Properties.                                                             *)

TypeOK ==
    /\ doc \in [Docs -> Document]
    /\ stored \subseteq SensorIds
    /\ allocated \subseteq SensorIds
    /\ DOMAIN request = Requests
    /\ \A r \in Requests : request[r] # Idle =>
          /\ request[r].stage \in {"sensors", "create", "write", "platform", "membership"}
          /\ request[r].dev \in Devices
          /\ request[r].doc \in {<<>>} \cup {<<d>> : d \in Docs}
    /\ DOMAIN cron = Docs
    /\ clock \in 0..MaxClock
    /\ events \in 0..MaxEvents

\* Every sensor that a device document lists exists: whatever interleaves, the
\* cron job deletes the sensors of a document only after the document, and a
\* late write to that document does not bring it back.
LiveSensorsExist == \A d \in Docs : doc[d].sensors \subseteq stored

\* No sensor document belongs to two device documents, so the purge of one
\* device cannot take the sensors of another.
SensorsNotShared ==
    \A d, e \in Docs : d # e => doc[d].sensors \cap doc[e].sensors = {}

\* The device document only goes away when no group holds it and every group
\* it was removed from is past the retention period.
PurgeJustified ==
    [][\A d \in Docs : Live(d) /\ doc'[d].state = "purged" =>
          /\ doc[d].groups = <<>>
          /\ \A k \in DOMAIN doc[d].disabled : Expired(doc[d].disabled[k])]_vars

\* A live device is in a group, or can be restored to one: otherwise no query
\* finds it and no cron run ever selects it.
NeverOrphaned ==
    \A d \in Docs : Live(d) => doc[d].groups # <<>> \/ doc[d].disabled # <<>>

Remembered(d, g) ==
    \/ Contains(doc[d].groups, g)
    \/ \E k \in EntriesOf(d, g) : ~Expired(doc[d].disabled[k])

\* A group that holds a device, or held it within the retention period, is not
\* forgotten: no step takes it out of both lists, nor purges the document.
MembershipKept ==
    [][\A d \in Docs, g \in Groups :
          Live(d) /\ Remembered(d, g)
          => Contains(doc'[d].groups, g) \/ EntriesOf(d, g)' # {}]_vars

\* Two documents never stand for one device of the platform.
OneDocPerDevice == \A d, e \in Docs : Live(d) /\ Live(e) /\ d[1] = e[1] => d = e

Forgotten(d) ==
    /\ Live(d)
    /\ doc[d].groups = <<>>
    /\ \A k \in DOMAIN doc[d].disabled : Expired(doc[d].disabled[k])

\* A device that no group holds, all of whose disabled groups have expired, is
\* purged sooner or later, unless someone adds or restores it first.
EventuallyPurged ==
    \A d \in Docs : Forgotten(d) ~> (doc[d].state = "purged" \/ doc[d].groups # <<>>)
=============================================================================
