# CityOS Cloud: TLA+ models, checks and proofs

CityOS Cloud (`src/node`) is the NestJS server behind a city's IoT dashboard. It
keeps devices, sensors, rules, users and signage in MongoDB, talks to the CHT IoT
platform over HTTP and MQTT, copies readings to Elasticsearch, and runs background
work with Bull (Redis), Nest cron jobs and Agenda. Paths below are relative to
`src/node/src/`.

The server is one Node.js process: code between two `await`s is atomic, everything
else interleaves. There are no database transactions and almost no unique indexes.
So the questions asked here are about what happens between two awaits: documents
read early and written late, several documents written one after the other, memory
that mirrors the database, and background jobs that run beside requests.

## 1. Inventory

| component | state | operations | who it talks to |
|---|---|---|---|
| Devices (`modules/device`) | `devices` with `groups`, `disabledGroups`, sensor references | add, edit, delete (virtual), restore, maintenance status, hourly clean-up | sensors, groups, platform, Elasticsearch sensors |
| Sensors (`modules/sensor`) | `sensors`; per subscription: MQTT clients and a history map; change streams | create, delete, edit, live subscriptions, statistics, hourly status copy | devices, platform, Redis pub/sub |
| Device status (`sensor`, `device`, `modules/notification`) | `status` and `relatedStatus` of devices; device status documents and their log | follow status messages, mail the maintenance staff | platform over MQTT and HTTP, mail |
| Automation rules (`modules/automation/automation.service.ts`) | `rules`, `triggers`, `actions`, `subscriptions`; in memory the MQTT clients and the use count of each topic | create, edit, delete, subscribe, on-message dispatch | platform over MQTT, Bull |
| Rule evaluation (`automation.processor.ts`) | the job; nothing stored | effectiveness, triggers, notifications | platform, mail, LINE |
| Elasticsearch sensors (`modules/elasticsearch-sensor`) | `elasticsearch_sensors`; MQTT clients and `processControl` in memory; Bull jobs; indices | enable, add history, delete index, sync job, progress | platform, Elasticsearch, Bull |
| Groups, users, permissions (`modules/group`, `user`, `permission`) | the tree of groups; users with a permission per group; role templates; access codes | create, edit, delete, invite, register, remove | each other, devices, platform, mail |
| Signage (`modules/eSignageCM`) | templates, contents, details, items, schedules and their logs; a page per template in the file system | add, update, delete, schedule, publish | CMS over HTTP, files, images |
| Buildings (`modules/Building`, `image-mgmt`) | buildings with their floors; `usedForBuilding` of devices; images and their files | create, update, delete, move in and out of groups, replace a floor plan | platform, devices, files |
| Searches (all of the above, `camera`, `maldevice`, `maintenance_staff`) | nothing stored; a cursor held by the client | pages forward and backward with `PageInfo` | MongoDB, video server |
| Lamps (`modules/lamp`) | schedules in the device document; Agenda jobs | update schedule, next change | platform, Agenda |
| Sign-in (`modules/auth`, `oauth2`) | tokens, device tokens, attempts | login, refresh, bind, reset | oauth2-server, users |
| Staff, message boards, emergency calls, LINE, mail, dashboard, cameras' layouts | single documents | mostly one database call each | |

What is hard, by component, and what makes it correct:

* **Devices.** Requests and the clean-up job read a document, await, and write it
  whole. Correct: a document lists only sensors that exist and that no other lists;
  a device with a group is never purged, one without groups is purged in the end;
  no device is orphaned or doubled.
* **Live subscriptions.** Clients and topics follow the members of a group through
  change events whose callbacks overtake one another. Correct: every member is heard
  once all is handled, what is shown is the summary of the members' last values, and
  nobody else is heard.
* **Device status.** Two listeners work on every message, each in several steps, and
  messages overtake one another. Correct: the last status stays, `relatedStatus`
  summarises what is attached, a logged change has been mailed.
* **Rules.** One request writes several collections and updates the use counts in
  between. Correct: the count of a topic is the number of triggers that use it, a
  topic in use is subscribed, nothing is left over of deleted rules, a job finds the
  subscriptions it needs.
* **Evaluation.** Nested loops with early exits, seasons that cross the year, hours
  that cross midnight. Correct: the decision is what the rule's logic means.
* **Elasticsearch sensors.** A job of several concurrent readers shares one cursor;
  administrators replace MQTT clients; jobs fail or stall. Correct: a job copies what
  was in its range, undoes what it did when it fails, and clients match what is enabled.
* **Groups, users, permissions.** Check-then-act over several documents, users written
  whole. Correct: no dangling group, parent or permission; one group in use per user;
  the root user keeps the root group.
* **Signage.** A template is a tree of documents, added and deleted one by one, read
  for publication meanwhile. Correct: a failure half-way can be repaired, a page loses
  an item through a deletion only, what is on air is found in the logs.
* **Buildings.** Flags of devices are written one by one beside the building; a plan is
  uploaded, stored, and its predecessor deleted. Correct: flags and floors agree, a
  device is on one floor, every plan has its file.
* **Searches.** Nine copies of one scheme that differ in detail, and documents that
  change between pages. Correct: what stays is shown once, pages adjoin, `PageInfo` is
  true.
* **Lamps.** The schedule of the day and the date of the next change. Correct: the
  schedule in force is always the one whose day came last.

`PROJECT.json` lists every component with its status and every hazard at its line.

## 2. Modules

| module | models | state (TLA+ : code) |
|---|---|---|
| `DeviceLifecycle` | `device.service.ts` add, edit, delete, restore, `handleCron` | `doc` : devices, `stored` : sensors, `request` : calls between two awaits, `cron` : the clean-up's pending work |
| `AutomationRules` | `automation.service.ts` create, edit, delete, start-up and messages; the job queue of `automation.processor.ts` | `rule`, `trigger`, `action`, `subscription` : collections; `count`, `clients`, `subscribed` : `mqttClientOptions` and the broker; `request`, `queue`, `job` |
| `RuleEvaluation` | `automation.processor.ts` `isEffectiveRule`, `checkCondition`, `isConditionMeet` | the loop variables `i, j, k` and the three counters of the code |
| `EsSync` | `elasticsearch-sensor.service.ts`, `elasticsearch.processor.ts` | `index`, `writes`, `lost` : documents, writes under way and those that failed; `enabled`; `live`, `stray` : MQTT clients in and no longer in `mqttClients`; `job` : Bull; `reader` : each device's do-while loop; `control` : `processControl`; `request` |
| `GroupsUsers` | `group.service.ts` create, delete; `user.service.ts` invite, createUser, deleteUsers, the registration codes; permission documents; `http.strategy.ts` | `group` : groups with their ancestors, `user`, `permission`, `code` : collections; `projects` : the platform; `placed` : the groups of devices; `request` : handlers in progress, `work` : the jobs of one `Promise.all` |
| `Signage` | `eSignageCM.service.ts`, `eSignageCM.repository.ts` | `template`, `content`, `detail`, `item`, `schedule` : collections; `log`, `logged` : the logs; `page`, `writing` : files and `fs.writeFile` calls; `cms`; `request` : stages left |
| `LastValues` | what a live statistic promises (abstract) | `members`, `last`, `shown` |
| `LiveSensors` | `sensor.service.ts`, the six subscriptions with `deviceOnMongoChanged` | `place` : the group's devices; `changed`, `handler` : change events and callbacks; `setting`, `clients`, `subscribed`, `leaving` : `setting.data`, MQTT clients and the broker; `history`, `published`, `timer` |
| `StatusMonitor` | status messages in `sensor.service.ts`, `device.service.ts` (`updateDeviceStatus`) and `notification.service.ts` | `status`, `related` : device documents; `info`, `log` : device status documents and log; `mails`; `jobs` : what each service does with one message; `phase` : `onModuleInit` |
| `Paging` | nine cursor searches of seven services, and the search by page number | `rows` : the collection; `req` : the search in progress; `view` : the page and cursors the client holds; the walk so far |
| `Buildings` | `building.service.ts`, `image-mgmt` | `building`, `used` (`usedForBuilding`), `files`, `images`, `jobs` |
| `...Proofs` | theorems about `DeviceLifecycle`, `AutomationRules`, `EsSync`, `GroupsUsers`, `StatusMonitor`, `Signage`; in `SensorReadingsProofs` about `LiveSensors` and `RuleEvaluation`, in `BuildingsAndPagingProofs` about `Buildings` and `Paging` | |

An action is a stretch of code from one `await` to the next; a handler in progress is
a record in `request`, `handler` or `jobs`, with what it has read. In
`AutomationRules`, `EsSync` and `Signage` it holds the list of the stages left to do,
one action per stage.

`GroupsUsers` models the null references of Mongoose: a query replaces a reference to a
document that is gone by null (`Populated`), a handler that looks into it ends there
(`Broken`), and a handler that does not writes the null back.

Several modules choose in `Init` whether operations overlap (`overlap`, `serial`,
`calm`): one run covers both cases, and a property that the code keeps only in the
quieter one says so.

`MC*.tla` instantiate the modules for TLC (input sets, symmetry). Mutations, named
`...Mutation`, stand before the definition they change; they are plausible mistakes
(a dropped test, a swapped order) used to see that the properties can fail.

### What is abstracted

* *DeviceLifecycle*: a device is an id; names, attributes and locations are left out.
  A call on several devices is as many requests, as `Promise.all` makes it. Platform
  calls either answer or fail.
* *AutomationRules*: a device stands for its one sensor of interest, a trigger has
  one condition, a rule one notify action. With `Exclusive = TRUE` no rule is edited
  or deleted by two requests at once (the behaviour with FALSE is under hazards).
  All devices have a group.
* *RuleEvaluation*: a condition's sensor is the device's only one; texts are numbers
  with an explicit relation "is part of"; time zones are applied before the model. A
  text or switch condition with an operator its case does not handle falls through to
  the snapshot case; the model takes that for what the condition says.
* *EsSync*: one sensor, devices of one project. A request that fails to reach the
  platform is one step. A finished job's fields are cleared, nobody looks at them. Of the
  progress shown to users only this is kept: in a range of no length it is 0 / 0, which
  mongoose cannot store, and the job may fail (dates of the model are coarser than the
  code's, so it need not). The end of a range is the client's if it gives one (`Tos`), and
  may lie ahead: the oldest reading in the index is then not looked at. A failing save is
  noticed by nobody (`WriteFails`); as the rejection is not handled either, the process may
  end, which is a `Restart` after it.
* *GroupsUsers*: a user acts only when active and with a header that names one of its
  groups; what the rules of a permission allow is left open. Creating a permission is
  one step with the read before it: until the membership is stored nobody else knows its
  id. The steps of `deleteDevices` are in `DeviceLifecycle`; here a device is the set of
  its groups. E-mail, passwords, tokens and names are left out.
* *Signage*: the items of one kind are created, or deleted, in one step, and a detail is
  read together with its items. Of a page the model keeps which item is in which region.
  The write-only logs of contents, details and players, player data, weather data, the
  wording of the HTML and the search queries are left out, and so is the roll-back in
  `createTemplateContent`: it tests `String(res.id)`, which is never null. `ToCms` does
  swap months and days as the code does, though no property is about it. The mutation
  `publishScheduleWithTemplate` of the resolver is left out: it passes what the client gives
  on to the CMS and touches nothing else, so that what it publishes is for the client to
  log. The twelve layouts are data: which regions of a page have a size.
* *LiveSensors*: one subscription, since subscriptions share nothing; readings are
  numbers; which of two devices with the same extreme is named is left open; the setting that forces
  devices to be active (`DEVICE_FORCE_ACTIVE`) is left out. `calm`
  means no faults, one change at a time, and the broker's confirmation before the
  database's answer. A change between the first read and the start of the change stream
  goes unheard (`lost`), as does one whose read fails. Counting the refusal of a topic
  ends in an exception, of which nothing is seen here.
* *StatusMonitor*: a message may be missed by either listener (quality of service 0).
  Where devices are does not change; which device is found first is chosen in `Init`.
  `Init` is the server up after an undisturbed start; `Restart` goes through the whole
  of `onModuleInit` of both services, in the order `Order`. The exceptions of the
  properties are named by variables: `rushed` (a status came while the one before was
  worked on), `mixed` (several jobs on one `relatedStatus`, or the copy in
  `notification.service.ts`, which reads before it stores), `unsure` (mails overlapped
  or failed). All devices are looked up under the project of the first only
  (`projectKeys[0]`), as in the code.
* *Paging*: filters are one bit (`listed`), documents have a value for every sort field,
  ids are handed out in any order. A query that does not sort returns documents in the order
  stored, which is that of their ids here. Each search has its own query operators, since the
  copies differ; `InOrder` is the sorting of the database. Left out: `searchDevicesOnMap`, `searchUsersByKeyword`, the Wi-Fi and
  the signage lists.
* *Buildings*: the flags of several devices are set or cleared one at a time in any
  order. A failing time zone look-up is a failing platform call. What a client fills its
  form with may be old: any devices, and per floor no plan, the plan stored, one replaced
  since or one uploaded for the form. Which device is offered when a form is filled is
  therefore not a guard; `spoilt` marks the devices of a form that are `Taken` when it is
  submitted. Groups are counted, as only whether there is one matters. A plan id that was
  never an image (`FloorInput.id` may be any text) and error logs are left out, and the
  purge of trashed buildings is the clean-up of `DeviceLifecycle`. The search itself
  fails for a building that has no document yet (line 195); it is modelled by what it
  offers. Whether
  the server runs where a backslash separates directories (`backslash`) is chosen in
  `Init`: elsewhere `deleteUploadedFilebyId` finds no file and deletes none.

## 3. Runs

| run | question | result |
|---|---|---|
| `DeviceSerial` | one request or clean-up at a time, with restarts and failures: is no device lost, doubled, purged early; are abandoned ones purged? | holds (and proved, but for the purge to come) |
| `DeviceOverlap` | all interleavings of two requests, clean-up and restarts: do listed sensors exist, and apart? | holds (and proved) |
| `AutomationRules` | two requests, messages, jobs, restarts: counts, topics heard, leftovers, what a job may miss | holds (and proved) |
| `RuleEvaluation` | do the loops decide what the rule means? | holds (and proved) |
| `EsSync` | does an undisturbed job copy what was in its range, do clients match `enable`? | holds (and proved) |
| `EsFailureUndone` | does a failed job delete what it added? | **violated**: only from the cursor on |
| `GroupsUsers` | groups, invitations, registrations, removals, one or two at a time, with restarts: nothing dangles, permissions and codes match (one at a time); root user, memberships, group in use, projects (always) | holds (and proved) |
| `Signage` | additions, edits, deletions and publications, one or two at a time, with failures and restarts: contents have templates (one at a time), pages break through deletions only, what is on air is logged | holds (and proved) |
| `LiveSensors` | subscriptions of every kind while devices come and go: are members heard, and nobody else, is `LastValues` implemented? | holds (and proved) |
| `StatusMonitor` | two services on every status message, mails and calls that fail, restarts: the last status, `relatedStatus`, mails before logs | holds (and proved) |
| `Paging` | a client walking both ways through ten searches while a document changes | holds (and proved), outside the defects below |
| `Buildings` | buildings one at a time by old and new forms, plans overlapping with edits and deletions, failures, restarts: flags, floors, plans | holds (and proved), with exceptions |

`EsFailureUndone` contradicts a comment of the code, which `PROJECT.json` "findings" quotes.

### Defects that properties go around

Behaviour that looks unintended is modelled as it is, and excepted by name where a property
would fail. Two of these contradict a description: the search for devices "not used by any
building" (`building.service.ts:228`, in Chinese) offers those of a building that was
deleted and brought back, and `hasNextPage`, "are there more items?" (`pageInfo.graphql`),
is true on the last page of abnormal devices.

* `Paging`, `Continues`: devices sorted by maintenance status come unsorted, and the first
  page for ever, but in the search by page number; camera events sorted by ID have an empty
  cursor, with the same effect; ties in subscriptions sorted by rule name are compared by a
  field they do not have. `Reversible`: devices, rules and users with the same sort value are
  read backward in the wrong order. The page after the last of abnormal devices may be
  promised. `WalkOnce`, `still`: the two finds of a search of malfunctioning devices, and
  the count and the find of a staff member's, may see different documents, which ends a walk
  early.
* `AutomationRules`: two edits or deletions of one rule both give up its topics
  (`Exclusive`); the first rule of a project is not heard before a restart (`RuleHeard`
  speaks of projects with a client).
* `Buildings`, `spoilt`: nothing checks that the devices of a form are still free, so two
  forms filled from one search put a device in two buildings, and the next edit of either
  clears a flag that is needed. `addDevices`, `deleteDevices` and `restoreDevices` on a
  building leave the flags of its devices alone, and `deleteBuilding` clears them though
  the building may stay in a group that is not the user's. An update of a building
  deleted since sets them. `FlagsExact` and `OneBuilding` except these devices until an
  update or a deletion of the building puts them right.
* `Buildings`, `replaced`: a form filled before a plan was replaced writes the old plan
  back. It also writes back the groups it read, so that a building deleted meanwhile
  returns.
* `LiveSensors`: a client that connects again takes up topics the group has left, and of
  two callbacks that overlap the earlier one's topics stay (`crossed`); values of devices
  outside the group then enter the statistics, for good. A topic the broker refuses
  enters a history as a device of its own. A callback that is in progress when the
  subscription closes may connect a client that nobody ends.
* `StatusMonitor`, `mixed`: see above.
* `EsSync`, `lost`: a job whose saves fail completes all the same, and what they were to
  store is missing.
* `DeviceLifecycle`, `GroupsUsers`, `Signage`: what is claimed only of requests that do
  not overlap is broken by two that do; the hazards say how.

### Bounds, and why they are enough

* `DeviceSerial`: one device, two groups, two documents (the second shows a
  double), six events: add, delete, expiry, add again, restore and a clean-up fit.
  `Retention` 1 of a clock to 4 separates "disabled", "expired" and "long expired".
* `DeviceOverlap`: two requests in flight with the clean-up, three sensors; four
  events are each pair of handlers, a restart and one more. Retention 0 makes the
  clean-up always possible.
* `AutomationRules`: two rules, two topics, two slots, three trigger documents (an
  edit needs the old and the new ones), three events; a queue of one, since one job
  waits while another runs.
* `RuleEvaluation`: the inputs are enumerated: every trigger with up to two conditions
  and two devices of four kinds of reading, every pair of plainer triggers, every
  operator on every sensor type, every start, end and day of a year of four days
  (day 0 is a day the year does not have), hours just around midnight.
* `EsSync`: three readings and pages of two make two full pages and an overlap; two
  devices share the cursor; the end given lies ahead at first; one administrator, one
  restart, failing call or failing save, one job.
* `GroupsUsers`: from the first start of the server. Four groups are a chain one longer
  than `Deepest` 3 allows (6 in the code), and a project group with a subgroup; one user
  besides the root user, who may act once registered; two invitations' permissions and
  codes; five requests, two at a time, one restart, expired code or failure.
* `Signage`: two requests, four events: add, delete, restart and delete again, or add,
  schedule, edit and delete. Three documents of each collection let a template be
  published, updated and half-way doubled. A template has two contents, one of two kinds and
  one empty, so that a deletion is cut between a content and its items and between two
  contents; an edit changes two contents, or one twice. The proofs are for any lists of
  contents. One template type is in use; the twelve layouts are data of the same operators.
* `LiveSensors`: two devices that move between two projects and out of the group; two
  callbacks in progress overtake each other; two changes, two messages, one fault
  (reconnection, refusal, failing read).
* `StatusMonitor`: a lamp post and one device attached to it, one member of staff, two
  messages (one overtakes the other), one fault.
* `Paging`: four documents of two sort values, pages of one or two: ties within a page,
  across pages and at both ends; one change between any two awaits.
* `Buildings`: two devices, two buildings, one floor, three images, five operations, one
  fault. Overlapping operations are explored for buildings without placed devices only
  (`PlansOnly`), because only `PlanServed` is claimed of them; the proofs have no such
  bound.

### Fairness

`DeviceSerial` assumes weak fairness of the clean-up and of handlers that have
started: the cron job runs every hour, and an await on the database returns. No
request is ever obliged to come, and no restart is prevented. The others claim safety
only; in `EsSync` progress under fairness is beyond what TLC checks in reasonable time.

`CHECK_DEADLOCK FALSE` is used everywhere but in `Paging`, whose client can always go
on: elsewhere the bounds on events stop every behaviour, and the server may rest when
no request comes.

## 4. Proofs

All theorems hold for any sets given to the constants, finite or not unless an
assumption in the module says so, and for any bounds.

**`DeviceLifecycleProofs`**: `SensorsExist` (`LiveSensorsExist`: a listed sensor exists)
and `SensorsApart` (`SensorsNotShared`: none is listed twice). Neither property is
inductive: a request holds a document it read earlier, and the clean-up holds a list of
sensors to delete. `IInv` says what may be pending. `DocumentsInv` is the two properties
on the database. `RequestInv`: what a request will write lists sensors that exist and
belong to its document or to nobody. `RequestsApart`: two requests never bring the same
new sensor. `PurgeInv`: the sensors the clean-up is about to delete are listed by no live
document and brought by no request (a request whose document has gone updates nothing,
because `findByIdAndUpdate` does not insert). There is one lemma per action; the theorems
then follow by propositional temporal logic.

The properties of `DeviceSerial` have theorems too: `DocumentsTyped` (`TypeOK`, whatever
interleaves, from `Typed`) and, while requests and clean-ups come one at a time,
`NoneIsOrphaned` (`NeverOrphaned`), `OneDocument` (`OneDocPerDevice`),
`PurgesAreJustified` (`PurgeJustified`) and `MembershipsAreKept` (`MembershipKept`). With
overlapping requests these four are false. `SerialInv` relates what is pending to what is
stored: the lists that a request is about to write, or that the clean-up has swept, still
recall every group that the document remembers (`Recalls`), and a request that found no
document is about a device that has none. The clock may go on meanwhile; `RecallsLater`
says that this only makes more entries expire. The two action properties follow from
`Changes`, what a step may do to a live document. All of this rests on what the loop of
`handleCron` computes, for a list of any length: an entry that has not expired stays
(`SweepKeeps`). `Sweep` is a recursive function over the indices of the list; that it
exists and what it returns is shown for the least index that would break it (`Smallest`,
from the well-foundedness of the natural numbers), which needs no induction rule.

**`GroupsUsersProofs`**: every property of the run, for any number of overlapping
requests where the property does not ask for one at a time. Six theorems, each with its
inductive invariant:

* `DocumentsTyped` (`TypeOK`) and `RootUserKept` (`AdminKept`: the root user keeps the
  root group, with its permission, as the first of its groups). Every handler writes back
  whole users that it read before other handlers ran, and deletes permissions by the ids
  it read. `IInv` is therefore about copies. `Sound` says what a copy of a user may be,
  stored (`AccountsInv`) or carried by an invitation, a registration or a removal
  (`RequestInv`, `JobInv`): the root user's begins with the root group and the root
  permission, and nobody else's has that permission. Reading keeps this
  (`FetchedSound`), because the root group and the permission exist, so that neither is
  read as null. `JobInv` adds that no removal works on the root user: that is the test
  `Protected`. The root group is not deleted because a group is deleted only by somebody
  who uses one above it, and none is (`RootInv`); no new permission is the root one
  because its id is taken.
* `NobodyJoinsTwice` (`JoinedOnce`), from `OnceInv`: no copy lists a group twice. An
  invitation appends to a copy that it has just looked the group up in; a null it read is
  in no list of groups.
* `ProjectsStay` (`ProjectsBacked`), from `ProjectInv`: the project of a creation in
  progress is its own (`RequestOwn`), and no two groups share one (`Unshared`), so that
  the deletion of one group takes no project from another.
* `DeletedGroupsForgotten` (`GroupsKnown`), one request at a time, from `KnownInv`: while
  no other request runs (`Lone`), what the request will write names stored groups, or the
  group that its own deletion has yet to take out of the users (`DeletionKnown`,
  `WorkKnown`).
* `OnePermissionEach` (`PermissionsExact`) and `CodesForTheInvited` (`CodesMatchStatus`),
  one request at a time and with nothing failed, both from `ExactInv` (`RequestsExact`):
  stored users and permissions match but for what the request in progress is about to
  write (`PermissionsMatch`, `CodesMatch`), and what it carries is what is stored but for
  its own change (`CopiesExact`).

**`AutomationRulesProofs`**: `CountsStayExact` (`CountsExact`) and `RulesAreHeard`
(`RuleHeard`), both under the assumption `Exclusive`: without it they are false. A request
gives up the topics of the triggers it read when it arrived; the counts stay exact only
if those triggers are still stored and nobody else is about to delete them. So `IInv`
says whose triggers are whose: a rule and the request on it own what they list, and no
trigger has two owners (`Apart`, `Known`, `Alone`). `Phases` says how far a request is,
which rests on the order of the stages (`Ordered`: topics are given up right before the
triggers are deleted, and nothing of them follows the writing of the rule). `Kept`: what
a rule lists once its request has written it is what that request made. `CountsExact`
counts sets, so the lemmas are about cardinalities: what one step adds to or takes from
the triggers that need a topic. `RuleHeard` follows with `CountedAreHeard` (a topic with
a use count is subscribed where there is a client): the triggers of a rule at rest are
stored and not given up, hence counted.

`NothingIsLeft` (`NothingLeftOver`) and `FailuresExplained` (`JobFailureExplained`), under
the same assumption, are about what else a rule has: actions and subscriptions. They need
a second invariant on top of `IInv`, `LeftInv`. The stages left to a request are sorted by
`Place` and belong to one plan (`Planned`: whatever is made or deleted is written later,
users are subscribed after the old subscriptions are gone, a removal makes nothing).
`Halfway` says what a request still holds, by its stages left; `Underway` what it has done
to the collections: the actions it carries are stored, and the users it has yet to
subscribe have no subscription. A rule that no request works on has the subscriptions its
actions ask for (`Rests`), an action has one owner (`ActionsApart`), and, until a restart
cuts a request short, every stored trigger and action is minded by a rule at rest or by a
request that will write or delete it (`TriggersMinded`, `ActionsMinded`). A step works on
one rule: `Locally` reduces `LeftInv` to that rule, and the lemma of each stage then says
what it does there. `JobSound` is what a job may rely on until it is disturbed.

**`SensorReadingsProofs`** holds the theorems of two modules that share nothing but the
readings. Of `LiveSensors`: `MembersAreHeard` (`MembersHeard`), `NothingElseIsHeard`
(`OnlyMembersHeard`) and `Implements` (`ImplementsLastValues`, the refinement of
`LastValues`). `AboutToBeHeard` strengthens the first: with no change to come and nobody
asking, the members of now are subscribed or some callback has them in hand. `StrayInv` is behind the second:
until two callbacks cross, the topics subscribed are those the next callback will drop, or
came with a connection (`Recalled`). `OneByOne`
is what `calm` amounts to: one callback at most, and nothing subscribed while it works.
For the refinement every step maps to `Follow`, `Hear` or a stutter, and `Untimed` says
that the throttle plays no part in kinds with a history.

Of `RuleEvaluation`: `TriggeredWhenMeant` (`TriggersWhenMeant`),
`FailsWhenMet` (`ErrorWhenMet`) and `PassedOverWhenMeant` (`EffectiveWhenMeant`), for
every rule, every number of triggers, devices and conditions, and all readings. The
invariant is what the three nested loops have found: every trigger, device and condition
already passed held (AND) or did not (OR), and the three counters say which. The value
of a rule is a quantifier over its triggers, so no induction over data is needed: one
step of a loop adds one element to what has been passed.

**`BuildingsAndPagingProofs`** is about two modules that meet in `building.service.ts`,
which keeps buildings and has a copy of the search by cursor. Of `Buildings`:
`PlanAlwaysServed` (`PlanServed`), whatever overlaps and fails.
`NewUnknown`: until it is stored, an image is known to its upload alone. `Uploaded`: what
is uploaded stays. `OldReplaced`: an image about to be deleted counts as replaced.
`FormPlans`: a form brings a plan that has been replaced or is there.
Then `FlagsAreExact` (`FlagsExact`) and `InOneBuilding` (`OneBuilding`). While operations
come one at a time (`Alone`), `Marks` says how far the flags of the devices in hand are,
`OthersSettled` that all other devices have their flag exactly when they are on a floor of
one building, and `NotElsewhere` that the devices of an operation are in no other
building. Each speaks of devices that are not in `spoilt`; `RepairedOnly` says that what
leaves that set is put right. Why a device gets into it is for the model to say: the
theorems do not claim that the exceptions are rare.

Of `Paging`: `ShownOnce` (`WalkOnce`), `PagesAdjoin` (`PageAdjoins`) and `FlagsAreTrue`
(`PageInfoTrue`), for any documents, sort values of any length, page sizes and numbers of
changes. The assumptions are that `_id`s are positive numbers, of which finitely many are
handed out (`DocsAssumption`), that a page has a natural size (`SizeAssumption`) and that
sort values are tuples of one length (`KeysAssumption`). The argument has three layers.

* *Order.* `Precedes` orders places, that is, `_id`s with sort values
  (`PrecedesOrder`): a total order, in which the _id decides between equal values. A
  finite set has one list in that order, which `InOrder` gives by counting
  (`OrderedFacts`), and what one of its first pages leaves over is what lies beyond its
  last document.
* *Queries.* The copies of the query, with their own treatment of ties, give the
  same: forward the first `size + 1` of `AfterPlace(p)`, the documents listed beyond the
  cursor's place, and backward the last of `BeforePlace(p)` (`QueryFacts`). The copies
  and fields for which this is false are those `Continues` and `Reversible` except.
* *Steps.* The invariant is `PagingInv`, whose parts are `TypeInv`, `CalmInv` and
  `WalkInv`. `CalmInv`: while nothing changes, what a search has found so far is the
  answer to its query from the place of its cursor (`CalmSearch`), and the page shown is
  that (`CalmView`). `WalkInv`: at every await, of the documents that stayed as they
  were, exactly those not beyond the cursor's place have been shown (`SeenTo`,
  `PageSeen`), provided that the document that serves as the cursor has not changed
  (`Trusted`); a search by page number has shown as many as the pages before it hold
  (`ShownTo`). The properties speak of pages only, and are not inductive: a page
  in the making lies in `req`, and between the query and the page the documents may be
  read again, be changed or go.

**`StatusMonitorProofs`**: `StatusIsStored` (`StatusStored`), `RelatedIsExact`
(`RelatedExact`), `LogsAreMailed` (`LoggedAreMailed`) and `InfoIsFollowed`
(`InfoFollows`). Each needs to know how far the jobs of a message are. `StoredOrPending`:
the status told last is stored, or some job will store it. `Relating`: what
`relatedStatus` of a device says while one job alone works around it. `MailInv`: a status
that is about to be logged has been mailed, and the mailer's memory follows what it has
heard. Updates and mails work on different collections, which `UpdaterFrame` and
`MailerFrame` state, so that each part is proved against its own steps only.

**`EsSyncProofs`**: `HistoryIsCopied` (`HistoryCopied`) and, for one administrator at a
time, `EnabledAreHeard` (`LiveWhenEnabled`; two administrators break it, see the hazards).
`Copying` says how far a reader is: one that asks from time `t` on has sent everything of
its device before `t`, one that has a page has sent everything up to its last reading.
That a page reaches so far, and that a page of at most one reading is the last, is
`PageIsFirst`, about the first `PageSize` readings of any finite history. It needs
`PageSize > 1`. What a device reports while a job runs may be in its range, but is later
than `asof`, the time at which the readers started.
`LiveInv` follows the clients through the stages of a request.

**`SignageProofs`**: `TypeCorrect`, `PublishedSchedulesAreLogged` (`PublishedAreLogged`),
`ContentsKeepTemplates` (`ContentsHaveTemplate`) and `DanglingItemsAreExplained`
(`DanglingExplained`), for any requests in progress at once where the property does not
ask for one at a time, and for templates with any number of contents and details. A
handler is the list of stages that are left, so the invariants speak of lists. `TypeInv`:
the stages belong to one kind of request, and items are created right before they are
listed (`Paired`). The rest says what the stages left may rely on:

* `ScheduleJob`: a handler that has yet to tell the CMS has a schedule that is logged or
  gone (`Settled`, which no other handler can undo, because a deleted schedule does not
  come back), or has yet to log it before it tells.
* `ContentJob`: a deletion that has yet to delete the template has the deletion of each
  content of the template before it in the list, and a content is only created after its
  template.
* `ItemsInv`: what a deletion is about to take is `Doomed`: the details that list it
  belong to contents that are gone or whose template's deletion was logged, and no handler
  holds it, that is, has created it and not listed it yet (`HeldAreFresh`). An item is
  listed by one detail. The invariant is needed because a handler deletes ids it read
  while other handlers edited the same detail; `DoomedStays` is the heart of the proof.

A step replaces the first stage by others (`Moved`, `Inserted`); the lemmas about `Ahead`
carry each of these facts from a list to what it becomes, and each stage is then looked at
once. `SignageAssumption` says that drafts and changes are such, that no document looks
like a deleted one, and that ids of images are not ids of items. `ContentsOf` sorts the
contents by rank, so that the proofs can rest on cardinalities (`RankFacts`).

Every safety property of a passing run is stated by a theorem. Out of reach of the prover,
and only model-checked: liveness (`EventuallyPurged`).

## 5. Plan

Done: all components whose state takes more than one step to change, but lamps and
sign-in; proofs for all of them. Left, in this order:

1. **LampSchedule** (`lamp`): the choice of the schedule and of the next change, over a
   small year; the schedule applied is the one whose day came last.
2. Two requests on one rule: what survives when `Exclusive` is FALSE.

## 6. Not modelled

* Lamp schedules (one document, one timer), sign-in and tokens (mostly the oauth2-server
  library), profile, password and LINE fields of users, role templates.
* Emergency calls, LINE, mail contents, the dashboard, log queries, camera video and
  layouts, weather, the HTML of pages: input and output that the parts modelled do not
  look at again.
* Histories and aggregations of sensors, and what the filters of searches select:
  queries.
* The upload and deletion of several images, which repeat what `Buildings` models for
  one.
* The Wi-Fi hotspot module, which `app.module.ts` does not load.

The listing under "components" gives the reason for each, and the notes under "hazards"
say which behaviours of the modelled parts no property covers yet and why.

## 7. Running

    tlc -workers 2 -config DeviceOverlap.cfg MCDeviceLifecycle.tla
    tlc -workers 2 -config Signage.cfg MCSignage.tla
    tlapm AutomationRulesProofs.tla

The module of each run is in `PROJECT.json`. The runs take from a few seconds to about
two minutes; `AutomationRulesProofs` and `GroupsUsersProofs` are the longest proofs.
