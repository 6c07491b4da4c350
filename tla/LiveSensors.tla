----------------------------- MODULE LiveSensors ------------------------------
(***************************************************************************)
(* The subscriptions of modules/sensor/sensor.service.ts: MQTT clients and *)
(* topics that follow the devices of a group through the change stream of  *)
(* the devices collection (deviceOnMongoChanged in device.service.ts), and *)
(* the values and statistics published from the messages.                  *)
(*                                                                         *)
(* One subscription, of any kind; subscriptions share nothing.  A callback *)
(* of the change stream is a handler: it drops the topics (Start), asks    *)
(* for the devices of the group (Read) and subscribes anew (Refresh...).   *)
(***************************************************************************)
EXTENDS Naturals, FiniteSets, Functions

CONSTANTS
  Devices, Projects, Values, Faulty, Text,  \* as in LastValues
  Handlers,     \* callbacks of the change stream in progress at once
  MaxChanges,   \* bound: changes of device documents
  MaxMessages,  \* bound: messages
  MaxFaults,    \* bound: reconnections, refusals, failing reads
  None

ASSUME StatusAssumption == Faulty \in Values /\ Text \in Values /\ Values \subseteq Nat
ASSUME PlaceAssumption == None \notin Projects /\ None \notin Devices

VARIABLES
  kind,        \* which subscription; chosen at the start
  calm,        \* chosen at the start: no faults, and one change at a time
  place,       \* the project of each device in the group, None outside the group
  stage,       \* new, asked (the devices were read), open, closed
  changed,     \* events of the change stream whose callback has not begun
  handler,     \* callbacks in progress
  setting,     \* setting.data: the devices followed, with their projects
  clients,     \* each client with the devices of the option it was created with
  dead,        \* clients that were ended
  subscribed,  \* topics at the broker: <<project, device>>
  leaving,     \* topics given up whose last messages may still be on the way
  history,     \* the map history
  published,   \* what was published last
  timer,       \* the throttle of sensorValueStatsChanged
  asking,      \* the totals being asked for: of which devices
  lost,        \* a change since the last read went unheard, or its read failed
  crossed,     \* two callbacks were in progress at once
  reconnected, \* projects whose client connected again, or late
  spent        \* [changes, messages, faults] so far

base == <<kind, calm>>
marks == <<crossed, reconnected>>
topics == <<clients, dead, subscribed, leaving>>
output == <<history, published, timer, asking>>
vars == <<kind, calm, place, stage, changed, handler, setting, clients, dead,
          subscribed, leaving, history, published, timer, asking, lost, crossed, reconnected, spent>>

Summarised == {"max", "min", "count", "rate"}     \* keep a history
Following  == Summarised \cup {"stats", "server"} \* watch the devices collection
Kinds      == Following \cup {"value", "status"}

Idle    == [pc |-> "idle", found |-> None]
Asking  == [pc |-> "asking", found |-> None]
Nothing == [d \in {} |-> 0]

Members == UNION {[S -> Projects] : S \in SUBSET Devices}

\* The devices found under the group, by the project of their first group.
FoundNow == [d \in {d \in Devices : place[d] # None} |-> place[d]]

Topics(s) == {<<s[d], d>> : d \in DOMAIN s}

\* The options: one client for each project, with the topics of its devices.
Options(s) == [p \in {s[d] : d \in DOMAIN s} |-> {d \in DOMAIN s : s[d] = p}]

Quiet == changed = 0 /\ \A h \in Handlers : handler[h] = Idle

Init ==
  /\ kind \in Kinds /\ calm \in BOOLEAN
  /\ place \in [Devices -> Projects \cup {None}]
  /\ stage = "new" /\ changed = 0 /\ handler = [h \in Handlers |-> Idle]
  /\ setting = Nothing /\ clients = Nothing /\ dead = {} /\ subscribed = {} /\ leaving = {}
  /\ history = Nothing /\ published = None
  /\ timer = "off" /\ asking = {}
  /\ lost = FALSE /\ crossed = FALSE /\ reconnected = {}
  /\ spent = [changes |-> 0, messages |-> 0, faults |-> 0]

Spend(what, max) == spent[what] < max /\ spent' = [spent EXCEPT ![what] = @ + 1]

-------------------------------------------------------------------------------
(* Opening a subscription.                                                  *)

Open(devices) ==
  /\ stage = "new" /\ stage' = "asked" /\ setting' = devices
  /\ UNCHANGED <<base, marks, place, changed, handler, topics, output, lost, spent>>

\* mqttSettingFromGroup, for the subscriptions of a group and the listener of the server.
\* Statistics of a group without devices are refused.
OpenGroup ==
  /\ kind \in Following
  /\ kind = "stats" => FoundNow # Nothing
  /\ Open(FoundNow)

\* One device, or the devices listed.  Each is looked up; one outside any group ends the request.
OpenValue ==
  /\ kind = "value"
  /\ \E d \in Devices : place[d] # None /\ Open([e \in {d} |-> place[d]])
OpenStatus ==
  /\ kind = "status"
  /\ \E S \in SUBSET Devices : (\A d \in S : place[d] # None) /\ Open([d \in S |-> place[d]])

\* Clients are connected and subscribe; only then is the collection watched.
SubscribeToMqtt ==
  /\ stage = "asked" /\ stage' = "open"
  /\ clients' = Options(setting) /\ subscribed' = Topics(setting)
  /\ timer' = IF kind = "stats" THEN "initial" ELSE "off"
  /\ asking' = IF kind = "stats" THEN {DOMAIN setting} ELSE {}
  /\ UNCHANGED <<base, marks, place, changed, handler, setting, dead, leaving, history, published, lost, spent>>

\* The client has left: connections are ended and the stream closed, whatever is in progress; a
\* callback that goes on may still connect a client, which nobody ends.
Close ==
  /\ stage = "open" /\ stage' = "closed"
  /\ dead' = DOMAIN clients /\ subscribed' = {} /\ leaving' = {}
  /\ changed' \in 0..changed
  /\ UNCHANGED <<base, marks, place, handler, setting, clients, output, lost, spent>>

-------------------------------------------------------------------------------
(* Changes of the devices collection.                                       *)

Watched == stage = "open" /\ kind \in Following

\* A device enters or leaves the group, changes its first group, or another device is written.
Change(d, p) ==
  /\ stage # "new" /\ Spend("changes", MaxChanges)
  /\ calm => Quiet /\ leaving = {} /\ stage # "asked"
  /\ place' = [place EXCEPT ![d] = p]
  /\ changed' = IF Watched THEN changed + 1 ELSE changed
  /\ lost' = (lost \/ stage = "asked")
  /\ UNCHANGED <<base, marks, stage, handler, setting, topics, output>>

\* Each callback begins when its document was read again; nothing is done if that is gone
\* meanwhile, since the event of its deletion is to come.
OnChange ==
  /\ changed > 1 /\ changed' = changed - 1
  /\ UNCHANGED <<base, marks, place, stage, handler, setting, topics, output, lost, spent>>

\* The document cannot be read: no callback begins.
OnChangeFails ==
  /\ ~calm /\ changed > 0 /\ Spend("faults", MaxFaults)
  /\ changed' = changed - 1 /\ lost' = TRUE
  /\ UNCHANGED <<base, marks, place, stage, handler, setting, topics, output>>

Start(h) ==
  /\ changed > 0 /\ handler[h] = Idle
  /\ changed' = changed - 1
  /\ handler' = [handler EXCEPT ![h] = Asking]
  /\ subscribed' = subscribed \ Topics(setting)
  /\ leaving' = leaving \cup (Topics(setting) \cap subscribed)
  /\ crossed' = (crossed \/ \E g \in Handlers : handler[g] # Idle)
  /\ UNCHANGED <<base, reconnected, place, stage, setting, clients, dead, output, lost, spent>>

\* The broker has confirmed: no message of the topics given up is on its way any more.
Confirmed ==
  /\ leaving # {} /\ leaving' = {}
  /\ UNCHANGED <<base, marks, place, stage, changed, handler, setting, clients, dead, subscribed, output, lost, spent>>

Read(h) ==
  /\ handler[h].pc = "asking"
  /\ handler' = [handler EXCEPT ![h] = [pc |-> "answered", found |-> FoundNow]]
  /\ lost' = FALSE
  /\ UNCHANGED <<base, marks, place, stage, changed, setting, topics, output, spent>>

\* The database fails, or a device's first group is gone: the callback ends, its topics dropped.
ReadFails(h) ==
  /\ ~calm /\ handler[h].pc = "asking" /\ Spend("faults", MaxFaults)
  /\ handler' = [handler EXCEPT ![h] = Idle]
  /\ lost' = TRUE
  /\ UNCHANGED <<base, marks, place, stage, changed, setting, topics, output>>

\* Mutation: topics are dropped only when the new ones are known.
LateUnsubscribeMutation(found) ==
  /\ setting' = found
  /\ clients' = [p \in DOMAIN clients \cup DOMAIN Options(found) |->
                   IF p \in DOMAIN clients THEN clients[p] ELSE Options(found)[p]]
  /\ subscribed' = (subscribed \ Topics(setting)) \cup {t \in Topics(found) : t[1] \notin dead}

\* Mutation: the topics to drop next time are still the old ones.
OldSettingMutation(found) ==
  /\ UNCHANGED setting
  /\ clients' = [p \in DOMAIN clients \cup DOMAIN Options(found) |->
                   IF p \in DOMAIN clients THEN clients[p] ELSE Options(found)[p]]
  /\ subscribed' = subscribed \cup {t \in Topics(found) : t[1] \notin dead}

\* The new setting: clients for projects that had none, and all topics; a client that was
\* ended takes no subscription.
Resubscribed(found) ==
  /\ setting' = found
  /\ clients' = [p \in DOMAIN clients \cup DOMAIN Options(found) |->
                   IF p \in DOMAIN clients THEN clients[p] ELSE Options(found)[p]]
  /\ subscribed' = subscribed \cup {t \in Topics(found) : t[1] \notin dead}

Refresh(h, pruned) ==
  /\ handler[h].pc = "answered"
  /\ calm => leaving = {}
  /\ handler' = [handler EXCEPT ![h] = Idle]
  /\ Resubscribed(handler[h].found)
  /\ history' = pruned
  /\ UNCHANGED <<base, marks, place, stage, changed, dead, leaving, published, timer, asking, lost, spent>>

\* Mutation: values of devices that left stay in the history.
KeepHistoryMutation(found) == history

Valid(found) == Restrict(history, DOMAIN history \cap DOMAIN found)

RefreshExtreme(h) == kind \in {"max", "min", "count"} /\ Refresh(h, Valid(handler[h].found))
RefreshRate(h)    == kind = "rate" /\ Refresh(h, Valid(handler[h].found))
RefreshStats(h)   == kind = "stats" /\ Refresh(h, history)
RefreshServer(h)  == kind = "server" /\ Refresh(h, history)

-------------------------------------------------------------------------------
(* Messages.                                                                *)

\* A message of a topic that is subscribed, or was until a moment ago.
Heard(p, d) ==
  /\ <<p, d>> \in subscribed \cup leaving
  /\ Spend("messages", MaxMessages)
  /\ UNCHANGED <<base, marks, place, stage, changed, handler, setting, topics, lost>>

Entered(d, v) == [e \in DOMAIN history \cup {d} |-> IF e = d THEN v ELSE history[e]]

\* The largest or smallest value; of several, the one that entered the map first, which
\* is left open here.  It is published when its reading is not the one published last.  A
\* reading of no device that came first (Refused) stays the extreme: nothing exceeds NaN.
ExtremeIs(d, v, h) ==
  /\ d \in DOMAIN h /\ v = h[d]
  /\ None \in DOMAIN h => d = None
  /\ kind = "max" /\ d # None => \A e \in DOMAIN h : ~(h[e] > v)
  /\ kind = "min" /\ d # None => \A e \in DOMAIN h : ~(h[e] < v)

OfText(h) == {d \in DOMAIN h : h[d] = Text}
Errors(h) == {d \in DOMAIN h : h[d] = Faulty}

PublishExtreme ==
  \E e \in Devices \cup {None} : ExtremeIs(e, history'[e], history') /\ published' = <<e, history'[e]>>

HearExtreme(p, d, v) ==
  /\ kind \in {"max", "min"} /\ Heard(p, d)
  /\ history' = Entered(d, v)
  /\ PublishExtreme
  /\ UNCHANGED <<timer, asking>>

HearCount(p, d, v) ==
  /\ kind = "count" /\ Heard(p, d)
  /\ history' = Entered(d, v)
  /\ published' = <<Cardinality(OfText(history'))>>
  /\ UNCHANGED <<timer, asking>>

HearRate(p, d, v) ==
  /\ kind = "rate" /\ Heard(p, d)
  /\ history' = Entered(d, v)
  /\ published' = <<Cardinality(DOMAIN history'), Cardinality(Errors(history'))>>
  /\ UNCHANGED <<timer, asking>>

\* A message asks for the totals three seconds later, unless that is arranged already.
DelayStats == timer' = IF timer = "ready" THEN "delay" ELSE timer
HearStats(p, d) ==
  /\ kind = "stats" /\ Heard(p, d)
  /\ DelayStats
  /\ UNCHANGED <<history, published, asking>>

SixSeconds ==
  /\ timer = "initial" /\ timer' = "ready"
  /\ UNCHANGED <<base, marks, place, stage, changed, handler, setting, topics, history, published, asking, lost, spent>>
ThreeSeconds ==
  /\ timer = "delay" /\ timer' = "ready"
  /\ asking' = asking \cup {DOMAIN setting}
  /\ UNCHANGED <<base, marks, place, stage, changed, handler, setting, topics, history, published, lost, spent>>

\* The statistics of each device have been asked of the platform, and are added up; one total
\* may overtake another, or fail.
PublishStats ==
  /\ \E devices \in asking : asking' = asking \ {devices} /\ published' \in {devices, published}
  /\ UNCHANGED <<base, marks, place, stage, changed, handler, setting, topics, history, timer, lost, spent>>

\* The value, or the status of a device, as it comes.
HearValue(p, d, v) ==
  /\ kind = "value" /\ Heard(p, d) /\ published' = <<d, v>>
  /\ UNCHANGED <<history, timer, asking>>
HearStatus(p, d, v) ==
  /\ kind = "status" /\ Heard(p, d) /\ published' = <<d, v>>
  /\ UNCHANGED <<history, timer, asking>>

\* The broker refuses a topic by a message without a device, which is taken for one (only the
\* listener of the server looks).  A status of no device is not online, a reading NaN, which is
\* never the extreme unless it is the first; counting ends in an exception, before anything.
Refused(p, d) ==
  /\ ~calm /\ <<p, d>> \in subscribed /\ Spend("faults", MaxFaults)
  /\ \/ /\ kind \in {"max", "min"} /\ UNCHANGED timer
        /\ history' = IF history = Nothing THEN Entered(None, None) ELSE history
        /\ PublishExtreme
     \/ /\ kind = "rate" /\ UNCHANGED timer
        /\ history' = Entered(None, Faulty)
        /\ published' = <<Cardinality(DOMAIN history'), Cardinality(Errors(history'))>>
     \/ kind = "value" /\ published' = <<None, None>> /\ UNCHANGED <<history, timer>>
     \/ kind = "status" /\ published' = <<None, Faulty>> /\ UNCHANGED <<history, timer>>
     \/ kind = "stats" /\ DelayStats /\ UNCHANGED <<history, published>>
  /\ UNCHANGED <<base, marks, place, stage, changed, handler, setting, topics, lost, asking>>

\* Each connection, the first and any later, subscribes the topics the client was created
\* with; those in force are kept.
Reconnect(p) ==
  /\ ~calm /\ p \in DOMAIN clients \ dead /\ Spend("faults", MaxFaults)
  /\ subscribed' = subscribed \cup {<<p, d>> : d \in clients[p]}
  /\ reconnected' = reconnected \cup {p}
  /\ UNCHANGED <<base, crossed, place, stage, changed, handler, setting, clients, dead, leaving, output, lost>>

-------------------------------------------------------------------------------
Callback(h) ==
  \/ Start(h) \/ Read(h) \/ ReadFails(h)
  \/ RefreshExtreme(h) \/ RefreshRate(h) \/ RefreshStats(h) \/ RefreshServer(h)

Message(p, d) ==
  \/ \E v \in Values : HearExtreme(p, d, v) \/ HearCount(p, d, v) \/ HearRate(p, d, v)
                       \/ HearValue(p, d, v) \/ HearStatus(p, d, v)
  \/ HearStats(p, d) \/ Refused(p, d)

Next ==
  \/ OpenGroup \/ OpenValue \/ OpenStatus \/ SubscribeToMqtt \/ Close
  \/ \E d \in Devices, p \in Projects \cup {None} : Change(d, p)
  \/ OnChange \/ OnChangeFails \/ Confirmed
  \/ \E h \in Handlers : Callback(h)
  \/ \E p \in Projects, d \in Devices : Message(p, d)
  \/ SixSeconds \/ ThreeSeconds \/ PublishStats
  \/ \E p \in Projects : Reconnect(p)

Spec == Init /\ [][Next]_vars

-------------------------------------------------------------------------------

\* Once all changes are handled, every device of the group is listened to, through the
\* client of its project, in whatever order callbacks overtook each other, and however
\* often a client reconnected: what a callback drops, it or a later one subscribes again.
MembersHeard ==
  stage = "open" /\ kind \in Following /\ Quiet /\ ~lost =>
    Topics(FoundNow) \subseteq subscribed

\* And nothing else is listened to, as long as no two callbacks crossed (of which the later one
\* drops an older list), but for the topics a client that connected again, or after the devices
\* had changed, was created with: those stay for good.
OnlyMembersHeard ==
  stage = "open" /\ kind \in Following /\ Quiet /\ ~lost /\ ~crossed =>
    \A t \in subscribed \ Topics(FoundNow) : t[1] \in reconnected /\ t[2] \in clients[t[1]]

\* A calm subscription with a history shows the summaries of its members' last values.
Shows == calm /\ kind \in Summarised

Statistic == INSTANCE LastValues WITH
  kind    <- IF Shows THEN kind ELSE "max",
  members <- IF Shows THEN setting ELSE Nothing,
  last    <- IF Shows THEN history ELSE Nothing,
  shown   <- IF Shows THEN published ELSE None

ImplementsLastValues == Statistic!Spec
===============================================================================
