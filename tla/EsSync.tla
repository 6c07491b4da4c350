-------------------------------- MODULE EsSync --------------------------------
(***************************************************************************)
(* The copy of one kind of sensor (a device type and a sensor id) from the *)
(* IoT platform to Elasticsearch.  While the sensor is enabled, an MQTT    *)
(* client writes each new reading; history is copied by a background job   *)
(* of the Bull queue, page by page and device by device.  Administrators   *)
(* enable, disable, add history and delete the index; each of these is a   *)
(* chain of awaits.  processControl, in memory, tells a job to go on.      *)
(*                                                                         *)
(* All devices are in one project.  Of the progress shown to users, only   *)
(* that it can be no number is kept.                                       *)
(***************************************************************************)
EXTENDS Naturals, Sequences, FiniteSets, FiniteSetsExt

CONSTANTS
    Devices,     \* devices with this sensor
    Slots,       \* requests of administrators being served
    Jobs,        \* ids of Bull jobs
    Froms,       \* start dates of the history that requests add
    Tos,         \* end dates that may be given with them; 0 is none
    PageSize,    \* most readings the platform returns at once
    FirstTime,   \* time of the last reading before the sensor is first looked at
    MaxTime,     \* bound: readings have times 1..MaxTime
    MaxEvents,   \* bound: requests in a behaviour
    MaxMishaps   \* bound: restarts of the server, failing calls to the platform, failing saves

ASSUME SyncAssumption ==
    /\ PageSize \in Nat \ {0, 1}
    /\ Froms \subseteq Nat /\ Tos \subseteq Nat
    /\ MaxTime \in Nat
    /\ FirstTime \in 0..MaxTime
    /\ MaxEvents \in Nat /\ MaxMishaps \in Nat

VARIABLES
    clock,     \* time of the last reading
    history,   \* readings the platform holds: <<device, time>>
    index,     \* readings in the Elasticsearch index
    writes,    \* readings on their way to the index; nobody waits for them
    lost,      \* for the properties: readings whose last save failed
    enabled,   \* elasticsearch_sensors: enable
    live,      \* the client in mqttClients is subscribed to the sensor
    stray,     \* so is one that is no longer in mqttClients but was never closed
    job,       \* the jobs in Redis
    reader,    \* what a running job does for each device
    control,   \* processControl
    request,   \* the requests being served
    spent      \* requests, and restarts and failures, so far

memory == <<live, stray, reader, control, request>>

vars == <<clock, history, index, writes, lost, enabled, job, memory, spent>>

Readings == Devices \X (1..MaxTime)

-----------------------------------------------------------------------------
(* The platform.                                                           *)

\* Some devices report; the MQTT client writes what it hears.
Report ==
    /\ clock < MaxTime
    /\ clock' = clock + 1
    /\ \E ds \in SUBSET Devices \ {{}} :
          LET new == {<<d, clock + 1>> : d \in ds}
          IN  /\ history' = history \cup new
              /\ writes' = IF live \/ stray THEN writes \cup new ELSE writes
    /\ UNCHANGED <<index, lost, enabled, job, memory, spent>>

Write ==
    /\ \E w \in writes : index' = index \cup {w} /\ writes' = writes \ {w}
    /\ UNCHANGED <<clock, history, lost, enabled, job, memory, spent>>

\* A save fails.  Nobody waits for it: its job completes all the same, unless the
\* rejection that nobody handles ends the process (Restart).
WriteFails ==
    /\ spent.mishaps < MaxMishaps
    /\ spent' = [spent EXCEPT !.mishaps = @ + 1]
    /\ \E w \in writes : lost' = lost \cup {w} /\ writes' = writes \ {w}
    /\ UNCHANGED <<clock, history, index, enabled, job, memory>>

\* The first readings of a device from one time to another, both included.
Page(d, from, to) ==
    LET found == {r \in history : r[1] = d /\ r[2] \in from..to}
    IN  {r \in found : Cardinality({q \in found : q[2] < r[2]}) < PageSize}

-----------------------------------------------------------------------------
(* Jobs.                                                                   *)

NoReader == [d \in Devices |-> [pc |-> "none"]]

Active == {x \in Jobs : job[x].state = "active"}

\* Bull runs one job for each of the two @Process handlers at the same time.
TakeJob(x) ==
    /\ job[x].state = "waiting"
    /\ Cardinality(Active) < 2
    /\ job' = [job EXCEPT ![x].state = "active", ![x].disturbed = FALSE]
    /\ reader' = [reader EXCEPT ![x] = NoReader]
    /\ UNCHANGED <<clock, history, index, writes, lost, enabled, live, stray, control, request, spent>>

GoesOn(x) == control[x] = "on"

\* The synchronous stretch from setting the cursor, which the devices share, to
\* asking for the next page: no other device comes between the two.
Asking(x, from) == IF GoesOn(x) THEN [pc |-> "asked", from |-> from] ELSE [pc |-> "stopped"]

StartReaders(x) ==
    /\ job[x].state = "active"
    /\ \A d \in Devices : reader[x][d].pc = "none"
    /\ reader' = [reader EXCEPT ![x] = [d \in Devices |-> Asking(x, job[x].from)]]
    /\ job' = [job EXCEPT ![x].cursor = job[x].from, ![x].asof = clock]
    /\ UNCHANGED <<clock, history, index, writes, lost, enabled, live, stray, control, request, spent>>

\* Mutation: a page of two readings is taken for the last.
TwoReadingsMutation(page) == Cardinality(page) > 2

\* A page of one reading is the last: the cursor is part of the next page.
MorePages(page) == Cardinality(page) > 1

Answer(x, d) ==
    /\ reader[x][d].pc = "asked"
    /\ LET page == Page(d, reader[x][d].from, job[x].to)
       IN  /\ writes' = writes \cup page /\ lost' = lost \ page
           /\ reader' = [reader EXCEPT ![x][d] =
                 IF page = {} THEN [pc |-> "done"]
                 ELSE [pc |-> "progress", from |-> reader[x][d].from, more |-> MorePages(page),
                       last |-> CHOOSE t \in {r[2] : r \in page} : \A r \in page : r[2] <= t]]
    /\ UNCHANGED <<clock, history, index, enabled, job, live, stray, control, request, spent>>

\* onProgressChanged returns; on with the next page.
Progress(x, d) ==
    /\ reader[x][d].pc = "progress"
    /\ reader' = [reader EXCEPT ![x][d] =
          IF reader[x][d].more THEN Asking(x, reader[x][d].last) ELSE [pc |-> "done"]]
    /\ job' = [job EXCEPT ![x].cursor = reader[x][d].last]
    /\ UNCHANGED <<clock, history, index, writes, lost, enabled, live, stray, control, request, spent>>

\* Nobody looks at a job that has ended: its fields are cleared.
NoJob == [state |-> "none", from |-> 0, to |-> 0, cursor |-> 0, undo |-> 0, asof |-> 0,
          stalled |-> FALSE, disturbed |-> FALSE]

Complete(x) ==
    /\ job[x].state = "active"
    /\ \A d \in Devices : reader[x][d].pc \in {"done", "stopped"}
    /\ job' = [job EXCEPT ![x] = [NoJob EXCEPT !.state = "done"]]
    /\ control' = [control EXCEPT ![x] = "none"]
    /\ UNCHANGED <<clock, history, index, writes, lost, enabled, live, stray, reader, request, spent>>

\* The platform answers with an error, or the progress through a range of no length
\* is no number, which mongoose refuses to store.  The job fails at once, the
\* readers of the other devices run on until they look at processControl.
Fail(x, d) ==
    /\ job[x].state = "active"
    /\ \/ /\ reader[x][d].pc = "asked"
          /\ spent.mishaps < MaxMishaps
          /\ spent' = [spent EXCEPT !.mishaps = @ + 1]
       \/ /\ reader[x][d].pc = "progress"
          /\ job[x].from = job[x].to
          /\ UNCHANGED spent
    /\ job' = [job EXCEPT ![x].state = "failing"]
    /\ reader' = [reader EXCEPT ![x][d] = [pc |-> "stopped"]]
    /\ UNCHANGED <<clock, history, index, writes, lost, enabled, live, stray, control, request>>

\* onFailed: the readers are told to stop, the sensor is disabled.  What is to be
\* deleted starts at job.data.from, which the readers have used as their cursor.
Disable(x) ==
    /\ job[x].state = "failing"
    /\ enabled' = FALSE
    /\ job' = [job EXCEPT ![x].state = "undoing", ![x].undo = job[x].cursor]
    /\ control' = [control EXCEPT ![x] = "none"]
    /\ UNCHANGED <<clock, history, index, writes, lost, live, stray, reader, request, spent>>

\* Running jobs whose documents someone else deletes.
Disturbed == [y \in Jobs |-> IF job[y].state = "active" THEN [job[y] EXCEPT !.disturbed = TRUE]
                                                        ELSE job[y]]

\* deleteFromElasticSearch: up to just before the last time.
Undo(x) ==
    /\ job[x].state = "undoing"
    /\ index' = {r \in index : ~(r[2] >= job[x].undo /\ r[2] < job[x].to)}
    /\ job' = [Disturbed EXCEPT ![x] = [NoJob EXCEPT !.state = "failed"]]
    /\ UNCHANGED <<clock, history, writes, lost, enabled, memory, spent>>

-----------------------------------------------------------------------------
(* Requests: what is left to do of each.                                   *)

Idle == [todo |-> <<>>]

Stage(s) == IF request[s].todo = <<>> THEN "idle" ELSE Head(request[s].todo)

Begin(s, new) ==
    /\ Stage(s) = "idle"
    /\ spent.events < MaxEvents
    /\ spent' = [spent EXCEPT !.events = @ + 1]
    /\ request' = [request EXCEPT ![s] = new]
    /\ UNCHANGED <<clock, history, index, writes, lost, enabled, live, stray, job, reader, control>>

\* Mutation: the clients are closed after the new ones are connected.
OpenFirstMutation == <<"read", "open", "close">>

\* refreshElasticSearch: what is enabled is read first, then all clients are
\* closed, and new ones connected once the devices have been found.
Refresh == <<"read", "close", "open">>

\* enableElasticSearch(enable).
EnableElasticSearch(s, enable) ==
    Begin(s, [todo |-> <<"check", "set">> \o Refresh \o <<"stamp">>, enable |-> enable, seen |-> FALSE])

\* What addToElasticSearch does with the dates it is given.
Addition(from, to) == [todo |-> <<"check", "range", "queue", "control">>, from |-> from, to |-> to]

AddToElasticSearch(s, from, to) == Begin(s, Addition(from, to))

DeleteIndex(s) ==
    Begin(s, [todo |-> <<"set", "cancel">> \o Refresh \o <<"erase">>, enable |-> FALSE, seen |-> FALSE])

Done(s) == request' = [request EXCEPT ![s].todo = Tail(@)]

\* A job of the sensor is being processed: the request is refused.
Check(s) ==
    /\ Stage(s) = "check"
    /\ IF Active # {} THEN request' = [request EXCEPT ![s] = Idle] ELSE Done(s)
    /\ UNCHANGED <<clock, history, index, writes, lost, enabled, live, stray, job, reader, control, spent>>

SetEnabled(s) ==
    /\ Stage(s) = "set"
    /\ enabled' = request[s].enable
    /\ Done(s)
    /\ UNCHANGED <<clock, history, index, writes, lost, live, stray, job, reader, control, spent>>

\* The job found among the active ones.
Cancelled == Active

Cancel(s) ==
    /\ Stage(s) = "cancel"
    /\ \/ Cancelled = {} /\ UNCHANGED control
       \/ \E x \in Cancelled : control' = [control EXCEPT ![x] = "off"]
    /\ Done(s)
    /\ UNCHANGED <<clock, history, index, writes, lost, enabled, live, stray, job, reader, spent>>

ReadEnabled(s) ==
    /\ Stage(s) = "read"
    /\ request' = [request EXCEPT ![s].todo = Tail(@), ![s].seen = enabled]
    /\ UNCHANGED <<clock, history, index, writes, lost, enabled, live, stray, job, reader, control, spent>>

\* All the clients of mqttClients are closed.
Close(s) ==
    /\ Stage(s) = "close"
    /\ live' = FALSE
    /\ Done(s)
    /\ UNCHANGED <<clock, history, index, writes, lost, enabled, stray, job, reader, control, spent>>

\* A client that another request has connected since is replaced, not closed.
Open(s) ==
    /\ Stage(s) = "open"
    /\ live' = request[s].seen
    /\ stray' = (stray \/ live)
    /\ Done(s)
    /\ UNCHANGED <<clock, history, index, writes, lost, enabled, job, reader, control, spent>>

Times(readings) == {r[2] : r \in readings}

\* applyTimestamp; the history since the latest reading is then added.
Stamp(s) ==
    /\ Stage(s) = "stamp"
    /\ request' = [request EXCEPT ![s] =
          IF request[s].enable /\ index # {}
          THEN Addition(Max(Times(index)), clock)
          ELSE Idle]
    /\ UNCHANGED <<clock, history, index, writes, lost, enabled, live, stray, job, reader, control, spent>>

\* Unless an end is given, the history to add ends with the oldest reading in the index.
Until == IF index = {} THEN clock ELSE Min(Times(index))

SetRange(s) ==
    /\ Stage(s) = "range"
    /\ \/ request[s].to # 0 /\ Done(s)
       \/ /\ request[s].to = 0
          /\ request' = [request EXCEPT ![s] =
                IF index # {} /\ request[s].from >= Min(Times(index)) THEN Idle
                ELSE [request[s] EXCEPT !.todo = Tail(@), !.to = Until]]
    /\ UNCHANGED <<clock, history, index, writes, lost, enabled, live, stray, job, reader, control, spent>>

Queue(s) ==
    /\ Stage(s) = "queue"
    /\ \E x \in Jobs :
          /\ job[x].state = "none"
          /\ job' = [job EXCEPT ![x] = [NoJob EXCEPT !.state = "waiting",
                       !.from = request[s].from, !.to = request[s].to, !.cursor = request[s].from]]
          /\ request' = [request EXCEPT ![s] = [todo |-> <<"control">>, job |-> x]]
    /\ UNCHANGED <<clock, history, index, writes, lost, enabled, live, stray, reader, control, spent>>

\* processControl.set, only after add has returned: the job may have ended.
SetControl(s) ==
    /\ Stage(s) = "control"
    /\ control' = [control EXCEPT ![request[s].job] = "on"]
    /\ Done(s)
    /\ UNCHANGED <<clock, history, index, writes, lost, enabled, live, stray, job, reader, spent>>

Erase(s) ==
    /\ Stage(s) = "erase"
    /\ index' = {}
    /\ job' = Disturbed
    /\ Done(s)
    /\ UNCHANGED <<clock, history, writes, lost, enabled, live, stray, reader, control, spent>>

-----------------------------------------------------------------------------
\* The server stops and starts again.  Bull puts an active job back once, and
\* fails it the second time.
Restart ==
    /\ spent.mishaps < MaxMishaps
    /\ spent' = [spent EXCEPT !.mishaps = @ + 1]
    /\ live' = enabled /\ stray' = FALSE
    /\ reader' = [x \in Jobs |-> NoReader]
    /\ control' = [x \in Jobs |-> "none"]
    /\ request' = [s \in Slots |-> Idle]
    /\ writes' = {}
    /\ job' = [x \in Jobs |->
          CASE job[x].state = "active" /\ ~job[x].stalled ->
                  [job[x] EXCEPT !.state = "waiting", !.stalled = TRUE, !.cursor = job[x].from]
            [] job[x].state = "active" /\ job[x].stalled ->
                  [job[x] EXCEPT !.state = "failing", !.cursor = job[x].from]
            [] job[x].state \in {"failing", "undoing"} -> [NoJob EXCEPT !.state = "failed"]
            [] OTHER -> job[x]]
    /\ UNCHANGED <<clock, history, index, lost, enabled>>

Init ==
    /\ clock = FirstTime
    /\ history = Devices \X (1..FirstTime)
    /\ index = {} /\ writes = {} /\ lost = {}
    /\ enabled = FALSE /\ live = FALSE /\ stray = FALSE
    /\ job = [x \in Jobs |-> NoJob]
    /\ reader = [x \in Jobs |-> NoReader]
    /\ control = [x \in Jobs |-> "none"]
    /\ request = [s \in Slots |-> Idle]
    /\ spent = [events |-> 0, mishaps |-> 0]

JobStep(x) ==
    \/ TakeJob(x) \/ StartReaders(x) \/ Complete(x) \/ Disable(x) \/ Undo(x)
    \/ \E d \in Devices : Answer(x, d) \/ Progress(x, d)

Serve(s) ==
    \/ Check(s) \/ SetEnabled(s) \/ Cancel(s) \/ ReadEnabled(s) \/ Close(s) \/ Open(s) \/ Stamp(s)
    \/ SetRange(s) \/ Queue(s) \/ SetControl(s) \/ Erase(s)

Next ==
    \/ Report \/ Write \/ WriteFails \/ Restart
    \/ \E x \in Jobs : JobStep(x) \/ \E d \in Devices : Fail(x, d)
    \/ \E s \in Slots : \/ \E enable \in BOOLEAN : EnableElasticSearch(s, enable)
                        \/ \E from \in Froms, to \in Tos : AddToElasticSearch(s, from, to)
                        \/ DeleteIndex(s)
                        \/ Serve(s)

Spec == Init /\ [][Next]_vars

-----------------------------------------------------------------------------
(* Properties.                                                             *)

\* A job that completes, and that nobody has cancelled, has copied every reading
\* of every device in its range that was there when its readers started (the end
\* of the range may lie ahead), whatever else is going on: the devices take turns
\* on one cursor, and pages overlap.  Only what a failing save has lost is missing.
HistoryCopied ==
    [][\A x \in Jobs :
          /\ job[x].state = "active" /\ job'[x].state = "done"
          /\ \A d \in Devices : reader[x][d].pc = "done"
          /\ ~job[x].disturbed
          => \A r \in history :
                r[2] \in job[x].from..job[x].to /\ r[2] <= job[x].asof => r \in index \cup writes \cup lost]_vars

\* With no request in flight, the MQTT clients listen exactly to what is enabled,
\* through restarts and whatever the jobs do, unless a job failed.
LiveWhenEnabled ==
    /\ \A s \in Slots : Stage(s) = "idle"
    /\ \A x \in Jobs : job[x].state \notin {"undoing", "failed"}
    => (live \/ stray) = enabled

\* When a job has failed, what it had added to the index is deleted again.
FailureUndone ==
    [][\A x \in Jobs :
          job[x].state = "undoing" /\ job'[x].state = "failed"
          => \A r \in index' : ~(r[2] >= job[x].from /\ r[2] < job[x].to)]_vars
=============================================================================
