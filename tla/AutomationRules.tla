--------------------------- MODULE AutomationRules ---------------------------
(***************************************************************************)
(* Automation rules: AutomationService stores a rule as several documents  *)
(* (its triggers, its actions, the rule, one subscription per notified     *)
(* user) written one after the other, and keeps in memory how many stored  *)
(* triggers use each MQTT topic, to subscribe a topic with its first use   *)
(* and to unsubscribe it with its last.  A message on a subscribed topic   *)
(* queues the rules it concerns; AutomationProcessor takes one job at a    *)
(* time, reads the rule and notifies its users.  A restart loses the       *)
(* memory and the requests in flight, and counts the stored triggers again.*)
(*                                                                         *)
(* A device stands for the one sensor of it that conditions mention, a     *)
(* trigger has one condition, a rule one notify action; device actions and *)
(* what is sent to the users are left out.                                 *)
(***************************************************************************)
EXTENDS Naturals, Sequences, FiniteSets, SequencesExt, FiniteSetsExt

CONSTANTS
    Rules,      \* rule ids
    Devices,    \* devices, each of them in a division
    ProjectOf,  \* the project key of a device
    Users,      \* active users
    Slots,      \* requests being served
    Triggers,   \* ids of trigger documents
    Actions,    \* ids of action documents
    Inputs,     \* trigger lists a request can ask for: sets of sets of devices
    MaxQueue,   \* bound: jobs waiting
    MaxEvents,  \* bound: requests and restarts in a behaviour
    Exclusive   \* TRUE: a rule is edited or deleted by one request at a time

Projects == {ProjectOf[dev] : dev \in Devices}

\* The stages of requests, which are no users.
StageNames == {"triggers", "action", "rule", "unsubscribe", "subscribe", "forget", "drop",
               "clear", "remove", "update"}

ASSUME RulesAssumption ==
    /\ DOMAIN ProjectOf = Devices
    /\ Inputs \subseteq SUBSET (SUBSET Devices)
    /\ IsFiniteSet(Rules) /\ IsFiniteSet(Slots) /\ IsFiniteSet(Triggers)
    /\ \A new \in Inputs : IsFiniteSet(new)
    /\ Users \cap StageNames = {}
    /\ MaxQueue \in Nat
    /\ MaxEvents \in Nat
    /\ Exclusive \in BOOLEAN

VARIABLES
    rule,         \* the rules collection: state, trigger ids, action ids
    trigger,      \* the triggers collection
    action,       \* the actions collection
    subscription, \* how many subscription documents a user has for a rule
    count,        \* mqttClientOptions: uses of each topic
    clients,      \* mqttClientOptions: the projects with a connected client
    subscribed,   \* the topics the broker sends
    request,      \* the requests being served
    queue,        \* jobs waiting in Bull, each the id of a rule
    job,          \* the job being processed
    interrupted,  \* history: rules whose request a restart cut short
    events        \* number of requests and restarts so far

memory == <<count, clients, subscribed>>

database == <<rule, trigger, action, subscription>>

jobs == <<queue, job>>

vars == <<database, memory, request, jobs, interrupted, events>>

-----------------------------------------------------------------------------
(* Topics.                                                                 *)

\* addMqttTopic: one more use; the first one subscribes.
Counted(dev) ==
    /\ count' = [count EXCEPT ![dev] = @ + 1]
    /\ subscribed' = IF count[dev] = 0 /\ ProjectOf[dev] \in clients
                     THEN subscribed \cup {dev} ELSE subscribed
    /\ UNCHANGED clients

Uses(ts, dev) == Cardinality({t \in ts : dev \in trigger[t].devices})

\* Mutation: the topic is dropped with its first use, not its last.
DroppedMutation(ts) ==
    /\ count' = [dev \in Devices |-> count[dev] - Min({count[dev], Uses(ts, dev)})]
    /\ subscribed' = {dev \in subscribed : Uses(ts, dev) = 0}
    /\ UNCHANGED clients

\* deleteMqttTopic for every use by triggers ts; a topic that is not counted
\* (any more) is left alone.
Dropped(ts) ==
    /\ count' = [dev \in Devices |-> count[dev] - Min({count[dev], Uses(ts, dev)})]
    /\ subscribed' = {dev \in subscribed : Uses(ts, dev) = 0 \/ count'[dev] # 0}
    /\ UNCHANGED clients

-----------------------------------------------------------------------------
(* Requests: a request goes through the stages in `todo`.                  *)

Idle == [todo |-> <<>>]

Busy(s) == request[s].todo # <<>>

Stage(s) == Head(request[s].todo)

On(r) == {s \in Slots : Busy(s) /\ request[s].rule = r}

Exists(ts) == {t \in ts : trigger[t].state = "stored"}

\* A rule document, its `if` and `then` populated: what is gone is left out.
Loaded(r) ==
    [if |-> Exists(rule[r].if),
     then |-> {a \in rule[r].then : action[a].state = "stored"}]

Begin(s, r, todo, new, users) ==
    /\ ~Busy(s)
    /\ Exclusive => On(r) = {}
    /\ events < MaxEvents
    /\ events' = events + 1
    /\ request' = [request EXCEPT ![s] =
          [todo |-> todo, rule |-> r, loaded |-> Loaded(r), if |-> Loaded(r).if,
           then |-> Loaded(r).then, drop |-> Loaded(r).if, users |-> users,
           build |-> {[devices |-> ds, counted |-> {}] : ds \in new}]]
    /\ job' = IF job # <<>> /\ job[1].rule = r THEN <<[job[1] EXCEPT !.undisturbed = FALSE]>> ELSE job
    /\ UNCHANGED <<database, memory, queue, interrupted>>

CreateRule(s, r) ==
    /\ rule[r].state = "unused"
    /\ On(r) = {}
    /\ \E new \in Inputs, users \in SUBSET Users :
          Begin(s, r, <<"triggers", "action", "rule", "unsubscribe", "subscribe">>, new, users)

DeleteRule(s, r) ==
    /\ rule[r].state = "stored"
    /\ Begin(s, r, <<"forget", "drop", "clear", "unsubscribe", "remove">>, {}, {})

\* What editRule goes through when `if`, or thenNotify, is part of the input.
IfStages == <<"forget", "drop", "triggers">>

\* Mutation: the old actions are not deleted.
KeepActionsMutation == <<"action", "unsubscribe", "subscribe">>

\* Mutation: the new users get no subscription.
NoSubscribeMutation == <<"clear", "action", "unsubscribe">>

ThenStages == <<"clear", "action", "unsubscribe", "subscribe">>

EditRule(s, r) ==
    /\ rule[r].state = "stored"
    /\ \/ \E new \in Inputs : Begin(s, r, IfStages \o <<"update">>, new, {})
       \/ \E users \in SUBSET Users : Begin(s, r, ThenStages \o <<"update">>, {}, users)
       \/ \E new \in Inputs, users \in SUBSET Users :
             Begin(s, r, IfStages \o ThenStages \o <<"update">>, new, users)

Advanced(s, q) ==
    request' = [request EXCEPT ![s] = IF Len(q.todo) = 1 THEN Idle
                                      ELSE [q EXCEPT !.todo = Tail(@)]]

-----------------------------------------------------------------------------
(* The stages.                                                             *)

\* The topics of all triggers of the rule are given up before the first await.
Forget(s) ==
    /\ Busy(s) /\ Stage(s) = "forget"
    /\ Dropped(request[s].loaded.if)
    /\ Advanced(s, [request[s] EXCEPT !.if = {}])
    /\ UNCHANGED <<database, jobs, interrupted, events>>

DropTrigger(s) ==
    /\ Busy(s) /\ Stage(s) = "drop"
    /\ \/ /\ request[s].drop = {}
          /\ Advanced(s, request[s])
          /\ UNCHANGED trigger
       \/ \E t \in request[s].drop :
             /\ trigger' = [trigger EXCEPT ![t].state = "deleted"]
             /\ request' = [request EXCEPT ![s].drop = @ \ {t}]
    /\ UNCHANGED <<rule, action, subscription, memory, jobs, interrupted, events>>

CountTopic(s) ==
    /\ Busy(s) /\ Stage(s) = "triggers"
    /\ \E b \in request[s].build : \E dev \in b.devices \ b.counted :
          /\ Counted(dev)
          /\ request' = [request EXCEPT ![s].build =
                (@ \ {b}) \cup {[b EXCEPT !.counted = @ \cup {dev}]}]
    /\ UNCHANGED <<database, jobs, interrupted, events>>

\* triggerModel.create, once every topic of the trigger has been counted.
CreateTrigger(s) ==
    /\ Busy(s) /\ Stage(s) = "triggers"
    /\ \E b \in request[s].build, t \in Triggers :
          /\ b.counted = b.devices
          /\ trigger[t].state = "unused"
          /\ trigger' = [trigger EXCEPT ![t] = [state |-> "stored", devices |-> b.devices]]
          /\ request' = [request EXCEPT ![s].build = @ \ {b}, ![s].if = @ \cup {t}]
    /\ UNCHANGED <<rule, action, subscription, memory, jobs, interrupted, events>>

TriggersDone(s) ==
    /\ Busy(s) /\ Stage(s) = "triggers"
    /\ request[s].build = {}
    /\ Advanced(s, request[s])
    /\ UNCHANGED <<database, memory, jobs, interrupted, events>>

ClearAction(s) ==
    /\ Busy(s) /\ Stage(s) = "clear"
    /\ action' = [a \in Actions |-> IF a \in request[s].loaded.then
                                    THEN [action[a] EXCEPT !.state = "deleted"] ELSE action[a]]
    /\ Advanced(s, [request[s] EXCEPT !.then = {}])
    /\ UNCHANGED <<rule, trigger, subscription, memory, jobs, interrupted, events>>

CreateAction(s) ==
    /\ Busy(s) /\ Stage(s) = "action"
    /\ \/ /\ request[s].users = {}
          /\ Advanced(s, request[s])
          /\ UNCHANGED action
       \/ /\ request[s].users # {}
          /\ \E a \in Actions :
                /\ action[a].state = "unused"
                /\ action' = [action EXCEPT ![a] = [state |-> "stored", users |-> request[s].users]]
                /\ Advanced(s, [request[s] EXCEPT !.then = {a}])
    /\ UNCHANGED <<rule, trigger, subscription, memory, jobs, interrupted, events>>

Written(s) == [state |-> "stored", if |-> request[s].if, then |-> request[s].then]

StoreRule(s) ==
    /\ Busy(s) /\ Stage(s) = "rule"
    /\ rule' = [rule EXCEPT ![request[s].rule] = Written(s)]
    /\ Advanced(s, request[s])
    /\ UNCHANGED <<trigger, action, subscription, memory, jobs, interrupted, events>>

\* editRule ends with updateOne, which does not bring a deleted rule back.
UpdateRule(s) ==
    /\ Busy(s) /\ Stage(s) = "update"
    /\ rule' = IF rule[request[s].rule].state = "stored"
               THEN [rule EXCEPT ![request[s].rule] = Written(s)] ELSE rule
    /\ Advanced(s, request[s])
    /\ UNCHANGED <<trigger, action, subscription, memory, jobs, interrupted, events>>

DeletedRule == [state |-> "deleted", if |-> {}, then |-> {}]

RemoveRule(s) ==
    /\ Busy(s) /\ Stage(s) = "remove"
    /\ rule' = [rule EXCEPT ![request[s].rule] = DeletedRule]
    /\ Advanced(s, request[s])
    /\ UNCHANGED <<trigger, action, subscription, memory, jobs, interrupted, events>>

\* deleteMany of the subscriptions of the rule whose user is not in users.
Unsubscribed(r, users) ==
    [subscription EXCEPT ![r] = [u \in Users |-> IF u \in users THEN @[u] ELSE 0]]

Unsubscribe(s) ==
    /\ Busy(s) /\ Stage(s) = "unsubscribe"
    /\ subscription' = Unsubscribed(request[s].rule, request[s].users)
    /\ Advanced(s, request[s])
    /\ UNCHANGED <<rule, trigger, action, memory, jobs, interrupted, events>>

\* findOne: the next user who has no subscription yet gets one in a later step.
Lookup(s) ==
    /\ Busy(s) /\ Stage(s) = "subscribe"
    /\ \/ /\ request[s].users = {}
          /\ Advanced(s, request[s])
       \/ \E u \in request[s].users :
             request' = [request EXCEPT ![s].users = @ \ {u},
                ![s].todo = IF subscription[request[s].rule][u] = 0 THEN <<u>> \o @ ELSE @]
    /\ UNCHANGED <<database, memory, jobs, interrupted, events>>

Subscribe(s) ==
    /\ Busy(s) /\ Stage(s) \in Users
    /\ subscription' = [subscription EXCEPT ![request[s].rule][Stage(s)] = @ + 1]
    /\ Advanced(s, request[s])
    /\ UNCHANGED <<rule, trigger, action, memory, jobs, interrupted, events>>

-----------------------------------------------------------------------------
(* Messages and jobs.                                                      *)

\* The rules that list a stored trigger on the device.
Concerned(dev) ==
    {r \in Rules : \E t \in Loaded(r).if : dev \in trigger[t].devices}

\* A reading arrives: every rule concerned is added to the queue.
Message(dev) ==
    /\ dev \in subscribed
    /\ Concerned(dev) # {}
    /\ Len(queue) + Cardinality(Concerned(dev)) <= MaxQueue
    /\ \E added \in SetToSeqs(Concerned(dev)) : queue' = queue \o added
    /\ UNCHANGED <<database, memory, request, job, interrupted, events>>

\* getRuleById.  The job ends there when the rule is gone, not effective, or its
\* conditions are not met; without triggers they never are.
TakeJob ==
    /\ job = <<>>
    /\ queue # <<>>
    /\ queue' = Tail(queue)
    /\ LET r == Head(queue)
       IN  \/ UNCHANGED job
          \/ /\ rule[r].state = "stored"
             /\ Loaded(r).if # {}
             /\ job' = <<[rule |-> r, todo |-> UNION {action[a].users : a \in Loaded(r).then},
                          undisturbed |-> On(r) = {} /\ r \notin interrupted]>>
    /\ UNCHANGED <<database, memory, request, interrupted, events>>

\* No subscription: reading byLine of null throws, and the job ends there.
JobFails ==
    /\ job # <<>>
    /\ \E u \in job[1].todo : subscription[job[1].rule][u] = 0
    /\ job' = <<>>
    /\ UNCHANGED <<database, memory, request, queue, interrupted, events>>

Notify ==
    /\ job # <<>>
    /\ \E u \in job[1].todo :
          /\ subscription[job[1].rule][u] > 0
          /\ job' = <<[job[1] EXCEPT !.todo = @ \ {u}]>>
    /\ UNCHANGED <<database, memory, request, queue, interrupted, events>>

\* Everyone is notified; the audit log is written.
JobDone ==
    /\ job # <<>>
    /\ job[1].todo = {}
    /\ job' = <<>>
    /\ UNCHANGED <<database, memory, request, queue, interrupted, events>>

-----------------------------------------------------------------------------
\* Mutation: a topic is counted once at start-up, however many triggers use it.
OncePerTopicMutation(dev) == Min({1, Uses({t \in Triggers : trigger[t].state = "stored"}, dev)})

\* onModuleInit: every use by a stored trigger is counted.
Recount(dev) == Uses({t \in Triggers : trigger[t].state = "stored"}, dev)

\* The process dies and starts again; Bull runs the active job again.
Restart ==
    /\ events < MaxEvents
    /\ events' = events + 1
    /\ count' = [dev \in Devices |-> Recount(dev)]
    /\ clients' = {ProjectOf[dev] : dev \in {d \in Devices : Recount(d) > 0}}
    /\ subscribed' = {dev \in Devices : Recount(dev) > 0}
    /\ interrupted' = interrupted \cup {r \in Rules : On(r) # {}}
    /\ request' = [s \in Slots |-> Idle]
    /\ queue' = IF job = <<>> THEN queue ELSE <<job[1].rule>> \o queue
    /\ job' = <<>>
    /\ UNCHANGED database

\* A project has a client when it had a trigger at the last start, even if that
\* one is gone by now.
Init ==
    /\ rule = [r \in Rules |-> [state |-> "unused", if |-> {}, then |-> {}]]
    /\ trigger = [t \in Triggers |-> [state |-> "unused", devices |-> {}]]
    /\ action = [a \in Actions |-> [state |-> "unused", users |-> {}]]
    /\ subscription = [r \in Rules |-> [u \in Users |-> 0]]
    /\ count = [dev \in Devices |-> 0]
    /\ clients \in SUBSET Projects
    /\ subscribed = {}
    /\ request = [s \in Slots |-> Idle]
    /\ queue = <<>>
    /\ job = <<>>
    /\ interrupted = {}
    /\ events = 0

Serve(s) ==
    \/ \E r \in Rules : CreateRule(s, r) \/ EditRule(s, r) \/ DeleteRule(s, r)
    \/ Forget(s) \/ DropTrigger(s)
    \/ CountTopic(s) \/ CreateTrigger(s) \/ TriggersDone(s)
    \/ ClearAction(s) \/ CreateAction(s)
    \/ StoreRule(s) \/ UpdateRule(s) \/ RemoveRule(s)
    \/ Unsubscribe(s) \/ Lookup(s) \/ Subscribe(s)

Process == TakeJob \/ JobFails \/ Notify \/ JobDone

Next ==
    \/ \E s \in Slots : Serve(s)
    \/ \E dev \in Devices : Message(dev)
    \/ Process
    \/ Restart

Spec == Init /\ [][Next]_vars

-----------------------------------------------------------------------------
(* Properties.                                                             *)

\* Triggers still stored whose topics a request has given up already.
Forgotten == UNION {request[s].drop : s \in {x \in Slots : Busy(x) /\ Stage(x) = "drop"}}

\* Triggers not stored yet whose topic dev a request has counted already.
Announced(dev) ==
    {p \in UNION {{s} \X request[s].build : s \in {x \in Slots : Busy(x)}} : dev \in p[2].counted}

\* The use count of a topic is the number of stored triggers that need it, give
\* or take what the requests in flight have half done: a restart, which counts
\* again, finds the same numbers.
CountsExact ==
    \A dev \in Devices :
        count[dev] = Uses(Exists(Triggers) \ Forgotten, dev) + Cardinality(Announced(dev))

Settled(r) == On(r) = {} /\ r \notin interrupted

\* Nobody else's edit or delete silences a rule: while no request works on it,
\* its triggers are all there, and their topics are subscribed as far as the
\* project had a client at the last start.
RuleHeard ==
    \A r \in Rules : rule[r].state = "stored" /\ Settled(r) =>
        \A t \in rule[r].if :
            /\ trigger[t].state = "stored"
            /\ \A dev \in trigger[t].devices : ProjectOf[dev] \in clients => dev \in subscribed

Notified(r) == UNION {action[a].users : a \in rule[r].then}

\* Once the requests are served, no document outlives the rule it was made for: the
\* triggers and actions stored are those of the rules, and a rule has one subscription
\* for each user it notifies and none for anyone else.
NothingLeftOver ==
    (\A r \in Rules : Settled(r)) =>
        /\ Exists(Triggers) = UNION {rule[r].if : r \in Rules}
        /\ {a \in Actions : action[a].state = "stored"} = UNION {rule[r].then : r \in Rules}
        /\ \A r \in Rules, u \in Users : subscription[r][u] = IF u \in Notified(r) THEN 1 ELSE 0

\* The processor only meets a user without a subscription when the rule was, or
\* is, being edited while the job runs, or a restart cut such a request short.
JobFailureExplained == [][JobFails => ~job[1].undisturbed]_vars
=============================================================================
