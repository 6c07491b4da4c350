------------------------ MODULE DeviceLifecycleProofs ------------------------
(***************************************************************************)
(* Device documents, for any number of devices, groups, requests and       *)
(* sensors.  With every interleaving, no document lists a sensor that was  *)
(* deleted, and no two list the same one (IInv), and everything keeps its  *)
(* type (Typed).  While requests and clean-ups come one at a time, no      *)
(* device is orphaned, doubled, purged early or taken from its groups      *)
(* (SerialInv): what a request or the clean-up is about to write recalls   *)
(* every group that the document it read remembers.                        *)
(***************************************************************************)
EXTENDS DeviceLifecycle, WellFoundedInduction, TLAPS

Functions_OK ==
    /\ DOMAIN doc = Docs /\ doc = [d \in Docs |-> doc[d]]
    /\ DOMAIN request = Requests /\ request = [r \in Requests |-> request[r]]
    /\ DOMAIN cron = Docs /\ cron = [d \in Docs |-> cron[d]]

InFlight(r) == request[r].stage # "idle"

Purging(d) == cron[d].stage \in {"purge", "clean"}

\* What the collections hold.
DocumentsInv ==
    /\ stored \subseteq allocated
    /\ LiveSensorsExist
    /\ SensorsNotShared
    /\ \A d \in Docs : ~Live(d) => doc[d].sensors = {}

\* What a request is about to write: sensors that exist as long as its document
\* does, and that no other document lists.
RequestInv(r) ==
    /\ request[r].dev \in Devices
    /\ request[r].sensors \subseteq allocated
    /\ \/ request[r].doc = <<>> /\ request[r].sensors \subseteq stored
       \/ \E d \in Docs : /\ request[r].doc = <<d>>
                          /\ doc[d].state # "unused"
                          /\ Live(d) => request[r].sensors \subseteq stored
    /\ request[r].stage = "create" => request[r].doc = <<>>
    /\ request[r].stage \in {"write", "platform", "membership"} => request[r].doc # <<>>
    /\ \A e \in Docs : request[r].doc # <<e>> => request[r].sensors \cap doc[e].sensors = {}

\* Two requests share sensors only through the document both have read.
RequestsApart(r, q) ==
    r # q /\ (request[r].doc = <<>> \/ request[r].doc # request[q].doc)
    => request[r].sensors \cap request[q].sensors = {}

\* What the cron job is about to delete belongs to the document it purges.
PurgeInv(d) ==
    /\ cron[d].sensors \subseteq allocated
    /\ doc[d].state # "unused"
    /\ cron[d].stage = "clean" => ~Live(d)
    /\ \A e \in Docs : e # d => cron[d].sensors \cap doc[e].sensors = {}
    /\ \A r \in Requests : InFlight(r) /\ request[r].doc # <<d>>
                              => cron[d].sensors \cap request[r].sensors = {}

IInv ==
    /\ Functions_OK
    /\ DocumentsInv
    /\ \A r \in Requests : InFlight(r) => RequestInv(r)
    /\ \A r, q \in Requests : InFlight(r) /\ InFlight(q) => RequestsApart(r, q)
    /\ \A d \in Docs : Purging(d) => PurgeInv(d)

-----------------------------------------------------------------------------
LEMMA InitInv == Init => IInv
BY DEF Init, IInv, Functions_OK, DocumentsInv, LiveSensorsExist, SensorsNotShared,
       NoDocument, Live, InFlight, Idle, Purging, Asleep

\* A new request read the document of its device, or found none; either way it
\* brings no sensor that the document does not list.
LEMMA StartStep ==
    ASSUME IInv, NEW r \in Requests, NEW next,
           next.dev \in Devices,
           next.stage \in {"sensors", "platform", "membership"},
           \/ next.doc = <<>> /\ next.sensors = {} /\ next.stage = "sensors"
           \/ \E d \in Docs : /\ next.doc = <<d>> /\ Live(d)
                              /\ next.sensors \subseteq doc[d].sensors,
           Start(r, next)
    PROVE  IInv'
<1> USE DEF IInv, InFlight, Functions_OK
<1>0. /\ request' = [request EXCEPT ![r] = next]
      /\ UNCHANGED <<doc, stored, allocated, cron>>
  BY DEF Start
<1>1. Functions_OK' /\ DocumentsInv'
  BY <1>0 DEF DocumentsInv, LiveSensorsExist, SensorsNotShared, Live
<1>2. /\ request'[r] = next
      /\ \A q \in Requests : q # r => request'[q] = request[q]
  BY <1>0
<1>3. ~InFlight(r)
  BY DEF Start, Idle
<1>4. RequestInv(r)'
  <2>1. CASE next.doc = <<>> /\ next.sensors = {} /\ next.stage = "sensors"
    BY <2>1, <1>0, <1>2 DEF RequestInv
  <2>2. ASSUME NEW d \in Docs, next.doc = <<d>>, Live(d), next.sensors \subseteq doc[d].sensors
        PROVE  RequestInv(r)'
    <3>1. next.sensors \subseteq stored /\ next.sensors \subseteq allocated
      BY <2>2 DEF DocumentsInv, LiveSensorsExist
    <3>2. doc[d].state # "unused" /\ next.doc # <<>> /\ next.stage # "create"
      BY <2>2 DEF Live
    <3>3. ASSUME NEW e \in Docs, next.doc # <<e>>
          PROVE  next.sensors \cap doc[e].sensors = {}
      BY <2>2, <3>3 DEF DocumentsInv, SensorsNotShared
    <3>4. QED
      BY <3>1, <3>2, <3>3, <2>2, <1>0, <1>2 DEF RequestInv, Live
  <2>3. QED
    BY <2>1, <2>2
<1>5. ASSUME NEW q \in Requests, InFlight(q)'
      PROVE  RequestInv(q)'
  <2>1. CASE q = r
    BY <2>1, <1>4
  <2>2. CASE q # r
    <3>1. RequestInv(q)
      BY <2>2, <1>2, <1>5
    <3>2. QED
      BY <2>2, <3>1, <1>0, <1>2 DEF RequestInv, Live
  <2>3. QED
    BY <2>1, <2>2
<1>6. ASSUME NEW q \in Requests, q # r, InFlight(q)'
      PROVE  RequestsApart(r, q)' /\ RequestsApart(q, r)'
  <2>1. InFlight(q) /\ RequestInv(q)
    BY <1>2, <1>6
  <2>2. CASE next.sensors = {}
    BY <2>2, <1>2, <1>6 DEF RequestsApart
  <2>3. ASSUME NEW d \in Docs, next.doc = <<d>>, next.sensors \subseteq doc[d].sensors
        PROVE  RequestsApart(r, q)' /\ RequestsApart(q, r)'
    <3>1. request[q].doc # <<d>> => request[q].sensors \cap next.sensors = {}
      BY <2>1, <2>3 DEF RequestInv
    <3>2. QED
      BY SMTT(30), <3>1, <2>3, <1>2, <1>6 DEF RequestsApart
  <2>4. QED
    BY <2>2, <2>3
<1>7. \A q, t \in Requests : InFlight(q)' /\ InFlight(t)' => RequestsApart(q, t)'
  BY <1>2, <1>6 DEF RequestsApart
<1>8. ASSUME NEW d \in Docs, Purging(d)'
      PROVE  PurgeInv(d)'
  BY <1>0, <1>2, <1>8 DEF PurgeInv, Purging, DocumentsInv, Live
<1>9. QED
  BY <1>1, <1>5, <1>7, <1>8

\* A read of an existing document: add, edit, delete and restore.
LEMMA ReadStep ==
    ASSUME IInv, NEW r \in Requests, NEW dev \in Devices, NEW d \in Found(dev),
           NEW stage \in {"sensors", "platform", "membership"}, NEW groups, NEW disabled,
           NEW sensors \in {doc[d].sensors, {}},
           Start(r, Pending(stage, dev, <<d>>, groups, disabled, sensors))
    PROVE  IInv'
<1> DEFINE next == Pending(stage, dev, <<d>>, groups, disabled, sensors)
<1>1. /\ next.dev = dev /\ next.stage = stage /\ next.doc = <<d>> /\ next.sensors = sensors
      /\ d \in Docs /\ Live(d)
  BY DEF Pending, Found
<1>2. sensors \subseteq doc[d].sensors
  OBVIOUS
<1>3. Start(r, next)
  OBVIOUS
<1> HIDE DEF next
<1>4. QED
  BY <1>1, <1>2, <1>3, StartStep

LEMMA AddReadStep ==
    ASSUME IInv, NEW r \in Requests, NEW dev \in Devices, NEW g \in Groups, AddRead(r, dev, g)
    PROVE  IInv'
<1>1. CASE Start(r, Pending("sensors", dev, <<>>, <<g>>, <<>>, {}))
  <2> DEFINE next == Pending("sensors", dev, <<>>, <<g>>, <<>>, {})
  <2>1. next.dev = dev /\ next.stage = "sensors" /\ next.doc = <<>> /\ next.sensors = {}
    BY DEF Pending
  <2>2. Start(r, next)
    BY <1>1
  <2> HIDE DEF next
  <2>3. QED
    BY <2>1, <2>2, StartStep
<1>2. ASSUME NEW d \in Found(dev),
             Start(r, Pending("sensors", dev, <<d>>, PushIfAbsent(doc[d].groups, g),
                              doc[d].disabled, doc[d].sensors))
      PROVE  IInv'
  BY <1>2, ReadStep
<1>3. QED
  BY <1>1, <1>2 DEF AddRead

LEMMA EditReadStep ==
    ASSUME IInv, NEW r \in Requests, NEW dev \in Devices, EditRead(r, dev)
    PROVE  IInv'
BY ReadStep DEF EditRead

LEMMA DeleteReadStep ==
    ASSUME IInv, NEW r \in Requests, NEW dev \in Devices, NEW g \in Groups, DeleteRead(r, dev, g)
    PROVE  IInv'
BY ReadStep DEF DeleteRead

LEMMA RestoreReadStep ==
    ASSUME IInv, NEW r \in Requests, NEW dev \in Devices, NEW g \in Groups, RestoreRead(r, dev, g)
    PROVE  IInv'
<1>1. PICK d \in Found(dev) :
        Start(r, Pending("membership", dev, <<d>>, Append(doc[d].groups, g),
                 RemoveFirstMatch(doc[d].disabled, LAMBDA e : e.group = g), {}))
  BY DEF RestoreRead
<1> DEFINE rest == RemoveFirstMatch(doc[d].disabled, LAMBDA e : e.group = g)
<1>2. Start(r, Pending("membership", dev, <<d>>, Append(doc[d].groups, g), rest, {}))
  BY <1>1
<1> HIDE DEF rest
<1>3. QED
  BY <1>2, ReadStep

-----------------------------------------------------------------------------
\* The new sensors are in no document and in no other request.
LEMMA AddSensorsStep ==
    ASSUME IInv, NEW r \in Requests, AddSensors(r)
    PROVE  IInv'
<1> USE DEF IInv, InFlight, Functions_OK
<1>1. PICK new \in SUBSET UnusedSensorIds :
          /\ stored' = stored \cup new
          /\ allocated' = allocated \cup new
          /\ request' = [request EXCEPT ![r] =
                Pending(IF request[r].doc = <<>> THEN "create" ELSE "write",
                        request[r].dev, request[r].doc, request[r].groups,
                        request[r].disabled, request[r].sensors \cup new)]
  BY DEF AddSensors
<1>2. /\ request[r].stage = "sensors"
      /\ UNCHANGED <<doc, cron>>
      /\ new \cap allocated = {}
  BY <1>1 DEF AddSensors, UnusedSensorIds
<1>3. /\ request'[r].stage = IF request[r].doc = <<>> THEN "create" ELSE "write"
      /\ request'[r].dev = request[r].dev
      /\ request'[r].doc = request[r].doc
      /\ request'[r].sensors = request[r].sensors \cup new
      /\ \A q \in Requests : q # r => request'[q] = request[q]
  BY <1>1 DEF Pending
<1>4. Functions_OK'
  BY <1>1, <1>2
<1>5. DocumentsInv'
  BY <1>1, <1>2 DEF DocumentsInv, LiveSensorsExist, SensorsNotShared, Live
<1>6. RequestInv(r)
  BY <1>2
<1>7. \A e \in Docs : new \cap doc[e].sensors = {}
  BY <1>2 DEF DocumentsInv, LiveSensorsExist
<1>8. RequestInv(r)'
  <2>1. \/ request[r].doc = <<>> /\ request'[r].sensors \subseteq stored'
        \/ \E d \in Docs : /\ request[r].doc = <<d>>
                           /\ doc[d].state # "unused"
                           /\ Live(d) => request'[r].sensors \subseteq stored'
    BY <1>1, <1>3, <1>6 DEF RequestInv
  <2>2. \A e \in Docs : request[r].doc # <<e>> => request'[r].sensors \cap doc[e].sensors = {}
    BY <1>3, <1>6, <1>7 DEF RequestInv
  <2>3. request'[r].sensors \subseteq allocated' /\ request'[r].dev \in Devices
    BY <1>1, <1>3, <1>6 DEF RequestInv
  <2>4. QED
    BY SMTT(30), <2>1, <2>2, <2>3, <1>2, <1>3 DEF RequestInv, Live
<1>9. ASSUME NEW q \in Requests, q # r, InFlight(q)'
      PROVE  RequestInv(q)' /\ RequestsApart(r, q)' /\ RequestsApart(q, r)'
  <2>1. InFlight(q) /\ RequestInv(q)
    BY <1>3, <1>9
  <2>2. RequestInv(q)'
    BY <2>1, <1>1, <1>2, <1>3, <1>9 DEF RequestInv, Live
  <2>3. new \cap request[q].sensors = {}
    BY <2>1, <1>2 DEF RequestInv
  <2>4. RequestsApart(r, q) /\ RequestsApart(q, r)
    BY <2>1, <1>2
  <2>5. QED
    BY <2>2, <2>3, <2>4, <1>3, <1>9 DEF RequestsApart
<1>10. \A q, t \in Requests : InFlight(q)' /\ InFlight(t)' => RequestsApart(q, t)'
  BY SMTT(30), <1>3, <1>9 DEF RequestsApart
<1>11. ASSUME NEW d \in Docs, Purging(d)'
       PROVE  PurgeInv(d)'
  <2>1. PurgeInv(d)
    BY <1>2, <1>11 DEF Purging
  <2>2. new \cap cron[d].sensors = {}
    BY <2>1, <1>2 DEF PurgeInv
  <2>3. ASSUME NEW q \in Requests, InFlight(q)', request'[q].doc # <<d>>
        PROVE  cron[d].sensors \cap request'[q].sensors = {}
    BY <2>1, <2>2, <2>3, <1>2, <1>3 DEF PurgeInv
  <2>4. QED
    BY <2>1, <2>3, <1>1, <1>2 DEF PurgeInv, Live
<1>12. QED
  BY <1>4, <1>5, <1>8, <1>9, <1>10, <1>11

-----------------------------------------------------------------------------
\* A request ends without a write that takes effect.
LEMMA FinishStep ==
    ASSUME IInv, NEW r \in Requests, Finish(r), UNCHANGED <<doc, stored, allocated, cron>>
    PROVE  IInv'
<1> USE DEF IInv, InFlight, Functions_OK
<1>1. /\ request'[r] = Idle
      /\ \A q \in Requests : q # r => request'[q] = request[q]
      /\ DOMAIN request' = Requests /\ request' = [q \in Requests |-> request'[q]]
  BY DEF Finish
<1>2. \A q \in Requests : InFlight(q)' => q # r /\ InFlight(q)
  BY <1>1 DEF Idle
<1>3. Functions_OK' /\ DocumentsInv'
  BY <1>1 DEF DocumentsInv, LiveSensorsExist, SensorsNotShared, Live
<1>4. \A q \in Requests : InFlight(q)' => RequestInv(q)'
  BY <1>1, <1>2 DEF RequestInv, Live
<1>5. \A q, t \in Requests : InFlight(q)' /\ InFlight(t)' => RequestsApart(q, t)'
  BY <1>1, <1>2 DEF RequestsApart
<1>6. \A d \in Docs : Purging(d)' => PurgeInv(d)'
  BY <1>1, <1>2 DEF PurgeInv, Purging, Live
<1>7. QED
  BY <1>3, <1>4, <1>5, <1>6

\* A request ends by writing to a document that exists.  The sensors it leaves
\* there are the document's own or the request's.
LEMMA DocumentWritten ==
    ASSUME IInv, NEW r \in Requests, Finish(r), UNCHANGED <<stored, allocated, cron>>,
           InFlight(r), NEW d \in Docs, request[r].doc = <<d>>, Live(d),
           NEW set, set.state = "live", set.sensors \in {doc[d].sensors, request[r].sensors},
           doc' = [doc EXCEPT ![d] = set]
    PROVE  IInv'
<1> USE DEF IInv, InFlight, Functions_OK
<1>1. /\ request'[r] = Idle
      /\ \A q \in Requests : q # r => request'[q] = request[q]
      /\ DOMAIN request' = Requests /\ request' = [q \in Requests |-> request'[q]]
  BY DEF Finish
<1>2. \A q \in Requests : InFlight(q)' => q # r /\ InFlight(q)
  BY <1>1 DEF Idle
<1>3. /\ doc'[d] = set
      /\ \A e \in Docs : e # d => doc'[e] = doc[e]
      /\ \A e \in Docs : Live(e)' <=> Live(e)
      /\ \A e \in Docs : doc'[e].state # "unused" <=> doc[e].state # "unused"
  BY DEF Live
<1>4. RequestInv(r)
  OBVIOUS
<1>5. set.sensors \subseteq stored
  BY <1>4 DEF RequestInv, DocumentsInv, LiveSensorsExist
<1>6. \A e \in Docs : e # d => set.sensors \cap doc[e].sensors = {}
  BY <1>4 DEF RequestInv, DocumentsInv, SensorsNotShared
<1>7. Functions_OK' /\ DocumentsInv'
  BY <1>1, <1>3, <1>5, <1>6 DEF DocumentsInv, LiveSensorsExist, SensorsNotShared, Live
<1>8. ASSUME NEW q \in Requests, InFlight(q)'
      PROVE  RequestInv(q)'
  <2>1. q # r /\ RequestInv(q) /\ RequestsApart(r, q)
    BY <1>2, <1>8
  <2>2. request[q].doc # <<d>> => request[q].sensors \cap set.sensors = {}
    BY <2>1 DEF RequestInv, RequestsApart
  <2>3. ASSUME NEW e \in Docs, request[q].doc # <<e>>
        PROVE  request[q].sensors \cap doc'[e].sensors = {}
    BY <2>1, <2>2, <2>3, <1>3 DEF RequestInv
  <2>4. QED
    BY <2>1, <2>3, <1>1, <1>3 DEF RequestInv
<1>9. \A q, t \in Requests : InFlight(q)' /\ InFlight(t)' => RequestsApart(q, t)'
  BY <1>1, <1>2 DEF RequestsApart
<1>10. ASSUME NEW e \in Docs, Purging(e)'
       PROVE  PurgeInv(e)'
  <2>1. PurgeInv(e)
    BY <1>10 DEF Purging
  <2>2. e # d => cron[e].sensors \cap set.sensors = {}
    BY <2>1 DEF PurgeInv
  <2>3. QED
    BY <2>1, <2>2, <1>1, <1>2, <1>3 DEF PurgeInv
<1>11. QED
  BY <1>7, <1>8, <1>9, <1>10

LEMMA WriteWholeStep ==
    ASSUME IInv, NEW r \in Requests, WriteWhole(r)
    PROVE  IInv'
<1>1. InFlight(r) /\ RequestInv(r)
  BY DEF WriteWhole, InFlight, IInv
<1>2. PICK d \in Docs : request[r].doc = <<d>>
  BY <1>1 DEF WriteWhole, RequestInv
<1>3. CASE Live(d)
  <2>1. doc' = [doc EXCEPT ![d] = Whole(r)]
    BY <1>2, <1>3 DEF WriteWhole, Updated
  <2>2. Whole(r).state = "live" /\ Whole(r).sensors = request[r].sensors
    BY DEF Whole
  <2>3. QED
    BY <1>1, <1>2, <1>3, <2>1, <2>2, DocumentWritten DEF WriteWhole
<1>4. CASE ~Live(d)
  BY <1>2, <1>4, FinishStep DEF WriteWhole, Updated
<1>5. QED
  BY <1>3, <1>4

LEMMA WriteMembershipStep ==
    ASSUME IInv, NEW r \in Requests, WriteMembership(r)
    PROVE  IInv'
<1>1. InFlight(r) /\ RequestInv(r)
  BY DEF WriteMembership, InFlight, IInv
<1>2. PICK d \in Docs : request[r].doc = <<d>>
  BY <1>1 DEF WriteMembership, RequestInv
<1> DEFINE set == [state |-> "live", groups |-> request[r].groups,
                   disabled |-> request[r].disabled, sensors |-> doc[d].sensors]
<1>3. doc' = Updated(d, set)
  BY <1>2 DEF WriteMembership
<1>4. set.state = "live" /\ set.sensors = doc[d].sensors
  OBVIOUS
<1> HIDE DEF set
<1>5. CASE Live(d)
  BY ZenonT(60), <1>1, <1>2, <1>3, <1>4, <1>5, DocumentWritten DEF WriteMembership, Updated
<1>6. CASE ~Live(d)
  BY <1>3, <1>6, FinishStep DEF WriteMembership, Updated
<1>7. QED
  BY <1>5, <1>6

LEMMA FailStep ==
    ASSUME IInv, NEW r \in Requests, Fail(r)
    PROVE  IInv'
BY FinishStep DEF Fail

\* The new document gets sensors nobody else holds; no request and no purge
\* knows of a document id that was not in use.
LEMMA AddCreateStep ==
    ASSUME IInv, NEW r \in Requests, AddCreate(r)
    PROVE  IInv'
<1> USE DEF IInv, InFlight, Functions_OK
<1>1. PICK n \in 1..MaxDocs :
          /\ doc[<<request[r].dev, n>>].state = "unused"
          /\ doc' = [doc EXCEPT ![<<request[r].dev, n>>] = Whole(r)]
  BY DEF AddCreate
<1> DEFINE d == <<request[r].dev, n>>
<1>2. /\ request[r].stage = "create" /\ request[r].doc = <<>> /\ RequestInv(r)
      /\ UNCHANGED <<stored, allocated, cron>>
  BY DEF AddCreate, RequestInv
<1>3. d \in Docs
  BY <1>2 DEF Docs, RequestInv
<1>4. /\ request'[r] = Idle
      /\ \A q \in Requests : q # r => request'[q] = request[q]
      /\ DOMAIN request' = Requests /\ request' = [q \in Requests |-> request'[q]]
  BY DEF AddCreate, Finish
<1>5. \A q \in Requests : InFlight(q)' => q # r /\ InFlight(q)
  BY <1>4 DEF Idle
<1>6. Whole(r).state = "live" /\ Whole(r).sensors = request[r].sensors
  BY DEF Whole
<1>7. /\ doc[d].state = "unused"
      /\ doc' = [doc EXCEPT ![d] = Whole(r)]
  BY <1>1
<1> HIDE DEF d
<1>8. /\ doc'[d].state = "live" /\ doc'[d].sensors = request[r].sensors
      /\ \A e \in Docs : e # d => doc'[e] = doc[e]
      /\ DOMAIN doc' = Docs /\ doc' = [e \in Docs |-> doc'[e]]
  <2>1. PICK set : set = Whole(r)
    OBVIOUS
  <2>2. doc' = [doc EXCEPT ![d] = set] /\ set.state = "live" /\ set.sensors = request[r].sensors
    BY <2>1, <1>6, <1>7
  <2>3. /\ doc'[d] = set /\ \A e \in Docs : e # d => doc'[e] = doc[e]
        /\ DOMAIN doc' = Docs
    BY <2>2, <1>3
  <2>4. doc' = [e \in Docs |-> doc'[e]]
    BY <2>2, <1>3
  <2>5. QED
    BY <2>2, <2>3, <2>4
<1>9. /\ request[r].sensors \subseteq stored
      /\ \A e \in Docs : request[r].sensors \cap doc[e].sensors = {}
  <2>1. \A e \in Docs : request[r].doc # <<e>>
    BY <1>2
  <2>2. \A e \in Docs : request[r].sensors \cap doc[e].sensors = {}
    BY <2>1, <1>2 DEF RequestInv
  <2>3. request[r].sensors \subseteq stored
    BY <2>1, <1>2 DEF RequestInv
  <2>4. QED
    BY <2>2, <2>3
<1>10. Functions_OK' /\ DocumentsInv'
  <2>1. Functions_OK'
    BY <1>2, <1>4, <1>8
  <2>2. (stored \subseteq allocated)' /\ LiveSensorsExist'
    BY <1>2, <1>8, <1>9 DEF DocumentsInv, LiveSensorsExist
  <2>3. ASSUME NEW e \in Docs, NEW t \in Docs, e # t
        PROVE  doc'[e].sensors \cap doc'[t].sensors = {}
    <3>1. CASE e # d /\ t # d
      BY <2>3, <3>1, <1>8 DEF DocumentsInv, SensorsNotShared
    <3>2. CASE e = d \/ t = d
      BY <2>3, <3>2, <1>8, <1>9
    <3>3. QED
      BY <3>1, <3>2
  <2>4. \A e \in Docs : ~Live(e)' => doc'[e].sensors = {}
    BY <1>8 DEF DocumentsInv, Live
  <2>5. QED
    BY <2>1, <2>2, <2>3, <2>4 DEF DocumentsInv, SensorsNotShared
<1>11. ASSUME NEW q \in Requests, InFlight(q)'
       PROVE  RequestInv(q)'
  <2>1. q # r /\ InFlight(q) /\ RequestInv(q) /\ RequestsApart(r, q)
    BY <1>2, <1>5, <1>11
  <2>2. request[q].doc # <<d>>
    BY <2>1, <1>3, <1>7 DEF RequestInv
  <2>3. request[q].sensors \cap request[r].sensors = {}
    BY <2>1, <1>2 DEF RequestsApart
  <2>4. ASSUME NEW e \in Docs, request[q].doc # <<e>>
        PROVE  request[q].sensors \cap doc'[e].sensors = {}
    BY <2>1, <2>3, <2>4, <1>8 DEF RequestInv
  <2>5. \/ request[q].doc = <<>> /\ request[q].sensors \subseteq stored
        \/ \E e \in Docs : /\ request[q].doc = <<e>>
                           /\ doc'[e].state # "unused"
                           /\ Live(e)' => request[q].sensors \subseteq stored
    BY <2>1, <2>2, <1>8 DEF RequestInv, Live
  <2>6. QED
    BY <2>1, <2>4, <2>5, <1>2, <1>4 DEF RequestInv
<1>12. \A q, t \in Requests : InFlight(q)' /\ InFlight(t)' => RequestsApart(q, t)'
  BY <1>4, <1>5 DEF RequestsApart
<1>13. ASSUME NEW e \in Docs, Purging(e)'
       PROVE  PurgeInv(e)'
  <2>1. PurgeInv(e) /\ e # d
    BY <1>2, <1>3, <1>7, <1>13 DEF Purging, PurgeInv
  <2>2. cron[e].sensors \cap request[r].sensors = {}
    BY <2>1, <1>2 DEF PurgeInv
  <2>3. \A q \in Requests : InFlight(q)' /\ request'[q].doc # <<e>>
                              => cron[e].sensors \cap request'[q].sensors = {}
    BY <2>1, <1>4, <1>5 DEF PurgeInv
  <2>4. \A t \in Docs : t # e => cron[e].sensors \cap doc'[t].sensors = {}
    BY <2>1, <2>2, <1>8 DEF PurgeInv
  <2>5. QED
    BY <2>1, <2>3, <2>4, <1>2, <1>8 DEF PurgeInv, Live
<1>14. QED
  BY <1>10, <1>11, <1>12, <1>13

-----------------------------------------------------------------------------
\* The plan for a document names the sensors it lists.
LEMMA CronFindStep ==
    ASSUME IInv, CronFind
    PROVE  IInv'
<1> USE DEF IInv, InFlight, Functions_OK
<1>1. /\ UNCHANGED <<doc, stored, allocated, request>>
      /\ cron' = [d \in Docs |-> IF Live(d) /\ Due(doc[d].disabled)
                                 THEN CronPlan(d) ELSE Asleep]
  BY DEF CronFind
<1>2. Functions_OK' /\ DocumentsInv'
  BY <1>1 DEF DocumentsInv, LiveSensorsExist, SensorsNotShared, Live
<1>3. \A q \in Requests : InFlight(q)' => RequestInv(q)'
  BY <1>1 DEF RequestInv, Live
<1>4. \A q, t \in Requests : InFlight(q)' /\ InFlight(t)' => RequestsApart(q, t)'
  BY <1>1 DEF RequestsApart
<1>5. ASSUME NEW d \in Docs, Purging(d)'
      PROVE  PurgeInv(d)'
  <2>1. Live(d) /\ cron'[d] = CronPlan(d)
    BY <1>1, <1>5 DEF Purging, Asleep
  <2>2. cron'[d] = PurgeDocument(d)
    BY <2>1, <1>5 DEF CronPlan, UpdateDocument, Purging
  <2>3. cron'[d].stage = "purge" /\ cron'[d].sensors = doc[d].sensors
    BY <2>2 DEF PurgeDocument
  <2>4. \A e \in Docs : e # d => doc[d].sensors \cap doc[e].sensors = {}
    BY DEF DocumentsInv, SensorsNotShared
  <2>5. \A q \in Requests : InFlight(q) /\ request[q].doc # <<d>>
                               => doc[d].sensors \cap request[q].sensors = {}
    BY DEF RequestInv
  <2>6. doc[d].sensors \subseteq allocated
    BY DEF DocumentsInv, LiveSensorsExist
  <2>7. QED
    BY <2>1, <2>3, <2>4, <2>5, <2>6, <1>1 DEF PurgeInv, Live
<1>6. QED
  BY <1>2, <1>3, <1>4, <1>5

LEMMA CronUpdateStep ==
    ASSUME IInv, NEW d \in Docs, CronUpdate(d)
    PROVE  IInv'
<1> USE DEF IInv, InFlight, Functions_OK
<1>1. /\ UNCHANGED <<stored, allocated, request>>
      /\ cron' = [cron EXCEPT ![d] = Asleep]
      /\ DOMAIN doc' = Docs /\ doc' = [e \in Docs |-> doc'[e]]
      /\ \A e \in Docs : doc'[e].sensors = doc[e].sensors /\ doc'[e].state = doc[e].state
  BY DEF CronUpdate, Updated, Live
<1>2. Functions_OK' /\ DocumentsInv'
  BY <1>1 DEF DocumentsInv, LiveSensorsExist, SensorsNotShared, Live
<1>3. \A q \in Requests : InFlight(q)' => RequestInv(q)'
  BY SMTT(30), <1>1 DEF RequestInv, Live
<1>4. \A q, t \in Requests : InFlight(q)' /\ InFlight(t)' => RequestsApart(q, t)'
  BY <1>1 DEF RequestsApart
<1>5. \A e \in Docs : Purging(e)' => Purging(e) /\ cron'[e] = cron[e]
  BY <1>1 DEF Purging, Asleep
<1>6. \A e \in Docs : Purging(e)' => PurgeInv(e)'
  BY <1>1, <1>5 DEF PurgeInv, Live
<1>7. QED
  BY <1>2, <1>3, <1>4, <1>6

LEMMA CronDeleteStep ==
    ASSUME IInv, NEW d \in Docs, CronDelete(d)
    PROVE  IInv'
<1> USE DEF IInv, InFlight, Functions_OK
<1>1. /\ UNCHANGED <<stored, allocated, request>>
      /\ Purging(d)
      /\ cron' = [cron EXCEPT ![d] = [stage |-> "clean", sensors |-> cron[d].sensors]]
      /\ DOMAIN doc' = Docs /\ doc' = [e \in Docs |-> doc'[e]]
      /\ \A e \in Docs : e # d => doc'[e] = doc[e]
  BY DEF CronDelete, Purging
<1>2. /\ doc'[d].sensors = {}
      /\ doc'[d].state # "live" /\ doc'[d].state # "unused"
  BY <1>1 DEF CronDelete, NoDocument, Live, DocumentsInv, PurgeInv
<1>3. Functions_OK' /\ DocumentsInv'
  BY <1>1, <1>2 DEF DocumentsInv, LiveSensorsExist, SensorsNotShared, Live
<1>4. ASSUME NEW q \in Requests, InFlight(q)'
      PROVE  RequestInv(q)'
  <2>1. RequestInv(q)
    BY <1>1, <1>4
  <2>2. \A e \in Docs : /\ doc[e].state # "unused" => doc'[e].state # "unused"
                        /\ Live(e)' => Live(e)
                        /\ doc'[e].sensors \subseteq doc[e].sensors
    BY <1>1, <1>2 DEF Live
  <2>3. QED
    BY <2>1, <2>2, <1>1 DEF RequestInv
<1>5. \A q, t \in Requests : InFlight(q)' /\ InFlight(t)' => RequestsApart(q, t)'
  BY <1>1 DEF RequestsApart
<1>6. ASSUME NEW e \in Docs, Purging(e)'
      PROVE  PurgeInv(e)'
  <2>1. PurgeInv(e) /\ cron'[e].sensors = cron[e].sensors
    BY <1>1, <1>6 DEF Purging
  <2>2. \A t \in Docs : t # e => cron[e].sensors \cap doc'[t].sensors = {}
    BY <2>1, <1>1, <1>2 DEF PurgeInv
  <2>3. doc'[e].state # "unused" /\ (cron'[e].stage = "clean" => ~Live(e)')
    BY <2>1, <1>1, <1>2 DEF PurgeInv, Live
  <2>4. QED
    BY <2>1, <2>2, <2>3, <1>1 DEF PurgeInv
<1>7. QED
  BY <1>3, <1>4, <1>5, <1>6

\* A sensor that goes away is listed by no document and no request that will
\* still find its document.
LEMMA CronDeleteSensorStep ==
    ASSUME IInv, NEW d \in Docs, CronDeleteSensor(d)
    PROVE  IInv'
<1> USE DEF IInv, InFlight, Functions_OK
<1>1. /\ UNCHANGED <<doc, allocated, request>>
      /\ Purging(d) /\ PurgeInv(d) /\ ~Live(d)
  BY DEF CronDeleteSensor, Purging, PurgeInv
<1>2. CASE UNCHANGED stored /\ cron' = [cron EXCEPT ![d] = Asleep]
  <2>1. Functions_OK' /\ DocumentsInv'
    BY <1>1, <1>2 DEF DocumentsInv, LiveSensorsExist, SensorsNotShared, Live
  <2>2. \A q \in Requests : InFlight(q)' => RequestInv(q)'
    BY <1>1, <1>2 DEF RequestInv, Live
  <2>3. \A q, t \in Requests : InFlight(q)' /\ InFlight(t)' => RequestsApart(q, t)'
    BY <1>1 DEF RequestsApart
  <2>4. \A e \in Docs : Purging(e)' => Purging(e) /\ cron'[e] = cron[e]
    BY <1>2 DEF Purging, Asleep
  <2>5. \A e \in Docs : Purging(e)' => PurgeInv(e)'
    BY <2>4, <1>1 DEF PurgeInv, Live
  <2>6. QED
    BY <2>1, <2>2, <2>3, <2>5
<1>3. ASSUME NEW s \in cron[d].sensors, stored' = stored \ {s},
             cron' = [cron EXCEPT ![d] = [stage |-> "clean", sensors |-> cron[d].sensors \ {s}]]
      PROVE  IInv'
  <2>1. \A e \in Docs : s \notin doc[e].sensors
    BY <1>1, <1>3 DEF PurgeInv, DocumentsInv
  <2>2. Functions_OK' /\ DocumentsInv'
    BY <2>1, <1>1, <1>3 DEF DocumentsInv, LiveSensorsExist, SensorsNotShared, Live
  <2>3. ASSUME NEW q \in Requests, InFlight(q)'
        PROVE  RequestInv(q)'
    <3>1. RequestInv(q) /\ InFlight(q)
      BY <1>1, <2>3
    <3>2. request[q].doc # <<d>> => s \notin request[q].sensors
      BY <3>1, <1>1, <1>3 DEF PurgeInv
    <3>3. \/ request[q].doc = <<>> /\ request[q].sensors \subseteq stored'
          \/ \E e \in Docs : /\ request[q].doc = <<e>>
                             /\ doc[e].state # "unused"
                             /\ Live(e) => request[q].sensors \subseteq stored'
      <4>1. CASE request[q].doc = <<>>
        BY SMTT(30), <4>1, <3>1, <3>2, <1>3 DEF RequestInv
      <4>2. ASSUME NEW e \in Docs, request[q].doc = <<e>>, doc[e].state # "unused",
                   Live(e) => request[q].sensors \subseteq stored
            PROVE  Live(e) => request[q].sensors \subseteq stored'
        BY <4>2, <3>2, <1>1, <1>3
      <4>3. QED
        BY <4>1, <4>2, <3>1 DEF RequestInv
    <3>4. QED
      BY <3>1, <3>3, <1>1 DEF RequestInv, Live
  <2>4. \A q, t \in Requests : InFlight(q)' /\ InFlight(t)' => RequestsApart(q, t)'
    BY <1>1 DEF RequestsApart
  <2>5. ASSUME NEW e \in Docs, Purging(e)'
        PROVE  PurgeInv(e)'
    <3>1. PurgeInv(e) /\ cron'[e].sensors \subseteq cron[e].sensors
      BY <1>1, <1>3, <2>5 DEF Purging
    <3>2. cron'[e].stage = "clean" => ~Live(e)
      BY <3>1, <1>1, <1>3 DEF PurgeInv
    <3>3. QED
      BY <3>1, <3>2, <1>1 DEF PurgeInv, Live
  <2>6. QED
    BY <2>2, <2>3, <2>4, <2>5
<1>4. QED
  BY <1>2, <1>3 DEF CronDeleteSensor

LEMMA RestartStep ==
    ASSUME IInv, Restart
    PROVE  IInv'
BY DEF Restart, IInv, Functions_OK, DocumentsInv, LiveSensorsExist, SensorsNotShared, Live,
       InFlight, Idle, Purging, Asleep

LEMMA IdleStep ==
    ASSUME IInv, UNCHANGED <<doc, stored, allocated, request, cron>>
    PROVE  IInv'
BY DEF IInv, Functions_OK, DocumentsInv, LiveSensorsExist, SensorsNotShared, Live,
       InFlight, RequestInv, RequestsApart, Purging, PurgeInv

-----------------------------------------------------------------------------
LEMMA NextInv == IInv /\ [Next]_vars => IInv'
<1> SUFFICES ASSUME IInv, [Next]_vars
             PROVE  IInv'
  OBVIOUS
<1>1. ASSUME NEW r \in Requests, RequestStep(r)
      PROVE  IInv'
  BY <1>1, AddReadStep, DeleteReadStep, RestoreReadStep, EditReadStep, AddSensorsStep,
     AddCreateStep, WriteWholeStep, WriteMembershipStep, FailStep DEF RequestStep
<1>2. CASE CronStep
  BY <1>2, CronFindStep, CronUpdateStep, CronDeleteStep, CronDeleteSensorStep DEF CronStep
<1>3. CASE Tick
  BY <1>3, IdleStep DEF Tick
<1>4. CASE Restart
  BY <1>4, RestartStep
<1>5. CASE UNCHANGED vars
  BY <1>5, IdleStep DEF vars
<1>6. QED
  BY <1>1, <1>2, <1>3, <1>4, <1>5 DEF Next

THEOREM InductiveInvariant == Spec => []IInv
BY InitInv, NextInv, PTL DEF Spec

\* Whatever interleaves - late writes of stale documents, the cron job, restarts -
\* every sensor a device document lists is in the sensors collection.
THEOREM SensorsExist == Spec => []LiveSensorsExist
<1>1. IInv => LiveSensorsExist
  BY DEF IInv, DocumentsInv
<1>2. QED
  BY <1>1, InductiveInvariant, PTL

\* No two device documents list the same sensor document.
THEOREM SensorsApart == Spec => []SensorsNotShared
<1>1. IInv => SensorsNotShared
  BY DEF IInv, DocumentsInv
<1>2. QED
  BY <1>1, InductiveInvariant, PTL

-----------------------------------------------------------------------------
(* Invariants for types, and for one request or clean-up at a time.        *)

Entries == Seq(Entry)

PendingType ==
    [stage : {"sensors", "create", "write", "platform", "membership"}, dev : Devices,
     doc : {<<>>} \cup {<<d>> : d \in Docs}, groups : Seq(Groups), disabled : Entries,
     sensors : SUBSET SensorIds]
UpdateType == [stage : {"update"}, disabled : Entries]
PurgeType == [stage : {"purge", "clean"}, sensors : SUBSET SensorIds]

Typed ==
    /\ doc \in [Docs -> Document]
    /\ stored \subseteq SensorIds
    /\ allocated \subseteq SensorIds
    /\ request \in [Requests -> {Idle} \cup PendingType]
    /\ cron \in [Docs -> {Asleep} \cup UpdateType \cup PurgeType]
    /\ clock \in 0..MaxClock
    /\ events \in 0..MaxEvents

Lists(entries, g) == \E k \in DOMAIN entries : entries[k].group = g

\* A group that is in neither of two lists is forgotten by d.
Recalls(groups, entries, d) ==
    \A g \in Groups : Remembered(d, g) => Contains(groups, g) \/ Lists(entries, g)

\* One request at a time: what it read is stored still.
RequestSerial(r) ==
    /\ \A q \in Requests : InFlight(q) => q = r
    /\ \A d \in Docs : cron[d] = Asleep
    /\ request[r].groups # <<>> \/ request[r].disabled # <<>>
    /\ request[r].doc = <<>> => Found(request[r].dev) = {}
    /\ \A d \in Docs : request[r].doc = <<d>> => Recalls(request[r].groups, request[r].disabled, d)

\* The plan for a document is right until it is carried out.
CronSerial(d) ==
    /\ cron[d].stage = "update" =>
          /\ doc[d].groups # <<>> \/ cron[d].disabled # <<>>
          /\ Recalls(doc[d].groups, cron[d].disabled, d)
    /\ cron[d].stage = "purge" /\ Live(d) =>
          /\ doc[d].groups = <<>>
          /\ \A k \in DOMAIN doc[d].disabled : Expired(doc[d].disabled[k])

SerialInv ==
    /\ OneDocPerDevice
    /\ NeverOrphaned
    /\ \A r \in Requests : InFlight(r) => RequestSerial(r)
    /\ \A d \in Docs : CronSerial(d)

-----------------------------------------------------------------------------
(* Lists.  What a loop over a list computes is proved for the least index   *)
(* that would break it.                                                     *)

LEMMA Smallest ==
    ASSUME NEW S \in SUBSET Nat, S # {}
    PROVE  \E n \in S : \A m \in S : n <= m
<1> DEFINE R == {p \in Nat \X Nat : p[1] < p[2]}
<1>1. IsWellFoundedOn(R, Nat)
  BY NatLessThanWellFounded DEF OpToRel
<1>2. \A m, n \in Nat : m < n => <<m, n>> \in R
  OBVIOUS
<1> HIDE DEF R
<1>3. PICK n \in S : \A m \in S : <<m, n>> \notin R
  BY <1>1, WFMin
<1>4. \A m \in S : ~(m < n)
  BY <1>2, <1>3
<1>5. QED
  BY <1>4

\* The loop of handleCron over the disabled groups: what is not expired stays.
LEMMA SweepKeeps ==
    ASSUME NEW entries \in Entries
    PROVE  /\ Sweep(entries) \in Entries
           /\ \A i \in 1..Len(entries) : ~Expired(entries[i]) =>
                 \E j \in 1..Len(Sweep(entries)) : Sweep(entries)[j] = entries[i]
<1> DEFINE n == Len(entries)
           Turn(f, k) ==
              IF k = 0 THEN [kept |-> <<>>, skip |-> FALSE]
              ELSE IF ~f[k - 1].skip /\ Expired(entries[k])
                   THEN [kept |-> f[k - 1].kept, skip |-> TRUE]
                   ELSE [kept |-> Append(f[k - 1].kept, entries[k]), skip |-> FALSE]
           Loop(f, m) == f = [k \in 0..m |-> Turn(f, k)]
           swept == CHOOSE f : Loop(f, n)
<1>1. n \in Nat
  BY SMTT(30) DEF Entries
<1>2. \A m \in 0..n : \E f : Loop(f, m)
  <2> DEFINE S == {m \in 0..n : ~\E f : Loop(f, m)}
  <2>1. SUFFICES ASSUME S # {} PROVE FALSE
    OBVIOUS
  <2>2. PICK m \in S : \A x \in S : m <= x
    <3>1. S \in SUBSET Nat
      BY <1>1
    <3> HIDE DEF S
    <3>2. QED
      BY <2>1, <3>1, Smallest
  <2>3. m # 0
    <3>1. Loop([k \in {0} |-> [kept |-> <<>>, skip |-> FALSE]], 0)
      <4>1. 0..0 = {0}
        OBVIOUS
      <4>2. QED
        BY <4>1
    <3>2. QED
      BY <3>1
  <2>4. PICK f : Loop(f, m - 1)
    <3>1. m - 1 \in 0..n /\ ~(m <= m - 1)
      BY <2>3, <1>1
    <3>2. m - 1 \notin S
      BY <2>2, <3>1
    <3>3. QED
      BY <3>1, <3>2
  <2> DEFINE g == [k \in 0..m |-> IF k = m THEN Turn(f, m) ELSE f[k]]
  <2>5. Loop(g, m)
    <3>1. ASSUME NEW k \in 0..m PROVE g[k] = Turn(g, k)
      <4>1. k # 0 => k - 1 \in 0..m /\ k - 1 # m /\ g[k - 1] = f[k - 1]
        BY SMTT(30), <1>1
      <4>2. Turn(g, k) = Turn(f, k)
        BY <4>1
      <4>3. k # m => k \in 0..(m - 1) /\ f[k] = Turn(f, k)
        <5> HIDE DEF Turn
        <5>1. k # m => k \in 0..(m - 1)
          BY <1>1
        <5>2. QED
          BY <5>1, <2>4
      <4> HIDE DEF Turn
      <4>4. QED
        BY <4>2, <4>3
    <3> HIDE DEF Turn
    <3>2. QED
      BY <3>1
  <2>6. QED
    BY <2>2, <2>5
<1>3. Loop(swept, n)
  <2> HIDE DEF Loop
  <2>1. \E f : Loop(f, n)
    BY <1>1, <1>2
  <2>2. QED
    BY <2>1
<1>4. Sweep(entries) = swept[n].kept
  BY DEF Sweep
<1> HIDE DEF swept
<1>5. \A k \in 0..n : swept[k] = Turn(swept, k)
  <2> HIDE DEF Turn
  <2>1. QED
    BY <1>3
<1> DEFINE Good(k) == /\ swept[k].kept \in Entries
                      /\ \A i \in 1..k : ~Expired(entries[i]) =>
                            \E j \in 1..Len(swept[k].kept) : swept[k].kept[j] = entries[i]
<1>6. Good(0)
  <2>1. swept[0] = [kept |-> <<>>, skip |-> FALSE]
    <3>1. Turn(swept, 0) = [kept |-> <<>>, skip |-> FALSE] /\ 0 \in 0..n
      BY <1>1
    <3> HIDE DEF Turn
    <3>2. QED
      BY <3>1, <1>5
  <2>2. QED
    BY <2>1 DEF Entries
<1>7. ASSUME NEW k \in 1..n, Good(k - 1) PROVE Good(k)
  <2>1. k - 1 \in 0..n /\ k \in 0..n /\ k # 0 /\ entries[k] \in Entry
    BY <1>1 DEF Entries
  <2> DEFINE old == swept[k - 1].kept
  <2>2. \/ Expired(entries[k]) /\ swept[k].kept = old
        \/ swept[k].kept = Append(old, entries[k])
    <3>1. swept[k] = IF ~swept[k - 1].skip /\ Expired(entries[k])
                     THEN [kept |-> old, skip |-> TRUE]
                     ELSE [kept |-> Append(old, entries[k]), skip |-> FALSE]
      BY <1>5, <2>1
    <3> HIDE DEF old
    <3>2. CASE ~swept[k - 1].skip /\ Expired(entries[k])
      BY <3>1, <3>2
    <3>3. CASE ~(~swept[k - 1].skip /\ Expired(entries[k]))
      BY <3>1, <3>3
    <3>4. QED
      BY <3>2, <3>3
  <2>3. /\ old \in Entries
        /\ \A i \in 1..(k - 1) : ~Expired(entries[i]) => \E j \in 1..Len(old) : old[j] = entries[i]
    BY <1>7
  <2> HIDE DEF old
  <2>4. CASE Expired(entries[k]) /\ swept[k].kept = old
    <3>1. \A i \in 1..k : ~Expired(entries[i]) => i \in 1..(k - 1)
      BY <2>4, <1>1
    <3>2. QED
      BY <3>1, <2>3, <2>4
  <2>5. CASE swept[k].kept = Append(old, entries[k])
    <3> DEFINE new == Append(old, entries[k])
    <3>1. /\ new \in Entries /\ Len(old) \in Nat /\ Len(new) = Len(old) + 1 /\ new[Len(old) + 1] = entries[k]
          /\ \A j \in 1..Len(old) : new[j] = old[j]
      BY <2>1, <2>3 DEF Entries
    <3> HIDE DEF new
    <3>2. ASSUME NEW i \in 1..k, ~Expired(entries[i])
          PROVE  \E j \in 1..Len(new) : new[j] = entries[i]
      <4>1. CASE i = k
        BY <4>1, <3>1
      <4>2. CASE i # k
        <5>1. i \in 1..(k - 1)
          BY <4>2, <1>1
        <5>2. PICK j \in 1..Len(old) : old[j] = entries[i]
          BY <5>1, <3>2, <2>3
        <5>3. j \in 1..Len(new) /\ new[j] = entries[i]
          BY <5>2, <3>1
        <5>4. QED
          BY <5>3
      <4>3. QED
        BY <4>1, <4>2
    <3>3. swept[k].kept = new
      BY <2>5 DEF new
    <3>4. QED
      BY <3>1, <3>2, <3>3
  <2>6. QED
    BY <2>2, <2>4, <2>5
<1>8. Good(n)
  <2> DEFINE S == {k \in 0..n : ~Good(k)}
  <2>1. SUFFICES ASSUME S # {} PROVE FALSE
    BY <1>1
  <2>2. PICK k \in S : \A x \in S : k <= x
    <3>1. S \in SUBSET Nat
      BY <1>1
    <3> HIDE DEF S
    <3>2. QED
      BY <2>1, <3>1, Smallest
  <2> HIDE DEF Good
  <2>3. k \in 1..n /\ k - 1 \in 0..n /\ ~(k <= k - 1)
    BY <2>2, <1>1, <1>6
  <2>4. Good(k - 1)
    BY <2>2, <2>3
  <2>5. QED
    BY <2>2, <2>3, <2>4, <1>7
<1>9. QED
  BY SMTT(30), <1>4, <1>8

LEMMA LeastIndex ==
    ASSUME NEW n \in Nat, NEW I \in SUBSET (1..n), I # {}
    PROVE  Min(I) \in I
<1>1. I \in SUBSET Nat
  OBVIOUS
<1>2. \E i \in I : \A j \in I : i <= j
  BY <1>1, Smallest
<1>3. QED
  BY <1>2 DEF Min

LEMMA OneRemoved ==
    ASSUME NEW S, NEW s \in Seq(S), NEW i \in 1..Len(s)
    PROVE  /\ RemoveAt(s, i) \in Seq(S)
           /\ \A j \in 1..Len(s) : j # i =>
                 \E k \in 1..Len(RemoveAt(s, i)) : RemoveAt(s, i)[k] = s[j]
<1> DEFINE before == SubSeq(s, 1, i - 1)
           after == SubSeq(s, i + 1, Len(s))
           rest == before \o after
<1>1. /\ before \in Seq(S) /\ Len(before) = i - 1
      /\ \A k \in 1..(i - 1) : before[k] = s[k]
  OBVIOUS
<1>2. /\ after \in Seq(S) /\ Len(after) = Len(s) - i
      /\ \A k \in 1..(Len(s) - i) : after[k] = s[i + k]
  OBVIOUS
<1>3. /\ rest \in Seq(S) /\ Len(rest) = Len(before) + Len(after)
      /\ \A k \in 1..Len(before) : rest[k] = before[k]
      /\ \A k \in 1..Len(after) : rest[Len(before) + k] = after[k]
  <2>1. before \in Seq(S) /\ after \in Seq(S)
    BY <1>1, <1>2
  <2> HIDE DEF before, after
  <2>2. QED
    BY <2>1
<1>4. RemoveAt(s, i) = rest
  BY DEF RemoveAt
<1> HIDE DEF before, after, rest
<1>5. Len(s) \in Nat /\ i \in Nat /\ Len(rest) = Len(s) - 1
  BY <1>1, <1>2, <1>3
<1>6. ASSUME NEW j \in 1..Len(s), j # i
      PROVE  \E k \in 1..Len(rest) : rest[k] = s[j]
  <2>1. CASE j < i
    <3>1. j \in 1..(i - 1) /\ j \in 1..Len(rest)
      BY <2>1, <1>5
    <3>2. rest[j] = s[j]
      BY <3>1, <1>1, <1>3
    <3>3. QED
      BY <3>1, <3>2
  <2>2. CASE j > i
    <3>1. PICK m \in 1..(Len(s) - i) : j = i + m
      <4>1. j - i \in 1..(Len(s) - i) /\ j = i + (j - i)
        BY <2>2, <1>5
      <4>2. QED
        BY <4>1
    <3>2. rest[(i - 1) + m] = s[i + m]
      BY <1>1, <1>2, <1>3
    <3>3. (i - 1) + m \in 1..Len(rest)
      BY <1>5
    <3>4. QED
      BY <3>1, <3>2, <3>3
  <2>3. QED
    BY <2>1, <2>2, <1>5, <1>6
<1>7. QED
  BY <1>3, <1>4, <1>6

LEMMA GroupRemoved ==
    ASSUME NEW s \in Seq(Groups), NEW g \in Groups
    PROVE  /\ RemoveFirst(s, g) \in Seq(Groups)
           /\ \A h \in Groups : Contains(s, h) /\ h # g => Contains(RemoveFirst(s, g), h)
<1>1. CASE \E i \in 1..Len(s) : s[i] = g
  <2> DEFINE I == {i \in 1..Len(s) : s[i] = g}
  <2>1. Min(I) \in I
    <3>1. I \in SUBSET (1..Len(s)) /\ I # {} /\ Len(s) \in Nat
      BY <1>1
    <3> HIDE DEF I
    <3>2. QED
      BY <3>1, LeastIndex
  <2>2. RemoveFirst(s, g) = RemoveAt(s, Min(I))
    BY <1>1 DEF RemoveFirst, SelectInSeq
  <2>3. PICK i \in 1..Len(s) : i = Min(I) /\ s[i] = g
    BY <2>1
  <2> HIDE DEF I
  <2>4. QED
    BY <2>2, <2>3, OneRemoved DEF Contains
<1>2. CASE ~\E i \in 1..Len(s) : s[i] = g
  BY <1>2 DEF RemoveFirst
<1>3. QED
  BY <1>1, <1>2

LEMMA EntryRemoved ==
    ASSUME NEW s \in Entries, NEW g \in Groups
    PROVE  /\ RemoveFirstMatch(s, LAMBDA e : e.group = g) \in Entries
           /\ \A h \in Groups : Lists(s, h) /\ h # g =>
                 Lists(RemoveFirstMatch(s, LAMBDA e : e.group = g), h)
<1> DEFINE rest == RemoveFirstMatch(s, LAMBDA e : e.group = g)
<1>1. CASE \E i \in 1..Len(s) : s[i].group = g
  <2> DEFINE I == {i \in 1..Len(s) : s[i].group = g}
  <2>1. Min(I) \in I
    <3>1. I \in SUBSET (1..Len(s)) /\ I # {} /\ Len(s) \in Nat
      BY <1>1 DEF Entries
    <3> HIDE DEF I
    <3>2. QED
      BY <3>1, LeastIndex
  <2>2. rest = RemoveAt(s, Min(I))
    BY <1>1 DEF RemoveFirstMatch, SelectInSeq
  <2>3. PICK i \in 1..Len(s) : i = Min(I) /\ s[i].group = g
    BY <2>1
  <2> HIDE DEF I, rest
  <2>4. /\ rest \in Entries
        /\ \A j \in 1..Len(s) : j # i => \E k \in 1..Len(rest) : rest[k] = s[j]
    BY <2>2, <2>3, OneRemoved DEF Entries
  <2>5. DOMAIN s = 1..Len(s) /\ DOMAIN rest = 1..Len(rest)
    BY <2>4 DEF Entries
  <2>6. rest \in Entries /\ \A h \in Groups : Lists(s, h) /\ h # g => Lists(rest, h)
    BY <2>3, <2>4, <2>5 DEF Lists
  <2>7. QED
    BY <2>6 DEF rest
<1>2. CASE ~\E i \in 1..Len(s) : s[i].group = g
  BY <1>2 DEF RemoveFirstMatch
<1>3. QED
  BY <1>1, <1>2

LEMMA Pushed ==
    ASSUME NEW S, NEW s \in Seq(S), NEW x \in S
    PROVE  /\ Append(s, x) \in Seq(S) /\ Append(s, x) # <<>> /\ Contains(Append(s, x), x)
           /\ \A y : Contains(s, y) => Contains(Append(s, x), y)
<1>1. /\ Append(s, x) \in Seq(S) /\ Len(s) \in Nat /\ Len(Append(s, x)) = Len(s) + 1
      /\ Append(s, x)[Len(s) + 1] = x
      /\ \A i \in 1..Len(s) : Append(s, x)[i] = s[i]
  OBVIOUS
<1> DEFINE t == Append(s, x)
<1> HIDE DEF t
<1>2. /\ t \in Seq(S) /\ Len(s) \in Nat /\ Len(t) = Len(s) + 1 /\ t[Len(s) + 1] = x
      /\ \A i \in 1..Len(s) : t[i] = s[i]
  BY <1>1 DEF t
<1>3. t # <<>>
  BY <1>2
<1>4. Len(s) + 1 \in 1..Len(t) /\ \A i \in 1..Len(s) : i \in 1..Len(t)
  BY <1>2
<1>5. Contains(t, x) /\ \A y : Contains(s, y) => Contains(t, y)
  BY <1>2, <1>4 DEF Contains
<1>6. QED
  BY <1>2, <1>3, <1>5 DEF t

\* A list lists the groups of its entries, and one more after an entry is added.
LEMMA EntryPushed ==
    ASSUME NEW s \in Entries, NEW e \in Entry
    PROVE  /\ Append(s, e) \in Entries /\ Append(s, e) # <<>> /\ Lists(Append(s, e), e.group)
           /\ \A h : Lists(s, h) => Lists(Append(s, e), h)
<1>1. /\ Append(s, e) \in Entries /\ Append(s, e) # <<>> /\ Contains(Append(s, e), e)
      /\ \A y : Contains(s, y) => Contains(Append(s, e), y)
  BY Pushed DEF Entries
<1>2. \A t \in Entries : \A h : Lists(t, h) <=> \E y : Contains(t, y) /\ y.group = h
  BY DEF Lists, Contains, Entries
<1>3. QED
  BY <1>1, <1>2

-----------------------------------------------------------------------------
(* Types.                                                                  *)

LEMMA InitTyped == Init => Typed
<1> SUFFICES ASSUME Init PROVE Typed
  OBVIOUS
<1>1. NoDocument("unused") \in Document
  BY DEF NoDocument, Document
<1>2. doc \in [Docs -> Document] /\ request \in [Requests -> {Idle} \cup PendingType]
      /\ cron \in [Docs -> {Asleep} \cup UpdateType \cup PurgeType]
  BY <1>1 DEF Init
<1>3. QED
  BY <1>2, LifecycleAssumption DEF Init, Typed

LEMMA TypesOf ==
    ASSUME Typed
    PROVE  /\ \A d \in Docs : /\ doc[d].groups \in Seq(Groups) /\ doc[d].disabled \in Entries
                              /\ doc[d].sensors \in SUBSET SensorIds
           /\ \A r \in Requests : InFlight(r) => request[r] \in PendingType
BY DEF Typed, Document, Entries, InFlight, Idle

LEMMA StartTyped ==
    ASSUME Typed, NEW r \in Requests, NEW next \in PendingType, Start(r, next)
    PROVE  Typed'
<1>1. request' \in [Requests -> {Idle} \cup PendingType]
  BY DEF Start, Typed
<1>2. events' \in 0..MaxEvents
  BY LifecycleAssumption DEF Start, Typed
<1>3. QED
  BY <1>1, <1>2 DEF Start, Typed

\* A request on a known document has read its lists.
LEMMA ReadTyped ==
    ASSUME Typed, NEW r \in Requests, NEW dev \in Devices, NEW d \in Found(dev),
           NEW stage \in {"sensors", "platform", "membership"},
           NEW groups \in Seq(Groups), NEW disabled \in Entries,
           NEW sensors \in SUBSET SensorIds,
           Start(r, Pending(stage, dev, <<d>>, groups, disabled, sensors))
    PROVE  Typed'
<1>1. d \in Docs
  BY DEF Found
<1>2. Pending(stage, dev, <<d>>, groups, disabled, sensors) \in PendingType
  BY <1>1 DEF Pending, PendingType
<1>3. QED
  BY <1>2, StartTyped

LEMMA AddReadTyped ==
    ASSUME Typed, NEW r \in Requests, NEW dev \in Devices, NEW g \in Groups, AddRead(r, dev, g)
    PROVE  Typed'
<1>1. CASE Start(r, Pending("sensors", dev, <<>>, <<g>>, <<>>, {}))
  <2>1. Pending("sensors", dev, <<>>, <<g>>, <<>>, {}) \in PendingType
    BY DEF Pending, PendingType, Entries
  <2>2. QED
    BY <1>1, <2>1, StartTyped
<1>2. ASSUME NEW d \in Found(dev),
             Start(r, Pending("sensors", dev, <<d>>, PushIfAbsent(doc[d].groups, g),
                              doc[d].disabled, doc[d].sensors))
      PROVE  Typed'
  <2>1. d \in Docs
    BY DEF Found
  <2>2. PushIfAbsent(doc[d].groups, g) \in Seq(Groups)
    BY <2>1, TypesOf, Pushed DEF PushIfAbsent
  <2>3. QED
    BY <1>2, <2>1, <2>2, TypesOf, ReadTyped
<1>3. QED
  BY <1>1, <1>2 DEF AddRead

LEMMA EditReadTyped ==
    ASSUME Typed, NEW r \in Requests, NEW dev \in Devices, EditRead(r, dev)
    PROVE  Typed'
<1>1. PICK d \in Found(dev) :
        Start(r, Pending("platform", dev, <<d>>, doc[d].groups, doc[d].disabled, doc[d].sensors))
  BY DEF EditRead
<1>2. d \in Docs
  BY DEF Found
<1>3. QED
  BY <1>1, <1>2, TypesOf, ReadTyped

\* An entry is made with the time of now.
LEMMA EntryTyped ==
    ASSUME Typed, NEW g \in Groups
    PROVE  DisabledGroup(g) \in Entry /\ DisabledGroup(g).group = g
BY DEF DisabledGroup, Entry, Typed

LEMMA DeleteReadTyped ==
    ASSUME Typed, NEW r \in Requests, NEW dev \in Devices, NEW g \in Groups, DeleteRead(r, dev, g)
    PROVE  Typed'
<1>1. PICK d \in Found(dev) :
        Start(r, Pending("membership", dev, <<d>>, RemoveFirst(doc[d].groups, g), WithDisabled(d, g), {}))
  BY DEF DeleteRead
<1>2. d \in Docs
  BY DEF Found
<1>3. RemoveFirst(doc[d].groups, g) \in Seq(Groups)
  BY <1>2, TypesOf, GroupRemoved
<1>4. WithDisabled(d, g) \in Entries
  BY <1>2, TypesOf, EntryTyped, EntryPushed DEF WithDisabled
<1>5. QED
  BY <1>1, <1>3, <1>4, ReadTyped

LEMMA RestoreReadTyped ==
    ASSUME Typed, NEW r \in Requests, NEW dev \in Devices, NEW g \in Groups, RestoreRead(r, dev, g)
    PROVE  Typed'
<1>1. PICK d \in Found(dev) :
        Start(r, Pending("membership", dev, <<d>>, Append(doc[d].groups, g),
                 RemoveFirstMatch(doc[d].disabled, LAMBDA e : e.group = g), {}))
  BY DEF RestoreRead
<1>2. d \in Docs
  BY DEF Found
<1> DEFINE rest == RemoveFirstMatch(doc[d].disabled, LAMBDA e : e.group = g)
<1>3. rest \in Entries
  BY <1>2, TypesOf, EntryRemoved
<1>4. Append(doc[d].groups, g) \in Seq(Groups)
  BY <1>2, TypesOf, Pushed
<1>5. PICK list \in Entries : list = rest
  BY <1>3
<1>6. PICK groups \in Seq(Groups) : groups = Append(doc[d].groups, g)
  BY <1>4
<1>7. Start(r, Pending("membership", dev, <<d>>, groups, list, {}))
  BY <1>1, <1>5, <1>6
<1>8. QED
  BY <1>7, ReadTyped

LEMMA AddSensorsTyped ==
    ASSUME Typed, NEW r \in Requests, AddSensors(r)
    PROVE  Typed'
<1>1. PICK new \in SUBSET UnusedSensorIds :
          /\ stored' = stored \cup new
          /\ allocated' = allocated \cup new
          /\ request' = [request EXCEPT ![r] =
                Pending(IF request[r].doc = <<>> THEN "create" ELSE "write",
                        request[r].dev, request[r].doc, request[r].groups,
                        request[r].disabled, request[r].sensors \cup new)]
  BY DEF AddSensors
<1>2. request[r] \in PendingType /\ new \in SUBSET SensorIds
  BY TypesOf DEF AddSensors, InFlight, UnusedSensorIds
<1>3. PICK stage \in {"create", "write"} : stage = IF request[r].doc = <<>> THEN "create" ELSE "write"
  OBVIOUS
<1>4. Pending(stage, request[r].dev, request[r].doc, request[r].groups,
              request[r].disabled, request[r].sensors \cup new) \in PendingType
  BY <1>2 DEF Pending, PendingType
<1>5. request' \in [Requests -> {Idle} \cup PendingType]
  BY <1>1, <1>3, <1>4 DEF Typed
<1>6. QED
  BY <1>1, <1>2, <1>5 DEF Typed, AddSensors

LEMMA FinishTyped ==
    ASSUME Typed, NEW r \in Requests, Finish(r), doc' \in [Docs -> Document],
           UNCHANGED <<stored, allocated, cron, clock, events>>
    PROVE  Typed'
<1>1. request' \in [Requests -> {Idle} \cup PendingType]
  BY DEF Finish, Typed
<1>2. QED
  BY <1>1 DEF Typed

LEMMA WholeTyped ==
    ASSUME Typed, NEW r \in Requests, InFlight(r)
    PROVE  Whole(r) \in Document
<1>1. request[r] \in PendingType
  BY TypesOf
<1>2. QED
  BY <1>1 DEF PendingType, Whole, Document, Entries

LEMMA UpdatedTyped ==
    ASSUME Typed, NEW d \in Docs, NEW set \in Document
    PROVE  Updated(d, set) \in [Docs -> Document]
BY DEF Typed, Updated

LEMMA AddCreateTyped ==
    ASSUME Typed, NEW r \in Requests, AddCreate(r)
    PROVE  Typed'
<1>1. InFlight(r)
  BY DEF AddCreate, InFlight
<1>2. doc' \in [Docs -> Document]
  BY <1>1, WholeTyped DEF AddCreate, Typed
<1>3. QED
  BY <1>2, FinishTyped DEF AddCreate

LEMMA WriteWholeTyped ==
    ASSUME IInv, Typed, NEW r \in Requests, WriteWhole(r)
    PROVE  Typed'
<1>1. InFlight(r) /\ RequestInv(r)
  BY DEF WriteWhole, InFlight, IInv
<1>2. PICK d \in Docs : request[r].doc = <<d>>
  BY <1>1 DEF WriteWhole, RequestInv
<1>3. doc' \in [Docs -> Document]
  BY SMTT(30), <1>1, <1>2, WholeTyped, UpdatedTyped DEF WriteWhole
<1>4. QED
  BY <1>3, FinishTyped DEF WriteWhole

LEMMA WriteMembershipTyped ==
    ASSUME IInv, Typed, NEW r \in Requests, WriteMembership(r)
    PROVE  Typed'
<1>1. InFlight(r) /\ RequestInv(r)
  BY DEF WriteMembership, InFlight, IInv
<1>2. PICK d \in Docs : request[r].doc = <<d>>
  BY <1>1 DEF WriteMembership, RequestInv
<1> DEFINE set == [state |-> "live", groups |-> request[r].groups,
                   disabled |-> request[r].disabled, sensors |-> doc[d].sensors]
<1>3. set \in Document
  BY <1>1, TypesOf DEF PendingType, Document, Entries
<1>4. doc' = Updated(d, set)
  BY <1>2 DEF WriteMembership
<1> HIDE DEF set
<1>5. doc' \in [Docs -> Document]
  BY <1>3, <1>4, UpdatedTyped
<1>6. QED
  BY <1>5, FinishTyped DEF WriteMembership

LEMMA FailTyped ==
    ASSUME Typed, NEW r \in Requests, Fail(r)
    PROVE  Typed'
<1>1. doc' \in [Docs -> Document]
  BY DEF Fail, Typed
<1>2. QED
  BY <1>1, FinishTyped DEF Fail

LEMMA CronFindTyped ==
    ASSUME Typed, CronFind
    PROVE  Typed'
<1>1. ASSUME NEW d \in Docs
      PROVE  CronPlan(d) \in UpdateType \cup PurgeType
  <2>1. Sweep(doc[d].disabled) \in Entries
    BY TypesOf, SweepKeeps
  <2>2. UpdateDocument(d) \in UpdateType
    BY <2>1 DEF UpdateDocument, UpdateType
  <2>3. PurgeDocument(d) \in PurgeType
    BY TypesOf DEF PurgeDocument, PurgeType
  <2>4. QED
    BY <2>2, <2>3 DEF CronPlan
<1>2. cron' \in [Docs -> {Asleep} \cup UpdateType \cup PurgeType]
  BY <1>1 DEF CronFind
<1>3. QED
  BY <1>2 DEF CronFind, Typed

LEMMA CronOneTyped ==
    ASSUME Typed, NEW d \in Docs, NEW plan \in {Asleep} \cup PurgeType,
           cron' = [cron EXCEPT ![d] = plan]
    PROVE  cron' \in [Docs -> {Asleep} \cup UpdateType \cup PurgeType]
BY DEF Typed

LEMMA CronUpdateTyped ==
    ASSUME Typed, NEW d \in Docs, CronUpdate(d)
    PROVE  Typed'
<1>1. cron[d] \in UpdateType
  BY DEF CronUpdate, Typed, Asleep, PurgeType
<1>2. [state |-> "live", groups |-> doc[d].groups,
       disabled |-> cron[d].disabled, sensors |-> doc[d].sensors] \in Document
  BY <1>1, TypesOf DEF UpdateType, Document, Entries
<1>3. doc' \in [Docs -> Document]
  BY <1>2, UpdatedTyped DEF CronUpdate
<1>4. cron' \in [Docs -> {Asleep} \cup UpdateType \cup PurgeType]
  BY CronOneTyped DEF CronUpdate
<1>5. QED
  BY <1>3, <1>4 DEF CronUpdate, Typed

LEMMA CronDeleteTyped ==
    ASSUME Typed, NEW d \in Docs, CronDelete(d)
    PROVE  Typed'
<1>1. cron[d] \in PurgeType
  BY DEF CronDelete, Typed, Asleep, UpdateType
<1>2. [stage |-> "clean", sensors |-> cron[d].sensors] \in PurgeType
  BY <1>1 DEF PurgeType
<1>3. cron' \in [Docs -> {Asleep} \cup UpdateType \cup PurgeType]
  BY <1>2, CronOneTyped DEF CronDelete
<1>4. NoDocument("purged") \in Document
  BY DEF NoDocument, Document
<1>5. doc' \in [Docs -> Document]
  BY <1>4 DEF CronDelete, Typed
<1>6. QED
  BY <1>3, <1>5 DEF CronDelete, Typed

LEMMA CronDeleteSensorTyped ==
    ASSUME Typed, NEW d \in Docs, CronDeleteSensor(d)
    PROVE  Typed'
<1>1. cron[d] \in PurgeType
  BY DEF CronDeleteSensor, Typed, Asleep, UpdateType
<1>2. CASE cron' = [cron EXCEPT ![d] = Asleep] /\ UNCHANGED stored
  <2>1. cron' \in [Docs -> {Asleep} \cup UpdateType \cup PurgeType]
    BY <1>2, CronOneTyped
  <2>2. QED
    BY <1>2, <2>1 DEF CronDeleteSensor, Typed
<1>3. ASSUME NEW s \in cron[d].sensors, stored' = stored \ {s},
             cron' = [cron EXCEPT ![d] = [stage |-> "clean", sensors |-> cron[d].sensors \ {s}]]
      PROVE  Typed'
  <2>1. [stage |-> "clean", sensors |-> cron[d].sensors \ {s}] \in PurgeType
    BY <1>1 DEF PurgeType
  <2>2. cron' \in [Docs -> {Asleep} \cup UpdateType \cup PurgeType]
    BY <1>3, <2>1, CronOneTyped
  <2>3. QED
    BY <1>3, <2>2 DEF CronDeleteSensor, Typed
<1>4. QED
  BY <1>2, <1>3 DEF CronDeleteSensor

LEMMA NextTyped == IInv /\ Typed /\ [Next]_vars => Typed'
<1> SUFFICES ASSUME IInv, Typed, [Next]_vars
             PROVE  Typed'
  OBVIOUS
<1>1. ASSUME NEW r \in Requests, RequestStep(r)
      PROVE  Typed'
  BY <1>1, AddReadTyped, DeleteReadTyped, RestoreReadTyped, EditReadTyped, AddSensorsTyped,
     AddCreateTyped, WriteWholeTyped, WriteMembershipTyped, FailTyped DEF RequestStep
<1>2. CASE CronStep
  BY <1>2, CronFindTyped, CronUpdateTyped, CronDeleteTyped, CronDeleteSensorTyped DEF CronStep
<1>3. CASE Tick
  <2>1. clock' \in 0..MaxClock
    BY <1>3, LifecycleAssumption DEF Tick, Typed
  <2>2. QED
    BY <1>3, <2>1 DEF Tick, Typed
<1>4. CASE Restart
  <2>1. events' \in 0..MaxEvents
    BY <1>4, LifecycleAssumption DEF Restart, Typed
  <2>2. /\ request' \in [Requests -> {Idle} \cup PendingType]
        /\ cron' \in [Docs -> {Asleep} \cup UpdateType \cup PurgeType]
    BY <1>4 DEF Restart
  <2>3. QED
    BY <1>4, <2>1, <2>2 DEF Restart, Typed
<1>5. CASE UNCHANGED vars
  BY <1>5 DEF vars, Typed
<1>6. QED
  BY <1>1, <1>2, <1>3, <1>4, <1>5 DEF Next

\* Documents, sensors, requests and the clock keep their types, whatever interleaves.
THEOREM DocumentsTyped == Spec => []TypeOK
<1>1. Typed => TypeOK
  BY DEF Typed, TypeOK, PendingType, Idle
<1>2. QED
  BY <1>1, InitInv, NextInv, InitTyped, NextTyped, PTL DEF Spec

-----------------------------------------------------------------------------
(* One request or clean-up at a time.                                      *)

LEMMA InitSerial == Init => SerialInv
BY DEF Init, SerialInv, OneDocPerDevice, NeverOrphaned, CronSerial, InFlight, Idle, Asleep,
       NoDocument, Live

\* A document recalls what it lists.
LEMMA Recalled ==
    ASSUME Typed, NEW d \in Docs, NEW g \in Groups, Remembered(d, g)
    PROVE  Contains(doc[d].groups, g) \/ Lists(doc[d].disabled, g)
BY DEF Remembered, EntriesOf, Lists

\* The clock goes on: what has expired stays so, and less is remembered.
LEMMA ExpiredLater ==
    ASSUME Typed, NEW e \in Entry, clock' \in {clock, clock + 1}, Expired(e)
    PROVE  Expired(e)'
<1>1. PICK at \in Nat : at = e.at
  BY LifecycleAssumption DEF Entry
<1>2. clock \in Nat /\ Retention \in Nat
  BY LifecycleAssumption DEF Typed
<1>3. at + Retention < clock => at + Retention < clock'
  BY <1>2
<1>4. QED
  BY <1>1, <1>3 DEF Expired

LEMMA RecallsLater ==
    ASSUME Typed, NEW d \in Docs, NEW groups, NEW entries, Recalls(groups, entries, d),
           doc'[d] = doc[d], clock' \in {clock, clock + 1}
    PROVE  Recalls(groups, entries, d)'
<1>1. ASSUME NEW g \in Groups, Remembered(d, g)' PROVE Remembered(d, g)
  <2>1. CASE Contains(doc'[d].groups, g)
    BY <2>1 DEF Remembered
  <2>2. ASSUME NEW k \in EntriesOf(d, g), ~(doc[d].disabled[k].at + Retention < clock')
        PROVE  Remembered(d, g)
    <3>1. k \in EntriesOf(d, g) /\ k \in DOMAIN doc[d].disabled
      BY DEF EntriesOf
    <3>2. doc[d].disabled[k] \in Entry
      BY <3>1, TypesOf DEF Entries
    <3>3. PICK e \in Entry : e = doc[d].disabled[k]
      BY <3>2
    <3>4. ~Expired(e)'
      BY <2>2, <3>3 DEF Expired
    <3>5. ~Expired(e)
      BY <3>4, ExpiredLater
    <3>6. QED
      BY <3>1, <3>3, <3>5 DEF Remembered
  <2>3. CASE \E k \in EntriesOf(d, g) : ~(doc[d].disabled[k].at + Retention < clock')
    BY <2>2, <2>3
  <2>4. QED
    BY <1>1, <2>1, <2>3 DEF Remembered, EntriesOf, Expired
<1>2. QED
  BY <1>1 DEF Recalls

-----------------------------------------------------------------------------
\* A request starts when nothing else runs.
LEMMA StartSerial ==
    ASSUME ~Overlap, Typed, SerialInv, NEW r \in Requests, NEW next, Start(r, next),
           next.groups # <<>> \/ next.disabled # <<>>,
           next.doc = <<>> => Found(next.dev) = {},
           \A d \in Docs : next.doc = <<d>> => Recalls(next.groups, next.disabled, d)
    PROVE  SerialInv'
<1>1. /\ \A q \in Requests : request[q] = Idle
      /\ \A d \in Docs : cron[d] = Asleep
      /\ request' = [request EXCEPT ![r] = next]
      /\ UNCHANGED <<doc, stored, allocated, cron, clock>>
  BY DEF Start, MayStart, Quiet
<1>2. request'[r] = next /\ \A q \in Requests : q # r => request'[q] = Idle
  BY <1>1 DEF Typed
<1>3. OneDocPerDevice' /\ NeverOrphaned'
  BY <1>1 DEF SerialInv, OneDocPerDevice, NeverOrphaned, Live
<1>4. \A d \in Docs : CronSerial(d)'
  BY <1>1 DEF CronSerial, Asleep
<1>5. \A q \in Requests : InFlight(q)' => q = r
  BY <1>2 DEF InFlight, Idle
<1>6. RequestSerial(r)'
  <2>1. Found(next.dev)' = Found(next.dev)
    BY <1>1 DEF Found, Live
  <2>2. ASSUME NEW d \in Docs, next.doc = <<d>>
        PROVE  Recalls(next.groups, next.disabled, d)'
    <3>1. PICK groups, entries : groups = next.groups /\ entries = next.disabled
      OBVIOUS
    <3>2. Recalls(groups, entries, d)
      BY <2>2, <3>1
    <3>3. QED
      BY <1>1, <3>1, <3>2, RecallsLater
  <2>3. QED
    BY <1>1, <1>2, <1>5, <2>1, <2>2 DEF RequestSerial
<1>7. QED
  BY <1>3, <1>4, <1>5, <1>6 DEF SerialInv

\* A request reads the document it is going to write.
LEMMA ReadSerial ==
    ASSUME ~Overlap, Typed, SerialInv, NEW r \in Requests, NEW dev, NEW d \in Docs,
           NEW stage, NEW groups, NEW entries, NEW sensors,
           Start(r, Pending(stage, dev, <<d>>, groups, entries, sensors)),
           groups # <<>> \/ entries # <<>>, Recalls(groups, entries, d)
    PROVE  SerialInv'
<1>1. PICK next : next = Pending(stage, dev, <<d>>, groups, entries, sensors)
  OBVIOUS
<1>2. /\ next.groups = groups /\ next.disabled = entries /\ next.doc = <<d>> /\ next.doc # <<>>
      /\ Start(r, next)
  BY <1>1 DEF Pending
<1>3. QED
  BY <1>2, StartSerial

LEMMA AddReadSerial ==
    ASSUME ~Overlap, Typed, SerialInv, NEW r \in Requests, NEW dev \in Devices, NEW g \in Groups,
           AddRead(r, dev, g)
    PROVE  SerialInv'
<1>1. CASE Found(dev) = {} /\ Start(r, Pending("sensors", dev, <<>>, <<g>>, <<>>, {}))
  <2>1. PICK next : next = Pending("sensors", dev, <<>>, <<g>>, <<>>, {})
    OBVIOUS
  <2>2. next.groups # <<>> /\ next.doc = <<>> /\ next.dev = dev /\ Start(r, next)
    BY <1>1, <2>1 DEF Pending
  <2>3. \A d \in Docs : next.doc # <<d>>
    BY <2>2
  <2>4. QED
    BY <1>1, <2>2, <2>3, StartSerial
<1>2. ASSUME NEW d \in Found(dev),
             Start(r, Pending("sensors", dev, <<d>>, PushIfAbsent(doc[d].groups, g),
                              doc[d].disabled, doc[d].sensors))
      PROVE  SerialInv'
  <2>1. d \in Docs
    BY DEF Found
  <2>2. PICK old \in Seq(Groups), entries \in Entries, sensors \in SUBSET SensorIds :
          old = doc[d].groups /\ entries = doc[d].disabled /\ sensors = doc[d].sensors
    BY <2>1, TypesOf
  <2>3. PICK groups : groups = PushIfAbsent(old, g)
    OBVIOUS
  <2>4. groups # <<>> /\ \A h \in Groups : Contains(old, h) => Contains(groups, h)
    <3>1. CASE Contains(old, g)
      BY <2>3, <3>1 DEF PushIfAbsent, Contains
    <3>2. CASE ~Contains(old, g)
      BY <2>3, <3>2, Pushed DEF PushIfAbsent
    <3>3. QED
      BY <3>1, <3>2
  <2>5. Recalls(groups, entries, d)
    BY <2>1, <2>2, <2>4, Recalled DEF Recalls
  <2>6. Start(r, Pending("sensors", dev, <<d>>, groups, entries, sensors))
    BY <1>2, <2>2, <2>3
  <2>7. QED
    BY <2>1, <2>4, <2>5, <2>6, ReadSerial
<1>3. QED
  BY <1>1, <1>2 DEF AddRead

LEMMA EditReadSerial ==
    ASSUME ~Overlap, Typed, SerialInv, NEW r \in Requests, NEW dev \in Devices, EditRead(r, dev)
    PROVE  SerialInv'
<1>1. PICK d \in Found(dev) :
        Start(r, Pending("platform", dev, <<d>>, doc[d].groups, doc[d].disabled, doc[d].sensors))
  BY DEF EditRead
<1>2. d \in Docs /\ Live(d)
  BY DEF Found
<1>3. PICK groups, entries, sensors :
        groups = doc[d].groups /\ entries = doc[d].disabled /\ sensors = doc[d].sensors
  OBVIOUS
<1>4. groups # <<>> \/ entries # <<>>
  BY <1>2, <1>3 DEF SerialInv, NeverOrphaned
<1>5. Recalls(groups, entries, d)
  BY <1>2, <1>3, Recalled DEF Recalls
<1>6. Start(r, Pending("platform", dev, <<d>>, groups, entries, sensors))
  BY <1>1, <1>3
<1>7. QED
  BY <1>2, <1>4, <1>5, <1>6, ReadSerial

LEMMA DeleteReadSerial ==
    ASSUME ~Overlap, Typed, SerialInv, NEW r \in Requests, NEW dev \in Devices, NEW g \in Groups,
           DeleteRead(r, dev, g)
    PROVE  SerialInv'
<1>1. PICK d \in Found(dev) :
        Start(r, Pending("membership", dev, <<d>>, RemoveFirst(doc[d].groups, g), WithDisabled(d, g), {}))
  BY DEF DeleteRead
<1>2. d \in Docs
  BY DEF Found
<1>3. PICK old \in Seq(Groups), listed \in Entries : old = doc[d].groups /\ listed = doc[d].disabled
  BY <1>2, TypesOf
<1>4. PICK groups, entries : groups = RemoveFirst(old, g) /\ entries = WithDisabled(d, g)
  OBVIOUS
<1>5. PICK e \in Entry : e = DisabledGroup(g) /\ e.group = g
  BY EntryTyped
<1>6. entries = Append(listed, e)
  BY <1>3, <1>4, <1>5 DEF WithDisabled
<1>7. entries # <<>> /\ Lists(entries, g) /\ \A h : Lists(listed, h) => Lists(entries, h)
  BY <1>5, <1>6, EntryPushed
<1>8. \A h \in Groups : Contains(old, h) /\ h # g => Contains(groups, h)
  BY <1>4, GroupRemoved
<1>9. Recalls(groups, entries, d)
  BY <1>2, <1>3, <1>7, <1>8, Recalled DEF Recalls
<1>10. Start(r, Pending("membership", dev, <<d>>, groups, entries, {}))
  BY <1>1, <1>3, <1>4
<1>11. QED
  BY <1>2, <1>7, <1>9, <1>10, ReadSerial

LEMMA RestoreReadSerial ==
    ASSUME ~Overlap, Typed, SerialInv, NEW r \in Requests, NEW dev \in Devices, NEW g \in Groups,
           RestoreRead(r, dev, g)
    PROVE  SerialInv'
<1>1. PICK d \in Found(dev) :
        Start(r, Pending("membership", dev, <<d>>, Append(doc[d].groups, g),
                 RemoveFirstMatch(doc[d].disabled, LAMBDA e : e.group = g), {}))
  BY DEF RestoreRead
<1>2. d \in Docs
  BY DEF Found
<1>3. PICK old \in Seq(Groups), listed \in Entries : old = doc[d].groups /\ listed = doc[d].disabled
  BY <1>2, TypesOf
<1>4. PICK groups, entries :
        groups = Append(old, g) /\ entries = RemoveFirstMatch(listed, LAMBDA e : e.group = g)
  OBVIOUS
<1>5. groups # <<>> /\ Contains(groups, g) /\ \A h : Contains(old, h) => Contains(groups, h)
  BY <1>4, Pushed
<1>6. \A h \in Groups : Lists(listed, h) /\ h # g => Lists(entries, h)
  BY <1>4, EntryRemoved
<1>7. Recalls(groups, entries, d)
  BY <1>2, <1>3, <1>5, <1>6, Recalled DEF Recalls
<1>8. Start(r, Pending("membership", dev, <<d>>, groups, entries, {}))
  BY <1>1, <1>3, <1>4
<1>9. QED
  BY <1>2, <1>5, <1>7, <1>8, ReadSerial

-----------------------------------------------------------------------------
LEMMA AddSensorsSerial ==
    ASSUME Typed, SerialInv, NEW r \in Requests, AddSensors(r)
    PROVE  SerialInv'
<1>1. PICK new : request' = [request EXCEPT ![r] =
                Pending(IF request[r].doc = <<>> THEN "create" ELSE "write",
                        request[r].dev, request[r].doc, request[r].groups,
                        request[r].disabled, request[r].sensors \cup new)]
  BY DEF AddSensors
<1>2. UNCHANGED <<doc, cron, clock>> /\ InFlight(r) /\ RequestSerial(r)
  BY DEF AddSensors, InFlight, SerialInv
<1>3. /\ request'[r].dev = request[r].dev /\ request'[r].doc = request[r].doc
      /\ request'[r].groups = request[r].groups /\ request'[r].disabled = request[r].disabled
      /\ \A q \in Requests : q # r => request'[q] = request[q]
  BY <1>1 DEF Pending, Typed
<1>4. \A q \in Requests : InFlight(q)' => q = r
  BY <1>2, <1>3 DEF RequestSerial, InFlight
<1>5. OneDocPerDevice' /\ NeverOrphaned' /\ \A d \in Docs : CronSerial(d)'
  BY <1>2 DEF SerialInv, OneDocPerDevice, NeverOrphaned, Live, RequestSerial, CronSerial, Asleep
<1>6. RequestSerial(r)'
  <2>1. Found(request[r].dev)' = Found(request'[r].dev)
    BY <1>2, <1>3 DEF Found, Live
  <2>2. \A d \in Docs : request[r].doc = <<d>> =>
           \A g \in Groups : Remembered(d, g)' => Contains(request[r].groups, g) \/ Lists(request[r].disabled, g)
    BY <1>2 DEF RequestSerial, Recalls, Remembered, EntriesOf, Expired
  <2>3. \A d \in Docs : request[r].doc = <<d>> => Recalls(request[r].groups, request[r].disabled, d)'
    BY <2>2, <1>3 DEF Recalls, Lists
  <2>4. request[r].doc = <<>> => Found(request[r].dev)' = {}
    BY <2>1, <1>2, <1>3 DEF RequestSerial, Found, Live
  <2>5. QED
    BY <2>3, <2>4, <1>2, <1>3, <1>4 DEF RequestSerial
<1>7. QED
  BY <1>4, <1>5, <1>6 DEF SerialInv

\* A request ends: nothing is in progress.
LEMMA FinishSerial ==
    ASSUME Typed, NEW r \in Requests, RequestSerial(r), Finish(r), UNCHANGED cron,
           OneDocPerDevice', NeverOrphaned'
    PROVE  SerialInv'
<1>1. request'[r] = Idle /\ \A q \in Requests : q # r => request'[q] = request[q]
  BY DEF Finish, Typed
<1>2. \A q \in Requests : ~InFlight(q)'
  BY <1>1 DEF RequestSerial, InFlight, Idle
<1>3. \A d \in Docs : CronSerial(d)'
  BY DEF RequestSerial, CronSerial, Asleep
<1>4. QED
  BY <1>2, <1>3 DEF SerialInv

\* What a step does to a live document: nothing, or it recalls every group it should,
\* or the document goes, in no group and with nothing to restore.
Change(d) ==
    \/ doc'[d] = doc[d]
    \/ doc'[d].state = "live" /\ Recalls(doc'[d].groups, doc'[d].disabled, d)
    \/ doc[d].groups = <<>> /\ \A k \in DOMAIN doc[d].disabled : Expired(doc[d].disabled[k])

Changes == \A d \in Docs : Live(d) => Change(d)

LEMMA WriteSerial ==
    ASSUME Typed, SerialInv, NEW r \in Requests, InFlight(r), Finish(r), UNCHANGED cron,
           NEW d \in Docs, request[r].doc = <<d>>, NEW set, set.state = "live",
           set.groups = request[r].groups, set.disabled = request[r].disabled,
           doc' = Updated(d, set)
    PROVE  SerialInv' /\ Changes
<1>1. RequestSerial(r)
  BY DEF SerialInv
<1>2. CASE Live(d)
  <2>1. doc'[d] = set /\ \A e \in Docs : e # d => doc'[e] = doc[e]
    BY <1>2 DEF Updated, Typed
  <2>2. \A e \in Docs : Live(e)' <=> Live(e)
    BY <2>1, <1>2 DEF Live
  <2>3. OneDocPerDevice'
    BY <2>2 DEF SerialInv, OneDocPerDevice
  <2>4. NeverOrphaned'
    BY <2>1, <2>2, <1>1 DEF SerialInv, NeverOrphaned, RequestSerial
  <2>5. Recalls(doc'[d].groups, doc'[d].disabled, d)
    BY <2>1, <1>1 DEF RequestSerial
  <2>6. Changes
    BY <2>1, <2>5 DEF Changes, Change
  <2>7. QED
    BY <2>3, <2>4, <2>6, <1>1, FinishSerial
<1>3. CASE ~Live(d)
  <2>1. doc' = doc
    BY <1>3 DEF Updated
  <2>2. OneDocPerDevice' /\ NeverOrphaned' /\ Changes
    BY <2>1 DEF SerialInv, OneDocPerDevice, NeverOrphaned, Live, Changes, Change
  <2>3. QED
    BY <2>2, <1>1, FinishSerial
<1>4. QED
  BY <1>2, <1>3

LEMMA WriteWholeSerial ==
    ASSUME IInv, Typed, SerialInv, NEW r \in Requests, WriteWhole(r)
    PROVE  SerialInv' /\ Changes
<1>1. InFlight(r) /\ RequestInv(r)
  BY DEF WriteWhole, InFlight, IInv
<1>2. PICK d \in Docs : request[r].doc = <<d>>
  BY <1>1 DEF WriteWhole, RequestInv
<1>3. PICK set : set = Whole(r)
  OBVIOUS
<1>4. /\ set.state = "live" /\ set.groups = request[r].groups /\ set.disabled = request[r].disabled
      /\ doc' = Updated(d, set)
  BY <1>2, <1>3 DEF Whole, WriteWhole
<1>5. QED
  BY <1>1, <1>2, <1>4, WriteSerial DEF WriteWhole

LEMMA WriteMembershipSerial ==
    ASSUME IInv, Typed, SerialInv, NEW r \in Requests, WriteMembership(r)
    PROVE  SerialInv' /\ Changes
<1>1. InFlight(r) /\ RequestInv(r)
  BY DEF WriteMembership, InFlight, IInv
<1>2. PICK d \in Docs : request[r].doc = <<d>>
  BY <1>1 DEF WriteMembership, RequestInv
<1>3. PICK set : set = [state |-> "live", groups |-> request[r].groups,
                        disabled |-> request[r].disabled, sensors |-> doc[d].sensors]
  OBVIOUS
<1>4. /\ set.state = "live" /\ set.groups = request[r].groups /\ set.disabled = request[r].disabled
      /\ doc' = Updated(d, set)
  BY <1>2, <1>3 DEF WriteMembership
<1>5. QED
  BY <1>1, <1>2, <1>4, WriteSerial DEF WriteMembership

\* The device is still unknown when its document is created.
LEMMA AddCreateSerial ==
    ASSUME IInv, Typed, SerialInv, NEW r \in Requests, AddCreate(r)
    PROVE  SerialInv' /\ Changes
<1>1. InFlight(r) /\ RequestInv(r) /\ RequestSerial(r) /\ request[r].doc = <<>>
  BY DEF AddCreate, InFlight, IInv, SerialInv, RequestInv
<1>2. PICK n \in 1..MaxDocs :
          /\ doc[<<request[r].dev, n>>].state = "unused"
          /\ doc' = [doc EXCEPT ![<<request[r].dev, n>>] = Whole(r)]
  BY DEF AddCreate
<1>3. PICK d \in Docs : d = <<request[r].dev, n>>
  BY <1>1 DEF Docs, RequestInv
<1>4. /\ doc'[d] = Whole(r) /\ ~Live(d) /\ d[1] = request[r].dev
      /\ \A e \in Docs : e # d => doc'[e] = doc[e]
  BY <1>2, <1>3 DEF Live, Typed
<1>5. \A e \in Docs : Live(e) => e[1] # d[1]
  BY <1>1, <1>4 DEF RequestSerial, Found
<1>6. \A e \in Docs : e # d => (Live(e)' <=> Live(e))
  BY <1>4 DEF Live
<1>7. OneDocPerDevice'
  BY <1>5, <1>6 DEF SerialInv, OneDocPerDevice
<1>8. NeverOrphaned'
  BY <1>1, <1>4, <1>6 DEF SerialInv, NeverOrphaned, RequestSerial, Whole
<1>9. Changes
  BY <1>4 DEF Changes, Change
<1>10. QED
  BY <1>1, <1>7, <1>8, <1>9, FinishSerial DEF AddCreate

LEMMA FailSerial ==
    ASSUME Typed, SerialInv, NEW r \in Requests, Fail(r)
    PROVE  SerialInv'
<1>1. RequestSerial(r)
  BY DEF Fail, InFlight, SerialInv
<1>2. OneDocPerDevice' /\ NeverOrphaned'
  BY DEF Fail, SerialInv, OneDocPerDevice, NeverOrphaned, Live
<1>3. QED
  BY <1>1, <1>2, FinishSerial DEF Fail

-----------------------------------------------------------------------------
\* What the clean-up plans: it runs alone, and no group still due is swept.
LEMMA CronFindSerial ==
    ASSUME ~Overlap, Typed, SerialInv, CronFind
    PROVE  SerialInv'
<1>1. /\ \A q \in Requests : request[q] = Idle
      /\ UNCHANGED <<doc, stored, allocated, request, clock>>
      /\ cron' = [d \in Docs |-> IF Live(d) /\ Due(doc[d].disabled) THEN CronPlan(d) ELSE Asleep]
  BY DEF CronFind, MayStart, Quiet
<1>2. OneDocPerDevice' /\ NeverOrphaned' /\ \A q \in Requests : ~InFlight(q)'
  BY <1>1 DEF SerialInv, OneDocPerDevice, NeverOrphaned, Live, InFlight, Idle
<1>3. ASSUME NEW d \in Docs
      PROVE  CronSerial(d)'
  <2>1. PICK groups \in Seq(Groups), entries \in Entries : groups = doc[d].groups /\ entries = doc[d].disabled
    BY TypesOf
  <2>2. PICK swept : swept = Sweep(entries)
    OBVIOUS
  <2>3. /\ swept \in Entries
        /\ \A i \in 1..Len(entries) : ~Expired(entries[i]) => \E j \in 1..Len(swept) : swept[j] = entries[i]
    BY <2>2, SweepKeeps
  <2>4. DOMAIN entries = 1..Len(entries) /\ DOMAIN swept = 1..Len(swept)
    BY <2>1, <2>3 DEF Entries
  <2>5. CASE cron'[d] = UpdateDocument(d) /\ ~(swept = <<>> /\ groups = <<>>)
    <3>1. cron'[d].stage = "update" /\ cron'[d].disabled = swept
      BY <2>1, <2>2, <2>5 DEF UpdateDocument
    <3>2. ASSUME NEW g \in Groups, Remembered(d, g)
          PROVE  Contains(groups, g) \/ Lists(swept, g)
      <4>1. ASSUME NEW k \in EntriesOf(d, g), ~Expired(doc[d].disabled[k])
            PROVE  Lists(swept, g)
        <5>1. k \in 1..Len(entries) /\ entries[k].group = g /\ ~Expired(entries[k])
          BY <4>1, <2>1, <2>4 DEF EntriesOf
        <5>2. QED
          BY <5>1, <2>3, <2>4 DEF Lists
      <4>2. QED
        BY <3>2, <4>1, <2>1 DEF Remembered
    <3>3. Recalls(groups, swept, d)
      BY <3>2 DEF Recalls
    <3>4. Recalls(groups, swept, d)'
      BY <3>3, <1>1, RecallsLater
    <3>5. QED
      BY <3>1, <3>4, <2>1, <2>5, <1>1 DEF CronSerial
  <2>6. CASE cron'[d] = PurgeDocument(d) /\ swept = <<>> /\ groups = <<>>
    <3>1. cron'[d].stage = "purge"
      BY <2>6 DEF PurgeDocument
    <3>2. \A k \in DOMAIN entries : Expired(entries[k])
      BY <2>3, <2>4, <2>6
    <3>3. \A k \in DOMAIN doc[d].disabled : Expired(doc[d].disabled[k])'
      BY <3>2, <2>1, <1>1 DEF Expired
    <3>4. QED
      BY <3>1, <3>3, <2>1, <2>6, <1>1 DEF CronSerial
  <2>7. CASE cron'[d] = Asleep
    BY <2>7 DEF CronSerial, Asleep
  <2>8. QED
    BY <2>1, <2>2, <2>5, <2>6, <2>7, <1>1 DEF CronPlan
<1>4. QED
  BY <1>2, <1>3 DEF SerialInv

\* While the clean-up works, no request runs; it carries out one plan at a time.
LEMMA CronOneSerial ==
    ASSUME Typed, SerialInv, NEW d \in Docs, cron[d] # Asleep,
           UNCHANGED <<request, clock>>,
           \A e \in Docs : e # d => cron'[e] = cron[e] /\ doc'[e] = doc[e],
           CronSerial(d)', OneDocPerDevice', NeverOrphaned'
    PROVE  SerialInv'
<1>1. \A q \in Requests : ~InFlight(q)'
  BY DEF SerialInv, RequestSerial, InFlight
<1>2. ASSUME NEW e \in Docs, e # d
      PROVE  CronSerial(e)'
  <2>1. cron'[e] = cron[e] /\ doc'[e] = doc[e] /\ CronSerial(e)
    BY <1>2 DEF SerialInv
  <2>2. PICK groups, entries : groups = doc[e].groups /\ entries = cron[e].disabled
    OBVIOUS
  <2>3. Recalls(groups, entries, e) => Recalls(groups, entries, e)'
    BY <2>1, RecallsLater
  <2>4. Recalls(doc[e].groups, cron[e].disabled, e) => Recalls(doc[e].groups, cron[e].disabled, e)'
    BY <2>1, <2>2, <2>3
  <2>5. QED
    BY <2>1, <2>4 DEF CronSerial, Live, Expired
<1>3. QED
  BY <1>1, <1>2 DEF SerialInv

LEMMA CronUpdateSerial ==
    ASSUME Typed, SerialInv, NEW d \in Docs, CronUpdate(d)
    PROVE  SerialInv' /\ Changes
<1>1. /\ cron[d].stage = "update" /\ CronSerial(d)
      /\ doc[d].groups # <<>> \/ cron[d].disabled # <<>>
      /\ Recalls(doc[d].groups, cron[d].disabled, d)
  BY DEF CronUpdate, SerialInv, CronSerial
<1>2. PICK set : set = [state |-> "live", groups |-> doc[d].groups,
                        disabled |-> cron[d].disabled, sensors |-> doc[d].sensors]
  OBVIOUS
<1>3. set.state = "live" /\ set.groups = doc[d].groups /\ set.disabled = cron[d].disabled
  BY <1>2
<1>4. doc' = IF Live(d) THEN [doc EXCEPT ![d] = set] ELSE doc
  BY <1>2 DEF CronUpdate, Updated
<1>5. /\ \A e \in Docs : e # d => doc'[e] = doc[e]
      /\ Live(d) => doc'[d] = set
      /\ ~Live(d) => doc'[d] = doc[d]
  BY <1>4 DEF Typed
<1>6. \A e \in Docs : Live(e)' <=> Live(e)
  BY <1>3, <1>5 DEF Live
<1>7. OneDocPerDevice'
  BY <1>6 DEF SerialInv, OneDocPerDevice
<1>8. NeverOrphaned'
  BY <1>1, <1>3, <1>5, <1>6 DEF SerialInv, NeverOrphaned
<1>9. Changes
  BY <1>1, <1>3, <1>5 DEF Changes, Change
<1>10. cron' = [cron EXCEPT ![d] = Asleep] /\ UNCHANGED <<request, clock>>
  BY DEF CronUpdate
<1>11. CronSerial(d)' /\ cron[d] # Asleep /\ \A e \in Docs : e # d => cron'[e] = cron[e]
  BY <1>1, <1>10 DEF Typed, CronSerial, Asleep
<1>12. SerialInv'
  BY <1>5, <1>7, <1>8, <1>10, <1>11, CronOneSerial
<1>13. QED
  BY <1>9, <1>12

LEMMA CronDeleteSerial ==
    ASSUME Typed, SerialInv, NEW d \in Docs, CronDelete(d)
    PROVE  SerialInv' /\ Changes
<1>1. /\ cron[d].stage = "purge" /\ CronSerial(d)
      /\ UNCHANGED <<request, clock>>
      /\ cron' = [cron EXCEPT ![d] = [stage |-> "clean", sensors |-> cron[d].sensors]]
  BY DEF CronDelete, SerialInv
<1>2. /\ \A e \in Docs : e # d => doc'[e] = doc[e]
      /\ doc'[d] = IF Live(d) THEN NoDocument("purged") ELSE doc[d]
  BY DEF CronDelete, Typed
<1>3. ~Live(d)' /\ \A e \in Docs : Live(e)' => Live(e) /\ doc'[e] = doc[e]
  BY <1>2 DEF Live, NoDocument
<1>4. OneDocPerDevice' /\ NeverOrphaned'
  BY <1>3 DEF SerialInv, OneDocPerDevice, NeverOrphaned
<1>5. Changes
  BY <1>1, <1>2 DEF Changes, Change, CronSerial
<1>6. CronSerial(d)' /\ cron[d] # Asleep /\ \A e \in Docs : e # d => cron'[e] = cron[e]
  BY <1>1 DEF Typed, CronSerial, Asleep
<1>7. SerialInv'
  BY <1>1, <1>2, <1>4, <1>6, CronOneSerial
<1>8. QED
  BY <1>5, <1>7

LEMMA CronDeleteSensorSerial ==
    ASSUME Typed, SerialInv, NEW d \in Docs, CronDeleteSensor(d)
    PROVE  SerialInv'
<1>1. /\ cron[d].stage = "clean" /\ UNCHANGED <<doc, request, clock>>
      /\ \E plan : plan.stage \in {"clean", "asleep"} /\ cron' = [cron EXCEPT ![d] = plan]
  BY DEF CronDeleteSensor, Asleep
<1>2. OneDocPerDevice' /\ NeverOrphaned'
  BY <1>1 DEF SerialInv, OneDocPerDevice, NeverOrphaned, Live
<1>3. CronSerial(d)' /\ cron[d] # Asleep /\ \A e \in Docs : e # d => cron'[e] = cron[e]
  BY <1>1 DEF Typed, CronSerial, Asleep
<1>4. QED
  BY <1>1, <1>2, <1>3, CronOneSerial

LEMMA TickSerial ==
    ASSUME Typed, SerialInv, UNCHANGED <<doc, request, cron>>, clock' \in {clock, clock + 1}
    PROVE  SerialInv'
<1>1. OneDocPerDevice' /\ NeverOrphaned'
  BY DEF SerialInv, OneDocPerDevice, NeverOrphaned, Live
<1>2. ASSUME NEW r \in Requests, InFlight(r)'
      PROVE  RequestSerial(r)'
  <2>1. RequestSerial(r) /\ \A q \in Requests : InFlight(q)' <=> InFlight(q)
    BY <1>2 DEF SerialInv, InFlight
  <2>2. PICK groups, entries : groups = request[r].groups /\ entries = request[r].disabled
    OBVIOUS
  <2>3. \A d \in Docs : Recalls(groups, entries, d) => Recalls(groups, entries, d)'
    BY RecallsLater
  <2>4. \A d \in Docs : request[r].doc = <<d>> => Recalls(request[r].groups, request[r].disabled, d)'
    BY <2>1, <2>2, <2>3 DEF RequestSerial
  <2>5. Found(request[r].dev)' = Found(request[r].dev)
    BY DEF Found, Live
  <2>6. QED
    BY <2>1, <2>4, <2>5 DEF RequestSerial
<1>3. ASSUME NEW e \in Docs
      PROVE  CronSerial(e)'
  <2>1. CronSerial(e)
    BY DEF SerialInv
  <2>2. PICK groups, entries : groups = doc[e].groups /\ entries = cron[e].disabled
    OBVIOUS
  <2>3. Recalls(groups, entries, e) => Recalls(groups, entries, e)'
    BY RecallsLater
  <2>4. Recalls(doc[e].groups, cron[e].disabled, e) => Recalls(doc[e].groups, cron[e].disabled, e)'
    BY <2>2, <2>3
  <2>5. ASSUME NEW k \in DOMAIN doc[e].disabled, Expired(doc[e].disabled[k])
        PROVE  Expired(doc[e].disabled[k])'
    <3>1. PICK entry \in Entry : entry = doc[e].disabled[k]
      BY TypesOf DEF Entries
    <3>2. Expired(entry)'
      BY <2>5, <3>1, ExpiredLater
    <3>3. QED
      BY <3>1, <3>2
  <2>6. QED
    BY <2>1, <2>4, <2>5 DEF CronSerial, Live
<1>4. QED
  BY <1>1, <1>2, <1>3 DEF SerialInv

LEMMA RestartSerial ==
    ASSUME SerialInv, Restart
    PROVE  SerialInv'
BY DEF Restart, SerialInv, OneDocPerDevice, NeverOrphaned, Live, CronSerial, InFlight, Idle, Asleep

LEMMA NextSerial ==
    ASSUME ~Overlap, IInv, Typed, SerialInv, [Next]_vars
    PROVE  SerialInv' /\ Changes
<1>1. doc' = doc => Changes
  BY DEF Changes, Change
<1>2. ASSUME NEW r \in Requests, RequestStep(r)
      PROVE  SerialInv' /\ Changes
  <2>1. ASSUME NEW dev \in Devices, NEW g \in Groups,
               AddRead(r, dev, g) \/ DeleteRead(r, dev, g) \/ RestoreRead(r, dev, g)
        PROVE  SerialInv' /\ Changes
    BY <1>1, <2>1, AddReadSerial, DeleteReadSerial, RestoreReadSerial
       DEF AddRead, DeleteRead, RestoreRead, Start
  <2>2. ASSUME NEW dev \in Devices, EditRead(r, dev)
        PROVE  SerialInv' /\ Changes
    BY <1>1, <2>2, EditReadSerial DEF EditRead, Start
  <2>3. CASE AddSensors(r)
    BY <1>1, <2>3, AddSensorsSerial DEF AddSensors
  <2>4. CASE AddCreate(r) \/ WriteWhole(r) \/ WriteMembership(r)
    BY <2>4, AddCreateSerial, WriteWholeSerial, WriteMembershipSerial
  <2>5. CASE Fail(r)
    BY <1>1, <2>5, FailSerial DEF Fail
  <2>6. QED
    BY <1>2, <2>1, <2>2, <2>3, <2>4, <2>5 DEF RequestStep
<1>3. CASE CronStep
  <2>1. CASE CronFind
    BY <1>1, <2>1, CronFindSerial DEF CronFind
  <2>2. ASSUME NEW d \in Docs, CronUpdate(d) \/ CronDelete(d)
        PROVE  SerialInv' /\ Changes
    BY <2>2, CronUpdateSerial, CronDeleteSerial
  <2>3. ASSUME NEW d \in Docs, CronDeleteSensor(d)
        PROVE  SerialInv' /\ Changes
    BY <1>1, <2>3, CronDeleteSensorSerial DEF CronDeleteSensor
  <2>4. QED
    BY <1>3, <2>1, <2>2, <2>3 DEF CronStep
<1>4. CASE Tick
  BY <1>1, <1>4, TickSerial DEF Tick
<1>5. CASE Restart
  BY <1>1, <1>5, RestartSerial DEF Restart
<1>6. CASE UNCHANGED vars
  BY <1>1, <1>6, TickSerial DEF vars
<1>7. QED
  BY <1>2, <1>3, <1>4, <1>5, <1>6 DEF Next

\* One request or clean-up at a time: what they hold agrees with the documents.
THEOREM SerialInvariant ==
    ASSUME ~Overlap
    PROVE  Spec => [](IInv /\ Typed /\ SerialInv)
<1>1. Init => IInv /\ Typed /\ SerialInv
  BY InitInv, InitTyped, InitSerial
<1>2. IInv /\ Typed /\ SerialInv /\ [Next]_vars => (IInv /\ Typed /\ SerialInv)'
  BY NextInv, NextTyped, NextSerial
<1>3. QED
  BY <1>1, <1>2, PTL DEF Spec

\* No handler and no clean-up leaves a live device in no group and with nothing to
\* restore, where no query and no later clean-up would find it.
THEOREM NoneIsOrphaned ==
    ASSUME ~Overlap
    PROVE  Spec => []NeverOrphaned
<1>1. IInv /\ Typed /\ SerialInv => NeverOrphaned
  BY DEF SerialInv
<1>2. QED
  BY <1>1, SerialInvariant, PTL

\* addDevices creates no second document for a device it could have found.
THEOREM OneDocument ==
    ASSUME ~Overlap
    PROVE  Spec => []OneDocPerDevice
<1>1. IInv /\ Typed /\ SerialInv => OneDocPerDevice
  BY DEF SerialInv
<1>2. QED
  BY <1>1, SerialInvariant, PTL

\* handleCron deletes a document that is in no group and whose disabled groups have all
\* expired, although its loop skips the entry after each one it removes.
THEOREM PurgesAreJustified ==
    ASSUME ~Overlap
    PROVE  Spec => PurgeJustified
<1>1. ASSUME IInv, Typed, SerialInv, [Next]_vars
      PROVE  [\A d \in Docs : Live(d) /\ doc'[d].state = "purged" =>
                 /\ doc[d].groups = <<>>
                 /\ \A k \in DOMAIN doc[d].disabled : Expired(doc[d].disabled[k])]_vars
  BY <1>1, NextSerial DEF Changes, Change, Live
<1>2. QED
  BY <1>1, SerialInvariant, PTL DEF Spec, PurgeJustified

\* No handler and no clean-up forgets a group that holds a device, or that held it
\* within the retention period.
THEOREM MembershipsAreKept ==
    ASSUME ~Overlap
    PROVE  Spec => MembershipKept
<1>1. ASSUME IInv, Typed, SerialInv, [Next]_vars
      PROVE  \A d \in Docs, g \in Groups :
                Live(d) /\ Remembered(d, g) => Contains(doc'[d].groups, g) \/ EntriesOf(d, g)' # {}
  <2> SUFFICES ASSUME NEW d \in Docs, NEW g \in Groups, Live(d), Remembered(d, g)
               PROVE  Contains(doc'[d].groups, g) \/ EntriesOf(d, g)' # {}
    OBVIOUS
  <2>1. Change(d)
    BY <1>1, NextSerial DEF Changes
  <2>2. CASE doc'[d] = doc[d]
    BY <2>2 DEF Remembered, EntriesOf
  <2>3. CASE Recalls(doc'[d].groups, doc'[d].disabled, d)
    BY <2>3 DEF Recalls, Lists, EntriesOf
  <2>4. CASE doc[d].groups = <<>> /\ \A k \in DOMAIN doc[d].disabled : Expired(doc[d].disabled[k])
    <3>1. ~Contains(doc[d].groups, g)
      BY <2>4 DEF Contains
    <3>2. ~Remembered(d, g)
      BY <2>4, <3>1 DEF Remembered, EntriesOf
    <3>3. QED
      BY <3>2
  <2>5. QED
    BY <2>1, <2>2, <2>3, <2>4 DEF Change
<1>2. IInv /\ Typed /\ SerialInv /\ [Next]_vars =>
         [\A d \in Docs, g \in Groups :
             Live(d) /\ Remembered(d, g) => Contains(doc'[d].groups, g) \/ EntriesOf(d, g)' # {}]_vars
  BY <1>1
<1>3. QED
  BY <1>2, SerialInvariant, PTL DEF Spec, MembershipKept
=============================================================================
