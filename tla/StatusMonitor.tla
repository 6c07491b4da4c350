----------------------------- MODULE StatusMonitor -----------------------------
(***************************************************************************)
(* The status of devices, followed by two listeners.  Every status message *)
(* makes device.service.ts (updateDeviceStatus, called by the listener of  *)
(* sensor.service.ts) and notification.service.ts (a copy of it with other *)
(* steps) write the device's status and the relatedStatus of what it is    *)
(* attached to, and sendNotification mail the maintenance staff.  At start *)
(* both services ask the platform for every status.                        *)
(*                                                                         *)
(* Each of these is a job, whose steps are the awaits of the code.         *)
(***************************************************************************)
EXTENDS Naturals, FiniteSets

CONSTANTS
  Devices, Projects,
  Parent,       \* what each device is attached to (KEY_ATTR_ATTACH_ON), or None
  Places,       \* where devices may be: the project of each one's first group, or None
  Staff,        \* maintenance staff
  Order,        \* which of the two services is initialised first (by their modules)
  MaxMessages,  \* bound: changes of status
  MaxFaults,    \* bound: restarts, platform calls and mails that fail
  None

ASSUME ParentAssumption == Parent \in [Devices -> Devices \cup {None}] /\ None \notin Devices \cup Projects
Statuses == {"ACTIVE", "ERROR"}

\* Device status documents.
Infos == [status : Statuses \cup {None}, previous : Statuses \cup {None}]

ASSUME NoneAssumption == None \notin Statuses \cup Infos
ASSUME OrderAssumption == Order \in {"device", "notification"}
ASSUME PlacesAssumption == Places \subseteq [Devices -> Projects \cup {None}]
ASSUME TreeAssumption == \A d \in Devices : Parent[d] # None => Parent[Parent[d]] = None

VARIABLES
  place,     \* the project of each device's first group, None without a group
  first,     \* projectKeys[0]: the project of the device found first
  phase,     \* how far the initialisation is
  platform,  \* the status on the platform
  status, related,  \* device documents: status and relatedStatus
  info,      \* device status documents: [status, previous], None if there is none
  found,     \* the statuses read for the new device status documents
  log,       \* device status logs: [dev, status, previous]
  mails,     \* mails sent: <<who, device, previous, current>>
  jobs,      \* jobs in progress
  told,      \* the status last heard or read of each device
  heard,     \* the status the notification service heard last since the start, or None
  rushed,    \* devices whose last status came while another was still worked on
  mixed,     \* devices whose relatedStatus was last worked on by several jobs, or by the copy
  unsure,    \* devices whose last mails overlapped or failed
  messages, faults \* numbers of changes and of faults so far

setup == <<place, first>>
docs == <<status, related>>
notes == <<info, found, log>>
known == <<told, heard>>
counts == <<messages, faults>>
ghosts == <<rushed, mixed, unsure>>
vars == <<setup, phase, platform, docs, notes, known, mails, jobs, ghosts, counts>>

Updaters == {"device", "notification"}

Related(d) == {c \in Devices : Parent[c] = d}

AllActive(D) == IF \A c \in D : status[c] = "ACTIVE" THEN "ACTIVE" ELSE "ERROR"

Fault == faults < MaxFaults /\ faults' = faults + 1 /\ UNCHANGED messages

Job(who, d, n, pc, says) ==
  [who |-> who, dev |-> d, n |-> n, pc |-> pc, says |-> says, read |-> None, left |-> {}]

Entry(d, s, p) == [dev |-> d, status |-> s, previous |-> p]

At(j, pc) == [j EXCEPT !.pc = pc]
Moved(j, k) == jobs' = (jobs \ {j}) \cup {k}
Ended(j) == jobs' = jobs \ {j}

Working(d) == {j \in jobs : j.who \in Updaters /\ j.dev = d}

\* A job on a device writes its document and that of what it is attached to.
Touched(d) == {d, Parent[d]} \ {None}
Near(x) == {j \in jobs : j.who \in Updaters /\ x \in Touched(j.dev)}

\* Nothing is being written for d.
Rest(d) == phase = "up" /\ Working(d) = {}

FirstInit == IF Order = "device" THEN "device" ELSE "delete"

\* The server is up after an undisturbed start; the statuses were recorded before the
\* platform was asked, so devices that were new have none recorded.
Init ==
  /\ place \in Places /\ first \in {place[d] : d \in Devices}
  /\ phase = "up"
  /\ platform = [d \in Devices |-> "ACTIVE"]
  /\ status = [d \in Devices |-> IF place[d] = None THEN None ELSE "ACTIVE"]
  /\ related = status /\ told = status /\ heard = [d \in Devices |-> None]
  /\ \E s \in {"ACTIVE", None} : info = [d \in Devices |-> [status |-> s, previous |-> None]]
  /\ found = [d \in Devices |-> None]
  /\ log = {Entry(d, info[d].status, None) : d \in Devices} /\ mails = {} /\ jobs = {}
  /\ rushed = {} /\ mixed = Devices /\ unsure = {} /\ messages = 0 /\ faults = 0

-------------------------------------------------------------------------------
(* Initialisation.                                                          *)

Placed == {d \in Devices : place[d] # None}

Started(who) == {Job(who, d, 0, "ask", None) : d \in Placed}

AskAll(who, next) ==
  /\ phase' = next /\ jobs' = jobs \cup Started(who)
  /\ UNCHANGED <<setup, platform, docs, notes, known, mails, ghosts, counts>>

\* onModuleInit of the device service.
AskByDevice == phase = "device" /\ AskAll("device", "deviceAsks")

\* onModuleInit of the notification service makes the device status documents anew.
DeleteInfo ==
  /\ phase = "delete" /\ phase' = "find"
  /\ info' = [d \in Devices |-> None]
  /\ UNCHANGED <<setup, platform, docs, found, log, known, mails, jobs, ghosts, counts>>
FindStatuses ==
  /\ phase = "find" /\ phase' = "insert" /\ found' = status
  /\ UNCHANGED <<setup, platform, docs, info, log, known, mails, jobs, ghosts, counts>>
InsertInfo ==
  /\ phase = "insert" /\ phase' = "log" /\ found' = [d \in Devices |-> None]
  /\ info' = [d \in Devices |-> [status |-> found[d], previous |-> None]]
  /\ UNCHANGED <<setup, platform, docs, log, known, mails, jobs, ghosts, counts>>
AddAllDeviceStatusLog ==
  /\ phase = "log" /\ phase' = "notification"
  /\ log' = log \cup {Entry(d, info[d].status, None) : d \in Devices}
  /\ UNCHANGED <<setup, platform, docs, info, found, known, mails, jobs, ghosts, counts>>
AskByNotification == phase = "notification" /\ AskAll("notification", "notificationAsks")

\* Promise.all: the next service is initialised when all statuses are stored; after the
\* second the server is up, and the notification service listens.
InitDone ==
  /\ phase \in {"deviceAsks", "notificationAsks"}
  /\ {j \in jobs : j.n = 0} = {}
  /\ phase' = IF phase = "deviceAsks" /\ Order = "device" THEN "delete"
              ELSE IF phase = "notificationAsks" /\ Order = "notification" THEN "device"
              ELSE "up"
  /\ UNCHANGED <<setup, platform, docs, notes, known, mails, jobs, ghosts, counts>>

Restart ==
  /\ Fault
  /\ phase' = FirstInit /\ jobs' = {}
  /\ rushed' = {d \in Devices : Working(d) # {}} \cup rushed
  /\ mixed' = Devices /\ unsure' = {} /\ heard' = [d \in Devices |-> None]
  /\ UNCHANGED <<setup, platform, docs, notes, told, mails>>

-------------------------------------------------------------------------------
(* Messages.                                                                *)

\* The first step of a job: the device service stores the status first, its copy in the
\* notification service last.
FirstStep(who) == CASE who = "device" -> "store" [] who = "notification" -> "related" [] OTHER -> "look"

\* The listener of the sensor service follows every project, that of the notification
\* service the first one only; refused topics are not heard.
HeardByServer(d) == place[d] # None
Hearing(d) ==
  {w \in Updaters : /\ HeardByServer(d)
                    /\ w = "notification" => phase = "up" /\ place[d] = first}

\* What is remembered of a new status of d on which the updaters new begin.
Noticed(d, s, new) ==
  /\ told' = [told EXCEPT ![d] = s]
  /\ rushed' = IF \E j \in Working(d) : j.says # s THEN rushed \cup {d} ELSE rushed \ {d}
  /\ mixed' = (mixed \ Touched(d)) \cup {x \in Touched(d) : Near(x) # {} \/ new # {"device"}}

\* The status on the platform changes; each listener may miss it (quality of service 0).
Change(d, s) ==
  /\ s # platform[d] /\ messages < MaxMessages /\ messages' = messages + 1
  /\ platform' = [platform EXCEPT ![d] = s]
  /\ \E W \in SUBSET Hearing(d) :
       LET all == W \cup IF "notification" \in W THEN {"mail"} ELSE {}
       IN /\ jobs' = jobs \cup {Job(w, d, messages', FirstStep(w), s) : w \in all}
          /\ IF W = {} THEN UNCHANGED <<told, rushed, mixed>> ELSE Noticed(d, s, W)
          /\ IF "mail" \in all
             THEN /\ heard' = [heard EXCEPT ![d] = s]
                  /\ unsure' = IF \E j \in jobs : j.who = "mail" /\ j.dev = d
                               THEN unsure \cup {d} ELSE unsure \ {d}
             ELSE UNCHANGED <<heard, unsure>>
  /\ UNCHANGED <<setup, phase, docs, notes, mails, faults>>

-------------------------------------------------------------------------------
(* updateDeviceStatus, of either service.                                   *)

\* At start the platform is asked first; a call that fails counts as an error of the device.
Ask(j, s) ==
  /\ j.pc = "ask"
  /\ IF s = platform[j.dev] THEN UNCHANGED counts
     ELSE s = "ERROR" /\ Fault
  /\ jobs' = (jobs \ {j}) \cup {[j EXCEPT !.pc = FirstStep(j.who), !.says = s]}
  /\ told' = [told EXCEPT ![j.dev] = s]
  /\ rushed' = IF \E k \in Working(j.dev) \ {j} : k.says # s THEN rushed \cup {j.dev} ELSE rushed \ {j.dev}
  /\ mixed' = mixed \cup Touched(j.dev)
  /\ UNCHANGED <<setup, phase, platform, docs, notes, heard, mails, unsure>>

Update(j, pc) == j \in jobs /\ j.who \in Updaters /\ j.pc = pc
Unmoved == UNCHANGED <<setup, phase, platform, notes, known, mails, ghosts, counts>>

\* The device service stores the status and has the document from this.
StoreStatus(j) ==
  /\ Update(j, "store") /\ Moved(j, At(j, "related"))
  /\ status' = [status EXCEPT ![j.dev] = j.says]
  /\ UNCHANGED related /\ Unmoved

\* Mutation: only the others attached to the parent are judged.
SiblingsOnlyMutation(j) ==
  /\ Update(j, "related")
  /\ IF Parent[j.dev] = None THEN Moved(j, At(j, "children"))
     ELSE Moved(j, [j EXCEPT !.pc = "parent", !.read = AllActive(Related(Parent[j.dev]) \ {j.dev})])
  /\ UNCHANGED docs /\ Unmoved

\* What is attached to the same parent, this device included, is read and judged.
GetRelated(j) ==
  /\ Update(j, "related")
  /\ IF Parent[j.dev] = None THEN Moved(j, At(j, "children"))
     ELSE Moved(j, [j EXCEPT !.pc = "parent", !.read = AllActive(Related(Parent[j.dev]))])
  /\ UNCHANGED docs /\ Unmoved

StoreParent(j) ==
  /\ Update(j, "parent") /\ Moved(j, [j EXCEPT !.pc = "children", !.read = None])
  /\ related' = [related EXCEPT ![Parent[j.dev]] = j.read]
  /\ UNCHANGED status /\ Unmoved

GetChildren(j) ==
  /\ Update(j, "children")
  /\ Moved(j, [j EXCEPT !.pc = "own", !.read = AllActive(Related(j.dev))])
  /\ UNCHANGED docs /\ Unmoved

\* The device service stores its own relatedStatus, and without children the status again.
StoreOwn(j) ==
  /\ Update(j, "own") /\ j.who = "device" /\ Ended(j)
  /\ status' = IF Related(j.dev) = {} THEN [status EXCEPT ![j.dev] = j.says] ELSE status
  /\ related' = [related EXCEPT ![j.dev] = j.read]
  /\ Unmoved

\* Mutation: the copy stores a status without children only.
ChildlessMutation(j) ==
  /\ Update(j, "own") /\ j.who = "notification" /\ Ended(j)
  /\ IF Related(j.dev) = {}
     THEN status' = [status EXCEPT ![j.dev] = j.says] /\ related' = [related EXCEPT ![j.dev] = "ACTIVE"]
     ELSE UNCHANGED docs
  /\ Unmoved

\* The copy stores the status here, and a relatedStatus only without children.
StoreOwnCopy(j) ==
  /\ Update(j, "own") /\ j.who = "notification" /\ Ended(j)
  /\ status' = [status EXCEPT ![j.dev] = j.says]
  /\ related' = IF Related(j.dev) = {} THEN [related EXCEPT ![j.dev] = "ACTIVE"] ELSE related
  /\ Unmoved

-------------------------------------------------------------------------------
(* sendNotification.                                                        *)

Mailing(j, pc) == j \in jobs /\ j.who = "mail" /\ j.pc = pc
Unsent == UNCHANGED <<setup, phase, platform, docs, found, known, ghosts, counts>>

\* The active maintenance staff of the divisions with this device and a notification type
\* for it that is on.
Addressed(d) == IF place[d] = None THEN {} ELSE Staff

\* Nothing is sent of a device without a recorded status, or when it is the same.
Look(j) ==
  /\ Mailing(j, "look")
  /\ LET seen == info[j.dev]
     IN IF seen = None \/ seen.status \in {None, j.says} THEN Ended(j)
        ELSE Moved(j, [j EXCEPT !.pc = "send", !.read = seen.status, !.left = Addressed(j.dev)])
  /\ UNCHANGED <<info, log, mails>> /\ Unsent

\* One mail after the other; a failure ends everything.
SendMail(j, u) ==
  /\ Mailing(j, "send") /\ u \in j.left
  /\ mails' = mails \cup {<<u, j.dev, j.read, j.says>>}
  /\ Moved(j, [j EXCEPT !.left = @ \ {u}])
  /\ UNCHANGED <<info, log>> /\ Unsent
SendMailFails(j) ==
  /\ Mailing(j, "send") /\ j.left # {} /\ Fault
  /\ Ended(j) /\ unsure' = unsure \cup {j.dev}
  /\ UNCHANGED <<setup, phase, platform, docs, notes, known, mails, rushed, mixed>>

\* Mutation: the log is written when the first mail is out.
LogEarlyMutation(j) == Mailing(j, "send")

MailsSent(j) == Mailing(j, "send") /\ j.left = {}

\* Mutation: the two statuses are given in the wrong order.
SwappedMutation(j) ==
  /\ MailsSent(j) /\ Moved(j, At(j, "log"))
  /\ info' = [info EXCEPT ![j.dev] = [status |-> j.read, previous |-> j.says]]
  /\ UNCHANGED <<log, mails>> /\ Unsent

\* The document, found by its identifier, may have gone with a restart only.
UpdateStatusFromDeviceStatus(j) ==
  /\ MailsSent(j) /\ Moved(j, At(j, "log"))
  /\ info' = [info EXCEPT ![j.dev] = [status |-> j.says, previous |-> j.read]]
  /\ UNCHANGED <<log, mails>> /\ Unsent

AddDeviceStatusLog(j) ==
  /\ Mailing(j, "log") /\ Ended(j)
  /\ log' = log \cup {Entry(j.dev, j.says, j.read)}
  /\ UNCHANGED <<info, mails>> /\ Unsent

-------------------------------------------------------------------------------
Step(j) ==
  \/ \E s \in Statuses : Ask(j, s)
  \/ StoreStatus(j) \/ GetRelated(j) \/ StoreParent(j) \/ GetChildren(j) \/ StoreOwn(j) \/ StoreOwnCopy(j)
  \/ Look(j) \/ SendMailFails(j) \/ UpdateStatusFromDeviceStatus(j) \/ AddDeviceStatusLog(j)
  \/ \E u \in Staff : SendMail(j, u)

Initialise ==
  \/ AskByDevice \/ DeleteInfo \/ FindStatuses \/ InsertInfo \/ AddAllDeviceStatusLog
  \/ AskByNotification \/ InitDone

Next ==
  \/ Initialise \/ Restart
  \/ \E d \in Devices, s \in Statuses : Change(d, s)
  \/ \E j \in jobs : Step(j)

Spec == Init /\ [][Next]_vars

-------------------------------------------------------------------------------

\* Whatever listeners heard it, and in whatever order their jobs write, a device ends with
\* the status heard last (updateDeviceStatus of both services), unless that came while an
\* earlier one was still worked on.
StatusStored ==
  \A d \in Placed \ rushed : Rest(d) => status[d] = told[d]

\* The relatedStatus is ACTIVE exactly if all that is attached is, when the last status
\* around it was worked on by one job of the device service alone.
RelatedExact ==
  \A d \in Devices \ mixed :
    phase = "up" /\ Near(d) = {} => related[d] = AllActive(Related(d))

\* A change of status is logged only when all staff were mailed of it (sendNotification),
\* however jobs overlap, and whatever fails or restarts.
LoggedAreMailed ==
  \A e \in log : e.previous # None =>
    \A u \in Addressed(e.dev) : <<u, e.dev, e.previous, e.status>> \in mails

\* The recorded status is the one heard last, when its mails went out undisturbed.
InfoFollows ==
  \A d \in Devices \ unsure :
    /\ heard[d] # None /\ info[d].status # None
    /\ \A j \in jobs : ~(j.who = "mail" /\ j.dev = d)
    => info[d].status = heard[d]
===============================================================================
