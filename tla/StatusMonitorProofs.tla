------------------------- MODULE StatusMonitorProofs --------------------------
(***************************************************************************)
(* The last status stays, relatedStatus is right, and a logged change was  *)
(* mailed: for any devices, staff, messages and jobs in progress, whatever *)
(* fails and restarts.                                                     *)
(***************************************************************************)
EXTENDS StatusMonitor, TLAPS

Maybe   == Statuses \cup {None}
JobType == [who : Updaters \cup {"mail"}, dev : Devices, n : Nat,
            pc : {"ask", "store", "related", "parent", "children", "own", "look", "send", "log"},
            says : Maybe, read : Maybe, left : SUBSET Staff]

\* Where a job of each kind can be.
Well(j) ==
  /\ j.who = "mail" => j.pc \in {"look", "send", "log"}
  /\ j.who = "device" => j.pc \in {"ask", "store", "related", "parent", "children", "own"}
  /\ j.who = "notification" => j.pc \in {"ask", "related", "parent", "children", "own"}

Typed ==
  /\ status \in [Devices -> Maybe] /\ related \in [Devices -> Maybe]
  /\ told \in [Devices -> Maybe] /\ heard \in [Devices -> Maybe]
  /\ found \in [Devices -> Maybe] /\ info \in [Devices -> Infos \cup {None}]
  /\ jobs \subseteq JobType /\ (\A j \in jobs : Well(j))
  /\ messages \in Nat

\* What a job that mails has done so far.
Mailed ==
  \A j \in jobs : j.who = "mail" /\ j.pc \in {"send", "log"} =>
    /\ \A u \in Addressed(j.dev) \ j.left : <<u, j.dev, j.read, j.says>> \in mails
    /\ j.pc = "log" => j.left = {}

\* Messages are heard once all statuses are recorded.
Recorded ==
  \/ phase \in {"up", "log", "notification", "notificationAsks"}
  \/ Order = "notification" /\ phase \in {"device", "deviceAsks"}
HeardUp ==
  /\ \A d \in Devices : heard[d] # None => phase = "up"
  /\ Recorded => info \in [Devices -> Infos]

\* The status heard last is recorded or on its way, when its mails go out undisturbed.
Mailers(d) == {j \in jobs : j.who = "mail" /\ j.dev = d}
Follows ==
  \A d \in Devices \ unsure : heard[d] # None =>
    /\ \A j \in Mailers(d) : j.says = heard[d]
    /\ (\E j \in Mailers(d) : j.pc \in {"look", "send"}) \/ info[d].status \in {None, heard[d]}

MailInv == Mailed /\ LoggedAreMailed /\ HeardUp /\ Follows

\* The status told last is stored or on its way.
Pending(j) == j.who = "notification" \/ j.pc \in {"ask", "store"}
StoredAt(d) ==
  /\ \A j \in Working(d) : j.pc # "ask" => j.says = told[d]
  /\ status[d] = told[d] \/ \E j \in Working(d) : Pending(j)
StoredOrPending == \A d \in Placed \ rushed : StoredAt(d)

\* Around a device that one job of the device service works on alone, how far that is.
Active(x) == {j \in Near(x) : j.pc # "ask"}
AloneAt(j, x) ==
  /\ j.who = "device" /\ \A k \in Active(x) : k = j
  /\ j.pc # "store" => status[j.dev] = j.says
  /\ j.dev = x /\ j.pc = "own" => j.read = AllActive(Related(x))
  /\ j.dev # x /\ j.pc = "parent" => j.read = AllActive(Related(x))
Written(j, x) == j.dev # x /\ j.pc \in {"children", "own"}
RelatedAt(x) ==
  /\ \A j \in Active(x) : AloneAt(j, x)
  /\ (\A j \in Active(x) : Written(j, x)) => related[x] = AllActive(Related(x))
Relating == \A x \in Devices \ mixed : RelatedAt(x)

IInv == Typed /\ MailInv /\ StoredOrPending /\ Relating
-----------------------------------------------------------------------------
(* Types.                                                                  *)

LEMMA AllActiveType == ASSUME NEW D PROVE AllActive(D) \in Statuses
BY DEF AllActive, Statuses

LEMMA AllActiveSame ==
  ASSUME NEW D, \A c \in D : status'[c] = status[c]
  PROVE  AllActive(D)' = AllActive(D)
BY DEF AllActive

LEMMA MovedTyped ==
  ASSUME Typed, NEW j \in jobs, NEW k \in JobType, Well(k), Moved(j, k)
  PROVE  jobs' \subseteq JobType /\ \A i \in jobs' : Well(i)'
BY DEF Typed, Moved, Well

LEMMA EndedTyped ==
  ASSUME Typed, NEW j \in jobs, Ended(j)
  PROVE  jobs' \subseteq JobType /\ \A i \in jobs' : Well(i)'
BY DEF Typed, Ended, Well

LEMMA InitTyped == Init => Typed
<1> SUFFICES ASSUME Init PROVE Typed
  OBVIOUS
<1>1. /\ status \in [Devices -> Maybe] /\ related \in [Devices -> Maybe]
      /\ told \in [Devices -> Maybe] /\ heard \in [Devices -> Maybe] /\ found \in [Devices -> Maybe]
  BY DEF Init, Maybe, Statuses
<1>2. info \in [Devices -> Infos]
  BY DEF Init, Infos, Statuses
<1> QED
  BY <1>1, <1>2 DEF Init, Typed

LEMMA InitialiseTyped == ASSUME Typed, Initialise PROVE Typed'
<1>1. ASSUME NEW who \in Updaters, NEW next, AskAll(who, next) PROVE Typed'
  <2>1. Started(who) \subseteq JobType /\ \A j \in Started(who) : Well(j)
    BY <1>1 DEF Started, Job, JobType, Maybe, Well, Placed, Updaters
  <2> QED
    BY <1>1, <2>1 DEF AskAll, Typed, docs, notes, known, counts, Well
<1>2. CASE AskByDevice \/ AskByNotification
  BY <1>1, <1>2 DEF AskByDevice, AskByNotification, Updaters
<1>3. CASE DeleteInfo
  BY <1>3 DEF DeleteInfo, Typed, docs, known, counts, Well
<1>4. CASE FindStatuses
  BY <1>4 DEF FindStatuses, Typed, docs, known, counts, Well
<1>5. CASE InsertInfo
  <2>1. [d \in Devices |-> None] \in [Devices -> Maybe]
    BY DEF Maybe
  <2>2. info' \in [Devices -> Infos]
    BY <1>5 DEF InsertInfo, Typed, Infos, Maybe
  <2> QED
    BY <1>5, <2>1, <2>2 DEF InsertInfo, Typed, docs, known, counts, Well
<1>6. CASE AddAllDeviceStatusLog \/ InitDone
  BY <1>6 DEF AddAllDeviceStatusLog, InitDone, Typed, docs, notes, known, counts, Well
<1> QED
  BY <1>2, <1>3, <1>4, <1>5, <1>6 DEF Initialise

LEMMA RestartTyped == ASSUME Typed, Restart PROVE Typed'
<1>1. [d \in Devices |-> None] \in [Devices -> Maybe]
  BY DEF Maybe
<1> QED
  BY <1>1 DEF Restart, Fault, Typed, docs, notes

LEMMA ChangeTyped == ASSUME Typed, NEW d \in Devices, NEW s \in Statuses, Change(d, s) PROVE Typed'
<1>1. s \in Maybe /\ messages' \in Nat
  BY DEF Maybe, Typed, Change
<1>2. PICK W \in SUBSET Hearing(d) :
         LET all == W \cup IF "notification" \in W THEN {"mail"} ELSE {}
         IN /\ jobs' = jobs \cup {Job(w, d, messages', FirstStep(w), s) : w \in all}
            /\ IF W = {} THEN UNCHANGED <<told, rushed, mixed>> ELSE Noticed(d, s, W)
            /\ IF "mail" \in all
               THEN heard' = [heard EXCEPT ![d] = s]
               ELSE UNCHANGED <<heard, unsure>>
  BY DEF Change
<1>3. PICK all : all = W \cup IF "notification" \in W THEN {"mail"} ELSE {}
  OBVIOUS
<1>4. all \subseteq Updaters \cup {"mail"}
  BY <1>2, <1>3 DEF Hearing
<1>5. \A w \in all : Job(w, d, messages', FirstStep(w), s) \in JobType /\ Well(Job(w, d, messages', FirstStep(w), s))
  BY <1>1, <1>4 DEF Job, JobType, Well, FirstStep, Updaters, Maybe
<1>6. jobs' \subseteq JobType /\ \A j \in jobs' : Well(j)'
  BY <1>2, <1>3, <1>5 DEF Typed, Well
<1>7. told' \in [Devices -> Maybe] /\ heard' \in [Devices -> Maybe]
  BY <1>1, <1>2 DEF Noticed, Typed
<1> QED
  BY <1>1, <1>6, <1>7 DEF Change, Typed, docs, notes

LEMMA UpdaterTyped ==
  ASSUME Typed, NEW j \in jobs,
         \/ \E s \in Statuses : Ask(j, s)
         \/ StoreStatus(j) \/ GetRelated(j) \/ StoreParent(j) \/ GetChildren(j) \/ StoreOwn(j) \/ StoreOwnCopy(j)
  PROVE  Typed'
<1>1. j \in JobType /\ Well(j)
  BY DEF Typed
<1>2. ASSUME NEW s \in Statuses, Ask(j, s) PROVE Typed'
  <2>1. s \in Maybe
    BY DEF Maybe
  <2>2. [j EXCEPT !.pc = FirstStep(j.who), !.says = s] \in JobType
    BY <1>1, <2>1 DEF JobType, FirstStep
  <2>3. Well([j EXCEPT !.pc = FirstStep(j.who), !.says = s])
    BY <1>1, <1>2 DEF JobType, FirstStep, Well, Ask, Updaters
  <2>4. jobs' \subseteq JobType /\ \A i \in jobs' : Well(i)'
    BY <1>2, <2>2, <2>3 DEF Ask, Typed, Well
  <2>5. messages' \in Nat
    BY <1>2 DEF Ask, Typed, Fault, counts
  <2> QED
    BY <1>2, <2>1, <2>4, <2>5 DEF Ask, Typed, docs, notes
<1>3. \A D : AllActive(D) \in Maybe
  BY AllActiveType DEF Maybe
<1>4. CASE StoreStatus(j)
  <2>1. At(j, "related") \in JobType /\ Well(At(j, "related"))
    BY <1>1, <1>4 DEF JobType, Well, At, StoreStatus, Update, Updaters
  <2>2. status' \in [Devices -> Maybe]
    BY <1>1, <1>4 DEF StoreStatus, Typed, JobType
  <2> QED
    BY <1>4, <2>1, <2>2, MovedTyped DEF StoreStatus, Unmoved, Typed, notes, known, counts
<1>5. CASE GetRelated(j)
  <2>1. At(j, "children") \in JobType /\ Well(At(j, "children"))
    BY <1>1, <1>5 DEF JobType, Well, At, GetRelated, Update, Updaters
  <2>2. PICK k : k = [j EXCEPT !.pc = "parent", !.read = AllActive(Related(Parent[j.dev]))]
    OBVIOUS
  <2>3. k \in JobType /\ Well(k)
    BY <1>1, <1>3, <1>5, <2>2 DEF JobType, Well, GetRelated, Update, Updaters
  <2>4. Moved(j, At(j, "children")) \/ Moved(j, k)
    BY <1>5, <2>2 DEF GetRelated
  <2> QED
    BY <1>5, <2>1, <2>3, <2>4, MovedTyped DEF GetRelated, Unmoved, Typed, docs, notes, known, counts
<1>6. CASE StoreParent(j)
  <2>1. PICK k : k = [j EXCEPT !.pc = "children", !.read = None]
    OBVIOUS
  <2>2. k \in JobType /\ Well(k)
    BY <1>1, <1>6, <2>1 DEF JobType, Well, StoreParent, Update, Updaters, Maybe
  <2>3. related' \in [Devices -> Maybe]
    BY <1>1, <1>6 DEF StoreParent, Typed, JobType
  <2> QED
    BY <1>6, <2>1, <2>2, <2>3, MovedTyped DEF StoreParent, Unmoved, Typed, notes, known, counts
<1>7. CASE GetChildren(j)
  <2>1. PICK k : k = [j EXCEPT !.pc = "own", !.read = AllActive(Related(j.dev))]
    OBVIOUS
  <2>2. k \in JobType /\ Well(k)
    BY <1>1, <1>3, <1>7, <2>1 DEF JobType, Well, GetChildren, Update, Updaters
  <2> QED
    BY <1>7, <2>1, <2>2, MovedTyped DEF GetChildren, Unmoved, Typed, docs, notes, known, counts
<1>8. CASE StoreOwn(j)
  <2>1. status' \in [Devices -> Maybe] /\ related' \in [Devices -> Maybe]
    BY <1>1, <1>8 DEF StoreOwn, Typed, JobType
  <2> QED
    BY <1>8, <2>1, EndedTyped DEF StoreOwn, Unmoved, Typed, notes, known, counts
<1>9. CASE StoreOwnCopy(j)
  <2>1. "ACTIVE" \in Maybe
    BY DEF Maybe, Statuses
  <2>2. status' \in [Devices -> Maybe] /\ related' \in [Devices -> Maybe]
    BY <1>1, <1>9, <2>1 DEF StoreOwnCopy, Typed, JobType
  <2> QED
    BY <1>9, <2>2, EndedTyped DEF StoreOwnCopy, Unmoved, Typed, notes, known, counts
<1> QED
  BY <1>2, <1>4, <1>5, <1>6, <1>7, <1>8, <1>9

LEMMA MailerTyped ==
  ASSUME Typed, NEW j \in jobs,
         \/ Look(j) \/ SendMailFails(j) \/ UpdateStatusFromDeviceStatus(j) \/ AddDeviceStatusLog(j)
         \/ \E u \in Staff : SendMail(j, u)
  PROVE  Typed'
<1>1. j \in JobType /\ Well(j)
  BY DEF Typed
<1>2. CASE Look(j)
  <2>1. PICK k : k = [j EXCEPT !.pc = "send", !.read = info[j.dev].status, !.left = Addressed(j.dev)]
    OBVIOUS
  <2>2. ASSUME info[j.dev] # None PROVE k \in JobType /\ Well(k)
    <3>1. info[j.dev].status \in Maybe
      BY <1>1, <2>2 DEF Typed, Infos, Maybe, JobType
    <3>2. Addressed(j.dev) \in SUBSET Staff
      BY DEF Addressed
    <3> QED
      BY <1>1, <1>2, <2>1, <3>1, <3>2 DEF JobType, Well, Look, Mailing, Updaters
  <2>3. Ended(j) \/ (info[j.dev] # None /\ Moved(j, k))
    BY <1>2, <2>1 DEF Look
  <2> QED
    BY <1>2, <2>2, <2>3, MovedTyped, EndedTyped DEF Look, Unsent, Typed, docs, known, counts
<1>3. ASSUME NEW u \in Staff, SendMail(j, u) PROVE Typed'
  <2>1. PICK k : k = [j EXCEPT !.left = @ \ {u}]
    OBVIOUS
  <2>2. k \in JobType /\ Well(k)
    BY <1>1, <2>1 DEF JobType, Well
  <2> QED
    BY <1>3, <2>1, <2>2, MovedTyped DEF SendMail, Unsent, Typed, docs, known, counts
<1>4. CASE SendMailFails(j)
  BY <1>4, EndedTyped DEF SendMailFails, Fault, Typed, docs, notes, known
<1>5. CASE UpdateStatusFromDeviceStatus(j)
  <2>1. At(j, "log") \in JobType /\ Well(At(j, "log"))
    BY <1>1, <1>5 DEF JobType, Well, At, UpdateStatusFromDeviceStatus, MailsSent, Mailing, Updaters
  <2>2. info' \in [Devices -> Infos \cup {None}]
    BY <1>1, <1>5 DEF UpdateStatusFromDeviceStatus, Typed, JobType, Infos, Maybe
  <2> QED
    BY <1>5, <2>1, <2>2, MovedTyped DEF UpdateStatusFromDeviceStatus, Unsent, Typed, docs, known, counts
<1>6. CASE AddDeviceStatusLog(j)
  BY <1>6, EndedTyped DEF AddDeviceStatusLog, Unsent, Typed, docs, known, counts
<1> QED
  BY <1>2, <1>3, <1>4, <1>5, <1>6

LEMMA NextTyped == Typed /\ [Next]_vars => Typed'
<1> SUFFICES ASSUME Typed, [Next]_vars PROVE Typed'
  OBVIOUS
<1>1. CASE UNCHANGED vars
  BY <1>1 DEF vars, docs, notes, known, counts, Typed, Well
<1>2. ASSUME NEW j \in jobs, Step(j) PROVE Typed'
  BY <1>2, UpdaterTyped, MailerTyped DEF Step
<1> QED
  BY <1>1, <1>2, InitialiseTyped, RestartTyped, ChangeTyped DEF Next
-----------------------------------------------------------------------------
(* Which jobs a step concerns.                                             *)

Workers == {j \in jobs : j.who \in Updaters}
Posting == {j \in jobs : j.who = "mail"}

UpdaterStep(j) ==
  \/ \E s \in Statuses : Ask(j, s)
  \/ StoreStatus(j) \/ GetRelated(j) \/ StoreParent(j) \/ GetChildren(j) \/ StoreOwn(j) \/ StoreOwnCopy(j)
MailerStep(j) ==
  \/ Look(j) \/ SendMailFails(j) \/ UpdateStatusFromDeviceStatus(j) \/ AddDeviceStatusLog(j)
  \/ \E u \in Staff : SendMail(j, u)

\* A job of an update leaves the mails alone.
LEMMA UpdaterFrame ==
  ASSUME Typed, NEW j \in jobs, UpdaterStep(j)
  PROVE  /\ Posting' = Posting /\ j \in Workers
         /\ UNCHANGED <<setup, phase, info, log, mails, heard, unsure>>
<1>1. j \in JobType /\ Well(j)
  BY DEF Typed
<1>2. ASSUME NEW k, j.who \in Updaters, k.who = j.who, Moved(j, k) PROVE Posting' = Posting /\ j \in Workers
  BY <1>2 DEF Moved, Posting, Workers, Updaters
<1>3. ASSUME j.who \in Updaters, Ended(j) PROVE Posting' = Posting /\ j \in Workers
  BY <1>3 DEF Ended, Posting, Workers, Updaters
<1>4. ASSUME NEW s \in Statuses, Ask(j, s) PROVE Posting' = Posting /\ j \in Workers
  <2>1. PICK k : k = [j EXCEPT !.pc = FirstStep(j.who), !.says = s]
    OBVIOUS
  <2>2. k.who = j.who /\ j.who \in Updaters
    BY <1>1, <1>4, <2>1 DEF JobType, Well, Ask, Updaters
  <2> QED
    BY <1>2, <1>4, <2>1, <2>2 DEF Ask, Moved
<1>5. CASE StoreStatus(j)
  <2>1. At(j, "related").who = j.who
    BY <1>1 DEF At, JobType
  <2> QED
    BY <1>2, <1>5, <2>1 DEF StoreStatus, Update, Unmoved, notes, known, ghosts
<1>6. CASE GetRelated(j)
  <2>1. PICK k : k = [j EXCEPT !.pc = "parent", !.read = AllActive(Related(Parent[j.dev]))]
    OBVIOUS
  <2>2. k.who = j.who /\ At(j, "children").who = j.who
    BY <1>1, <2>1 DEF At, JobType
  <2>3. Moved(j, At(j, "children")) \/ Moved(j, k)
    BY <1>6, <2>1 DEF GetRelated
  <2> QED
    BY <1>2, <1>6, <2>2, <2>3 DEF GetRelated, Update, Unmoved, notes, known, ghosts
<1>7. CASE StoreParent(j)
  <2>1. PICK k : k = [j EXCEPT !.pc = "children", !.read = None]
    OBVIOUS
  <2>2. k.who = j.who
    BY <1>1, <2>1 DEF JobType
  <2> QED
    BY <1>2, <1>7, <2>1, <2>2 DEF StoreParent, Update, Unmoved, notes, known, ghosts
<1>8. CASE GetChildren(j)
  <2>1. PICK k : k = [j EXCEPT !.pc = "own", !.read = AllActive(Related(j.dev))]
    OBVIOUS
  <2>2. k.who = j.who
    BY <1>1, <2>1 DEF JobType
  <2> QED
    BY <1>2, <1>8, <2>1, <2>2 DEF GetChildren, Update, Unmoved, notes, known, ghosts
<1>9. CASE StoreOwn(j) \/ StoreOwnCopy(j)
  BY <1>3, <1>9 DEF StoreOwn, StoreOwnCopy, Update, Unmoved, notes, known, ghosts
<1>10. UNCHANGED <<setup, phase, info, log, mails, heard, unsure>>
  BY DEF UpdaterStep, Ask, StoreStatus, GetRelated, StoreParent, GetChildren, StoreOwn, StoreOwnCopy,
         Unmoved, notes, known, ghosts
<1> QED
  BY <1>4, <1>5, <1>6, <1>7, <1>8, <1>9, <1>10 DEF UpdaterStep

\* A job that mails leaves the updates and what they write alone.
LEMMA MailerFrame ==
  ASSUME Typed, NEW j \in jobs, MailerStep(j)
  PROVE  /\ Workers' = Workers /\ j \in Posting
         /\ UNCHANGED <<place, phase, status, related, told, heard, rushed, mixed>>
<1>1. j \in JobType /\ Well(j)
  BY DEF Typed
<1>2. ASSUME NEW k, j.who = "mail", k.who = j.who, Moved(j, k) PROVE Workers' = Workers /\ j \in Posting
  BY <1>2 DEF Moved, Posting, Workers, Updaters
<1>3. ASSUME j.who = "mail", Ended(j) PROVE Workers' = Workers /\ j \in Posting
  BY <1>3 DEF Ended, Posting, Workers, Updaters
<1>4. UNCHANGED <<place, phase, status, related, told, heard, rushed, mixed>>
  BY DEF MailerStep, Look, SendMailFails, UpdateStatusFromDeviceStatus, AddDeviceStatusLog, SendMail,
         Unsent, setup, docs, known, ghosts
<1>5. CASE Look(j)
  <2>1. PICK k : k = [j EXCEPT !.pc = "send", !.read = info[j.dev].status, !.left = Addressed(j.dev)]
    OBVIOUS
  <2>2. k.who = j.who
    BY <1>1, <2>1 DEF JobType
  <2>3. Ended(j) \/ Moved(j, k)
    BY <1>5, <2>1 DEF Look
  <2> QED
    BY <1>2, <1>3, <1>5, <1>4, <2>2, <2>3 DEF Look, Mailing
<1>6. ASSUME NEW u \in Staff, SendMail(j, u) PROVE Workers' = Workers /\ j \in Posting
  <2>1. PICK k : k = [j EXCEPT !.left = @ \ {u}]
    OBVIOUS
  <2>2. k.who = j.who
    BY <1>1, <2>1 DEF JobType
  <2> QED
    BY <1>2, <1>6, <2>1, <2>2 DEF SendMail, Mailing
<1>7. CASE SendMailFails(j) \/ AddDeviceStatusLog(j)
  BY <1>3, <1>7, <1>4 DEF SendMailFails, AddDeviceStatusLog, Mailing
<1>8. CASE UpdateStatusFromDeviceStatus(j)
  <2>1. At(j, "log").who = j.who
    BY <1>1 DEF At, JobType
  <2> QED
    BY <1>2, <1>8, <1>4, <2>1 DEF UpdateStatusFromDeviceStatus, MailsSent, Mailing
<1> QED
  BY <1>4, <1>5, <1>6, <1>7, <1>8 DEF MailerStep

\* At start, jobs that ask are added; no other job exists that mails or writes because of it.
LEMMA InitialiseFrame ==
  ASSUME Initialise
  PROVE  /\ Posting' = Posting /\ phase # "up"
         /\ jobs \subseteq jobs' /\ \A j \in jobs' \ jobs : j.who \in Updaters /\ j.pc = "ask"
         /\ UNCHANGED <<place, status, related, told, heard, mails, rushed, mixed, unsure>>
<1>1. ASSUME NEW who \in Updaters, NEW next, AskAll(who, next)
      PROVE  /\ Posting' = Posting
             /\ jobs \subseteq jobs' /\ \A j \in jobs' \ jobs : j.who \in Updaters /\ j.pc = "ask"
  <2>1. \A j \in Started(who) : j.who = who /\ j.pc = "ask"
    BY DEF Started, Job
  <2> QED
    BY <1>1, <2>1 DEF AskAll, Posting, Updaters
<1>2. CASE AskByDevice \/ AskByNotification
  BY <1>1, <1>2 DEF AskByDevice, AskByNotification, Updaters, AskAll, setup, docs, known, ghosts
<1>3. CASE DeleteInfo \/ FindStatuses \/ InsertInfo \/ AddAllDeviceStatusLog \/ InitDone
  BY <1>3 DEF DeleteInfo, FindStatuses, InsertInfo, AddAllDeviceStatusLog, InitDone, Posting,
              setup, docs, notes, known, ghosts
<1> QED
  BY <1>2, <1>3 DEF Initialise

-----------------------------------------------------------------------------
(* The status told last.                                                   *)

\* How the jobs around a device change when j becomes k, or ends.
LEMMA AroundMoved ==
  ASSUME NEW j \in Workers, NEW k, jobs' = (jobs \ {j}) \cup {k}, k.who = j.who, k.dev = j.dev
  PROVE  /\ \A d : d # j.dev => Working(d)' = Working(d)
         /\ Working(j.dev)' = (Working(j.dev) \ {j}) \cup {k}
         /\ \A x : x \notin Touched(j.dev) => Near(x)' = Near(x)
         /\ \A x \in Touched(j.dev) : Near(x)' = (Near(x) \ {j}) \cup {k}
<1>1. j.who \in Updaters
  BY DEF Workers
<1> QED
  BY <1>1 DEF Working, Near, Touched

LEMMA AroundEnded ==
  ASSUME NEW j \in Workers, jobs' = jobs \ {j}
  PROVE  /\ \A d : d # j.dev => Working(d)' = Working(d)
         /\ Working(j.dev)' = Working(j.dev) \ {j}
         /\ \A x : x \notin Touched(j.dev) => Near(x)' = Near(x)
         /\ \A x \in Touched(j.dev) : Near(x)' = Near(x) \ {j}
BY DEF Working, Near, Touched

\* What a step of an update leaves alone.
Apart(j) ==
  /\ \A d : d # j.dev => Working(d)' = Working(d)
  /\ \A x : x \notin Touched(j.dev) => Near(x)' = Near(x)
  /\ \A d \in Devices \ {j.dev} : told'[d] = told[d] /\ status'[d] = status[d]
  /\ rushed \subseteq rushed' \cup {j.dev}

LEMMA Becomes ==
  ASSUME Typed, NEW j \in jobs, UpdaterStep(j)
  PROVE  Apart(j)
<1>1. j \in JobType /\ j \in Workers
  BY UpdaterFrame DEF Typed
<1>2. ASSUME NEW s \in Statuses, Ask(j, s)
      PROVE  /\ jobs' = (jobs \ {j}) \cup {[j EXCEPT !.pc = FirstStep(j.who), !.says = s]}
             /\ \A d \in Devices \ {j.dev} : told'[d] = told[d] /\ status'[d] = status[d]
             /\ rushed \subseteq rushed' \cup {j.dev}
  BY <1>2 DEF Ask, docs, Typed
<1>3. ASSUME NEW k, jobs' = (jobs \ {j}) \cup {k}, k.who = j.who, k.dev = j.dev,
             \A d \in Devices \ {j.dev} : told'[d] = told[d] /\ status'[d] = status[d],
             rushed \subseteq rushed' \cup {j.dev}
      PROVE  Apart(j)
  BY <1>1, <1>3, AroundMoved DEF Apart
<1>4. CASE \E s \in Statuses : Ask(j, s)
  <2>1. PICK s \in Statuses : Ask(j, s)
    BY <1>4
  <2>2. PICK k : k = [j EXCEPT !.pc = FirstStep(j.who), !.says = s]
    OBVIOUS
  <2>3. k.who = j.who /\ k.dev = j.dev
    BY <1>1, <2>2 DEF JobType
  <2> QED
    BY <1>2, <1>3, <2>1, <2>2, <2>3
<1>5. ASSUME StoreStatus(j) \/ GetRelated(j) \/ StoreParent(j) \/ GetChildren(j) \/ StoreOwn(j) \/ StoreOwnCopy(j)
      PROVE  /\ \A d \in Devices \ {j.dev} : told'[d] = told[d] /\ status'[d] = status[d]
             /\ rushed \subseteq rushed' \cup {j.dev}
  <2>1. UNCHANGED <<told, rushed>>
    BY <1>5 DEF StoreStatus, GetRelated, StoreParent, GetChildren, StoreOwn, StoreOwnCopy, Unmoved, known, ghosts
  <2>2. \/ status' = status
        \/ status' = [status EXCEPT ![j.dev] = j.says]
    BY <1>5 DEF StoreStatus, GetRelated, StoreParent, GetChildren, StoreOwn, StoreOwnCopy, docs
  <2> QED
    BY <2>1, <2>2 DEF Typed
<1>6. CASE StoreStatus(j)
  <2>1. At(j, "related").who = j.who /\ At(j, "related").dev = j.dev
    BY <1>1 DEF JobType, At
  <2> QED
    BY <1>3, <1>5, <1>6, <2>1 DEF StoreStatus, Moved
<1>7. CASE GetRelated(j)
  <2>1. PICK k : k = IF Parent[j.dev] = None THEN At(j, "children")
                     ELSE [j EXCEPT !.pc = "parent", !.read = AllActive(Related(Parent[j.dev]))]
    OBVIOUS
  <2>2. k.who = j.who /\ k.dev = j.dev
    BY <1>1, <2>1 DEF JobType, At
  <2>3. jobs' = (jobs \ {j}) \cup {k}
    BY <1>7, <2>1 DEF GetRelated, Moved
  <2> QED
    BY <1>3, <1>5, <1>7, <2>2, <2>3
<1>8. CASE StoreParent(j)
  <2>1. PICK k : k = [j EXCEPT !.pc = "children", !.read = None]
    OBVIOUS
  <2>2. k.who = j.who /\ k.dev = j.dev
    BY <1>1, <2>1 DEF JobType
  <2> QED
    BY <1>3, <1>5, <1>8, <2>1, <2>2 DEF StoreParent, Moved
<1>9. CASE GetChildren(j)
  <2>1. PICK k : k = [j EXCEPT !.pc = "own", !.read = AllActive(Related(j.dev))]
    OBVIOUS
  <2>2. k.who = j.who /\ k.dev = j.dev
    BY <1>1, <2>1 DEF JobType
  <2> QED
    BY <1>3, <1>5, <1>9, <2>1, <2>2 DEF GetChildren, Moved
<1>10. CASE StoreOwn(j) \/ StoreOwnCopy(j)
  <2>1. jobs' = jobs \ {j}
    BY <1>10 DEF StoreOwn, StoreOwnCopy, Ended
  <2> QED
    BY <1>1, <1>5, <1>10, <2>1, AroundEnded DEF Apart
<1> QED
  BY <1>4, <1>6, <1>7, <1>8, <1>9, <1>10 DEF UpdaterStep

LEMMA UpdaterStores ==
  ASSUME Typed, StoredOrPending, NEW j \in jobs, UpdaterStep(j)
  PROVE  StoredOrPending'
<1> SUFFICES ASSUME NEW d \in Devices, d \in Placed, d \notin rushed' PROVE StoredAt(d)'
  BY UpdaterFrame DEF StoredOrPending, Placed, setup
<1>1. j \in JobType /\ Well(j) /\ j \in Workers
  BY UpdaterFrame DEF Typed
<1>2. CASE d # j.dev
  <2>1. Apart(j)
    BY Becomes
  <2>2. StoredAt(d) /\ told'[d] = told[d] /\ status'[d] = status[d]
    BY <1>2, <2>1 DEF StoredOrPending, Apart
  <2> QED
    BY <1>2, <2>1, <2>2 DEF StoredAt, Pending, Apart
<1>3. CASE d = j.dev
  <2>1. ASSUME NEW k, jobs' = (jobs \ {j}) \cup {k}, k.who = j.who /\ k.dev = j.dev
        PROVE  Working(d)' = (Working(d) \ {j}) \cup {k}
    BY <1>1, <1>3, <2>1, AroundMoved
  <2>2. j \in Working(d) /\ told \in [Devices -> Maybe] /\ status \in [Devices -> Maybe]
    BY <1>1, <1>3 DEF Workers, Working, Typed
  <2>3. CASE \E s \in Statuses : Ask(j, s)
    <3>1. PICK s \in Statuses : Ask(j, s)
      BY <2>3
    <3>2. PICK k : k = [j EXCEPT !.pc = FirstStep(j.who), !.says = s]
      OBVIOUS
    <3>3. k.who = j.who /\ k.dev = j.dev /\ k.pc = FirstStep(j.who) /\ k.says = s
      BY <1>1, <3>2 DEF JobType
    <3>4. Working(d)' = (Working(d) \ {j}) \cup {k}
      BY <2>1, <3>1, <3>2, <3>3 DEF Ask
    <3>5. told'[d] = s
      BY <1>3, <2>2, <3>1 DEF Ask
    <3>6. \A i \in Working(d) \ {j} : i.says = s
      BY <1>3, <3>1 DEF Ask
    <3>7. Pending(k)
      BY <1>1, <3>3 DEF Pending, FirstStep, Workers, Updaters
    <3> QED
      BY <3>3, <3>4, <3>5, <3>6, <3>7 DEF StoredAt, Pending
  <2>4. ASSUME ~\E s \in Statuses : Ask(j, s) PROVE StoredAt(d) /\ told' = told
    BY <2>4 DEF UpdaterStep, StoreStatus, GetRelated, StoreParent, GetChildren, StoreOwn, StoreOwnCopy,
                Unmoved, known, ghosts, StoredOrPending
  <2>5. ASSUME ~\E s \in Statuses : Ask(j, s), j.pc # "ask" PROVE j.says = told[d]
    BY <2>2, <2>4, <2>5 DEF StoredAt
  <2>6. CASE StoreStatus(j)
    <3>1. At(j, "related").who = j.who /\ At(j, "related").dev = j.dev /\ At(j, "related").says = j.says
      BY <1>1 DEF At, JobType
    <3>2. Working(d)' = (Working(d) \ {j}) \cup {At(j, "related")}
      BY <2>1, <2>6, <3>1 DEF StoreStatus, Moved
    <3>3. j.pc = "store" /\ ~\E s \in Statuses : Ask(j, s)
      BY <2>6 DEF StoreStatus, Update, Ask
    <3>4. status'[d] = told'[d]
      BY <1>3, <2>2, <2>4, <2>5, <2>6, <3>3 DEF StoreStatus
    <3> QED
      BY <2>4, <2>5, <3>1, <3>2, <3>3, <3>4 DEF StoredAt
  <2>7. ASSUME NEW k, jobs' = (jobs \ {j}) \cup {k}, k.who = j.who, k.dev = j.dev, k.says = j.says,
               j.pc \notin {"ask", "store"}, UNCHANGED <<told, status>>, ~\E s \in Statuses : Ask(j, s)
        PROVE  StoredAt(d)'
    <3>1. Working(d)' = (Working(d) \ {j}) \cup {k}
      BY <2>1, <2>7
    <3>2. Pending(j) => Pending(k)
      BY <2>7 DEF Pending
    <3> QED
      BY <2>4, <2>5, <2>7, <3>1, <3>2 DEF StoredAt, Pending
  <2>8. CASE GetRelated(j)
    <3>1. PICK k : k = IF Parent[j.dev] = None THEN At(j, "children")
                       ELSE [j EXCEPT !.pc = "parent", !.read = AllActive(Related(Parent[j.dev]))]
      OBVIOUS
    <3>2. k.who = j.who /\ k.dev = j.dev /\ k.says = j.says
      BY <1>1, <3>1 DEF JobType, At
    <3>3. jobs' = (jobs \ {j}) \cup {k}
      BY <2>8, <3>1 DEF GetRelated, Moved
    <3> QED
      BY <2>7, <2>8, <3>2, <3>3 DEF GetRelated, Update, Ask, Unmoved, known, docs
  <2>9. CASE StoreParent(j)
    <3>1. PICK k : k = [j EXCEPT !.pc = "children", !.read = None]
      OBVIOUS
    <3>2. k.who = j.who /\ k.dev = j.dev /\ k.says = j.says
      BY <1>1, <3>1 DEF JobType
    <3> QED
      BY <2>7, <2>9, <3>1, <3>2 DEF StoreParent, Moved, Update, Ask, Unmoved, known
  <2>10. CASE GetChildren(j)
    <3>1. PICK k : k = [j EXCEPT !.pc = "own", !.read = AllActive(Related(j.dev))]
      OBVIOUS
    <3>2. k.who = j.who /\ k.dev = j.dev /\ k.says = j.says
      BY <1>1, <3>1 DEF JobType
    <3> QED
      BY <2>7, <2>10, <3>1, <3>2 DEF GetChildren, Moved, Update, Ask, Unmoved, known, docs
  <2>11. CASE StoreOwn(j) \/ StoreOwnCopy(j)
    <3>1. jobs' = jobs \ {j} /\ j.pc = "own" /\ ~\E s \in Statuses : Ask(j, s)
      BY <2>11 DEF StoreOwn, StoreOwnCopy, Ended, Update, Ask
    <3>2. Working(d)' = Working(d) \ {j}
      BY <3>1 DEF Working
    <3>3. StoredAt(d) /\ told' = told /\ j.says = told[d]
      BY <2>4, <2>5, <3>1
    <3>4. CASE status'[d] = j.says
      BY <3>2, <3>3, <3>4 DEF StoredAt
    <3>5. CASE StoreOwn(j) /\ status' = status
      <4>1. ~Pending(j)
        BY <3>1, <3>5 DEF StoreOwn, Pending
      <4> QED
        BY <3>2, <3>3, <3>5, <4>1 DEF StoredAt, Pending
    <3>6. (StoreOwn(j) /\ status' = status) \/ status'[d] = j.says
      BY <1>3, <2>2, <2>11 DEF StoreOwn, StoreOwnCopy
    <3> QED
      BY <3>4, <3>5, <3>6
  <2> QED
    BY <2>3, <2>6, <2>8, <2>9, <2>10, <2>11 DEF UpdaterStep
<1> QED
  BY <1>2, <1>3

LEMMA ChangeStores ==
  ASSUME Typed, StoredOrPending, NEW d \in Devices, NEW s \in Statuses, Change(d, s)
  PROVE  StoredOrPending'
<1>1. PICK W \in SUBSET Hearing(d) :
         LET all == W \cup IF "notification" \in W THEN {"mail"} ELSE {}
         IN /\ jobs' = jobs \cup {Job(w, d, messages', FirstStep(w), s) : w \in all}
            /\ IF W = {} THEN UNCHANGED <<told, rushed, mixed>> ELSE Noticed(d, s, W)
  BY DEF Change
<1>2. PICK all : all = W \cup IF "notification" \in W THEN {"mail"} ELSE {}
  OBVIOUS
<1>3. jobs' = jobs \cup {Job(w, d, messages', FirstStep(w), s) : w \in all}
  BY <1>1, <1>2
<1>4. \A w : LET k == Job(w, d, messages', FirstStep(w), s)
             IN k.who = w /\ k.dev = d /\ k.says = s /\ k.pc = FirstStep(w)
  BY DEF Job
<1>5. \A e : e # d => Working(e)' = Working(e)
  BY <1>3, <1>4 DEF Working
<1>6. UNCHANGED <<place, status>>
  BY DEF Change, setup, docs
<1>7. CASE W = {}
  <2>1. jobs' = jobs /\ UNCHANGED <<told, rushed>>
    BY <1>1, <1>2, <1>3, <1>7
  <2> QED
    BY <1>6, <2>1 DEF StoredOrPending, StoredAt, Placed, Working, Pending
<1>8. CASE W # {}
  <2> SUFFICES ASSUME NEW e \in Devices, e \in Placed, e \notin rushed' PROVE StoredAt(e)'
    BY <1>6 DEF StoredOrPending, Placed
  <2>1. CASE e # d
    <3>1. told'[e] = told[e] /\ e \notin rushed
      BY <1>1, <1>8, <2>1 DEF Noticed, Typed
    <3> QED
      BY <1>5, <1>6, <2>1, <3>1 DEF StoredOrPending, StoredAt, Pending
  <2>2. CASE e = d
    <3>1. told'[e] = s /\ \A j \in Working(e) : j.says = s
      BY <1>1, <1>8, <2>2 DEF Noticed, Typed
    <3>2. \A j \in Working(e)' : j.says = s
      BY <1>3, <1>4, <2>2, <3>1 DEF Working
    <3>3. PICK w \in W : w \in Updaters
      BY <1>1, <1>8 DEF Hearing
    <3>4. PICK k : k = Job(w, d, messages', FirstStep(w), s)
      OBVIOUS
    <3>5. k \in jobs' /\ k.who = w /\ k.dev = d /\ k.pc = FirstStep(w)
      BY <1>2, <1>3, <1>4, <3>3, <3>4
    <3>6. k \in Working(e)' /\ Pending(k)
      BY <2>2, <3>3, <3>5 DEF Working, Pending, FirstStep, Updaters
    <3> QED
      BY <3>1, <3>2, <3>6 DEF StoredAt, Pending
  <2> QED
    BY <2>1, <2>2
<1> QED
  BY <1>7, <1>8

LEMMA NextStores == Typed /\ StoredOrPending /\ [Next]_vars => StoredOrPending'
<1> SUFFICES ASSUME Typed, StoredOrPending, [Next]_vars PROVE StoredOrPending'
  OBVIOUS
<1>1. ASSUME Workers' = Workers, UNCHANGED <<place, status, told, rushed>> PROVE StoredOrPending'
  <2>1. \A d : Working(d)' = Working(d)
    BY <1>1 DEF Workers, Working
  <2> QED
    BY <1>1, <2>1 DEF StoredOrPending, StoredAt, Placed, Pending
<1>2. CASE UNCHANGED vars
  BY <1>1, <1>2 DEF vars, setup, docs, known, ghosts, Workers
<1>3. CASE Initialise
  <2>1. /\ jobs \subseteq jobs' /\ \A j \in jobs' \ jobs : j.pc = "ask"
        /\ UNCHANGED <<place, status, told, rushed>>
    BY <1>3, InitialiseFrame
  <2>2. \A d : Working(d) \subseteq Working(d)' /\ \A j \in Working(d)' \ Working(d) : j.pc = "ask"
    BY <2>1 DEF Working
  <2> QED
    BY <2>1, <2>2 DEF StoredOrPending, StoredAt, Placed, Pending
<1>4. CASE Restart
  <2>1. \A d \in Devices \ rushed' : d \notin rushed /\ Working(d) = {}
    BY <1>4 DEF Restart
  <2>2. \A d : Working(d)' = {}
    BY <1>4 DEF Restart, Working
  <2>3. UNCHANGED <<place, status, told>>
    BY <1>4 DEF Restart, setup, docs
  <2> QED
    BY <2>1, <2>2, <2>3 DEF StoredOrPending, StoredAt, Placed, Pending
<1>5. ASSUME NEW j \in jobs, Step(j) PROVE StoredOrPending'
  <2>1. CASE MailerStep(j)
    BY <1>1, <2>1, MailerFrame
  <2> QED
    BY <1>5, <2>1, UpdaterStores DEF Step, UpdaterStep, MailerStep
<1> QED
  BY <1>2, <1>3, <1>4, <1>5, ChangeStores DEF Next

-----------------------------------------------------------------------------
(* relatedStatus.                                                          *)

LEMMA UpdaterRelating ==
  ASSUME Typed, Relating, NEW j \in jobs, UpdaterStep(j)
  PROVE  Relating'
<1> SUFFICES ASSUME NEW x \in Devices, x \notin mixed' PROVE RelatedAt(x)'
  BY DEF Relating
<1>1. j \in JobType /\ Well(j) /\ j \in Workers /\ Apart(j)
  BY UpdaterFrame, Becomes DEF Typed
<1>2. j.dev \in Devices /\ j.who \in Updaters
  BY <1>1 DEF JobType, Workers
<1>3. x \notin mixed
  BY DEF UpdaterStep, Ask, StoreStatus, GetRelated, StoreParent, GetChildren, StoreOwn, StoreOwnCopy, Unmoved, ghosts
<1>4. RelatedAt(x)
  BY <1>3 DEF Relating
<1>5. CASE x \notin Touched(j.dev)
  <2>1. Near(x)' = Near(x)
    BY <1>1, <1>5 DEF Apart
  <2>2. Active(x)' = Active(x)
    BY <2>1 DEF Active
  <2>3. \A d \in Devices \ {j.dev} : status'[d] = status[d]
    BY <1>1 DEF Apart
  <2>4. \A d \in Related(x) : status'[d] = status[d]
    BY <1>2, <1>5, <2>3, ParentAssumption DEF Related, Touched
  <2>5. AllActive(Related(x))' = AllActive(Related(x))
    BY <2>4, AllActiveSame DEF Related
  <2>6. x # j.dev /\ x # Parent[j.dev]
    BY <1>2, <1>5, ParentAssumption DEF Touched
  <2>7. related'[x] = related[x]
    BY <2>6 DEF UpdaterStep, Ask, StoreStatus, GetRelated, StoreParent, GetChildren, StoreOwn, StoreOwnCopy, docs, Typed
  <2>8. \A k \in Active(x) : k.dev \in Devices \ {j.dev}
    BY <1>5 DEF Active, Near, Typed, JobType
  <2>9. \A k \in Active(x) : AloneAt(k, x)'
    BY <1>4, <2>2, <2>3, <2>5, <2>8 DEF RelatedAt, AloneAt
  <2> QED
    BY <1>4, <2>2, <2>5, <2>7, <2>9 DEF RelatedAt, Written
<1>6. CASE x \in Touched(j.dev)
  <2>1. j.pc # "ask"
    <3>1. CASE \E s \in Statuses : Ask(j, s)
      BY <1>6, <3>1 DEF Ask
    <3> QED
      BY <3>1 DEF UpdaterStep, StoreStatus, GetRelated, StoreParent, GetChildren, StoreOwn, StoreOwnCopy, Update
  <2>2. j \in Active(x)
    BY <1>1, <1>6, <2>1 DEF Active, Near, Workers
  <2>3. AloneAt(j, x) /\ Active(x) = {j}
    BY <1>4, <2>2 DEF RelatedAt, AloneAt
  <2>4. j.who = "device" /\ (j.pc # "store" => status[j.dev] = j.says)
    BY <2>3 DEF AloneAt
  <2>5. ASSUME NEW k, jobs' = (jobs \ {j}) \cup {k}, k.who = j.who, k.dev = j.dev, k.pc # "ask"
        PROVE  Active(x)' = {k}
    <3>1. Near(x)' = (Near(x) \ {j}) \cup {k}
      BY <1>1, <1>6, <2>5, AroundMoved
    <3> QED
      BY <2>3, <2>5, <3>1 DEF Active
  <2>6. ASSUME UNCHANGED status PROVE AllActive(Related(x))' = AllActive(Related(x))
    BY <2>6 DEF AllActive
  <2>7. CASE StoreStatus(j)
    <3>1. PICK k : k = At(j, "related")
      OBVIOUS
    <3>2. k.who = j.who /\ k.dev = j.dev /\ k.says = j.says /\ k.pc = "related"
      BY <1>1, <3>1 DEF At, JobType
    <3>3. Active(x)' = {k}
      BY <2>5, <2>7, <3>1, <3>2 DEF StoreStatus, Moved
    <3>4. status'[j.dev] = j.says
      BY <1>2, <2>7 DEF StoreStatus, Typed
    <3> QED
      BY <2>4, <3>2, <3>3, <3>4 DEF RelatedAt, AloneAt, Written
  <2>8. CASE GetRelated(j)
    <3>1. UNCHANGED docs /\ j.pc = "related"
      BY <2>8 DEF GetRelated, Update
    <3>2. CASE Parent[j.dev] = None
      <4>1. PICK k : k = At(j, "children")
        OBVIOUS
      <4>2. k.who = j.who /\ k.dev = j.dev /\ k.says = j.says /\ k.pc = "children"
        BY <1>1, <4>1 DEF At, JobType
      <4>3. Active(x)' = {k}
        BY <2>5, <2>8, <3>2, <4>1, <4>2 DEF GetRelated, Moved
      <4>4. x = j.dev
        BY <1>6, <3>2 DEF Touched
      <4> QED
        BY <2>4, <3>1, <4>2, <4>3, <4>4 DEF RelatedAt, AloneAt, Written, docs
    <3>3. CASE Parent[j.dev] # None
      <4>1. PICK k : k = [j EXCEPT !.pc = "parent", !.read = AllActive(Related(Parent[j.dev]))]
        OBVIOUS
      <4>2. k.who = j.who /\ k.dev = j.dev /\ k.says = j.says /\ k.pc = "parent"
            /\ k.read = AllActive(Related(Parent[j.dev]))
        BY <1>1, <4>1 DEF JobType
      <4>3. Active(x)' = {k}
        BY <2>5, <2>8, <3>3, <4>1, <4>2 DEF GetRelated, Moved
      <4>4. x # j.dev => k.read = AllActive(Related(x))'
        BY <1>6, <2>6, <3>1, <4>2 DEF Touched, docs
      <4> QED
        BY <2>4, <3>1, <4>2, <4>3, <4>4 DEF RelatedAt, AloneAt, Written, docs
    <3> QED
      BY <3>2, <3>3
  <2>9. CASE StoreParent(j)
    <3>1. PICK k : k = [j EXCEPT !.pc = "children", !.read = None]
      OBVIOUS
    <3>2. k.who = j.who /\ k.dev = j.dev /\ k.says = j.says /\ k.pc = "children"
      BY <1>1, <3>1 DEF JobType
    <3>3. Active(x)' = {k}
      BY <2>5, <2>9, <3>1, <3>2 DEF StoreParent, Moved
    <3>4. UNCHANGED status /\ j.pc = "parent" /\ related' = [related EXCEPT ![Parent[j.dev]] = j.read]
      BY <2>9 DEF StoreParent, Update
    <3>5. x # j.dev => related'[x] = AllActive(Related(x))'
      <4> SUFFICES ASSUME x # j.dev PROVE related'[x] = AllActive(Related(x))'
        OBVIOUS
      <4>1. x = Parent[j.dev]
        BY <1>6 DEF Touched
      <4>2. related'[x] = j.read
        BY <3>4, <4>1 DEF Typed
      <4>3. j.read = AllActive(Related(x))
        BY <2>3, <3>4 DEF AloneAt
      <4> QED
        BY <2>6, <3>4, <4>2, <4>3
    <3> QED
      BY <2>4, <3>2, <3>3, <3>4, <3>5 DEF RelatedAt, AloneAt, Written
  <2>10. CASE GetChildren(j)
    <3>1. PICK k : k = [j EXCEPT !.pc = "own", !.read = AllActive(Related(j.dev))]
      OBVIOUS
    <3>2. k.who = j.who /\ k.dev = j.dev /\ k.says = j.says /\ k.pc = "own" /\ k.read = AllActive(Related(j.dev))
      BY <1>1, <3>1 DEF JobType
    <3>3. Active(x)' = {k}
      BY <2>5, <2>10, <3>1, <3>2 DEF GetChildren, Moved
    <3>4. UNCHANGED docs /\ j.pc = "children"
      BY <2>10 DEF GetChildren, Update
    <3>5. AllActive(Related(x))' = AllActive(Related(x))
      BY <2>6, <3>4 DEF docs
    <3>6. x # j.dev => related[x] = AllActive(Related(x))
      BY <1>4, <2>3, <3>4 DEF RelatedAt, Written
    <3> QED
      BY <2>4, <3>2, <3>3, <3>4, <3>5, <3>6 DEF RelatedAt, AloneAt, Written, docs
  <2>11. CASE StoreOwn(j)
    <3>1. jobs' = jobs \ {j} /\ j.pc = "own" /\ related' = [related EXCEPT ![j.dev] = j.read]
      BY <2>11 DEF StoreOwn, Ended, Update
    <3>2. Near(x)' = Near(x) \ {j}
      BY <1>1, <1>6, <3>1, AroundEnded
    <3>3. Active(x)' = {}
      BY <2>3, <3>2 DEF Active
    <3>4. status' = status
      BY <1>2, <2>4, <2>11, <3>1 DEF StoreOwn, Typed
    <3>5. AllActive(Related(x))' = AllActive(Related(x))
      BY <2>6, <3>4
    <3>6. CASE x = j.dev
      <4>1. related'[x] = j.read
        BY <3>1, <3>6 DEF Typed
      <4> QED
        BY <2>3, <3>1, <3>3, <3>5, <3>6, <4>1 DEF RelatedAt, AloneAt
    <3>7. CASE x # j.dev
      <4>1. related'[x] = related[x]
        BY <3>1, <3>7 DEF Typed
      <4> QED
        BY <1>4, <2>3, <3>1, <3>3, <3>5, <3>7, <4>1 DEF RelatedAt, Written
    <3> QED
      BY <3>6, <3>7
  <2>12. ~StoreOwnCopy(j) /\ ~\E s \in Statuses : Ask(j, s)
    BY <2>1, <2>4 DEF StoreOwnCopy, Ask
  <2> QED
    BY <2>7, <2>8, <2>9, <2>10, <2>11, <2>12 DEF UpdaterStep
<1> QED
  BY <1>5, <1>6

LEMMA ChangeRelating ==
  ASSUME Typed, Relating, NEW d \in Devices, NEW s \in Statuses, Change(d, s)
  PROVE  Relating'
<1>1. PICK W \in SUBSET Hearing(d) :
         LET all == W \cup IF "notification" \in W THEN {"mail"} ELSE {}
         IN /\ jobs' = jobs \cup {Job(w, d, messages', FirstStep(w), s) : w \in all}
            /\ IF W = {} THEN UNCHANGED <<told, rushed, mixed>> ELSE Noticed(d, s, W)
  BY DEF Change
<1>2. PICK all : all = W \cup IF "notification" \in W THEN {"mail"} ELSE {}
  OBVIOUS
<1>3. jobs' = jobs \cup {Job(w, d, messages', FirstStep(w), s) : w \in all}
  BY <1>1, <1>2
<1>4. \A w : LET k == Job(w, d, messages', FirstStep(w), s)
             IN k.who = w /\ k.dev = d /\ k.says = s /\ k.pc = FirstStep(w)
  BY DEF Job
<1>5. UNCHANGED docs
  BY DEF Change
<1>6. \A x : AllActive(Related(x))' = AllActive(Related(x))
  BY <1>5 DEF AllActive, docs
<1> SUFFICES ASSUME NEW x \in Devices, x \notin mixed' PROVE RelatedAt(x)'
  BY DEF Relating
<1>7. CASE x \notin Touched(d) \/ W = {}
  <2>1. x \notin mixed
    BY <1>1, <1>7 DEF Noticed
  <2>2. Near(x)' = Near(x)
    <3>1. CASE x \notin Touched(d)
      BY <1>3, <1>4, <3>1 DEF Near
    <3>2. CASE W = {}
      BY <1>2, <1>3, <3>2 DEF Near
    <3> QED
      BY <1>7, <3>1, <3>2
  <2>3. Active(x)' = Active(x)
    BY <2>2 DEF Active
  <2> QED
    BY <1>5, <1>6, <2>1, <2>3 DEF Relating, RelatedAt, AloneAt, Written, docs
<1>8. CASE x \in Touched(d) /\ W # {}
  <2>1. Near(x) = {} /\ W = {"device"}
    BY <1>1, <1>8 DEF Noticed
  <2>2. PICK k : k = Job("device", d, messages', FirstStep("device"), s)
    OBVIOUS
  <2>3. k.who = "device" /\ k.dev = d /\ k.pc = "store"
    BY <1>4, <2>2 DEF FirstStep
  <2>4. jobs' = jobs \cup {k}
    BY <1>2, <1>3, <2>1, <2>2
  <2>5. Active(x)' = {k}
    BY <1>8, <2>1, <2>3, <2>4 DEF Active, Near, Updaters
  <2> QED
    BY <2>3, <2>5 DEF RelatedAt, AloneAt, Written
<1> QED
  BY <1>7, <1>8

LEMMA NextRelating == Typed /\ Relating /\ [Next]_vars => Relating'
<1> SUFFICES ASSUME Typed, Relating, [Next]_vars PROVE Relating'
  OBVIOUS
<1>1. ASSUME \A x : Active(x)' = Active(x), UNCHANGED <<status, related, mixed>> PROVE Relating'
  <2>1. \A x : AllActive(Related(x))' = AllActive(Related(x))
    BY <1>1 DEF AllActive
  <2> QED
    BY <1>1, <2>1 DEF Relating, RelatedAt, AloneAt, Written
<1>2. CASE UNCHANGED vars
  BY <1>1, <1>2 DEF vars, docs, ghosts, Active, Near
<1>3. CASE Initialise
  <2>1. /\ jobs \subseteq jobs' /\ \A j \in jobs' \ jobs : j.pc = "ask"
        /\ UNCHANGED <<status, related, mixed>>
    BY <1>3, InitialiseFrame
  <2>2. \A x : Active(x)' = Active(x)
    BY <2>1 DEF Active, Near
  <2> QED
    BY <1>1, <2>1, <2>2
<1>4. CASE Restart
  BY <1>4 DEF Restart, Relating
<1>5. ASSUME NEW j \in jobs, Step(j) PROVE Relating'
  <2>1. CASE MailerStep(j)
    <3>1. Workers' = Workers /\ UNCHANGED <<status, related, mixed>>
      BY <2>1, MailerFrame
    <3>2. \A x : Active(x)' = Active(x)
      BY <3>1 DEF Workers, Active, Near
    <3> QED
      BY <1>1, <3>1, <3>2
  <2> QED
    BY <1>5, <2>1, UpdaterRelating DEF Step, UpdaterStep, MailerStep
<1> QED
  BY <1>2, <1>3, <1>4, <1>5, ChangeRelating DEF Next

-----------------------------------------------------------------------------
(* Mails and what is logged of them.                                       *)

LEMMA MailSame ==
  ASSUME MailInv, Posting' = Posting, UNCHANGED <<place, phase, info, log, mails, heard, unsure>>
  PROVE  MailInv'
<1>1. \A d : Mailers(d)' = Mailers(d) /\ Addressed(d)' = Addressed(d)
  BY DEF Mailers, Posting, Addressed
<1>2. Mailed'
  BY <1>1 DEF MailInv, Mailed, Posting
<1>3. LoggedAreMailed'
  BY <1>1 DEF MailInv, LoggedAreMailed
<1>4. HeardUp'
  BY DEF MailInv, HeardUp, Recorded
<1>5. Follows'
  BY <1>1 DEF MailInv, Follows
<1> QED
  BY <1>2, <1>3, <1>4, <1>5 DEF MailInv

LEMMA InitMail == Init => MailInv
<1> SUFFICES ASSUME Init PROVE MailInv
  OBVIOUS
<1>1. info \in [Devices -> Infos]
  BY DEF Init, Infos, Statuses
<1>2. \A d \in Devices : heard[d] = None
  BY DEF Init
<1>3. Mailed
  BY DEF Init, Mailed
<1>4. LoggedAreMailed
  BY DEF Init, LoggedAreMailed, Entry
<1> QED
  BY <1>1, <1>2, <1>3, <1>4 DEF MailInv, HeardUp, Follows

LEMMA InitialiseMail == ASSUME Typed, MailInv, Initialise PROVE MailInv'
<1>1. Posting' = Posting /\ phase # "up" /\ UNCHANGED <<place, heard, mails, unsure>>
  BY InitialiseFrame
<1>2. \A d \in Devices : heard'[d] = None
  BY <1>1 DEF MailInv, HeardUp
<1>3. \A d : Addressed(d)' = Addressed(d)
  BY <1>1 DEF Addressed
<1>4. Mailed'
  BY <1>1, <1>3 DEF MailInv, Mailed, Posting
<1>5. Follows'
  BY <1>2 DEF Follows
<1>6. \A e \in log' \ log : e.previous = None
  BY DEF Initialise, AskByDevice, DeleteInfo, FindStatuses, InsertInfo, AddAllDeviceStatusLog, AskByNotification,
         InitDone, AskAll, notes, Entry
<1>7. LoggedAreMailed'
  BY <1>1, <1>3, <1>6 DEF MailInv, LoggedAreMailed
<1>8. Recorded' => info' \in [Devices -> Infos]
  <2>1. CASE AskByDevice \/ AskByNotification
    BY <2>1 DEF AskByDevice, AskByNotification, AskAll, notes, MailInv, HeardUp, Recorded
  <2>2. CASE DeleteInfo \/ FindStatuses
    BY <2>2 DEF DeleteInfo, FindStatuses, Recorded
  <2>3. CASE InsertInfo
    BY <2>3 DEF InsertInfo, Typed, Infos, Maybe
  <2>4. CASE AddAllDeviceStatusLog
    BY <2>4 DEF AddAllDeviceStatusLog, MailInv, HeardUp, Recorded
  <2>5. CASE InitDone
    BY <2>5, OrderAssumption DEF InitDone, notes, MailInv, HeardUp, Recorded
  <2> QED
    BY <2>1, <2>2, <2>3, <2>4, <2>5 DEF Initialise
<1> QED
  BY <1>2, <1>4, <1>5, <1>7, <1>8 DEF MailInv, HeardUp

LEMMA RestartMail == ASSUME MailInv, Restart PROVE MailInv'
<1>1. jobs' = {} /\ UNCHANGED <<place, info, log, mails>> /\ \A d \in Devices : heard'[d] = None
  BY DEF Restart, setup, notes
<1>2. LoggedAreMailed'
  BY <1>1 DEF MailInv, LoggedAreMailed, Addressed
<1>3. ~Recorded'
  BY OrderAssumption DEF Restart, FirstInit, Recorded
<1> QED
  BY <1>1, <1>2, <1>3 DEF MailInv, Mailed, HeardUp, Follows

LEMMA ChangeMail ==
  ASSUME Typed, MailInv, NEW d \in Devices, NEW s \in Statuses, Change(d, s)
  PROVE  MailInv'
<1>1. PICK W \in SUBSET Hearing(d) :
         LET all == W \cup IF "notification" \in W THEN {"mail"} ELSE {}
         IN /\ jobs' = jobs \cup {Job(w, d, messages', FirstStep(w), s) : w \in all}
            /\ IF "mail" \in all
               THEN /\ heard' = [heard EXCEPT ![d] = s]
                    /\ unsure' = IF \E j \in jobs : j.who = "mail" /\ j.dev = d
                                 THEN unsure \cup {d} ELSE unsure \ {d}
               ELSE UNCHANGED <<heard, unsure>>
  BY DEF Change
<1>2. PICK all : all = W \cup IF "notification" \in W THEN {"mail"} ELSE {}
  OBVIOUS
<1>3. jobs' = jobs \cup {Job(w, d, messages', FirstStep(w), s) : w \in all}
  BY <1>1, <1>2
<1>4. \A w : LET k == Job(w, d, messages', FirstStep(w), s)
             IN k.who = w /\ k.dev = d /\ k.says = s /\ k.pc = FirstStep(w)
  BY DEF Job
<1>5. UNCHANGED <<place, phase, info, log, mails>>
  BY DEF Change, setup, notes
<1>6. "mail" \notin W
  BY <1>1 DEF Hearing, Updaters
<1>7. CASE "notification" \notin W
  <2>1. "mail" \notin all
    BY <1>2, <1>6, <1>7
  <2>2. Posting' = Posting
    BY <1>3, <1>4, <2>1 DEF Posting
  <2>3. UNCHANGED <<heard, unsure>>
    BY <1>1, <1>2, <2>1
  <2> QED
    BY <1>5, <2>2, <2>3, MailSame
<1>8. CASE "notification" \in W
  <2>1. PICK k : k = Job("mail", d, messages', FirstStep("mail"), s)
    OBVIOUS
  <2>2. k.who = "mail" /\ k.dev = d /\ k.says = s /\ k.pc = "look"
    BY <1>4, <2>1 DEF FirstStep
  <2>3. "mail" \in all
    BY <1>2, <1>8
  <2>4. Posting' = Posting \cup {k}
    BY <1>3, <1>4, <2>1, <2>2, <2>3 DEF Posting
  <2>5. phase = "up"
    BY <1>1, <1>8 DEF Hearing
  <2>6. \A e : Addressed(e)' = Addressed(e)
    BY <1>5 DEF Addressed
  <2>7. Mailed'
    BY <1>5, <2>2, <2>4, <2>6 DEF MailInv, Mailed, Posting
  <2>8. LoggedAreMailed'
    BY <1>5, <2>6 DEF MailInv, LoggedAreMailed
  <2>9. HeardUp'
    BY <1>5, <2>5 DEF MailInv, HeardUp, Recorded
  <2>10. ASSUME NEW e \in Devices, e # d PROVE heard'[e] = heard[e] /\ (e \notin unsure' => e \notin unsure) /\ Mailers(e)' = Mailers(e)
    <3>1. Mailers(e)' = Mailers(e)
      BY <2>2, <2>4, <2>10 DEF Mailers, Posting
    <3> QED
      BY <1>1, <1>2, <2>3, <2>10, <3>1 DEF Typed
  <2>11. d \notin unsure' => heard'[d] = s /\ Mailers(d)' = {k}
    <3>1. d \notin unsure' => Mailers(d) = {}
      BY <1>1, <1>2, <2>3 DEF Mailers
    <3>2. Mailers(d)' = Mailers(d) \cup {k}
      BY <2>2, <2>4 DEF Mailers, Posting
    <3>3. heard'[d] = s
      BY <1>1, <1>2, <2>3 DEF Typed
    <3> QED
      BY <3>1, <3>2, <3>3
  <2>12. Follows'
    <3> SUFFICES ASSUME NEW e \in Devices, e \notin unsure', heard'[e] # None
                 PROVE  /\ \A j \in Mailers(e)' : j.says = heard'[e]
                        /\ (\E j \in Mailers(e)' : j.pc \in {"look", "send"}) \/ info'[e].status \in {None, heard'[e]}
      BY DEF Follows
    <3>1. CASE e = d
      BY <2>2, <2>11, <3>1
    <3>2. CASE e # d
      BY <1>5, <2>10, <3>2 DEF MailInv, Follows
    <3> QED
      BY <3>1, <3>2
  <2> QED
    BY <2>7, <2>8, <2>9, <2>12 DEF MailInv
<1> QED
  BY <1>7, <1>8

\* The status recorded of a device depends on the jobs that mail of it.
FollowsAt(d) ==
  d \notin unsure /\ heard[d] # None =>
    /\ \A j \in Mailers(d) : j.says = heard[d]
    /\ (\E j \in Mailers(d) : j.pc \in {"look", "send"}) \/ info[d].status \in {None, heard[d]}

LEMMA MailingMoved ==
  ASSUME NEW j \in jobs, j.who = "mail", NEW k, k.who = "mail", k.dev = j.dev, Moved(j, k)
  PROVE  /\ Posting' = (Posting \ {j}) \cup {k}
         /\ \A d : d # j.dev => Mailers(d)' = Mailers(d)
         /\ Mailers(j.dev)' = (Mailers(j.dev) \ {j}) \cup {k}
BY DEF Moved, Posting, Mailers

LEMMA MailingEnded ==
  ASSUME NEW j \in jobs, j.who = "mail", Ended(j)
  PROVE  /\ Posting' = Posting \ {j}
         /\ \A d : d # j.dev => Mailers(d)' = Mailers(d)
         /\ Mailers(j.dev)' = Mailers(j.dev) \ {j}
BY DEF Ended, Posting, Mailers

\* What a job is to have done, as Mailed says of each.
MailedBy(j) ==
  j.pc \in {"send", "log"} =>
    /\ \A u \in Addressed(j.dev) \ j.left : <<u, j.dev, j.read, j.says>> \in mails
    /\ j.pc = "log" => j.left = {}

LEMMA MailedEach == Mailed <=> \A j \in Posting : MailedBy(j)
BY DEF Mailed, MailedBy, Posting

LEMMA FollowsEach == Follows <=> \A d \in Devices : FollowsAt(d)
BY DEF Follows, FollowsAt

LEMMA MailerMail ==
  ASSUME Typed, MailInv, NEW j \in jobs, MailerStep(j)
  PROVE  MailInv'
<1>1. j \in JobType /\ Well(j) /\ j.who = "mail" /\ j \in Mailers(j.dev) /\ j.dev \in Devices
  BY MailerFrame DEF Typed, Posting, Mailers, JobType
<1>2. UNCHANGED <<place, phase, heard>> /\ \A d : Addressed(d)' = Addressed(d)
  BY MailerFrame DEF Addressed
<1>3. MailedBy(j) /\ \A i \in Posting : MailedBy(i)
  BY <1>1, MailedEach DEF MailInv, Mailers, Posting
<1>4. \A d \in Devices : FollowsAt(d)
  BY FollowsEach DEF MailInv
<1>5. ASSUME \A i \in Posting' \ Posting : MailedBy(i)', mails \subseteq mails',
             LoggedAreMailed', HeardUp', FollowsAt(j.dev)', \A d : d # j.dev => Mailers(d)' = Mailers(d),
             \A d : d # j.dev => info'[d] = info[d], unsure \subseteq unsure'
      PROVE  MailInv'
  <2>1. \A i \in Posting \cap Posting' : MailedBy(i)'
    BY <1>2, <1>3, <1>5 DEF MailedBy
  <2>2. Mailed'
    BY <1>5, <2>1 DEF Mailed, MailedBy, Posting
  <2>3. \A d \in Devices : FollowsAt(d)'
    BY <1>2, <1>4, <1>5 DEF FollowsAt
  <2>4. Follows'
    BY <2>3 DEF Follows, FollowsAt
  <2> QED
    BY <1>5, <2>2, <2>4 DEF MailInv
<1>6. ASSUME UNCHANGED log, mails \subseteq mails' PROVE LoggedAreMailed'
  BY <1>2, <1>6 DEF MailInv, LoggedAreMailed
<1>7. ASSUME UNCHANGED info PROVE HeardUp'
  BY <1>2, <1>7 DEF MailInv, HeardUp, Recorded
<1>8. heard[j.dev] # None => info[j.dev] \in Infos
  BY <1>1 DEF MailInv, HeardUp, Recorded
<1>9. CASE Look(j)
  <2>1. UNCHANGED <<info, log, mails, unsure>> /\ j.pc = "look"
    BY <1>9 DEF Look, Mailing, Unsent, ghosts
  <2>2. CASE info[j.dev] = None \/ info[j.dev].status \in {None, j.says}
    <3>1. Ended(j)
      BY <1>9, <2>2 DEF Look
    <3>2. FollowsAt(j.dev)'
      BY <1>1, <1>2, <1>4, <1>8, <2>1, <2>2, <3>1, MailingEnded, NoneAssumption DEF FollowsAt
    <3> QED
      BY <1>1, <1>5, <1>6, <1>7, <2>1, <3>1, <3>2, MailingEnded
  <2>3. CASE ~(info[j.dev] = None \/ info[j.dev].status \in {None, j.says})
    <3>1. PICK k : k = [j EXCEPT !.pc = "send", !.read = info[j.dev].status, !.left = Addressed(j.dev)]
      OBVIOUS
    <3>2. Moved(j, k)
      BY <1>9, <2>3, <3>1 DEF Look
    <3>3. k.who = "mail" /\ k.dev = j.dev /\ k.says = j.says /\ k.pc = "send" /\ k.left = Addressed(j.dev)
      BY <1>1, <3>1 DEF JobType
    <3>4. MailedBy(k)'
      BY <1>2, <3>3 DEF MailedBy
    <3>5. FollowsAt(j.dev)'
      BY <1>1, <1>2, <1>4, <2>1, <3>2, <3>3, MailingMoved DEF FollowsAt
    <3> QED
      BY <1>1, <1>5, <1>6, <1>7, <2>1, <3>2, <3>3, <3>4, <3>5, MailingMoved
  <2> QED
    BY <2>2, <2>3
<1>10. ASSUME NEW u \in Staff, SendMail(j, u) PROVE MailInv'
  <2>1. UNCHANGED <<info, log, unsure>> /\ j.pc = "send" /\ mails' = mails \cup {<<u, j.dev, j.read, j.says>>}
    BY <1>10 DEF SendMail, Mailing, Unsent, ghosts
  <2>2. PICK k : k = [j EXCEPT !.left = @ \ {u}]
    OBVIOUS
  <2>3. Moved(j, k)
    BY <1>10, <2>2 DEF SendMail
  <2>4. /\ k.who = "mail" /\ k.dev = j.dev /\ k.says = j.says /\ k.pc = "send" /\ k.read = j.read
        /\ k.left = j.left \ {u}
    BY <1>1, <2>1, <2>2 DEF JobType
  <2>5. MailedBy(k)'
    BY <1>2, <1>3, <2>1, <2>4 DEF MailedBy
  <2>6. FollowsAt(j.dev)'
    BY <1>1, <1>2, <1>4, <2>1, <2>3, <2>4, MailingMoved DEF FollowsAt
  <2> QED
    BY <1>1, <1>5, <1>6, <1>7, <2>1, <2>3, <2>4, <2>5, <2>6, MailingMoved
<1>11. CASE SendMailFails(j)
  <2>1. UNCHANGED <<info, log, mails>> /\ Ended(j) /\ unsure' = unsure \cup {j.dev}
    BY <1>11 DEF SendMailFails, notes
  <2>2. FollowsAt(j.dev)'
    BY <2>1 DEF FollowsAt
  <2> QED
    BY <1>1, <1>5, <1>6, <1>7, <2>1, <2>2, MailingEnded
<1>12. CASE UpdateStatusFromDeviceStatus(j)
  <2>1. /\ UNCHANGED <<log, mails, unsure>> /\ j.pc = "send" /\ j.left = {}
        /\ info' = [info EXCEPT ![j.dev] = [status |-> j.says, previous |-> j.read]]
    BY <1>12 DEF UpdateStatusFromDeviceStatus, MailsSent, Mailing, Unsent, ghosts
  <2>2. PICK k : k = At(j, "log")
    OBVIOUS
  <2>3. Moved(j, k)
    BY <1>12, <2>2 DEF UpdateStatusFromDeviceStatus
  <2>4. /\ k.who = "mail" /\ k.dev = j.dev /\ k.says = j.says /\ k.pc = "log" /\ k.read = j.read
        /\ k.left = j.left
    BY <1>1, <2>2 DEF At, JobType
  <2>5. MailedBy(k)'
    BY <1>2, <1>3, <2>1, <2>4 DEF MailedBy
  <2>6. \A d : d # j.dev => info'[d] = info[d]
    BY <2>1 DEF Typed
  <2>7. info'[j.dev].status = j.says
    BY <1>1, <2>1 DEF Typed
  <2>8. FollowsAt(j.dev)'
    BY <1>1, <1>2, <1>4, <2>1, <2>3, <2>4, <2>7, MailingMoved DEF FollowsAt
  <2>9. HeardUp'
    <3>1. [status |-> j.says, previous |-> j.read] \in Infos
      BY <1>1 DEF JobType, Infos, Maybe
    <3> QED
      BY <1>2, <2>1, <3>1 DEF MailInv, HeardUp, Recorded
  <2> QED
    BY <1>1, <1>5, <1>6, <2>1, <2>3, <2>4, <2>5, <2>6, <2>8, <2>9, MailingMoved
<1>13. CASE AddDeviceStatusLog(j)
  <2>1. /\ UNCHANGED <<info, mails, unsure>> /\ j.pc = "log" /\ Ended(j)
        /\ log' = log \cup {Entry(j.dev, j.says, j.read)}
    BY <1>13 DEF AddDeviceStatusLog, Mailing, Unsent, ghosts
  <2>2. \A u \in Addressed(j.dev) : <<u, j.dev, j.read, j.says>> \in mails
    BY <1>3, <2>1 DEF MailedBy
  <2>3. LoggedAreMailed'
    BY <1>2, <2>1, <2>2 DEF LoggedAreMailed, MailInv, Entry
  <2>4. FollowsAt(j.dev)'
    BY <1>1, <1>2, <1>4, <2>1, MailingEnded DEF FollowsAt
  <2> QED
    BY <1>1, <1>5, <1>7, <2>1, <2>3, <2>4, MailingEnded
<1> QED
  BY <1>9, <1>10, <1>11, <1>12, <1>13 DEF MailerStep

LEMMA NextMail == Typed /\ MailInv /\ [Next]_vars => MailInv'
<1> SUFFICES ASSUME Typed, MailInv, [Next]_vars PROVE MailInv'
  OBVIOUS
<1>1. CASE UNCHANGED vars
  BY <1>1, MailSame DEF vars, setup, notes, known, ghosts, Posting
<1>2. ASSUME NEW j \in jobs, Step(j) PROVE MailInv'
  <2>1. CASE UpdaterStep(j)
    BY <2>1, UpdaterFrame, MailSame DEF setup
  <2> QED
    BY <1>2, <2>1, MailerMail DEF Step, UpdaterStep, MailerStep
<1> QED
  BY <1>1, <1>2, InitialiseMail, RestartMail, ChangeMail DEF Next
-----------------------------------------------------------------------------

LEMMA InitInv == Init => IInv
<1> SUFFICES ASSUME Init PROVE IInv
  OBVIOUS
<1>1. StoredOrPending
  BY DEF Init, StoredOrPending, StoredAt, Working
<1>2. Relating
  BY DEF Init, Relating
<1> QED
  BY <1>1, <1>2, InitTyped, InitMail DEF IInv

\* Where jobs are, what they read, and what was noted of the devices they work on.
THEOREM InductiveInvariant == Spec => []IInv
<1>1. IInv /\ [Next]_vars => IInv'
  BY NextTyped, NextMail, NextStores, NextRelating DEF IInv
<1> QED
  BY <1>1, InitInv, PTL DEF Spec

\* A device ends with the status heard last (updateDeviceStatus of both services), for any
\* number of messages and restarts, and whichever service is initialised first.
THEOREM StatusIsStored == Spec => []StatusStored
<1>1. IInv => StatusStored
  <2> SUFFICES ASSUME IInv, NEW d \in Placed \ rushed, Rest(d) PROVE status[d] = told[d]
    BY DEF StatusStored
  <2> QED
    BY DEF IInv, StoredOrPending, StoredAt, Rest
<1> QED
  BY <1>1, InductiveInvariant, PTL

\* The relatedStatus agrees with what is attached, for any number of devices attached to
\* any number of others, when one job of the device service worked on it last.
THEOREM RelatedIsExact == Spec => []RelatedExact
<1>1. IInv => RelatedExact
  <2> SUFFICES ASSUME IInv, NEW d \in Devices \ mixed, Near(d) = {} PROVE related[d] = AllActive(Related(d))
    BY DEF RelatedExact
  <2>1. Active(d) = {}
    BY DEF Active
  <2> QED
    BY <2>1 DEF IInv, Relating, RelatedAt
<1> QED
  BY <1>1, InductiveInvariant, PTL

\* What is logged as a change was mailed to all staff (sendNotification), for any staff.
THEOREM LogsAreMailed == Spec => []LoggedAreMailed
<1>1. IInv => LoggedAreMailed
  BY DEF IInv, MailInv
<1> QED
  BY <1>1, InductiveInvariant, PTL

\* The recorded status follows the one heard, unless mails overlapped or failed.
THEOREM InfoIsFollowed == Spec => []InfoFollows
<1>1. IInv => InfoFollows
  BY DEF IInv, MailInv, Follows, InfoFollows, Mailers
<1> QED
  BY <1>1, InductiveInvariant, PTL
=============================================================================
