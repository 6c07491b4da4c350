----------------------- MODULE BuildingsAndPagingProofs ------------------------
(***************************************************************************)
(* building.service.ts answers page by page as well as keeping buildings,  *)
(* so the proofs about Buildings and about Paging stand together.          *)
(*                                                                         *)
(* Buildings: the plan of every floor is served, for any devices,          *)
(* buildings, floors and images, whatever operations overlap, fail or are  *)
(* interrupted; and operations done one at a time, by forms that still hold *)
(* when they are submitted, keep the flags of the devices and the floors   *)
(* of the buildings in step, for the devices the operations on devices in  *)
(* general leave alone.                                                    *)
(*                                                                         *)
(* Paging: for any documents, sort values, page sizes and number of        *)
(* changes, a client that goes forward sees every document that stays as   *)
(* it was exactly once, and while nothing changes a page adjoins its       *)
(* cursor and the flags of PageInfo tell the truth.                        *)
(***************************************************************************)
EXTENDS Buildings, Paging, SequenceTheorems, FiniteSetTheorems, FunctionTheorems,
        WellFoundedInduction, TLAPS

Kinds == {"create", "update", "delete", "plan"}
Places == {"platform", "flag", "store", "find", "clear", "read", "remove",
           "upload", "insert", "set", "lookUp", "unlink", "purge"}

Plans == Images \cup {NoImage}
FloorsType == [Floors -> [devices : SUBSET Devices, plan : Plans]]
BuildingType == [floors : FloorsType, groups : Nat, disabled : Nat]
JobType ==
  [kind : Kinds, b : Buildings, pc : Places, input : FloorsType, old : SUBSET Devices,
   todo : SUBSET Devices, groups : Nat, floor : Floors, image : Plans, oldImage : Plans, id : Nat]

\* What the jobs carry, and the documents they are about.
Typed ==
  /\ DOMAIN building \subseteq Buildings /\ building \in [DOMAIN building -> BuildingType]
  /\ jobs \subseteq JobType /\ begun \in Nat
  /\ \A j \in jobs : /\ j.kind # "create" => j.b \in DOMAIN building
                     /\ j.kind = "plan" => j.image \in Images

\* Until it is stored, an image is known to the job that uploads it only.
Early(j) == j.kind = "plan" /\ j.pc \in {"upload", "insert", "find", "set"}
OnlyJob(j) ==
  /\ j.image \notin replaced
  /\ \A b \in DOMAIN building, f \in Floors : building[b].floors[f].plan # j.image
  /\ \A k \in jobs : /\ k.oldImage # j.image /\ (k # j => k.image # j.image)
                     /\ \A f \in Floors : k.input[f].plan # j.image
NewUnknown == \A j \in jobs : Early(j) => OnlyJob(j)

\* What is uploaded stays until it is stored.
Uploaded ==
  \A j \in jobs : j.kind = "plan" => /\ j.pc \in {"insert", "find", "set"} => j.image \in files
                                     /\ j.pc \in {"find", "set"} => j.image \in images

\* An image about to be deleted has been replaced.
Late(j) == j.kind = "plan" /\ j.pc \in {"lookUp", "unlink", "purge"}
OldReplaced == \A j \in jobs : Late(j) => j.oldImage \in replaced

\* What a form brings is there, or has been replaced.
There(i) == i \in replaced \cup {NoImage} \/ i \in images \cap files
FormPlans == \A j \in jobs, f \in Floors : There(j.input[f].plan)

IInv == Typed /\ NewUnknown /\ Uploaded /\ OldReplaced /\ FormPlans /\ PlanServed
-----------------------------------------------------------------------------
LEMMA OnType == ASSUME NEW floors \in FloorsType PROVE On(floors) \in SUBSET Devices
BY DEF On, FloorsType

LEMMA BlankType == Blank \in FloorsType /\ \A f \in Floors : Blank[f].plan = NoImage
BY DEF Blank, FloorsType, Plans

LEMMA InitInv == Init => IInv
BY DEF Init, IInv, Typed, NewUnknown, Uploaded, OldReplaced, FormPlans, PlanServed

\* Jobs that end disturb nothing, nor does what becomes of a building's groups.
LEMMA Fewer ==
    ASSUME IInv, jobs' \subseteq jobs, UNCHANGED <<store, replaced>>, begun' \in Nat,
           building' \in [DOMAIN building -> BuildingType],
           \A b \in DOMAIN building : building'[b].floors = building[b].floors
    PROVE  IInv'
<1> USE DEF IInv, store
<1>0. DOMAIN building' = DOMAIN building
  OBVIOUS
<1>1. Typed'
  BY <1>0 DEF Typed
<1>2. FormPlans'
  BY DEF FormPlans, There
<1>3. NewUnknown'
  BY <1>0 DEF NewUnknown, Early, OnlyJob
<1>4. Uploaded'
  BY DEF Uploaded
<1>5. OldReplaced'
  BY DEF OldReplaced, Late
<1>6. PlanServed'
  BY <1>0 DEF PlanServed
<1>7. QED
  BY <1>1, <1>2, <1>3, <1>4, <1>5, <1>6

\* A job may go on, with the same in hand, as long as it has nothing new to answer for and takes
\* away nothing but images that were replaced.
Same(j, k) ==
  /\ k.kind = j.kind /\ k.b = j.b /\ k.input = j.input /\ k.floor = j.floor
  /\ k.image = j.image /\ k.oldImage = j.oldImage

LEMMA GoesOn ==
    ASSUME IInv, NEW j \in jobs, NEW k \in JobType, jobs' \subseteq (jobs \ {j}) \cup {k}, Same(j, k),
           Early(k) => Early(j), Late(k) => Late(j), UNCHANGED <<building, replaced, begun>>,
           \A i : i \in replaced \/ ((i \in files => i \in files') /\ (i \in images => i \in images')),
           k.kind = "plan" => /\ k.pc \in {"insert", "find", "set"} => k.image \in files'
                              /\ k.pc \in {"find", "set"} => k.image \in images'
    PROVE  IInv'
<1> USE DEF IInv, Same
<1>1. Typed'
  BY DEF Typed
<1>2. FormPlans'
  BY DEF FormPlans, There
<1>3. NewUnknown'
  <2> SUFFICES ASSUME NEW x \in jobs', Early(x) PROVE OnlyJob(x)'
    BY DEF NewUnknown, Early
  <2>1. PICK y \in jobs : Early(y) /\ y.image = x.image /\ (x # k => y = x) /\ (x = k => y = j \/ y = k)
    BY DEF Early
  <2>2. OnlyJob(y)
    BY <2>1 DEF NewUnknown
  <2>3. \A z \in jobs' : z # x => z.image # x.image
    BY <2>1, <2>2 DEF OnlyJob
  <2>4. QED
    BY <2>1, <2>2, <2>3 DEF OnlyJob
<1>4. Uploaded'
  <2>1. \A x \in jobs : x.kind = "plan" /\ x.pc \in {"insert", "find", "set"} => x.image \notin replaced
    BY DEF Early, NewUnknown, OnlyJob
  <2>2. QED
    BY <2>1 DEF Uploaded
<1>5. OldReplaced'
  BY DEF OldReplaced, Late
<1>6. PlanServed'
  BY DEF PlanServed
<1>7. QED
  BY <1>1, <1>2, <1>3, <1>4, <1>5, <1>6
-----------------------------------------------------------------------------
(* A job begins.                                                           *)

LEMMA JobTyped ==
    ASSUME Typed, NEW kind \in Kinds, NEW b \in Buildings, NEW pc \in Places, NEW input \in FloorsType
    PROVE  /\ Job(kind, b, pc) \in JobType
           /\ [Job(kind, b, pc) EXCEPT !.input = input] \in JobType
<1>1. (CHOOSE f \in Floors : TRUE) \in Floors
  BY BuildingsAssumption
<1>2. QED
  BY <1>1, BlankType DEF Typed, Job, JobType, Plans

\* A new job brings plans that are there or were replaced, and no image of its own.
LEMMA BeginsEmpty ==
    ASSUME IInv, NEW k \in JobType, jobs' = jobs \cup {k}, begun' \in Nat, UNCHANGED <<building, store, replaced>>,
           k.kind # "plan", k.image = NoImage, k.oldImage = NoImage,
           k.kind # "create" => k.b \in DOMAIN building,
           \A f \in Floors : There(k.input[f].plan),
           \A x \in jobs, f \in Floors : Early(x) => k.input[f].plan # x.image
    PROVE  IInv'
<1> USE BuildingsAssumption DEF IInv, store
<1>1. Typed'
  BY DEF Typed
<1>2. FormPlans'
  BY DEF FormPlans, There
<1>3. NewUnknown'
  <2> SUFFICES ASSUME NEW x \in jobs', Early(x) PROVE OnlyJob(x)'
    BY DEF NewUnknown, Early
  <2>1. x \in jobs /\ OnlyJob(x) /\ x.image \in Images
    BY DEF NewUnknown, Early, Typed
  <2>2. QED
    BY <2>1 DEF OnlyJob
<1>4. Uploaded'
  BY DEF Uploaded
<1>5. OldReplaced'
  BY DEF OldReplaced, Late
<1>6. PlanServed'
  BY DEF PlanServed
<1>7. QED
  BY <1>1, <1>2, <1>3, <1>4, <1>5, <1>6

LEMMA FormType ==
    ASSUME IInv, NEW b \in Buildings, NEW input \in Forms(b)
    PROVE  /\ input \in FloorsType
           /\ \A f \in Floors : There(input[f].plan)
           /\ \A x \in jobs, f \in Floors : Early(x) => input[f].plan # x.image
<1>1. input \in FloorsType
  BY DEF Forms, FloorsType, Plans
<1>2. \A f \in Floors : \/ input[f].plan \in replaced \cup {NoImage}
                        \/ input[f].plan \in images \cap files /\ ~Referred(input[f].plan)
                        \/ b \in DOMAIN building /\ input[f].plan = building[b].floors[f].plan
  BY DEF Forms
<1>3. \A f \in Floors : There(input[f].plan)
  BY <1>2 DEF IInv, PlanServed, There
<1>4. \A x \in jobs, f \in Floors : Early(x) => input[f].plan # x.image
  <2> SUFFICES ASSUME NEW x \in jobs, NEW f \in Floors, Early(x) PROVE input[f].plan # x.image
    OBVIOUS
  <2>1. OnlyJob(x) /\ x.image # NoImage
    BY BuildingsAssumption DEF IInv, Typed, NewUnknown, Early
  <2>2. Referred(x.image)
    BY BuildingsAssumption DEF Referred
  <2>3. QED
    BY <1>2, <2>1, <2>2 DEF OnlyJob
<1>5. QED
  BY <1>1, <1>3, <1>4

LEMMA AskCreateInv == ASSUME IInv, NEW b \in Buildings, AskCreate(b) PROVE IInv'
<1>1. PICK input \in Forms(b) : Begin([Job("create", b, "platform") EXCEPT !.input = input])
  BY DEF AskCreate
<1> DEFINE k == [Job("create", b, "platform") EXCEPT !.input = input]
<1>2. Typed /\ begun' \in Nat
  BY <1>1 DEF IInv, Typed, Begin
<1>3. k \in JobType
  BY <1>2, FormType, JobTyped DEF Kinds, Places
<1>4. k.kind = "create" /\ k.input = input /\ k.image = NoImage /\ k.oldImage = NoImage
  BY DEF Job
<1>5. jobs' = jobs \cup {k} /\ UNCHANGED <<building, store, replaced>>
  BY <1>1 DEF AskCreate, Begin
<1> HIDE DEF k
<1>6. QED
  BY <1>2, <1>3, <1>4, <1>5, FormType, BeginsEmpty

LEMMA AskUpdateInv == ASSUME IInv, NEW b \in Buildings, AskUpdate(b) PROVE IInv'
<1>1. PICK input \in Forms(b) : Begin([Job("update", b, "find") EXCEPT !.input = input])
  BY DEF AskUpdate
<1> DEFINE k == [Job("update", b, "find") EXCEPT !.input = input]
<1>2. Typed /\ begun' \in Nat
  BY <1>1 DEF IInv, Typed, Begin
<1>3. k \in JobType
  BY <1>2, FormType, JobTyped DEF Kinds, Places
<1>4. k.kind = "update" /\ k.b = b /\ k.input = input /\ k.image = NoImage /\ k.oldImage = NoImage
  BY DEF Job
<1>5. jobs' = jobs \cup {k} /\ UNCHANGED <<building, store, replaced>> /\ b \in DOMAIN building
  BY <1>1 DEF AskUpdate, Begin
<1> HIDE DEF k
<1>6. QED
  BY <1>2, <1>3, <1>4, <1>5, FormType, BeginsEmpty

LEMMA AskDeleteInv == ASSUME IInv, NEW b \in Buildings, AskDelete(b) PROVE IInv'
<1> DEFINE k == Job("delete", b, "find")
<1>1. Typed /\ begun' \in Nat /\ jobs' = jobs \cup {k} /\ UNCHANGED <<building, store, replaced>>
  BY DEF IInv, Typed, AskDelete, Begin
<1>2. b \in DOMAIN building
  BY DEF AskDelete, Live
<1>3. k \in JobType
  BY <1>1, BlankType, JobTyped DEF Kinds, Places
<1>4. /\ k.kind = "delete" /\ k.b = b /\ k.image = NoImage /\ k.oldImage = NoImage
      /\ \A f \in Floors : k.input[f].plan = NoImage
  BY BlankType DEF Job
<1>5. \A x \in jobs : Early(x) => x.image # NoImage
  BY BuildingsAssumption DEF IInv, Typed, Early
<1> HIDE DEF k
<1>6. QED
  BY <1>1, <1>2, <1>3, <1>4, <1>5, BeginsEmpty DEF There

\* The image is one that nothing refers to.
LEMMA AskPlanInv ==
    ASSUME IInv, NEW b \in Buildings, NEW f \in Floors, NEW i \in Images, AskPlan(b, f, i)
    PROVE  IInv'
<1> DEFINE k == [Job("plan", b, "upload") EXCEPT !.floor = f, !.image = i]
<1>1. Typed /\ begun' \in Nat /\ jobs' = jobs \cup {k} /\ UNCHANGED <<building, store>> /\ replaced' = replaced \ {i}
  BY DEF IInv, Typed, AskPlan, Begin
<1>2. b \in DOMAIN building
  BY DEF AskPlan, Live
<1>3. k \in JobType
  <2>1. Job("plan", b, "upload") \in JobType
    BY <1>1, BlankType, JobTyped DEF Kinds, Places
  <2>2. QED
    BY <2>1 DEF JobType, Plans
<1>4. /\ k.kind = "plan" /\ k.pc = "upload" /\ k.b = b /\ k.floor = f /\ k.image = i /\ k.oldImage = NoImage
      /\ \A g \in Floors : k.input[g].plan = NoImage
  BY BlankType DEF Job
<1>5. /\ \A c \in DOMAIN building, g \in Floors : building[c].floors[g].plan # i
      /\ \A j \in jobs : /\ j.image # i /\ j.oldImage # i
                        /\ \A g \in Floors : j.input[g].plan # i
  BY BuildingsAssumption DEF AskPlan, Known, Referred
<1> HIDE DEF k
<1> USE <1>1, <1>4, BuildingsAssumption DEF IInv, store
<1>6. Typed'
  BY <1>2, <1>3 DEF Typed
<1>7. FormPlans'
  BY <1>5 DEF FormPlans, There
<1>8. NewUnknown'
  <2> SUFFICES ASSUME NEW x \in jobs', Early(x) PROVE OnlyJob(x)'
    BY DEF NewUnknown, Early
  <2>1. CASE x = k
    BY <1>5, <2>1 DEF OnlyJob
  <2>2. CASE x # k
    BY <1>5, <2>2 DEF OnlyJob, NewUnknown, Early, Typed
  <2>3. QED
    BY <2>1, <2>2
<1>9. Uploaded'
  BY DEF Uploaded
<1>10. OldReplaced'
  BY <1>5 DEF OldReplaced, Late
<1>11. PlanServed'
  BY <1>5 DEF PlanServed
<1>12. QED
  BY <1>6, <1>7, <1>8, <1>9, <1>10, <1>11
-----------------------------------------------------------------------------
(* Steps on buildings.                                                     *)

\* Floors stored are those that a form brought.
LEMMA StoresForm ==
    ASSUME IInv, NEW j \in jobs, jobs' \subseteq jobs, UNCHANGED <<store, replaced, begun>>,
           DOMAIN building' \subseteq Buildings, building' \in [DOMAIN building' -> BuildingType],
           DOMAIN building \subseteq DOMAIN building',
           \A c \in DOMAIN building' : building'[c].floors = j.input
                                       \/ (c \in DOMAIN building /\ building'[c].floors = building[c].floors)
    PROVE  IInv'
<1> USE DEF IInv, store
<1>1. Typed'
  BY DEF Typed
<1>2. FormPlans'
  BY DEF FormPlans, There
<1>3. NewUnknown'
  <2> SUFFICES ASSUME NEW x \in jobs', Early(x) PROVE OnlyJob(x)'
    BY DEF NewUnknown, Early
  <2>1. x \in jobs /\ OnlyJob(x)
    BY DEF NewUnknown, Early
  <2>2. QED
    BY <2>1 DEF OnlyJob
<1>4. Uploaded'
  BY DEF Uploaded
<1>5. OldReplaced'
  BY DEF OldReplaced, Late
<1>6. PlanServed'
  <2>1. \A f \in Floors : There(j.input[f].plan)
    BY DEF FormPlans
  <2>2. QED
    BY <2>1 DEF PlanServed, There
<1>7. QED
  BY <1>1, <1>2, <1>3, <1>4, <1>5, <1>6

LEMMA BuildingStepInv == ASSUME IInv, NEW j \in jobs, BuildingStep(j) PROVE IInv'
<1>1. Typed /\ j \in JobType
  BY DEF IInv, Typed
<1>2. On(j.input) \in SUBSET Devices
  BY <1>1, OnType DEF JobType
<1>3. j.kind # "create" => On(building[j.b].floors) \in SUBSET Devices
  BY <1>1, OnType DEF Typed, BuildingType
<1>4. building \in [DOMAIN building -> BuildingType] /\ begun \in Nat /\ DOMAIN building \subseteq Buildings
  BY <1>1 DEF Typed
<1>5. ASSUME jobs' \subseteq jobs, UNCHANGED <<building, store, replaced, begun>> PROVE IInv'
  BY <1>4, <1>5, Fewer
<1>6. ASSUME NEW k \in JobType, Goes(j, k), Same(j, k), j.kind # "plan", UNCHANGED <<building, store, replaced, begun>>
      PROVE  IInv'
  BY <1>6, GoesOn DEF Same, Early, Late, store, Goes
<1> USE DEF JobType, Kinds, Places, Same
<1>7. CASE CreateOnPlatform(j)
  BY <1>1, <1>2, <1>5, <1>6, <1>7 DEF CreateOnPlatform, Ends
<1>8. CASE SetFlag(j)
  BY <1>1, <1>5, <1>6, <1>8 DEF SetFlag
<1>9. CASE CreateDocument(j)
  <2>1. CASE UNCHANGED building
    BY <1>5, <1>9, <2>1 DEF CreateDocument, Ends
  <2>2. CASE building' = [c \in DOMAIN building \cup {j.b} |->
                            IF c = j.b THEN [floors |-> j.input, groups |-> 1, disabled |-> 0] ELSE building[c]]
    <3>1. building' \in [DOMAIN building' -> BuildingType] /\ DOMAIN building' = DOMAIN building \cup {j.b}
      BY <1>1, <1>4, <2>2 DEF BuildingType
    <3>2. \A c \in DOMAIN building' : building'[c].floors = j.input
                                      \/ (c \in DOMAIN building /\ building'[c].floors = building[c].floors)
      BY <2>2
    <3>3. jobs' \subseteq jobs /\ UNCHANGED <<store, replaced, begun>>
      BY <1>9 DEF CreateDocument, Ends
    <3>4. QED
      BY <1>1, <1>4, <3>1, <3>2, <3>3, StoresForm
  <2>3. QED
    BY <1>9, <2>1, <2>2 DEF CreateDocument
<1>10. CASE FindBuilding(j)
  <2>1. CASE Ends(j)
    BY <1>5, <1>10, <2>1 DEF FindBuilding, Ends
  <2>2. CASE ~Ends(j)
    <3> DEFINE devices == On(building[j.b].floors)
    <3> DEFINE k == [j EXCEPT !.pc = "clear", !.todo = devices, !.old = devices]
    <3>1. Goes(j, k) /\ j.kind # "plan"
      BY <1>10, <2>2 DEF FindBuilding
    <3>2. k \in JobType /\ Same(j, k)
      BY <1>1, <1>3, <1>10 DEF FindBuilding
    <3> HIDE DEF k
    <3>3. QED
      BY <1>6, <1>10, <3>1, <3>2 DEF FindBuilding
  <2>3. QED
    BY <2>1, <2>2
<1>11. CASE ClearFlag(j)
  BY <1>1, <1>5, <1>6, <1>11 DEF ClearFlag
<1>12. CASE UpdateOnPlatform(j)
  <2>1. CASE Ends(j)
    BY <1>5, <1>12, <2>1 DEF UpdateOnPlatform, Ends
  <2>2. CASE Goes(j, [j EXCEPT !.pc = "read"])
    <3> DEFINE k == [j EXCEPT !.pc = "read"]
    <3>1. k \in JobType /\ Same(j, k)
      BY <1>1
    <3>2. Goes(j, k)
      BY <2>2
    <3> HIDE DEF k
    <3>3. QED
      BY <1>6, <1>12, <3>1, <3>2 DEF UpdateOnPlatform
  <2>3. QED
    BY <1>12, <2>1, <2>2 DEF UpdateOnPlatform
<1>13. CASE ReadGroups(j)
  <2> DEFINE k == [j EXCEPT !.pc = "flag", !.todo = On(j.input), !.groups = building[j.b].groups]
  <2>1. Goes(j, k) /\ j.kind # "plan"
    BY <1>13 DEF ReadGroups
  <2>2. building[j.b].groups \in Nat
    BY <1>1, <1>4, <1>13 DEF ReadGroups, Typed, BuildingType
  <2>3. k \in JobType /\ Same(j, k)
    BY <1>1, <1>2, <2>2
  <2> HIDE DEF k
  <2>4. QED
    BY <1>6, <1>13, <2>1, <2>3 DEF ReadGroups
<1>14. CASE UpdateDocument(j)
  <2>1. CASE UNCHANGED building
    BY <1>5, <1>14, <2>1 DEF UpdateDocument, Ends
  <2>2. CASE building' = [building EXCEPT ![j.b].floors = j.input, ![j.b].groups = j.groups]
    <3>1. j.b \in DOMAIN building
      BY <1>14 DEF IInv, Typed, UpdateDocument
    <3>2. building' \in [DOMAIN building' -> BuildingType] /\ DOMAIN building' = DOMAIN building
      BY <1>1, <1>4, <2>2, <3>1 DEF BuildingType
    <3>3. \A c \in DOMAIN building' : building'[c].floors = j.input
                                      \/ (c \in DOMAIN building /\ building'[c].floors = building[c].floors)
      BY <1>4, <2>2, <3>1 DEF BuildingType
    <3>4. jobs' \subseteq jobs /\ UNCHANGED <<store, replaced, begun>>
      BY <1>14 DEF UpdateDocument, Ends
    <3>5. QED
      BY <1>4, <3>2, <3>3, <3>4, StoresForm
  <2>3. QED
    BY <1>14, <2>1, <2>2 DEF UpdateDocument
<1>15. CASE DeleteDocument(j)
  <2>1. j.b \in DOMAIN building
    BY <1>15 DEF DeleteDocument, IInv, Typed
  <2>2. PICK left \in 0..building[j.b].groups :
          building' = [building EXCEPT ![j.b].groups = left, ![j.b].disabled = @ + building[j.b].groups - left]
    BY <1>15 DEF DeleteDocument
  <2>3. building[j.b].groups \in Nat /\ building[j.b].disabled \in Nat
    BY <1>4, <2>1 DEF BuildingType
  <2>4. building[j.b].disabled + building[j.b].groups - left \in Nat /\ left \in Nat
    BY <2>3
  <2>5. /\ building' \in [DOMAIN building -> BuildingType]
        /\ \A b \in DOMAIN building : building'[b].floors = building[b].floors
    BY <1>4, <2>1, <2>2, <2>4 DEF BuildingType
  <2>6. QED
    BY <1>4, <1>15, <2>5, Fewer DEF DeleteDocument, Ends
<1>16. QED
  BY <1>7, <1>8, <1>9, <1>10, <1>11, <1>12, <1>13, <1>14, <1>15 DEF BuildingStep

LEMMA RegroupInv ==
    ASSUME IInv, NEW b \in DOMAIN building, NEW groups \in Nat, NEW disabled \in Nat, Regroup(b, groups, disabled)
    PROVE  IInv'
<1>1. /\ building \in [DOMAIN building -> BuildingType] /\ begun' \in Nat /\ jobs' = jobs
      /\ building' = [building EXCEPT ![b].groups = groups, ![b].disabled = disabled]
  BY DEF Regroup, IInv, Typed
<1>2. /\ building' \in [DOMAIN building -> BuildingType]
      /\ \A c \in DOMAIN building : building'[c].floors = building[c].floors
  BY <1>1 DEF BuildingType
<1>3. QED
  BY <1>1, <1>2, Fewer DEF Regroup

\* The operations on devices in general, on a building.
Regrouping(b) == AddDevices(b) \/ DeleteDevices(b) \/ RestoreDevices(b)

LEMMA RegroupingIs ==
    ASSUME Typed, NEW b \in Buildings, Regrouping(b)
    PROVE  b \in DOMAIN building /\ \E groups \in Nat, disabled \in Nat : Regroup(b, groups, disabled)
<1>1. b \in DOMAIN building
  BY DEF Regrouping, AddDevices, DeleteDevices, RestoreDevices, Live
<1>2. building[b].groups \in Nat /\ building[b].disabled \in Nat
  BY <1>1 DEF Typed, BuildingType
<1>3. CASE AddDevices(b)
  BY <1>1, <1>2, <1>3 DEF AddDevices
<1>4. CASE DeleteDevices(b)
  BY <1>1, <1>2, <1>4 DEF DeleteDevices, Live
<1>5. CASE RestoreDevices(b)
  BY <1>1, <1>2, <1>5 DEF RestoreDevices
<1>6. QED
  BY <1>3, <1>4, <1>5 DEF Regrouping

LEMMA RestartInv == ASSUME IInv, Restart PROVE IInv'
<1>1. building \in [DOMAIN building -> BuildingType] /\ begun \in Nat
  BY DEF IInv, Typed
<1>2. QED
  BY <1>1, Fewer DEF Restart
-----------------------------------------------------------------------------
(* Replacing a plan.                                                       *)

\* The plan found is no image still to be stored.
LEMMA FindPlanInv == ASSUME IInv, NEW j \in jobs, FindPlan(j) PROVE IInv'
<1> DEFINE old == building[j.b].floors[j.floor].plan
<1> DEFINE k == [j EXCEPT !.pc = "set", !.oldImage = old]
<1> USE DEF IInv, FindPlan, store
<1>1. j \in JobType /\ j.b \in DOMAIN building /\ j.floor \in Floors
  BY DEF Typed, JobType
<1>2. old \in Plans
  BY <1>1 DEF Typed, BuildingType, FloorsType
<1>3. k \in JobType
  BY <1>1, <1>2 DEF JobType, Places
<1>4. /\ k.kind = "plan" /\ k.pc = "set" /\ k.b = j.b /\ k.floor = j.floor
      /\ k.input = j.input /\ k.image = j.image /\ k.oldImage = old
  BY <1>1 DEF JobType
<1>5. jobs' = (jobs \ {j}) \cup {k}
  BY DEF Goes
<1>6. Early(j)
  BY DEF Early
<1>7. building[j.b].floors[j.floor].plan = old
  OBVIOUS
<1> HIDE DEF k, old
<1>8. Typed'
  BY <1>1, <1>3, <1>4, <1>5 DEF Typed
<1>9. FormPlans'
  BY <1>4, <1>5 DEF FormPlans, There
<1>10. NewUnknown'
  <2> SUFFICES ASSUME NEW x \in jobs', Early(x) PROVE OnlyJob(x)'
    BY DEF NewUnknown, Early
  <2>1. PICK y \in jobs : Early(y) /\ y.image = x.image /\ (x # k => y = x) /\ (x = k => y = j)
    BY <1>4, <1>5, <1>6
  <2>2. OnlyJob(y)
    BY <2>1 DEF NewUnknown
  <2>3. \A z \in jobs' : z # x => z.image # x.image
    <3> SUFFICES ASSUME NEW z \in jobs', z # x PROVE z.image # x.image
      OBVIOUS
    <3>1. CASE x = k
      BY <1>5, <2>1, <2>2, <3>1 DEF OnlyJob
    <3>2. CASE z = k
      BY <1>4, <1>5, <2>1, <2>2, <3>2 DEF OnlyJob
    <3>3. CASE x # k /\ z # k
      BY <1>5, <2>1, <2>2, <3>3 DEF OnlyJob
    <3>4. QED
      BY <3>1, <3>2, <3>3
  <2>4. old # x.image
    BY <1>1, <1>7, <2>1, <2>2 DEF OnlyJob
  <2>5. QED
    BY <1>4, <1>5, <2>1, <2>2, <2>3, <2>4 DEF OnlyJob
<1>11. Uploaded'
  BY <1>4, <1>5 DEF Uploaded
<1>12. OldReplaced'
  BY <1>4, <1>5 DEF OldReplaced, Late
<1>13. PlanServed'
  BY DEF PlanServed
<1>14. QED
  BY <1>8, <1>9, <1>10, <1>11, <1>12, <1>13

\* The image stored is known to no other job, so that nothing stored or waited for is overwritten
\* by an image somebody deletes.
LEMMA UpdateFloorplanInv == ASSUME IInv, NEW j \in jobs, UpdateFloorplan(j) PROVE IInv'
<1> DEFINE k == [j EXCEPT !.pc = "lookUp"]
<1> USE DEF IInv, UpdateFloorplan, store
<1>1. j \in JobType /\ j.b \in DOMAIN building /\ j.b \in Buildings /\ j.floor \in Floors /\ j.image \in Images
  BY DEF Typed, JobType
<1>2. building \in [DOMAIN building -> BuildingType]
  BY DEF Typed
<1>3. k \in JobType
  BY <1>1 DEF JobType, Places
<1>4. k.pc = "lookUp" /\ Same(j, k)
  BY <1>1 DEF JobType, Same
<1>5. jobs' \subseteq (jobs \ {j}) \cup {k} /\ (k \in jobs' /\ k \notin jobs => j.oldImage # NoImage)
  BY DEF Goes, Ends
<1>6. Early(j) /\ OnlyJob(j)
  BY DEF Early, NewUnknown
<1>7. /\ building' \in [DOMAIN building -> BuildingType] /\ DOMAIN building' = DOMAIN building
      /\ building'[j.b].floors[j.floor].plan = j.image
  <2> DEFINE floors == [building[j.b].floors EXCEPT ![j.floor].plan = j.image]
  <2>1. building[j.b] \in BuildingType /\ building[j.b].floors \in FloorsType
    BY <1>1, <1>2 DEF BuildingType
  <2>2. floors \in FloorsType /\ floors[j.floor].plan = j.image
    BY <1>1, <2>1 DEF FloorsType, Plans
  <2>3. building' = [building EXCEPT ![j.b] = [building[j.b] EXCEPT !.floors = floors]]
    OBVIOUS
  <2> HIDE DEF floors
  <2>4. [building[j.b] EXCEPT !.floors = floors] \in BuildingType /\ [building[j.b] EXCEPT !.floors = floors].floors = floors
    BY <2>1, <2>2 DEF BuildingType
  <2>5. QED
    BY <1>1, <1>2, <2>2, <2>3, <2>4
<1>8. \A b \in DOMAIN building, f \in Floors :
        (b = j.b /\ f = j.floor) \/ building'[b].floors[f].plan = building[b].floors[f].plan
  BY <1>1, <1>2 DEF BuildingType, FloorsType
<1>9. replaced \subseteq replaced' /\ \A i \in replaced' : i \in replaced \/ i = j.oldImage
  BY DEF Replaced
<1>10. j.oldImage # NoImage => j.oldImage \in replaced'
  BY <1>1 DEF Replaced, JobType, Plans
<1> HIDE DEF k
<1>11. Typed'
  BY <1>1, <1>3, <1>4, <1>5, <1>7 DEF Typed, Same
<1>12. FormPlans'
  BY <1>4, <1>5, <1>9 DEF FormPlans, There, Same
<1>13. NewUnknown'
  <2> SUFFICES ASSUME NEW x \in jobs', Early(x) PROVE OnlyJob(x)'
    BY DEF NewUnknown, Early
  <2>1. x \in jobs /\ x # j /\ OnlyJob(x)
    BY <1>4, <1>5 DEF Early, NewUnknown
  <2>2. j.image # x.image
    BY <1>6, <2>1 DEF OnlyJob
  <2>3. x.image \notin replaced'
    BY <1>9, <2>1 DEF OnlyJob
  <2>4. QED
    BY <1>4, <1>5, <1>7, <1>8, <2>1, <2>2, <2>3 DEF OnlyJob, Same
<1>14. Uploaded'
  BY <1>4, <1>5 DEF Uploaded
<1>15. OldReplaced'
  BY <1>4, <1>5, <1>9, <1>10 DEF OldReplaced, Late, Same
<1>16. PlanServed'
  <2>1. j.image \in images \cap files
    BY DEF Uploaded
  <2>2. QED
    BY <1>7, <1>8, <1>9, <2>1 DEF PlanServed
<1>17. QED
  BY <1>11, <1>12, <1>13, <1>14, <1>15, <1>16

LEMMA PlanStepInv == ASSUME IInv, NEW j \in jobs, PlanStep(j) PROVE IInv'
<1>1. Typed /\ j \in JobType
  BY DEF IInv, Typed
<1>2. building \in [DOMAIN building -> BuildingType] /\ begun \in Nat
  BY <1>1 DEF Typed
<1>3. ASSUME jobs' \subseteq jobs, UNCHANGED <<building, store, replaced, begun>> PROVE IInv'
  BY <1>2, <1>3, Fewer
<1>4. ASSUME NEW p \in Places PROVE [j EXCEPT !.pc = p] \in JobType /\ Same(j, [j EXCEPT !.pc = p]) /\ [j EXCEPT !.pc = p].pc = p
  BY <1>1 DEF JobType, Same
<1>5. CASE WriteFile(j)
  <2> DEFINE k == [j EXCEPT !.pc = "insert"]
  <2>1. k \in JobType /\ Same(j, k) /\ k.pc = "insert"
    BY <1>4 DEF Places
  <2>2. jobs' \subseteq (jobs \ {j}) \cup {k}
    BY <1>5 DEF WriteFile, Goes
  <2> HIDE DEF k
  <2>3. QED
    BY <1>5, <2>1, <2>2, GoesOn DEF WriteFile, Early, Late, Same
<1>6. CASE AddImages(j)
  <2> DEFINE k == [j EXCEPT !.pc = "find"]
  <2>1. CASE Ends(j) /\ UNCHANGED images
    BY <1>3, <1>6, <2>1 DEF AddImages, Ends, store
  <2>2. CASE Goes(j, k) /\ images' = images \cup {j.image}
    <3>1. k \in JobType /\ Same(j, k) /\ k.pc = "find"
      BY <1>4 DEF Places
    <3>2. jobs' \subseteq (jobs \ {j}) \cup {k}
      BY <2>2 DEF Goes
    <3>3. j.image \in files
      BY <1>6 DEF AddImages, IInv, Uploaded
    <3> HIDE DEF k
    <3>4. QED
      BY <1>6, <2>2, <3>1, <3>2, <3>3, GoesOn DEF AddImages, Early, Late, Same
  <2>3. QED
    BY <1>6, <2>1, <2>2 DEF AddImages
<1>7. CASE GetFilename(j)
  <2> DEFINE k == [j EXCEPT !.pc = "unlink"]
  <2>1. CASE Ends(j)
    BY <1>3, <1>7, <2>1 DEF GetFilename, Ends
  <2>2. CASE Goes(j, k)
    <3>1. k \in JobType /\ Same(j, k) /\ k.pc = "unlink"
      BY <1>4 DEF Places
    <3>2. jobs' \subseteq (jobs \ {j}) \cup {k}
      BY <2>2 DEF Goes
    <3> HIDE DEF k
    <3>3. QED
      BY <1>7, <3>1, <3>2, GoesOn DEF GetFilename, Early, Late, Same, store
  <2>3. QED
    BY <1>7, <2>1, <2>2 DEF GetFilename
<1>8. CASE UnlinkFile(j)
  <2> DEFINE k == [j EXCEPT !.pc = "purge"]
  <2>1. CASE Ends(j) /\ UNCHANGED files
    BY <1>3, <1>8, <2>1 DEF UnlinkFile, Ends, store
  <2>2. CASE Goes(j, k) /\ files' = files \ {j.oldImage}
    <3>1. k \in JobType /\ Same(j, k) /\ k.pc = "purge"
      BY <1>4 DEF Places
    <3>2. jobs' \subseteq (jobs \ {j}) \cup {k}
      BY <2>2 DEF Goes
    <3>3. j.oldImage \in replaced
      BY <1>8 DEF UnlinkFile, Late, IInv, OldReplaced
    <3> HIDE DEF k
    <3>4. QED
      BY <1>8, <2>2, <3>1, <3>2, <3>3, GoesOn DEF UnlinkFile, Early, Late, Same
  <2>3. QED
    BY <1>8, <2>1, <2>2 DEF UnlinkFile
<1>9. CASE DeleteImages(j)
  <2>1. CASE UNCHANGED images
    BY <1>3, <1>9, <2>1 DEF DeleteImages, Ends, store
  <2>2. CASE images' = images \ {j.oldImage}
    <3>1. j.oldImage \in replaced
      BY <1>9 DEF DeleteImages, Late, IInv, OldReplaced
    <3>2. jobs' \subseteq (jobs \ {j}) \cup {j} /\ Same(j, j)
      BY <1>9 DEF DeleteImages, Ends, Same
    <3>3. QED
      BY <1>1, <1>9, <2>2, <3>1, <3>2, GoesOn DEF DeleteImages, Early, Late
  <2>3. QED
    BY <1>9, <2>1, <2>2 DEF DeleteImages
<1>10. CASE KeepImage(j)
  BY <1>3, <1>10 DEF KeepImage, Ends
<1>11. QED
  BY <1>5, <1>6, <1>7, <1>8, <1>9, <1>10, FindPlanInv, UpdateFloorplanInv DEF PlanStep
-----------------------------------------------------------------------------
LEMMA NextInv == IInv /\ [Next]_vars => IInv'
<1> SUFFICES ASSUME IInv, [Next]_vars PROVE IInv'
  OBVIOUS
<1>1. CASE UNCHANGED vars
  <2>1. building \in [DOMAIN building -> BuildingType] /\ begun \in Nat
    BY DEF IInv, Typed
  <2>2. QED
    BY <1>1, <2>1, Fewer DEF vars, store
<1>2. ASSUME NEW b \in Buildings, AskCreate(b) \/ AskUpdate(b) \/ AskDelete(b) PROVE IInv'
  BY <1>2, AskCreateInv, AskUpdateInv, AskDeleteInv
<1>7. ASSUME NEW b \in Buildings, Regrouping(b) PROVE IInv'
  BY <1>7, RegroupingIs, RegroupInv DEF IInv
<1>3. ASSUME NEW b \in Buildings, NEW f \in Floors, NEW i \in Images, AskPlan(b, f, i) PROVE IInv'
  BY <1>3, AskPlanInv
<1>4. ASSUME NEW j \in jobs, BuildingStep(j) \/ PlanStep(j) PROVE IInv'
  BY <1>4, BuildingStepInv, PlanStepInv
<1>5. CASE Restart
  BY <1>5, RestartInv
<1>6. QED
  BY <1>1, <1>2, <1>3, <1>4, <1>5, <1>7 DEF Next, Regrouping

\* The plan of every floor is an image there is, with its file, whichever uploads, updates and
\* deletions overlap and wherever they fail (uploadedFile, updateFloorplan and
\* deleteUploadedFilebyId), unless a form brought back a plan that had been replaced.
THEOREM PlanAlwaysServed == Spec => []PlanServed
<1>1. IInv => PlanServed
  BY DEF IInv
<1>2. QED
  BY <1>1, InitInv, NextInv, PTL DEF Spec

-----------------------------------------------------------------------------
(* The flags of the devices.                                               *)

\* A device has its flag exactly when it is on a floor of a building, and of one only.
Settled(d) ==
  /\ d \in used <=> \E b \in Buildings : Uses(b, d)
  /\ \A b, c \in Buildings : Uses(b, d) /\ Uses(c, d) => b = c

\* The devices whose flags an operation has begun to change.
Held(j) == j.old \cup (IF j.pc \in {"flag", "store"} THEN On(j.input) ELSE {})

\* One operation at a time, and its building stays what it was when it began.
Alone ==
  serial => \A j \in jobs : /\ \A k \in jobs : j = k
                            /\ j.kind = "create" => j.b \notin DOMAIN building
                            /\ j.kind = "update" => j.b \in DOMAIN building
                            /\ j.kind = "delete" => Live(j.b)

OthersSettled == serial => \A d \in Devices \ spoilt : (\A j \in jobs : d \notin Held(j)) => Settled(d)

\* The devices of an operation are in no other building, unless its own was deleted before.
OwnsDocument(j) == j.kind # "create" => Live(j.b)
NotElsewhere ==
  serial => \A j \in jobs : OwnsDocument(j) => \A d \in Touched(j) \ spoilt : \A b \in Buildings : Uses(b, d) => b = j.b

\* How far the flags are: those of the old floors are cleared, then those of the new ones set.
MarksOf(j) ==
  /\ j.kind = "create" \/ j.pc \in {"find", "upload", "insert", "set", "lookUp", "unlink", "purge"} => j.old = {}
  /\ j.kind \in {"delete", "plan"} => On(j.input) = {}
  /\ j.kind \in {"update", "delete"} /\ j.pc # "find" => j.old = On(building[j.b].floors)
  /\ j.pc = "clear" => j.todo \subseteq j.old /\ (j.old \ j.todo) \cap used = {}
  /\ j.kind \in {"update", "delete"} /\ j.pc \in {"platform", "read", "remove"} => j.old \cap used = {}
  /\ j.kind = "update" /\ j.pc \in {"flag", "store"} => j.groups = building[j.b].groups /\ (j.old \ On(j.input)) \cap used = {}
  /\ j.pc = "flag" => j.todo \subseteq On(j.input) /\ On(j.input) \ j.todo \subseteq used
  /\ j.pc = "store" => On(j.input) \subseteq used

Marks == serial => \A j \in jobs : MarksOf(j)

FlagsInv == Alone /\ OthersSettled /\ NotElsewhere /\ Marks
-----------------------------------------------------------------------------
LEMMA FlagsInit == Init => FlagsInv
<1> SUFFICES ASSUME Init PROVE FlagsInv
  OBVIOUS
<1>1. \A b \in Buildings, d \in Devices : ~Uses(b, d)
  BY DEF Init, Uses, Live
<1>2. OthersSettled
  BY <1>1 DEF Init, OthersSettled, Settled
<1>3. QED
  BY <1>2 DEF Init, FlagsInv, Alone, NotElsewhere, Marks

LEMMA SettledSame ==
    ASSUME NEW d, Settled(d), (d \in used') = (d \in used), \A b \in Buildings : Uses(b, d)' = Uses(b, d)
    PROVE  Settled(d)'
BY DEF Settled

\* Where operations overlap nothing is claimed.
LEMMA NotSerial == ASSUME ~serial, UNCHANGED env PROVE FlagsInv'
BY DEF env, FlagsInv, Alone, OthersSettled, NotElsewhere, Marks

LEMMA OnlyJob1 == ASSUME FlagsInv, serial, NEW j \in jobs PROVE jobs = {j} /\ MarksOf(j)
BY DEF FlagsInv, Alone, Marks

\* A flag may be changed of a device the operation holds, which may hold more of its devices.
LEMMA GoesFlags ==
    ASSUME IInv, FlagsInv, serial, UNCHANGED <<env, building, spoilt>>, NEW j \in jobs, NEW k, Goes(j, k),
           k.kind = j.kind, k.b = j.b, Held(j) \subseteq Held(k),
           OwnsDocument(j) => \A d \in Touched(k) \ Touched(j) : d \notin Held(j) /\ d \in Devices /\ Uses(j.b, d) /\ j.b \in Buildings,
           \A d \in Devices : d \in Held(k) \/ (d \in used') = (d \in used),
           MarksOf(k)'
    PROVE  FlagsInv'
<1> USE DEF env
<1>1. jobs = {j} /\ jobs' = {k}
  BY OnlyJob1 DEF Goes
<1>2. \A b, d : Uses(b, d)' = Uses(b, d)
  BY DEF Uses, Live
<1>3. Alone'
  BY <1>1 DEF FlagsInv, Alone, Live
<1>4. OthersSettled'
  <2> SUFFICES ASSUME NEW d \in Devices \ spoilt, d \notin Held(k) PROVE Settled(d)'
    BY <1>1 DEF OthersSettled, Held, On
  <2>1. Settled(d)
    BY <1>1 DEF FlagsInv, OthersSettled
  <2>2. QED
    BY <1>2, <2>1, SettledSame
<1>5. NotElsewhere'
  <2> SUFFICES ASSUME OwnsDocument(j), NEW d \in Touched(k) \ spoilt, NEW b \in Buildings, Uses(b, d) PROVE b = k.b
    BY <1>1, <1>2 DEF NotElsewhere, Touched, On, OwnsDocument, Live
  <2>1. CASE d \in Touched(j)
    BY <2>1 DEF FlagsInv, NotElsewhere
  <2>2. CASE d \notin Touched(j)
    BY <1>1, <2>2 DEF FlagsInv, OthersSettled, Settled
  <2>3. QED
    BY <2>1, <2>2
<1>6. Marks'
  BY <1>1 DEF Marks
<1>7. QED
  BY <1>3, <1>4, <1>5, <1>6 DEF FlagsInv

\* An operation that ends, where what it changes is none of the devices on floors of buildings
\* there are, leaves what it holds to the exceptions.
LEMMA EndsWith ==
    ASSUME FlagsInv, serial, jobs' = {}, UNCHANGED <<env, used>>, spoilt \subseteq spoilt',
           \A b \in Buildings, d \in Devices \ spoilt' : Uses(b, d)' <=> Uses(b, d),
           \A j \in jobs : Held(j) \subseteq spoilt'
    PROVE  FlagsInv'
<1> USE DEF env
<1>1. \A b \in Buildings, d \in Devices \ spoilt' : Uses(b, d)' = Uses(b, d)
  BY DEF Uses
<1>2. OthersSettled'
  <2> SUFFICES ASSUME NEW d \in Devices \ spoilt' PROVE Settled(d)'
    BY DEF OthersSettled
  <2>1. Settled(d)
    BY DEF FlagsInv, OthersSettled
  <2>2. QED
    BY <1>1, <2>1, SettledSame
<1>3. QED
  BY <1>2 DEF FlagsInv, Alone, NotElsewhere, Marks

LEMMA EndsFlags ==
    ASSUME FlagsInv, serial, jobs' = {}, UNCHANGED <<env, building, used>>, spoilt \subseteq spoilt',
           \A j \in jobs : Held(j) \subseteq spoilt'
    PROVE  FlagsInv'
<1>1. \A b \in Buildings, d \in Devices \ spoilt' : Uses(b, d)' <=> Uses(b, d)
  BY DEF Uses, Live
<1>2. QED
  BY <1>1, EndsWith

-----------------------------------------------------------------------------
(* Operations begin.                                                       *)

LEMMA BeginFlags ==
    ASSUME FlagsInv, NEW k, Begin(k), Held(k) = {}, Touched(k) = On(k.input), On(k.input) \subseteq Devices, MarksOf(k),
           k.kind = "create" => k.b \notin DOMAIN building,
           k.kind = "update" => k.b \in DOMAIN building,
           k.kind = "delete" => Live(k.b),
           k.b \in Buildings
    PROVE  FlagsInv'
<1>1. CASE ~serial
  BY <1>1, NotSerial DEF Begin
<1>2. CASE serial
  <2> USE <1>2 DEF Begin, env
  <2>1. jobs = {} /\ jobs' = {k} /\ spoilt' = spoilt \cup Taken(k.b, k.input)
    OBVIOUS
  <2>2. \A b, d : Uses(b, d)' = Uses(b, d)
    BY DEF Uses, Live
  <2>3. \A d \in Devices \ spoilt : Settled(d)
    BY <2>1 DEF FlagsInv, OthersSettled
  <2>4. Alone'
    BY <2>1 DEF Alone, Live
  <2>5. OthersSettled'
    BY <2>1, <2>2, <2>3, SettledSame DEF OthersSettled
  <2>6. NotElsewhere'
    <3> SUFFICES ASSUME NEW d \in Touched(k) \ spoilt', NEW b \in Buildings, Uses(b, d) PROVE b = k.b
      BY <2>1, <2>2 DEF NotElsewhere, Touched, On
    <3>1. d \in Devices \ spoilt /\ d \in On(k.input) /\ d \notin Taken(k.b, k.input)
      BY <2>1
    <3>2. Settled(d) /\ d \in used
      BY <2>3, <3>1 DEF Settled
    <3>3. Uses(k.b, d)
      BY <3>1, <3>2 DEF Taken, SearchDevicesForBuilding
    <3>4. QED
      BY <3>2, <3>3 DEF Settled
  <2>7. Marks'
    BY <2>1 DEF Marks, MarksOf, On
  <2>8. QED
    BY <2>4, <2>5, <2>6, <2>7 DEF FlagsInv
<1>3. QED
  BY <1>1, <1>2

LEMMA BlankFloors == On(Blank) = {}
BY DEF On, Blank

LEMMA AskFlags ==
    ASSUME IInv, FlagsInv, NEW b \in Buildings, AskCreate(b) \/ AskUpdate(b) \/ AskDelete(b)
    PROVE  FlagsInv'
<1>1. CASE AskCreate(b)
  <2>1. PICK input \in Forms(b) : Begin([Job("create", b, "platform") EXCEPT !.input = input])
    BY <1>1 DEF AskCreate
  <2> DEFINE k == [Job("create", b, "platform") EXCEPT !.input = input]
  <2>2. k.kind = "create" /\ k.b = b /\ k.pc = "platform" /\ k.input = input /\ k.old = {}
    BY DEF Job
  <2>3. Begin(k)
    BY <2>1
  <2> HIDE DEF k
  <2>4. Touched(k) = On(input) /\ Held(k) = {} /\ MarksOf(k)
    BY <2>2 DEF Touched, Held, MarksOf
  <2>5. On(input) \subseteq Devices
    BY FormType, OnType
  <2>6. b \notin DOMAIN building
    BY <1>1 DEF AskCreate
  <2>7. QED
    BY <2>2, <2>3, <2>4, <2>5, <2>6, BeginFlags
<1>2. CASE AskUpdate(b)
  <2>1. PICK input \in Forms(b) : Begin([Job("update", b, "find") EXCEPT !.input = input])
    BY <1>2 DEF AskUpdate
  <2> DEFINE k == [Job("update", b, "find") EXCEPT !.input = input]
  <2>2. k.kind = "update" /\ k.b = b /\ k.pc = "find" /\ k.input = input /\ k.old = {}
    BY DEF Job
  <2>3. Begin(k) /\ b \in DOMAIN building
    BY <1>2, <2>1 DEF AskUpdate
  <2> HIDE DEF k
  <2>4. Touched(k) = On(input) /\ Held(k) = {} /\ MarksOf(k)
    BY <2>2 DEF Touched, Held, MarksOf
  <2>5. On(input) \subseteq Devices
    BY FormType, OnType
  <2>6. QED
    BY <2>2, <2>3, <2>4, <2>5, BeginFlags
<1>3. CASE AskDelete(b)
  <2> DEFINE k == Job("delete", b, "find")
  <2>1. k.kind = "delete" /\ k.b = b /\ k.pc = "find" /\ k.input = Blank /\ k.old = {}
    BY DEF Job
  <2>2. Begin(k) /\ Live(b)
    BY <1>3 DEF AskDelete
  <2> HIDE DEF k
  <2>3. Touched(k) = {} /\ On(k.input) = {} /\ Held(k) = {} /\ MarksOf(k)
    BY <2>1, BlankFloors DEF Touched, Held, MarksOf
  <2>4. QED
    BY <2>1, <2>2, <2>3, BeginFlags
<1>4. QED
  BY <1>1, <1>2, <1>3

LEMMA AskPlanFlags ==
    ASSUME IInv, FlagsInv, NEW b \in Buildings, NEW f \in Floors, NEW i \in Images, AskPlan(b, f, i)
    PROVE  FlagsInv'
<1> DEFINE k == [Job("plan", b, "upload") EXCEPT !.floor = f, !.image = i]
<1>1. k.kind = "plan" /\ k.b = b /\ k.pc = "upload" /\ k.input = Blank /\ k.old = {}
  BY DEF Job
<1>2. Begin(k)
  BY DEF AskPlan
<1> HIDE DEF k
<1>3. Touched(k) = {} /\ On(k.input) = {} /\ Held(k) = {} /\ MarksOf(k)
  BY <1>1, BlankFloors DEF Touched, Held, MarksOf
<1>4. QED
  BY <1>1, <1>2, <1>3, BeginFlags
-----------------------------------------------------------------------------
(* Operations go on and end.                                               *)

\* An operation that ends settles the devices that were its own, whatever they were before.
LEMMA WritesFlags ==
    ASSUME FlagsInv, serial, UNCHANGED <<env, used>>, NEW j \in jobs, Ends(j), j.b \in Buildings,
           \A b, d : b # j.b => Uses(b, d)' = Uses(b, d),
           \A d \in Devices : Uses(j.b, d) \/ Uses(j.b, d)' => d \in Held(j),
           \A d \in Held(j) : d \in used <=> Uses(j.b, d)',
           \A d \in Devices \ spoilt' : d \notin Held(j) => d \notin spoilt,
           \A d \in (Devices \ spoilt') \cap Held(j), b \in Buildings \ {j.b} : ~Uses(b, d)
    PROVE  FlagsInv'
<1>1. jobs = {j} /\ jobs' = {}
  BY OnlyJob1 DEF Ends
<1>2. OthersSettled'
  <2> SUFFICES ASSUME NEW d \in Devices \ spoilt' PROVE Settled(d)'
    BY DEF OthersSettled
  <2>1. CASE d \in Held(j)
    BY <2>1 DEF Settled
  <2>2. CASE d \notin Held(j)
    <3>1. Settled(d)
      BY <1>1, <2>2 DEF FlagsInv, OthersSettled
    <3>2. \A b \in Buildings : Uses(b, d)' = Uses(b, d)
      <4>1. Uses(j.b, d) \in BOOLEAN /\ Uses(j.b, d)' \in BOOLEAN
        BY DEF Uses
      <4>2. QED
        BY <2>2, <4>1
    <3>3. QED
      BY <3>1, <3>2, SettledSame
  <2>3. QED
    BY <2>1, <2>2
<1>3. QED
  BY <1>1, <1>2 DEF FlagsInv, Alone, NotElsewhere, Marks

\* What was repaired, or no exception, is in no other building once the operation is done.
LEMMA RepairedOnly ==
    ASSUME IInv, FlagsInv, serial, NEW j \in jobs, OwnsDocument(j), spoilt' = spoilt \ Repaired(j, j.b), Held(j) = Touched(j)
    PROVE  /\ \A d \in Devices \ spoilt' : d \notin Held(j) => d \notin spoilt
           /\ \A d \in (Devices \ spoilt') \cap Held(j), b \in Buildings \ {j.b} : ~Uses(b, d)
<1>1. ASSUME NEW d \in (Devices \ spoilt') \cap Held(j), NEW b \in Buildings \ {j.b}, Uses(b, d) PROVE FALSE
  <2>1. b \in DOMAIN building \ {j.b}
    BY <1>1 DEF Uses, Live
  <2>2. d \notin Repaired(j, j.b)
    BY <1>1, <2>1 DEF Repaired
  <2>3. d \in Touched(j) \ spoilt
    BY <1>1, <2>2
  <2>4. QED
    BY <1>1, <2>3 DEF FlagsInv, NotElsewhere
<1>2. QED
  BY <1>1 DEF Repaired

LEMMA BuildingStepFlags ==
    ASSUME IInv, FlagsInv, serial, NEW j \in jobs, BuildingStep(j)
    PROVE  FlagsInv'
<1>1. Typed /\ j \in JobType /\ j.b \in Buildings
  BY DEF IInv, Typed, JobType
<1>2. jobs = {j} /\ MarksOf(j)
  BY OnlyJob1
<1>3. On(j.input) \subseteq Devices /\ j.old \subseteq Devices
  BY <1>1, OnType DEF JobType
<1>4. building \in [DOMAIN building -> BuildingType]
  BY <1>1 DEF Typed
<1>5. (j.kind = "update" => j.b \in DOMAIN building) /\ (j.kind = "delete" => Live(j.b) /\ j.b \in DOMAIN building)
  BY <1>2 DEF FlagsInv, Alone, Live
<1>6. j.kind = "create" => j.b \notin DOMAIN building
  BY <1>2 DEF FlagsInv, Alone
<1>7. Ends(j) => jobs' = {}
  BY <1>2 DEF Ends
<1>8. CASE CreateOnPlatform(j)
  <2>1. CASE Ends(j)
    BY <1>2, <1>7, <1>8, <2>1, EndsFlags DEF CreateOnPlatform, Held, MarksOf
  <2>2. CASE Goes(j, [j EXCEPT !.pc = "flag", !.todo = On(j.input)])
    <3> DEFINE k == [j EXCEPT !.pc = "flag", !.todo = On(j.input)]
    <3>1. /\ k.kind = "create" /\ k.pc = "flag" /\ k.todo = On(j.input) /\ k.b = j.b
          /\ k.input = j.input /\ k.old = j.old
      BY <1>1, <1>8 DEF JobType, CreateOnPlatform
    <3> HIDE DEF k
    <3>2. MarksOf(k)' /\ Touched(k) = Touched(j) /\ Held(j) \subseteq Held(k)
      BY <1>2, <1>8, <3>1 DEF MarksOf, Touched, Held, On, CreateOnPlatform
    <3>3. QED
      BY <1>8, <2>2, <3>1, <3>2, GoesFlags DEF CreateOnPlatform, k
  <2>3. QED
    BY <1>8, <2>1, <2>2 DEF CreateOnPlatform
<1>9. CASE SetFlag(j)
  <2>1. CASE j.todo = {}
    <3> DEFINE k == [j EXCEPT !.pc = "store"]
    <3>1. /\ k.kind = j.kind /\ k.pc = "store" /\ k.groups = j.groups /\ k.b = j.b
          /\ k.input = j.input /\ k.old = j.old /\ Goes(j, k)
      BY <1>1, <1>9, <2>1 DEF JobType, SetFlag
    <3> HIDE DEF k
    <3>2. MarksOf(k)' /\ Touched(k) = Touched(j) /\ Held(j) = Held(k)
      BY <1>2, <1>9, <2>1, <3>1 DEF MarksOf, Touched, Held, On, SetFlag
    <3>3. QED
      BY <1>9, <2>1, <3>1, <3>2, GoesFlags DEF SetFlag
  <2>2. CASE j.todo # {}
    <3>1. PICK d \in j.todo : Flag(j, d) /\ Goes(j, [j EXCEPT !.todo = @ \ {d}])
      BY <1>9, <2>2 DEF SetFlag
    <3> DEFINE k == [j EXCEPT !.todo = @ \ {d}]
    <3>2. /\ k.kind = j.kind /\ k.pc = "flag" /\ k.groups = j.groups /\ k.b = j.b /\ k.todo = j.todo \ {d}
          /\ k.input = j.input /\ k.old = j.old
      BY <1>1, <1>9 DEF JobType, SetFlag
    <3> HIDE DEF k
    <3>3. d \in On(j.input) /\ used' = used \cup {d}
      BY <1>2, <1>9, <3>1 DEF MarksOf, SetFlag, Flag
    <3>4. MarksOf(k)' /\ Touched(k) = Touched(j) /\ Held(j) = Held(k) /\ d \in Held(k)
      BY <1>2, <1>9, <3>2, <3>3 DEF MarksOf, Touched, Held, On, SetFlag
    <3>5. \A e \in Devices : e \in Held(k) \/ (e \in used') = (e \in used)
      BY <3>3, <3>4
    <3>6. QED
      BY <1>9, <3>1, <3>2, <3>4, <3>5, GoesFlags DEF SetFlag, k
  <2>3. QED
    BY <2>1, <2>2
<1>10. CASE CreateDocument(j)
  <2>1. CASE spoilt' = spoilt \cup On(j.input) /\ UNCHANGED building
    <3>1. Held(j) \subseteq On(j.input)
      BY <1>2, <1>10 DEF MarksOf, Held, CreateDocument
    <3>2. QED
      BY <1>2, <1>7, <1>10, <2>1, <3>1, EndsFlags DEF CreateDocument
  <2>2. CASE /\ spoilt' = spoilt
             /\ building' = [c \in DOMAIN building \cup {j.b} |->
                              IF c = j.b THEN [floors |-> j.input, groups |-> 1, disabled |-> 0] ELSE building[c]]
    <3>1. \A d : ~Uses(j.b, d) /\ (Uses(j.b, d)' <=> d \in On(j.input))
      BY <1>6, <1>10, <2>2 DEF CreateDocument, Uses, Live, On
    <3>2. \A b, d : b # j.b => Uses(b, d)' = Uses(b, d)
      BY <2>2 DEF Uses, Live
    <3>3. Held(j) = On(j.input) /\ Touched(j) = On(j.input) /\ On(j.input) \subseteq used
      BY <1>2, <1>10 DEF MarksOf, Held, Touched, CreateDocument
    <3>4. \A d \in Devices \ spoilt, b \in Buildings \ {j.b} : d \in Held(j) => ~Uses(b, d)
      <4>1. OwnsDocument(j)
        BY <1>10 DEF OwnsDocument, CreateDocument
      <4>2. QED
        BY <3>3, <4>1 DEF FlagsInv, NotElsewhere
    <3>5. UNCHANGED <<env, used, spoilt>> /\ Ends(j)
      BY <1>10, <2>2 DEF CreateDocument
    <3>6. \A d \in Held(j) : d \in used <=> Uses(j.b, d)'
      BY <3>1, <3>3
    <3>7. \A d \in Devices : Uses(j.b, d) \/ Uses(j.b, d)' => d \in Held(j)
      BY <3>1, <3>3
    <3>8. /\ UNCHANGED <<env, used>> /\ Ends(j) /\ \A d \in Devices \ spoilt' : d \notin Held(j) => d \notin spoilt
          /\ \A d \in (Devices \ spoilt') \cap Held(j), b \in Buildings \ {j.b} : ~Uses(b, d)
      BY <3>4, <3>5
    <3>9. QED
      BY <1>1, <3>2, <3>6, <3>7, <3>8, WritesFlags
  <2>3. QED
    BY <1>10, <2>1, <2>2 DEF CreateDocument
<1>11. CASE FindBuilding(j)
  <2>1. j.old = {} /\ Held(j) = {} /\ j.b \in DOMAIN building /\ (j.kind = "delete" => Live(j.b))
    BY <1>2, <1>5, <1>11 DEF MarksOf, Held, FindBuilding
  <2> DEFINE devices == On(building[j.b].floors)
  <2>2. PICK k : Goes(j, k) /\ k = [j EXCEPT !.pc = "clear", !.todo = devices, !.old = devices]
    BY <1>11, <2>1 DEF FindBuilding
  <2>3. k.kind = j.kind /\ k.pc = "clear" /\ k.b = j.b /\ k.todo = devices /\ k.input = j.input /\ k.old = devices
    BY <1>1, <2>2 DEF JobType
  <2>4. devices \subseteq Devices
    <3>1. building[j.b].floors \in FloorsType
      BY <1>4, <2>1 DEF BuildingType
    <3>2. QED
      BY <3>1, OnType
  <2>5. OwnsDocument(j) => \A d \in devices : Uses(j.b, d)
    BY <1>11 DEF Uses, OwnsDocument, FindBuilding
  <2>6. devices' = devices
    BY <1>11 DEF FindBuilding, On
  <2>7. MarksOf(k)'
    BY <1>2, <1>11, <2>3, <2>6 DEF MarksOf, FindBuilding, On
  <2> HIDE DEF devices
  <2>8. Touched(k) \subseteq Touched(j) \cup devices
    BY <2>3 DEF Touched
  <2>9. OwnsDocument(j) => \A d \in Touched(k) \ Touched(j) : d \notin Held(j) /\ d \in Devices /\ Uses(j.b, d) /\ j.b \in Buildings
    BY <1>1, <2>1, <2>4, <2>5, <2>8
  <2>10. UNCHANGED <<env, used, building, spoilt>>
    BY <1>11 DEF FindBuilding
  <2>11. UNCHANGED <<env, building, spoilt>> /\ \A d \in Devices : d \in Held(k) \/ (d \in used') = (d \in used)
    BY <2>10
  <2>12. k.kind = j.kind /\ k.b = j.b /\ Held(j) \subseteq Held(k)
    BY <2>1, <2>3
  <2>13. QED
    BY <2>2, <2>7, <2>9, <2>11, <2>12, GoesFlags
<1>12. CASE ClearFlag(j)
  <2>1. CASE j.todo = {}
    <3> DEFINE p == IF j.kind = "update" THEN "platform" ELSE "remove"
    <3> DEFINE k == [j EXCEPT !.pc = p]
    <3>1. /\ k.kind = j.kind /\ k.pc \in {"platform", "remove"} /\ k.b = j.b
          /\ k.input = j.input /\ k.old = j.old /\ Goes(j, k)
      BY <1>1, <1>12, <2>1 DEF JobType, ClearFlag
    <3> HIDE DEF k
    <3>2. MarksOf(k)' /\ Touched(k) = Touched(j) /\ Held(j) = Held(k)
      BY <1>2, <1>12, <2>1, <3>1 DEF MarksOf, Touched, Held, On, ClearFlag
    <3>3. QED
      BY <1>12, <2>1, <3>1, <3>2, GoesFlags DEF ClearFlag
  <2>2. CASE j.todo # {}
    <3>1. PICK d \in j.todo : Clear(j, d) /\ Goes(j, [j EXCEPT !.todo = @ \ {d}])
      BY <1>12, <2>2 DEF ClearFlag
    <3> DEFINE k == [j EXCEPT !.todo = @ \ {d}]
    <3>2. k.kind = j.kind /\ k.pc = "clear" /\ k.b = j.b /\ k.todo = j.todo \ {d} /\ k.input = j.input /\ k.old = j.old
      BY <1>1, <1>12 DEF JobType, ClearFlag
    <3> HIDE DEF k
    <3>3. d \in j.old /\ used' = used \ {d}
      BY <1>2, <1>12, <3>1 DEF MarksOf, ClearFlag, Clear
    <3>4. MarksOf(k)' /\ Touched(k) = Touched(j) /\ Held(j) = Held(k) /\ d \in Held(k)
      BY <1>2, <1>12, <3>2, <3>3 DEF MarksOf, Touched, Held, On, ClearFlag
    <3>5. \A e \in Devices : e \in Held(k) \/ (e \in used') = (e \in used)
      BY <3>3, <3>4
    <3>6. QED
      BY <1>12, <3>1, <3>2, <3>4, <3>5, GoesFlags DEF ClearFlag, k
  <2>3. QED
    BY <2>1, <2>2
<1>13. CASE UpdateOnPlatform(j)
  <2>1. CASE Ends(j) /\ spoilt' = spoilt \cup j.old
    <3>1. Held(j) = j.old
      BY <1>13 DEF Held, UpdateOnPlatform
    <3>2. QED
      BY <1>2, <1>7, <1>13, <2>1, <3>1, EndsFlags DEF UpdateOnPlatform
  <2>2. CASE Goes(j, [j EXCEPT !.pc = "read"]) /\ UNCHANGED spoilt
    <3> DEFINE k == [j EXCEPT !.pc = "read"]
    <3>1. k.kind = j.kind /\ k.pc = "read" /\ k.b = j.b /\ k.input = j.input /\ k.old = j.old
      BY <1>1 DEF JobType
    <3> HIDE DEF k
    <3>2. MarksOf(k)' /\ Touched(k) = Touched(j) /\ Held(j) = Held(k)
      BY <1>2, <1>13, <3>1 DEF MarksOf, Touched, Held, On, UpdateOnPlatform
    <3>3. QED
      BY <1>13, <2>2, <3>1, <3>2, GoesFlags DEF UpdateOnPlatform, k
  <2>3. QED
    BY <1>13, <2>1, <2>2 DEF UpdateOnPlatform
<1>14. CASE ReadGroups(j)
  <2>1. PICK k : Goes(j, k) /\ k = [j EXCEPT !.pc = "flag", !.todo = On(j.input), !.groups = building[j.b].groups]
    BY <1>14 DEF ReadGroups
  <2>2. /\ k.kind = j.kind /\ k.pc = "flag" /\ k.b = j.b /\ k.todo = On(j.input) /\ k.input = j.input /\ k.old = j.old
        /\ k.groups = building[j.b].groups
    BY <1>1, <2>1 DEF JobType
  <2>4. j.kind = "update" /\ j.old = On(building[j.b].floors) /\ j.old \cap used = {} /\ UNCHANGED <<env, used, building, spoilt>>
    BY <1>2, <1>14 DEF MarksOf, ReadGroups
  <2>5. On(building[j.b].floors)' = On(building[j.b].floors)
    BY <2>4 DEF On
  <2>6. MarksOf(k)'
    <3>1. used' = used /\ building' = building
      BY <2>4
    <3>2. QED
      BY <2>2, <2>4, <2>5, <3>1 DEF MarksOf
  <2>7. Touched(k) = Touched(j) /\ Held(j) \subseteq Held(k)
    BY <1>14, <2>2 DEF Touched, Held, ReadGroups
  <2>8. UNCHANGED <<env, building, spoilt>> /\ \A d \in Devices : d \in Held(k) \/ (d \in used') = (d \in used)
    BY <2>4
  <2>9. k.kind = j.kind /\ k.b = j.b
    BY <2>2
  <2>10. QED
    BY <2>1, <2>6, <2>7, <2>8, <2>9, GoesFlags
<1>15. CASE UpdateDocument(j)
  <2>1. Held(j) = Touched(j) /\ Touched(j) = j.old \cup On(j.input)
    BY <1>15 DEF Held, Touched, UpdateDocument
  <2>2. CASE spoilt' = spoilt \cup Touched(j) /\ UNCHANGED building
    BY <1>2, <1>7, <1>15, <2>1, <2>2, EndsFlags DEF UpdateDocument
  <2>3. CASE /\ building' = [building EXCEPT ![j.b].floors = j.input, ![j.b].groups = j.groups]
             /\ spoilt' = IF j.groups > 0 THEN spoilt \ Repaired(j, j.b) ELSE spoilt \cup Touched(j)
    <3>1. /\ j.b \in DOMAIN building /\ j.groups = building[j.b].groups /\ j.old = On(building[j.b].floors)
          /\ On(j.input) \subseteq used /\ (j.old \ On(j.input)) \cap used = {}
      BY <1>2, <1>5, <1>15 DEF MarksOf, UpdateDocument
    <3>2. building'[j.b].groups = j.groups /\ building'[j.b].floors = j.input /\ DOMAIN building' = DOMAIN building
      BY <1>1, <1>4, <2>3, <3>1 DEF BuildingType, JobType
    <3>3. \A b, d : b # j.b => Uses(b, d)' = Uses(b, d)
      BY <2>3, <3>1 DEF Uses, Live
    <3>4. UNCHANGED <<env, used>> /\ Ends(j)
      BY <1>15 DEF UpdateDocument
    <3>5. CASE j.groups > 0
      <4>1. \A d : (Uses(j.b, d)' <=> d \in On(j.input)) /\ (Uses(j.b, d) <=> d \in j.old)
        BY <3>1, <3>2, <3>5 DEF Uses, Live, On
      <4>2. \A d \in Held(j) : d \in used <=> Uses(j.b, d)'
        BY <2>1, <3>1, <4>1
      <4>3. \A d \in Devices : Uses(j.b, d) \/ Uses(j.b, d)' => d \in Held(j)
        BY <2>1, <4>1
      <4>4. spoilt' = spoilt \ Repaired(j, j.b) /\ OwnsDocument(j)
        BY <2>3, <3>1, <3>5 DEF OwnsDocument, Live
      <4>5. QED
        BY <1>1, <2>1, <3>3, <3>4, <4>2, <4>3, <4>4, RepairedOnly, WritesFlags
    <3>6. CASE ~(j.groups > 0)
      <4>1. \A d : ~Uses(j.b, d)' /\ ~Uses(j.b, d)
        BY <3>1, <3>2, <3>6 DEF Uses, Live
      <4>2. \A b \in Buildings, d \in Devices \ spoilt' : Uses(b, d)' <=> Uses(b, d)
        BY <3>3, <4>1
      <4>3. spoilt' = spoilt \cup Touched(j)
        BY <2>3, <3>6
      <4>4. QED
        BY <1>2, <1>7, <2>1, <3>4, <4>2, <4>3, EndsWith
    <3>7. QED
      BY <3>5, <3>6
  <2>4. QED
    BY <1>15, <2>2, <2>3 DEF UpdateDocument
<1>16. CASE DeleteDocument(j)
  <2>1. Live(j.b) /\ j.old = On(building[j.b].floors) /\ j.old \cap used = {} /\ On(j.input) = {}
    BY <1>2, <1>5, <1>16 DEF MarksOf, DeleteDocument
  <2>2. Held(j) = j.old /\ Touched(j) = j.old
    BY <1>16, <2>1 DEF Held, Touched, DeleteDocument
  <2>3. PICK left \in 0..building[j.b].groups :
          /\ building' = [building EXCEPT ![j.b].groups = left, ![j.b].disabled = @ + building[j.b].groups - left]
          /\ spoilt' = IF left = 0 THEN spoilt \ Repaired(j, j.b) ELSE spoilt \cup Touched(j)
    BY <1>16 DEF DeleteDocument
  <2>4. UNCHANGED <<env, used>> /\ Ends(j) /\ j.kind = "delete"
    BY <1>16 DEF DeleteDocument
  <2>5. building'[j.b].groups = left /\ building'[j.b].floors = building[j.b].floors /\ DOMAIN building' = DOMAIN building
    BY <1>4, <2>1, <2>3 DEF BuildingType, Live
  <2>6. \A d : Uses(j.b, d) <=> d \in j.old
    BY <2>1 DEF Uses
  <2>7. \A b, d : b # j.b => Uses(b, d)' = Uses(b, d)
    BY <1>4, <2>3 DEF Uses, Live
  <2>8. CASE left = 0
    <3>1. \A d : ~Uses(j.b, d)'
      BY <2>5, <2>8 DEF Uses, Live
    <3>2. spoilt' = spoilt \ Repaired(j, j.b) /\ OwnsDocument(j)
      BY <2>1, <2>3, <2>8 DEF OwnsDocument
    <3>3. QED
      BY <1>1, <2>1, <2>2, <2>4, <2>6, <2>7, <3>1, <3>2, RepairedOnly, WritesFlags
  <2>9. CASE left # 0
    <3>1. \A d \in Devices \ spoilt' : ~Uses(j.b, d)'
      <4>1. \A d : Uses(j.b, d)' => d \in j.old
        BY <2>1, <2>5 DEF Uses, On
      <4>2. QED
        BY <2>2, <2>3, <2>9, <4>1
    <3>2. \A d \in Devices \ spoilt' : ~Uses(j.b, d)
      BY <2>2, <2>3, <2>6, <2>9
    <3>3. \A b \in Buildings, d \in Devices \ spoilt' : Uses(b, d)' <=> Uses(b, d)
      BY <2>7, <3>1, <3>2
    <3>4. spoilt' = spoilt \cup Touched(j)
      BY <2>3, <2>9
    <3>5. QED
      BY <1>2, <1>7, <2>2, <2>4, <3>3, <3>4, EndsWith
  <2>10. QED
    BY <2>8, <2>9
<1>17. QED
  BY <1>8, <1>9, <1>10, <1>11, <1>12, <1>13, <1>14, <1>15, <1>16 DEF BuildingStep

\* A step on a plan changes no flag, and no devices of a floor.
LEMMA PlanStepFlags ==
    ASSUME IInv, FlagsInv, serial, NEW j \in jobs, PlanStep(j)
    PROVE  FlagsInv'
<1> DEFINE PlanPlaces == {"upload", "insert", "find", "set", "lookUp", "unlink", "purge"}
<1>1. Typed /\ j \in JobType /\ j.b \in DOMAIN building /\ j.floor \in Floors
  BY DEF IInv, Typed, JobType, PlanStep, WriteFile, AddImages, KeepImage, FindPlan, UpdateFloorplan, GetFilename, UnlinkFile, DeleteImages
<1>2. /\ j.kind = "plan" /\ j.pc \in PlanPlaces /\ UNCHANGED <<env, used, spoilt>>
      /\ UNCHANGED building \/ building' = [building EXCEPT ![j.b].floors[j.floor].plan = j.image]
      /\ Ends(j) \/ \E p \in PlanPlaces : \E i :
                      Goes(j, [j EXCEPT !.pc = p]) \/ Goes(j, [j EXCEPT !.pc = p, !.oldImage = i])
  BY DEF PlanStep, WriteFile, AddImages, KeepImage, FindPlan, UpdateFloorplan, GetFilename, UnlinkFile, DeleteImages
<1>3. jobs = {j} /\ MarksOf(j)
  BY OnlyJob1
<1>4. Held(j) = {} /\ Touched(j) = {}
  BY ZenonT(60), <1>2, <1>3 DEF MarksOf, Held, Touched
<1> HIDE DEF PlanPlaces
<1>5. \A b, d : Uses(b, d)' = Uses(b, d)
  <2>1. building \in [DOMAIN building -> BuildingType]
    BY <1>1 DEF Typed
  <2>2. CASE UNCHANGED building
    BY <2>2 DEF Uses, Live
  <2>3. CASE building' = [building EXCEPT ![j.b].floors[j.floor].plan = j.image]
    <3>1. /\ DOMAIN building' = DOMAIN building
          /\ \A b \in DOMAIN building : /\ building'[b].groups = building[b].groups
                                       /\ \A f \in Floors : building'[b].floors[f].devices = building[b].floors[f].devices
      BY <1>1, <2>1, <2>3 DEF BuildingType, FloorsType
    <3>2. \A b \in DOMAIN building : On(building[b].floors)' = On(building[b].floors)
      BY SMTT(30), <3>1 DEF On
    <3>3. QED
      BY <3>1, <3>2 DEF Uses, Live
  <2>4. QED
    BY <1>2, <2>2, <2>3
<1>6. \A d \in Devices \ spoilt : Settled(d)'
  <2>1. \A d \in Devices \ spoilt : Settled(d)
    BY SMTT(30), <1>3, <1>4 DEF FlagsInv, OthersSettled
  <2>2. QED
    BY <1>2, <1>5, <2>1, SettledSame
<1>7. \A x \in jobs' : x.kind = "plan" /\ x.pc \in PlanPlaces /\ x.old = j.old /\ x.input = j.input
  <2>1. CASE Ends(j)
    BY <1>3, <2>1 DEF Ends
  <2>2. ASSUME NEW p \in PlanPlaces, NEW i, NEW k \in {[j EXCEPT !.pc = p], [j EXCEPT !.pc = p, !.oldImage = i]}, Goes(j, k)
        PROVE  \A x \in jobs' : x.kind = "plan" /\ x.pc \in PlanPlaces /\ x.old = j.old /\ x.input = j.input
    <3>1. k.kind = "plan" /\ k.pc = p /\ k.old = j.old /\ k.input = j.input
      <4>1. CASE k = [j EXCEPT !.pc = p]
        BY <1>1, <1>2, <4>1 DEF JobType
      <4>2. CASE k = [j EXCEPT !.pc = p, !.oldImage = i]
        BY <1>1, <1>2, <4>2 DEF JobType
      <4>3. QED
        BY <2>2, <4>1, <4>2
    <3>2. jobs' = {k}
      BY SMTT(30), <1>3, <2>2 DEF Goes
    <3>3. QED
      BY <3>1, <3>2
  <2>3. QED
    BY <1>2, <2>1, <2>2
<1>8. \A x, y \in jobs' : x = y
  BY <1>2, <1>3 DEF Goes, Ends
<1>9. \A x \in jobs' : MarksOf(x)' /\ Touched(x) = {}
  <2>1. j.old = {} /\ On(j.input) = {}
    BY <1>2, <1>3 DEF MarksOf, PlanPlaces
  <2>2. ASSUME NEW x \in jobs' PROVE MarksOf(x)' /\ Touched(x) = {}
    <3>1. x.kind = "plan" /\ x.pc \in PlanPlaces /\ x.old = {} /\ On(x.input) = {}
      BY <1>7, <2>1
    <3>2. QED
      BY <3>1 DEF MarksOf, Touched, PlanPlaces
  <2>3. QED
    BY <2>2
<1>10. Alone'
  BY SMTT(30), <1>7, <1>8 DEF Alone
<1>11. OthersSettled'
  BY <1>2, <1>6 DEF OthersSettled
<1>12. NotElsewhere'
  BY <1>9 DEF NotElsewhere, Touched, On
<1>13. Marks'
  BY <1>9 DEF Marks
<1>14. QED
  BY <1>10, <1>11, <1>12, <1>13 DEF FlagsInv

\* A building brought back has its floors, not the flags; one taken away leaves them.
LEMMA RegroupFlags ==
    ASSUME IInv, FlagsInv, NEW b \in DOMAIN building, NEW groups, NEW disabled, Regroup(b, groups, disabled)
    PROVE  FlagsInv'
<1>1. CASE ~serial
  BY <1>1, NotSerial DEF Regroup
<1>2. CASE serial
  <2> USE <1>2 DEF Regroup, env
  <2>1. jobs = {} /\ jobs' = {}
    OBVIOUS
  <2>2. building \in [DOMAIN building -> BuildingType]
    BY DEF IInv, Typed
  <2>3. building'[b].floors = building[b].floors /\ \A c \in DOMAIN building : c # b => building'[c] = building[c]
    BY <2>2 DEF BuildingType
  <2>4. \A d \in Devices \ spoilt', c \in Buildings : Uses(c, d)' = Uses(c, d)
    <3> SUFFICES ASSUME NEW d \in Devices \ spoilt', NEW c \in Buildings PROVE Uses(c, d)' = Uses(c, d)
      OBVIOUS
    <3>1. CASE c = b
      <4>1. ~Uses(b, d) /\ ~Uses(b, d)'
        BY <2>3 DEF Uses, On
      <4>2. QED
        BY <3>1, <4>1 DEF Uses
    <3>2. CASE c # b
      BY <2>3, <3>2 DEF Uses, Live
    <3>3. QED
      BY <3>1, <3>2
  <2>5. OthersSettled'
    <3> SUFFICES ASSUME NEW d \in Devices \ spoilt' PROVE Settled(d)'
      BY DEF OthersSettled
    <3>1. Settled(d)
      BY <2>1 DEF FlagsInv, OthersSettled
    <3>2. QED
      BY <2>4, <3>1, SettledSame
  <2>6. QED
    BY <2>1, <2>5 DEF FlagsInv, Alone, NotElsewhere, Marks
<1>3. QED
  BY <1>1, <1>2

LEMMA RestartFlags == ASSUME FlagsInv, Restart PROVE FlagsInv'
<1>1. CASE ~serial
  BY <1>1, NotSerial DEF Restart
<1>2. CASE serial
  <2>1. \A j \in jobs : Held(j) \subseteq Touched(j)
    BY DEF Held, Touched
  <2>2. spoilt \subseteq spoilt' /\ \A j \in jobs : Held(j) \subseteq spoilt'
    BY <2>1 DEF Restart
  <2>3. QED
    BY <1>2, <2>2, EndsFlags DEF Restart
<1>3. QED
  BY <1>1, <1>2
-----------------------------------------------------------------------------
LEMMA FlagsNext == IInv /\ FlagsInv /\ [Next]_vars => FlagsInv'
<1> SUFFICES ASSUME IInv, FlagsInv, [Next]_vars PROVE FlagsInv'
  OBVIOUS
<1>1. CASE UNCHANGED vars
  <2>1. \A b, d : Uses(b, d)' = Uses(b, d)
    BY <1>1 DEF vars, Uses, Live
  <2>2. Alone' /\ NotElsewhere' /\ Marks'
    BY <1>1, <2>1 DEF vars, env, store, FlagsInv, Alone, NotElsewhere, Marks, MarksOf, OwnsDocument, Live, Touched, On
  <2>3. OthersSettled'
    BY <1>1, <2>1 DEF vars, env, store, FlagsInv, OthersSettled, Settled, Held, On
  <2>4. QED
    BY <2>2, <2>3 DEF FlagsInv
<1>2. ASSUME NEW b \in Buildings, AskCreate(b) \/ AskUpdate(b) \/ AskDelete(b) PROVE FlagsInv'
  BY <1>2, AskFlags
<1>7. ASSUME NEW b \in Buildings, Regrouping(b) PROVE FlagsInv'
  BY <1>7, RegroupingIs, RegroupFlags DEF IInv
<1>3. ASSUME NEW b \in Buildings, NEW f \in Floors, NEW i \in Images, AskPlan(b, f, i) PROVE FlagsInv'
  BY <1>3, AskPlanFlags
<1>4. ASSUME NEW j \in jobs, BuildingStep(j) \/ PlanStep(j) PROVE FlagsInv'
  <2>1. UNCHANGED env
    BY <1>4 DEF BuildingStep, PlanStep, CreateOnPlatform, SetFlag, CreateDocument, FindBuilding, ClearFlag, UpdateOnPlatform,
           ReadGroups, UpdateDocument, DeleteDocument, WriteFile, AddImages, KeepImage, FindPlan, UpdateFloorplan, GetFilename, UnlinkFile, DeleteImages
  <2>2. QED
    BY SMTT(30), <1>4, <2>1, NotSerial, BuildingStepFlags, PlanStepFlags
<1>5. CASE Restart
  BY <1>5, RestartFlags
<1>6. QED
  BY <1>1, <1>2, <1>3, <1>4, <1>5, <1>7 DEF Next, Regrouping

LEMMA FlagsAlways == Spec => []FlagsInv
<1>1. Spec => []IInv
  BY InitInv, NextInv, PTL DEF Spec
<1>2. QED
  BY <1>1, FlagsInit, FlagsNext, PTL DEF Spec

LEMMA QuietSettled == ASSUME FlagsInv, Quiet PROVE \A d \in Devices \ spoilt : Settled(d)
BY DEF FlagsInv, OthersSettled, Quiet

\* Operations done one at a time leave usedForBuilding set on exactly the devices on the floors of
\* the buildings there are (createBuilding, updateBuilding and deleteBuilding, whose flags are
\* written one by one), except for the devices that an operation failing half way, a form that
\* placed a device already taken, or the operations on devices in general put out of order.
THEOREM FlagsAreExact == Spec => []FlagsExact
<1>1. FlagsInv => FlagsExact
  BY QuietSettled DEF FlagsExact, Settled
<1>2. QED
  BY <1>1, FlagsAlways, PTL

\* Forms that place what searchDevicesForBuilding still offers when they are submitted never put a
\* device in two buildings, with the same exceptions.
THEOREM InOneBuilding == Spec => []OneBuilding
<1>1. FlagsInv => OneBuilding
  BY QuietSettled DEF OneBuilding, Settled
<1>2. QED
  BY <1>1, FlagsAlways, PTL

-----------------------------------------------------------------------------
(* Sort values.                                                            *)

LEMMA LeastNumber ==
  ASSUME NEW S \in SUBSET Nat, S # {}
  PROVE  \E n \in S : \A m \in S : n <= m
<1> DEFINE R == {p \in Nat \X Nat : p[1] < p[2]}
<1>1. IsWellFoundedOn(R, Nat)
  BY NatLessThanWellFounded DEF OpToRel
<1>2. \A m, n \in Nat : m < n => <<m, n>> \in R
  OBVIOUS
<1> HIDE DEF R
<1>3. PICK n \in S : \A m \in S : <<m, n>> \notin R
  BY <1>1, WFMin
<1>4. \A m \in S : ~(m < n)
  BY <1>2, <1>3
<1>5. QED
  BY <1>4

LEMMA SeqFacts ==
  ASSUME NEW S, NEW s \in Seq(S)
  PROVE  /\ Len(s) \in Nat /\ DOMAIN s = 1..Len(s) /\ s \in [1..Len(s) -> S]
         /\ \A i \in 1..Len(s) : s[i] \in S
<1>1. Len(s) \in Nat /\ s \in [1..Len(s) -> S]
  BY LenProperties
<1>2. QED
  BY <1>1

LEMMA LessFacts ==
  ASSUME NEW k \in Keys, NEW l \in Keys, NEW m \in Keys
  PROVE  /\ ~Less(k, k)
         /\ Less(k, l) /\ Less(l, m) => Less(k, m)
         /\ k # l => Less(k, l) \/ Less(l, k)
<1> DEFINE n == Len(k)
<1>1. /\ n \in Nat /\ DOMAIN k = 1..n /\ DOMAIN l = 1..n /\ DOMAIN m = 1..n
      /\ Len(l) = n /\ k \in Seq(Nat) /\ l \in Seq(Nat)
      /\ \A i \in 1..n : k[i] \in Nat /\ l[i] \in Nat /\ m[i] \in Nat
  <2>1. /\ k \in Seq(Nat) /\ l \in Seq(Nat) /\ m \in Seq(Nat)
        /\ Len(k) = Len(l) /\ Len(k) = Len(m)
    BY KeysAssumption
  <2>2. /\ n \in Nat /\ DOMAIN k = 1..n /\ DOMAIN l = 1..n /\ DOMAIN m = 1..n
        /\ \A i \in 1..n : k[i] \in Nat /\ l[i] \in Nat /\ m[i] \in Nat
    BY <2>1, SeqFacts
  <2>3. QED
    BY <2>1, <2>2
<1> HIDE DEF n
<1>2. ~Less(k, k)
  BY <1>1 DEF Less
<1>3. ASSUME Less(k, l), Less(l, m) PROVE Less(k, m)
  <2>1. PICK i \in 1..n : k[i] < l[i] /\ \A j \in 1..(i - 1) : k[j] = l[j]
    BY <1>1, <1>3 DEF Less
  <2>2. PICK h \in 1..n : l[h] < m[h] /\ \A j \in 1..(h - 1) : l[j] = m[j]
    BY <1>1, <1>3 DEF Less
  <2> DEFINE f == IF i < h THEN i ELSE h
  <2>3. f \in 1..n /\ f <= i /\ f <= h /\ (f = i \/ f = h) /\ i \in Nat /\ h \in Nat
    BY <1>1
  <2>4. \A j \in 1..(f - 1) : k[j] = m[j]
    <3> HIDE DEF f
    <3>1. \A j \in 1..(f - 1) : j \in 1..(i - 1) /\ j \in 1..(h - 1)
      BY <1>1, <2>3
    <3>2. QED
      BY <2>1, <2>2, <3>1
  <2>5. k[f] < m[f]
    <3>1. CASE i < h
      <4>1. f = i /\ i \in 1..(h - 1)
        BY <1>1, <3>1
      <4>2. QED
        BY <2>1, <2>2, <4>1
    <3>2. CASE h < i
      <4>1. f = h /\ h \in 1..(i - 1)
        BY <1>1, <3>2
      <4>2. QED
        BY <2>1, <2>2, <4>1
    <3>3. CASE h = i
      BY <1>1, <2>1, <2>2, <3>3
    <3>4. QED
      BY <2>3, <3>1, <3>2, <3>3
  <2> HIDE DEF f
  <2>6. QED
    BY <1>1, <2>3, <2>4, <2>5 DEF Less
<1>4. ASSUME k # l PROVE Less(k, l) \/ Less(l, k)
  <2> DEFINE S == {i \in 1..n : k[i] # l[i]}
  <2>1. S # {}
    <3>1. \E i \in 1..n : k[i] # l[i]
      BY <1>1, <1>4, SeqEqual DEF n
    <3>2. QED
      BY <3>1
  <2>2. S \in SUBSET Nat
    BY <1>1
  <2>3. PICK i \in S : \A j \in S : i <= j
    BY <2>1, <2>2, LeastNumber
  <2>4. i \in 1..n /\ k[i] # l[i]
    BY <2>3
  <2>5. \A j \in 1..(i - 1) : k[j] = l[j]
    BY <1>1, <2>3, <2>4
  <2>6. k[i] < l[i] \/ l[i] < k[i]
    BY <1>1, <2>4
  <2>7. QED
    BY <1>1, <2>4, <2>5, <2>6 DEF Less
<1>5. QED
  BY <1>2, <1>3, <1>4

-----------------------------------------------------------------------------
(* Places in the order of a search.                                        *)

Orders == {"ASCENDING", "DESCENDING"}

\* Rules sorted by ID: the sort value plays no part.
ById == search = "rules" /\ field = "id"

Precedes(p, q) ==
  IF ById THEN IdAhead(order, p.id, q.id)
  ELSE Beyond(order, p.key, q.key) \/ (p.key = q.key /\ p.id < q.id)

Place(d) == [id |-> d, key |-> Key(d)]

PlacedDocs == [id : Docs, key : Keys]

LEMMA PrecedesOrder ==
  ASSUME order \in Orders, NEW p \in PlacedDocs, NEW q \in PlacedDocs, NEW r \in PlacedDocs
  PROVE  /\ ~Precedes(p, p)
         /\ Precedes(p, q) /\ Precedes(q, r) => Precedes(p, r)
         /\ p.id # q.id => Precedes(p, q) \/ Precedes(q, p)
<1>1. /\ p.id \in Nat /\ q.id \in Nat /\ r.id \in Nat
      /\ p.key \in Keys /\ q.key \in Keys /\ r.key \in Keys
  BY DocsAssumption DEF PlacedDocs
<1>2. CASE ById
  BY <1>1, <1>2 DEF Precedes, IdAhead, Orders
<1>3. CASE ~ById
  <2> DEFINE B(k, l) == Beyond(order, k, l)
  <2>1. \A k, l, m \in Keys : /\ ~B(k, k)
                              /\ B(k, l) /\ B(l, m) => B(k, m)
                              /\ k # l => B(k, l) \/ B(l, k)
    BY LessFacts DEF Beyond, Orders
  <2>2. \A u, v : Precedes(u, v) <=> B(u.key, v.key) \/ (u.key = v.key /\ u.id < v.id)
    BY <1>3 DEF Precedes
  <2> HIDE DEF B
  <2>3. ~Precedes(p, p)
    BY <1>1, <2>1, <2>2
  <2>4. Precedes(p, q) /\ Precedes(q, r) => Precedes(p, r)
    BY <1>1, <2>1, <2>2
  <2>5. p.id # q.id => Precedes(p, q) \/ Precedes(q, p)
    BY <1>1, <2>1, <2>2
  <2>6. QED
    BY <2>3, <2>4, <2>5
<1>4. QED
  BY <1>2, <1>3

LEMMA AheadPrecedes ==
  ASSUME NEW d, NEW e
  PROVE  Ahead(d, e) <=> Precedes(Place(d), Place(e))
BY DEF Ahead, Precedes, Place, ById

-----------------------------------------------------------------------------
(* Finite sets in order.                                                   *)

StrictOrder(D, R) ==
  /\ \A d \in D : <<d, d>> \notin R
  /\ \A d, e, f \in D : <<d, e>> \in R /\ <<e, f>> \in R => <<d, f>> \in R
  /\ \A d, e \in D : d # e => <<d, e>> \in R \/ <<e, d>> \in R

LEMMA InOrderFacts ==
  ASSUME NEW D, IsFiniteSet(D), NEW R, StrictOrder(D, R)
  PROVE  /\ Cardinality(D) \in Nat
         /\ InOrder(D, R) \in [1..Cardinality(D) -> D]
         /\ \A i, j \in 1..Cardinality(D) : <<InOrder(D, R)[i], InOrder(D, R)[j]>> \in R <=> i < j
         /\ \A d \in D : \E i \in 1..Cardinality(D) : InOrder(D, R)[i] = d
<1> DEFINE n == Cardinality(D)
           Below(d) == {e \in D : <<e, d>> \in R}
           rank == [d \in D |-> Cardinality(Below(d))]
           At1(k) == CHOOSE d \in D : Cardinality(Below(d)) = k - 1
           s == InOrder(D, R)
<1>1. n \in Nat
  BY FS_CardinalityType
<1>2. ASSUME NEW d \in D
      PROVE  IsFiniteSet(Below(d)) /\ rank[d] = Cardinality(Below(d)) /\ rank[d] \in 0..(n - 1)
  <2>1. Below(d) \in SUBSET D /\ d \notin Below(d)
    BY DEF StrictOrder
  <2>2. /\ IsFiniteSet(Below(d)) /\ Cardinality(Below(d)) <= n
        /\ n = Cardinality(Below(d)) => D = Below(d)
    BY <2>1, FS_Subset
  <2>3. Cardinality(Below(d)) \in Nat
    BY <2>2, FS_CardinalityType
  <2>4. rank[d] = Cardinality(Below(d))
    OBVIOUS
  <2> HIDE DEF Below, n, rank
  <2>5. QED
    BY <1>1, <2>1, <2>2, <2>3, <2>4
<1>3. ASSUME NEW d \in D, NEW e \in D, <<d, e>> \in R PROVE rank[d] < rank[e]
  <2>1. Below(d) \in SUBSET Below(e) /\ d \in Below(e) /\ d \notin Below(d)
    BY <1>3 DEF StrictOrder
  <2>2. Cardinality(Below(d)) <= Cardinality(Below(e))
        /\ (Cardinality(Below(e)) = Cardinality(Below(d)) => Below(e) = Below(d))
    BY <1>2, <2>1, FS_Subset
  <2>3. /\ Cardinality(Below(d)) = rank[d] /\ Cardinality(Below(e)) = rank[e]
        /\ rank[d] \in 0..(n - 1) /\ rank[e] \in 0..(n - 1)
    BY <1>2
  <2> HIDE DEF Below, rank, n
  <2>4. QED
    BY <1>1, <2>1, <2>2, <2>3
<1>4. \A d, e \in D : rank[d] = rank[e] => d = e
  <2>1. SUFFICES ASSUME NEW d \in D, NEW e \in D, rank[d] = rank[e], d # e PROVE FALSE
    OBVIOUS
  <2>2. rank[d] \in 0..(n - 1)
    BY <1>2
  <2> HIDE DEF rank, n
  <2>3. rank[d] < rank[e] \/ rank[e] < rank[d]
    BY <1>3, <2>1 DEF StrictOrder
  <2>4. QED
    BY <1>1, <2>1, <2>2, <2>3
<1>5. rank \in Injection(D, 0..(n - 1))
  <2>1. rank \in [D -> 0..(n - 1)]
    BY <1>2
  <2> HIDE DEF rank
  <2>2. QED
    BY <1>4, <2>1 DEF Injection, IsInjective
<1>6. IsFiniteSet(0..(n - 1)) /\ Cardinality(0..(n - 1)) = n
  <2> HIDE DEF n
  <2>1. 0 \in Int /\ n - 1 \in Int
    BY <1>1
  <2>2. Cardinality(0..(n - 1)) = IF 0 > n - 1 THEN 0 ELSE (n - 1) - 0 + 1
    BY <2>1, FS_Interval
  <2>3. QED
    BY <1>1, <2>1, <2>2, FS_Interval
<1>7. rank \in Surjection(D, 0..(n - 1))
  <2> HIDE DEF rank
  <2>1. QED
    BY <1>5, <1>6, FS_Injection
<1>8. ASSUME NEW k \in 1..n PROVE At1(k) \in D /\ rank[At1(k)] = k - 1
  <2>1. k - 1 \in 0..(n - 1)
    BY <1>1
  <2>2. \E d \in D : rank[d] = k - 1
    <3> HIDE DEF rank
    <3>1. QED
      BY <1>7, <2>1 DEF Surjection
  <2>3. \E d \in D : Cardinality(Below(d)) = k - 1
    BY <2>2
  <2>4. At1(k) \in D /\ Cardinality(Below(At1(k))) = k - 1
    <3> HIDE DEF Below, rank
    <3>1. QED
      BY <2>3
  <2> HIDE DEF At1
  <2>5. QED
    BY <1>2, <2>4
<1>9. s = [k \in 1..n |-> At1(k)]
  BY DEF InOrder
<1> HIDE DEF At1, Below, s
<1>10. s \in [1..n -> D] /\ \A k \in 1..n : rank[s[k]] = k - 1
  <2> HIDE DEF rank
  <2>1. QED
    BY <1>8, <1>9
<1>11. ASSUME NEW i \in 1..n, NEW j \in 1..n PROVE <<s[i], s[j]>> \in R <=> i < j
  <2>1. s[i] \in D /\ s[j] \in D /\ rank[s[i]] = i - 1 /\ rank[s[j]] = j - 1 /\ i \in Nat /\ j \in Nat
    <3> HIDE DEF n, rank
    <3>1. QED
      BY <1>1, <1>10
  <2>2. CASE i = j
    BY <2>1, <2>2 DEF StrictOrder
  <2>3. CASE i # j
    <3>1. s[i] # s[j]
      <4> HIDE DEF rank
      <4>1. QED
        BY <2>1, <2>3
    <3>2. <<s[i], s[j]>> \in R \/ <<s[j], s[i]>> \in R
      BY <2>1, <3>1 DEF StrictOrder
    <3>3. <<s[i], s[j]>> \in R => i - 1 < j - 1
      BY <1>3, <2>1
    <3>4. <<s[j], s[i]>> \in R => j - 1 < i - 1
      BY <1>3, <2>1
    <3>5. QED
      BY <2>1, <3>2, <3>3, <3>4
  <2>4. QED
    BY <2>2, <2>3
<1>12. ASSUME NEW d \in D PROVE \E i \in 1..n : s[i] = d
  <2> DEFINE k == rank[d] + 1
  <2>1. k \in 1..n /\ k - 1 = rank[d]
    BY <1>1, <1>2
  <2> HIDE DEF rank, k
  <2>2. s[k] \in D /\ rank[s[k]] = rank[d]
    BY <1>10, <2>1
  <2>3. s[k] = d
    BY <1>4, <2>2
  <2>4. QED
    BY <2>1, <2>3
<1>13. QED
  BY <1>1, <1>10, <1>11, <1>12 DEF s

\* There is one way to put a set in order.
LEMMA OnlyOrder ==
  ASSUME NEW D, IsFiniteSet(D), NEW R, StrictOrder(D, R),
         NEW t \in [1..Cardinality(D) -> D],
         \A i, j \in 1..Cardinality(D) : i < j => <<t[i], t[j]>> \in R
  PROVE  t = InOrder(D, R)
<1> DEFINE n == Cardinality(D)
           s == InOrder(D, R)
<1>1. /\ n \in Nat /\ s \in [1..n -> D]
      /\ \A i, j \in 1..n : <<s[i], s[j]>> \in R <=> i < j
      /\ \A d \in D : \E i \in 1..n : s[i] = d
  BY InOrderFacts
<1> HIDE DEF n, s
<1>2. t \in [1..n -> D] /\ \A i, j \in 1..n : i < j => <<t[i], t[j]>> \in R
  BY DEF n
<1>3. \A i, j \in 1..n : t[i] = t[j] => i = j
  <2>1. \A i, j \in 1..n : i # j => i < j \/ j < i
    BY <1>1
  <2>2. QED
    BY <1>2, <2>1 DEF StrictOrder
<1>4. IsFiniteSet(1..n) /\ Cardinality(1..n) = n
  <2>1. Cardinality(1..n) = IF 1 > n THEN 0 ELSE n - 1 + 1
    BY <1>1, FS_Interval
  <2>2. QED
    BY <1>1, <2>1, FS_Interval
<1>5. t \in Surjection(1..n, D)
  <2>1. t \in Injection(1..n, D)
    BY <1>2, <1>3 DEF Injection, IsInjective
  <2>2. QED
    BY <1>4, <2>1, FS_Injection DEF n
<1>6. \A i, j \in 1..n : <<t[i], t[j]>> \in R <=> i < j
  <2>1. \A i, j \in 1..n : i < j \/ i = j \/ j < i
    BY <1>1
  <2>2. QED
    BY <1>2, <2>1 DEF StrictOrder
\* The first place where the two differ.
<1>7. SUFFICES ASSUME t # s PROVE FALSE
  BY DEF s
<1> DEFINE S == {i \in 1..n : t[i] # s[i]}
<1>8. S # {} /\ S \in SUBSET Nat
  <2>1. \E i \in 1..n : t[i] # s[i]
    <3>1. s = [i \in 1..n |-> s[i]] /\ t = [i \in 1..n |-> t[i]]
      BY <1>1, <1>2
    <3>2. (\A i \in 1..n : t[i] = s[i]) => [i \in 1..n |-> s[i]] = [i \in 1..n |-> t[i]]
      OBVIOUS
    <3>3. QED
      BY <1>7, <3>1, <3>2
  <2>2. QED
    BY <1>1, <2>1
<1>9. PICK i \in S : \A j \in S : i <= j
  BY <1>8, LeastNumber
<1>10. i \in 1..n /\ t[i] # s[i] /\ \A j \in 1..n : j < i => t[j] = s[j]
  BY <1>1, <1>9
<1> HIDE DEF S
<1>11. PICK h \in 1..n : t[h] = s[i]
  BY <1>1, <1>5, <1>10 DEF Surjection
<1>12. PICK g \in 1..n : s[g] = t[i]
  BY <1>1, <1>2, <1>10
<1>13. h > i /\ g > i
  <2>1. h # i /\ g # i /\ h \in Nat /\ g \in Nat /\ i \in Nat
    BY <1>1, <1>10, <1>11, <1>12
  <2>2. ~(h < i)
    <3>1. SUFFICES ASSUME h < i PROVE FALSE
      OBVIOUS
    <3>2. s[h] = s[i]
      BY <1>10, <1>11, <3>1
    <3>3. QED
      BY <1>1, <1>10, <1>11, <2>1, <3>1, <3>2 DEF StrictOrder
  <2>3. ~(g < i)
    <3>1. SUFFICES ASSUME g < i PROVE FALSE
      OBVIOUS
    <3>2. t[g] = t[i]
      BY <1>10, <1>12, <3>1
    <3>3. QED
      BY <1>3, <1>10, <2>1, <3>1, <3>2
  <2>4. QED
    BY <2>1, <2>2, <2>3
<1>14. <<s[i], s[g]>> \in R /\ <<t[i], t[h]>> \in R
  BY <1>1, <1>6, <1>10, <1>11, <1>12, <1>13
<1>15. s[i] \in D /\ t[i] \in D /\ <<s[i], t[i]>> \in R /\ <<t[i], s[i]>> \in R
  BY <1>1, <1>2, <1>10, <1>11, <1>12, <1>14
<1>16. QED
  BY <1>15 DEF StrictOrder

-----------------------------------------------------------------------------
(* Queries.                                                                *)

LEMMA FirstFacts ==
  ASSUME NEW S, NEW s \in Seq(S), NEW n \in Nat
  PROVE  LET m == IF n < Len(s) THEN n ELSE Len(s)
         IN  /\ FirstOf(n, s) \in Seq(S) /\ Len(FirstOf(n, s)) = m
             /\ \A i \in 1..m : FirstOf(n, s)[i] = s[i]
<1> DEFINE m == IF n < Len(s) THEN n ELSE Len(s)
<1>1. Len(s) \in Nat /\ m \in 0..Len(s) /\ \A i \in 1..Len(s) : s[i] \in S
  BY SeqFacts
<1> HIDE DEF m
<1>2. /\ SubSeq(s, 1, m) \in Seq(S) /\ Len(SubSeq(s, 1, m)) = m
      /\ \A i \in 1..m : SubSeq(s, 1, m)[i] = s[i]
  <2>1. \A i \in 1..m : s[i] \in S
    BY <1>1
  <2>2. 1 \in Int /\ m \in Int /\ (IF 1 <= m THEN m - 1 + 1 ELSE 0) = m
    BY <1>1
  <2>3. SubSeq(s, 1, m) = [i \in 1..(1 + m - 1) |-> s[i + 1 - 1]]
    BY <1>1
  <2>4. 1..(1 + m - 1) = 1..m /\ \A i \in 1..m : i + 1 - 1 = i
    BY <1>1
  <2>5. SubSeq(s, 1, m) = [i \in 1..m |-> s[i]]
    BY <2>3, <2>4
  <2>6. SubSeq(s, 1, m) \in [1..m -> S]
    BY <2>1, <2>5
  <2>7. QED
    BY <1>1, <2>5, <2>6, SeqDef
<1>3. QED
  BY <1>2 DEF FirstOf, m

SearchOK ==
  /\ order \in Orders /\ size \in Nat \ {0}
  /\ DOMAIN rows \subseteq Docs
  /\ \A d \in DOMAIN rows : rows[d].key \in Keys /\ rows[d].listed \in BOOLEAN

LEMMA ListedFacts ==
  ASSUME SearchOK
  PROVE  /\ Listed \subseteq Docs /\ IsFiniteSet(Listed)
         /\ \A d \in DOMAIN rows : Place(d) \in PlacedDocs /\ d \in Nat \ {0}
         /\ \A D \in SUBSET Listed : IsFiniteSet(D)
<1>1. Listed \subseteq Docs /\ \A d \in DOMAIN rows : Place(d) \in PlacedDocs /\ d \in Nat \ {0}
  BY DocsAssumption DEF SearchOK, Listed, Place, PlacedDocs, Key
<1>2. QED
  BY <1>1, FS_Subset, DocsAssumption

\* How a query sorts.
SortedBy(ord, down, d, e) ==
  \/ Beyond(ord, Key(d), Key(e))
  \/ Key(d) = Key(e) /\ IF down THEN d > e ELSE d < e

LEMMA SortedStrict ==
  ASSUME SearchOK, NEW ord \in Orders, NEW down \in BOOLEAN, NEW D \in SUBSET Listed
  PROVE  StrictOrder(D, {p \in D \X D : SortedBy(ord, down, p[1], p[2])})
<1> DEFINE B(k, l) == Beyond(ord, k, l)
           S(d, e) == SortedBy(ord, down, d, e)
<1>1. \A k, l, m \in Keys : /\ ~B(k, k)
                            /\ B(k, l) /\ B(l, m) => B(k, m)
                            /\ k # l => B(k, l) \/ B(l, k)
  BY LessFacts DEF Beyond, Orders
<1>2. \A d, e : S(d, e) <=> B(Key(d), Key(e)) \/ (Key(d) = Key(e) /\ IF down THEN d > e ELSE d < e)
  BY DEF SortedBy
<1>3. \A d \in D : Key(d) \in Keys /\ d \in Nat
  BY ListedFacts DEF Listed, Place, PlacedDocs
<1> HIDE DEF B, S
<1>4. \A d \in D : ~S(d, d)
  BY <1>1, <1>2, <1>3
<1>5. \A d, e, f \in D : S(d, e) /\ S(e, f) => S(d, f)
  <2>1. SUFFICES ASSUME NEW d \in D, NEW e \in D, NEW f \in D, S(d, e), S(e, f) PROVE S(d, f)
    OBVIOUS
  <2>2. CASE Key(d) = Key(e) /\ Key(e) = Key(f)
    BY <1>1, <1>2, <1>3, <2>1, <2>2
  <2>3. CASE ~(Key(d) = Key(e) /\ Key(e) = Key(f))
    <3>1. B(Key(d), Key(f))
      BY <1>1, <1>2, <1>3, <2>1, <2>3
    <3>2. QED
      BY <1>2, <3>1
  <2>4. QED
    BY <2>2, <2>3
<1>6. \A d, e \in D : d # e => S(d, e) \/ S(e, d)
  BY <1>1, <1>2, <1>3
<1>7. \A d, e \in D : <<d, e>> \in {p \in D \X D : S(p[1], p[2])} <=> S(d, e)
  OBVIOUS
<1>8. StrictOrder(D, {p \in D \X D : S(p[1], p[2])})
  BY <1>4, <1>5, <1>6, <1>7 DEF StrictOrder
<1>9. QED
  BY <1>8 DEF S

\* The documents of D from the first to the last, and back.
Onward(D) == InOrder(D, {p \in D \X D : Ahead(p[1], p[2])})
Backward(D) == InOrder(D, {p \in D \X D : Ahead(p[2], p[1])})

LEMMA AheadFacts ==
  ASSUME SearchOK, NEW D \in SUBSET Listed
  PROVE  /\ StrictOrder(D, {p \in D \X D : Ahead(p[1], p[2])})
         /\ StrictOrder(D, {p \in D \X D : Ahead(p[2], p[1])})
<1>1. \A d \in D : Place(d) \in PlacedDocs /\ Place(d).id = d
  BY ListedFacts DEF Listed, Place
<1>2. \A d, e, f \in D : /\ ~Ahead(d, d)
                         /\ Ahead(d, e) /\ Ahead(e, f) => Ahead(d, f)
                         /\ d # e => Ahead(d, e) \/ Ahead(e, d)
  BY <1>1, PrecedesOrder, AheadPrecedes DEF SearchOK
<1>3. \A d, e \in D : /\ <<d, e>> \in {p \in D \X D : Ahead(p[1], p[2])} <=> Ahead(d, e)
                      /\ <<d, e>> \in {p \in D \X D : Ahead(p[2], p[1])} <=> Ahead(e, d)
  OBVIOUS
<1>4. QED
  BY <1>2, <1>3 DEF StrictOrder

LEMMA OrderedFacts ==
  ASSUME SearchOK, NEW D \in SUBSET Listed
  PROVE  LET n == Cardinality(D)
         IN  /\ n \in Nat
             /\ Onward(D) \in [1..n -> D] /\ Onward(D) \in Seq(D) /\ Len(Onward(D)) = n
             /\ \A i, j \in 1..n : Ahead(Onward(D)[i], Onward(D)[j]) <=> i < j
             /\ \A d \in D : \E i \in 1..n : Onward(D)[i] = d
             /\ Backward(D) \in [1..n -> D] /\ Backward(D) \in Seq(D) /\ Len(Backward(D)) = n
             /\ \A i, j \in 1..n : Ahead(Backward(D)[j], Backward(D)[i]) <=> i < j
             /\ \A d \in D : \E i \in 1..n : Backward(D)[i] = d
<1> DEFINE n == Cardinality(D)
           R == {p \in D \X D : Ahead(p[1], p[2])}
           Q == {p \in D \X D : Ahead(p[2], p[1])}
<1>1. IsFiniteSet(D)
  BY ListedFacts
<1>2. StrictOrder(D, R) /\ StrictOrder(D, Q)
  BY AheadFacts
<1>3. \A d, e \in D : (<<d, e>> \in R <=> Ahead(d, e)) /\ (<<d, e>> \in Q <=> Ahead(e, d))
  OBVIOUS
<1>4. Onward(D) = InOrder(D, R) /\ Backward(D) = InOrder(D, Q)
  BY DEF Onward, Backward
<1> HIDE DEF R, Q
<1>5. /\ n \in Nat /\ Onward(D) \in [1..n -> D]
      /\ \A i, j \in 1..n : <<Onward(D)[i], Onward(D)[j]>> \in R <=> i < j
      /\ \A d \in D : \E i \in 1..n : Onward(D)[i] = d
  BY <1>1, <1>2, <1>4, InOrderFacts
<1>6. /\ Backward(D) \in [1..n -> D]
      /\ \A i, j \in 1..n : <<Backward(D)[i], Backward(D)[j]>> \in Q <=> i < j
      /\ \A d \in D : \E i \in 1..n : Backward(D)[i] = d
  BY <1>1, <1>2, <1>4, InOrderFacts
<1> HIDE DEF n
<1>7. /\ Onward(D) \in Seq(D) /\ Len(Onward(D)) = n
      /\ Backward(D) \in Seq(D) /\ Len(Backward(D)) = n
  BY <1>5, <1>6, SeqDef, LenProperties
<1>8. \A i, j \in 1..n : Ahead(Onward(D)[i], Onward(D)[j]) <=> i < j
  BY <1>3, <1>5
<1>9. \A i, j \in 1..n : Ahead(Backward(D)[j], Backward(D)[i]) <=> i < j
  BY <1>3, <1>6
<1>10. QED
  BY <1>5, <1>6, <1>7, <1>8, <1>9 DEF n

LEMMA WiderSeq ==
  ASSUME NEW S, NEW T, S \subseteq T, NEW s \in Seq(S)
  PROVE  s \in Seq(T)
<1>1. Len(s) \in Nat /\ s \in [1..Len(s) -> S]
  BY LenProperties
<1>2. s \in [1..Len(s) -> T]
  BY <1>1
<1>3. QED
  BY <1>1, <1>2, SeqDef

LEMMA BackwardReverses ==
  ASSUME SearchOK, NEW D \in SUBSET Listed
  PROVE  \A i \in 1..Cardinality(D) : Backward(D)[i] = Onward(D)[Cardinality(D) + 1 - i]
<1> DEFINE n == Cardinality(D)
           Q == {p \in D \X D : Ahead(p[2], p[1])}
           t == [i \in 1..n |-> Onward(D)[n + 1 - i]]
<1>1. IsFiniteSet(D) /\ StrictOrder(D, Q)
  BY ListedFacts, AheadFacts
<1>2. /\ n \in Nat /\ Onward(D) \in [1..n -> D]
      /\ \A i, j \in 1..n : Ahead(Onward(D)[i], Onward(D)[j]) <=> i < j
  BY OrderedFacts
<1>3. \A d, e \in D : <<d, e>> \in Q <=> Ahead(e, d)
  OBVIOUS
<1>4. Backward(D) = InOrder(D, Q)
  BY DEF Backward
<1> HIDE DEF Q, n
<1>5. \A i \in 1..n : n + 1 - i \in 1..n
  BY <1>2
<1>6. t \in [1..n -> D] /\ \A i \in 1..n : t[i] = Onward(D)[n + 1 - i]
  BY <1>2, <1>5
<1> HIDE DEF t
<1>7. ASSUME NEW i \in 1..n, NEW j \in 1..n, i < j PROVE <<t[i], t[j]>> \in Q
  <2>1. n + 1 - j < n + 1 - i
    BY <1>2, <1>7
  <2>2. QED
    BY <1>2, <1>3, <1>5, <1>6, <2>1
<1>8. t = InOrder(D, Q)
  BY <1>1, <1>6, <1>7, OnlyOrder DEF n
<1>9. QED
  BY <1>4, <1>6, <1>8 DEF n

\* The documents listed after a place, and before it.
AfterPlace(p) == {d \in Listed : p.id = NoDoc \/ Precedes(p, Place(d))}
BeforePlace(p) == {d \in Listed : p.id = NoDoc \/ Precedes(Place(d), p)}

\* What a query for one document more than a page returns, from a place in either direction.
IsQuery(edges, reversed, p) ==
  /\ edges \in Seq(Listed)
  /\ LET D == IF reversed THEN BeforePlace(p) ELSE AfterPlace(p)
     IN  Len(edges) = IF size + 1 < Cardinality(D) THEN size + 1 ELSE Cardinality(D)
  /\ ~reversed => edges = FirstOf(size + 1, Onward(AfterPlace(p)))
  /\ reversed /\ Reversible => edges = FirstOf(size + 1, Backward(BeforePlace(p)))

LEMMA ForwardTop ==
  ASSUME ~ById, NEW D, NEW n
  PROVE  Top(D, order, FALSE, n) = FirstOf(n, Onward(D))
<1>1. \A p \in D \X D : SortedBy(order, FALSE, p[1], p[2]) <=> Ahead(p[1], p[2])
  BY DEF SortedBy, Ahead, ById
<1>2. {p \in D \X D : SortedBy(order, FALSE, p[1], p[2])} = {p \in D \X D : Ahead(p[1], p[2])}
  BY <1>1
<1>3. Top(D, order, FALSE, n) = FirstOf(n, InOrder(D, {p \in D \X D : SortedBy(order, FALSE, p[1], p[2])}))
  BY DEF Top, SortedBy
<1>4. QED
  BY <1>2, <1>3 DEF Onward

LEMMA BackwardTop ==
  ASSUME SearchOK, ~ById, NEW D \in SUBSET Listed, NEW n, NEW down \in BOOLEAN,
         down \/ \A d, e \in Listed : Key(d) = Key(e) => d = e
  PROVE  Top(D, Opposite(order), down, n) = FirstOf(n, Backward(D))
<1>1. ASSUME NEW p \in D \X D PROVE SortedBy(Opposite(order), down, p[1], p[2]) <=> Ahead(p[2], p[1])
  <2> DEFINE d == p[1] e == p[2]
  <2>1. d \in Listed /\ e \in Listed /\ d \in Nat /\ e \in Nat
    BY ListedFacts, DocsAssumption
  <2>2. Beyond(Opposite(order), Key(d), Key(e)) <=> Beyond(order, Key(e), Key(d))
    BY DEF SearchOK, Orders, Opposite, Beyond
  <2> HIDE DEF d, e
  <2>3. (Key(d) = Key(e) /\ IF down THEN d > e ELSE d < e) <=> (Key(e) = Key(d) /\ e < d)
    BY <2>1
  <2>4. SortedBy(Opposite(order), down, d, e) <=> Ahead(e, d)
    BY <2>2, <2>3 DEF SortedBy, Ahead, ById
  <2>5. QED
    BY <2>4 DEF d, e
<1>2. {p \in D \X D : SortedBy(Opposite(order), down, p[1], p[2])} = {p \in D \X D : Ahead(p[2], p[1])}
  BY <1>1
<1>3. Top(D, Opposite(order), down, n) = FirstOf(n, InOrder(D, {p \in D \X D : SortedBy(Opposite(order), down, p[1], p[2])}))
  BY DEF Top, SortedBy
<1>4. QED
  BY <1>2, <1>3 DEF Backward

LEMMA TopFacts ==
  ASSUME SearchOK, NEW D \in SUBSET Listed, NEW n \in Nat, NEW down \in BOOLEAN, NEW ord \in Orders
  PROVE  /\ Top(D, ord, down, n) \in Seq(D) /\ Cardinality(D) \in Nat
         /\ Len(Top(D, ord, down, n)) = IF n < Cardinality(D) THEN n ELSE Cardinality(D)
<1> DEFINE R == {p \in D \X D : SortedBy(ord, down, p[1], p[2])}
<1>1. IsFiniteSet(D) /\ StrictOrder(D, R)
  BY ListedFacts, SortedStrict
<1>2. Top(D, ord, down, n) = FirstOf(n, InOrder(D, R))
  BY DEF Top, SortedBy
<1> HIDE DEF R
<1>3. Cardinality(D) \in Nat /\ InOrder(D, R) \in [1..Cardinality(D) -> D]
  BY <1>1, InOrderFacts
<1>4. InOrder(D, R) \in Seq(D) /\ Len(InOrder(D, R)) = Cardinality(D)
  BY <1>3, SeqDef, LenProperties
<1>5. QED
  BY <1>2, <1>3, <1>4, FirstFacts

\* Searches by sort value, going back with or without the _id.
LEMMA KeyQuery ==
  ASSUME SearchOK, ~ById, NEW last, NEW reversed \in BOOLEAN, NEW down \in BOOLEAN,
         reversed /\ Reversible => down \/ \A d, e \in Listed : Key(d) = Key(e) => d = e,
         ~reversed => ~down
  PROVE  IsQuery(Top(PageCondition(Direction(reversed), reversed, last), Direction(reversed), down, size + 1),
                 reversed, last)
<1>1. CASE ~reversed
  <2>1. PageCondition(Direction(reversed), reversed, last) = AfterPlace(last) /\ Direction(reversed) = order
    <3>1. Direction(reversed) = order
      BY <1>1 DEF Direction
    <3>2. ASSUME NEW d \in Listed
          PROVE  (last.id = NoDoc \/ Beyond(order, last.key, Key(d)) \/ (Key(d) = last.key /\ IdBeyond(reversed, d, last)))
                 <=> (last.id = NoDoc \/ Precedes(last, Place(d)))
      BY <1>1 DEF Precedes, Place, IdBeyond
    <3>3. QED
      BY <3>1, <3>2 DEF PageCondition, AfterPlace
  <2>2. AfterPlace(last) \in SUBSET Listed /\ size + 1 \in Nat /\ order \in Orders
    BY DEF AfterPlace, SearchOK
  <2>3. Top(AfterPlace(last), order, FALSE, size + 1) = FirstOf(size + 1, Onward(AfterPlace(last)))
    BY ForwardTop
  <2>4. /\ Top(AfterPlace(last), order, FALSE, size + 1) \in Seq(AfterPlace(last))
        /\ Len(Top(AfterPlace(last), order, FALSE, size + 1))
             = IF size + 1 < Cardinality(AfterPlace(last)) THEN size + 1 ELSE Cardinality(AfterPlace(last))
    BY <2>2, TopFacts
  <2>5. Top(AfterPlace(last), order, FALSE, size + 1) \in Seq(Listed)
    BY <2>2, <2>4, WiderSeq
  <2>6. down = FALSE
    BY <1>1
  <2>7. QED
    BY <1>1, <2>1, <2>3, <2>4, <2>5, <2>6 DEF IsQuery
<1>2. CASE reversed
  <2>1. PageCondition(Direction(reversed), reversed, last) = BeforePlace(last) /\ Direction(reversed) = Opposite(order)
    <3>1. Direction(reversed) = Opposite(order)
      BY <1>2 DEF Direction
    <3>2. ASSUME NEW d \in Listed
          PROVE  (last.id = NoDoc \/ Beyond(Opposite(order), last.key, Key(d)) \/ (Key(d) = last.key /\ IdBeyond(reversed, d, last)))
                 <=> (last.id = NoDoc \/ Precedes(Place(d), last))
      <4>1. Beyond(Opposite(order), last.key, Key(d)) <=> Beyond(order, Key(d), last.key)
        BY DEF SearchOK, Orders, Opposite, Beyond
      <4>2. QED
        BY <1>2, <4>1 DEF Precedes, Place, IdBeyond
    <3>3. QED
      BY <3>1, <3>2 DEF PageCondition, BeforePlace
  <2>2. BeforePlace(last) \in SUBSET Listed /\ size + 1 \in Nat /\ Opposite(order) \in Orders
    BY DEF BeforePlace, SearchOK, Opposite, Orders
  <2>3. Reversible => Top(BeforePlace(last), Opposite(order), down, size + 1) = FirstOf(size + 1, Backward(BeforePlace(last)))
    BY <1>2, <2>2, BackwardTop
  <2>4. /\ Top(BeforePlace(last), Opposite(order), down, size + 1) \in Seq(BeforePlace(last))
        /\ Len(Top(BeforePlace(last), Opposite(order), down, size + 1))
             = IF size + 1 < Cardinality(BeforePlace(last)) THEN size + 1 ELSE Cardinality(BeforePlace(last))
    BY <2>2, TopFacts
  <2>5. Top(BeforePlace(last), Opposite(order), down, size + 1) \in Seq(Listed)
    BY <2>2, <2>4, WiderSeq
  <2>6. QED
    BY <1>2, <2>1, <2>3, <2>4, <2>5 DEF IsQuery
<1>3. QED
  BY <1>1, <1>2

LEMMA IdQuery ==
  ASSUME SearchOK, ById, NEW last, NEW reversed \in BOOLEAN
  PROVE  IsQuery(MongoQueryForRules(reversed, last), reversed, last)
<1> DEFINE ord == Direction(reversed)
           D == RuleCondition(ord, reversed, last)
           R == {p \in D \X D : IdAhead(ord, p[1], p[2])}
<1>1. MongoQueryForRules(reversed, last) = FirstOf(size + 1, InOrder(D, R))
  BY DEF MongoQueryForRules, ById
<1>2. \A d, e \in Nat : IdAhead(Opposite(order), d, e) <=> IdAhead(order, e, d)
  BY DEF SearchOK, Orders, Opposite, IdAhead
<1>3. D = {d \in Listed : last.id = NoDoc \/ IdAhead(ord, last.id, d)}
  BY DEF RuleCondition, ById
<1>4. D = IF reversed THEN BeforePlace(last) ELSE AfterPlace(last)
  <2>1. ASSUME reversed, NEW d PROVE IdAhead(ord, last.id, d) <=> Precedes(Place(d), last)
    <3>1. ord = Opposite(order)
      BY <2>1 DEF Direction
    <3>2. IdAhead(Opposite(order), last.id, d) <=> IdAhead(order, d, last.id)
      BY DEF SearchOK, Orders, Opposite, IdAhead
    <3>3. QED
      BY <3>1, <3>2 DEF Precedes, Place
  <2>2. ASSUME ~reversed, NEW d PROVE IdAhead(ord, last.id, d) <=> Precedes(last, Place(d))
    BY <2>2 DEF Direction, Precedes, Place
  <2> HIDE DEF ord, D
  <2>3. CASE reversed
    BY <1>3, <2>1, <2>3 DEF BeforePlace
  <2>4. CASE ~reversed
    BY <1>3, <2>2, <2>4 DEF AfterPlace
  <2>5. QED
    BY <2>3, <2>4
<1>5. D \in SUBSET Listed
  BY <1>3
<1>6. R = IF reversed THEN {p \in D \X D : Ahead(p[2], p[1])} ELSE {p \in D \X D : Ahead(p[1], p[2])}
  <2>1. \A d \in D : d \in Nat
    BY <1>5, ListedFacts, DocsAssumption
  <2>2. \A d, e \in D : IdAhead(ord, d, e) <=> IF reversed THEN Ahead(e, d) ELSE Ahead(d, e)
    <3>1. CASE reversed
      <4>1. ord = Opposite(order)
        BY <3>1 DEF Direction
      <4>2. QED
        BY <1>2, <2>1, <3>1, <4>1 DEF Ahead, ById
    <3>2. CASE ~reversed
      BY <3>2 DEF Ahead, ById, Direction
    <3>3. QED
      BY <3>1, <3>2
  <2> HIDE DEF ord, D
  <2>3. \A p \in D \X D : IdAhead(ord, p[1], p[2]) <=> IF reversed THEN Ahead(p[2], p[1]) ELSE Ahead(p[1], p[2])
    BY <2>2
  <2>4. QED
    BY <2>3
<1> HIDE DEF R, D
<1>7. InOrder(D, R) = IF reversed THEN Backward(D) ELSE Onward(D)
  BY <1>6 DEF Backward, Onward
<1>8. InOrder(D, R) \in Seq(D) /\ Len(InOrder(D, R)) = Cardinality(D) /\ Cardinality(D) \in Nat
  BY <1>5, <1>7, OrderedFacts
<1>9. /\ FirstOf(size + 1, InOrder(D, R)) \in Seq(D)
      /\ Len(FirstOf(size + 1, InOrder(D, R))) = IF size + 1 < Cardinality(D) THEN size + 1 ELSE Cardinality(D)
  BY <1>8, FirstFacts DEF SearchOK
<1>10. FirstOf(size + 1, InOrder(D, R)) \in Seq(Listed)
  BY <1>5, <1>9, WiderSeq
<1>11. QED
  BY <1>1, <1>4, <1>7, <1>9, <1>10 DEF IsQuery

LEMMA QueryFacts ==
  ASSUME SearchOK, Continues, NEW last, NEW reversed \in BOOLEAN
  PROVE  /\ search \in {"devices", "buildingDevices"} => IsQuery(MongoQueryForDevices(reversed, last), reversed, last)
         /\ search = "rules" => IsQuery(MongoQueryForRules(reversed, last), reversed, last)
         /\ search = "subscriptions" => IsQuery(MongoQueryForSubscriptions(reversed, last), reversed, last)
         /\ search = "auditLogs" => IsQuery(MongoQueryForAuditLogs(reversed, last), reversed, last)
         /\ search = "users" => IsQuery(MongoQueryForUsers(reversed, last), reversed, last)
         /\ search = "cameraEvents" => IsQuery(ElasticsearchQueryForCameraEvents(reversed, last), reversed, last)
<1>1. search \in {"devices", "buildingDevices"} => IsQuery(MongoQueryForDevices(reversed, last), reversed, last)
  BY KeyQuery DEF MongoQueryForDevices, Continues, Reversible, ById
<1>2. search = "rules" => IsQuery(MongoQueryForRules(reversed, last), reversed, last)
  <2>1. CASE ById
    BY <2>1, IdQuery
  <2>2. CASE ~ById
    BY <2>2, KeyQuery DEF MongoQueryForRules, RuleCondition, Reversible, ById
  <2>3. QED
    BY <2>1, <2>2
<1>3. search = "subscriptions" => IsQuery(MongoQueryForSubscriptions(reversed, last), reversed, last)
  <2>1. SUFFICES ASSUME search = "subscriptions" PROVE IsQuery(MongoQueryForSubscriptions(reversed, last), reversed, last)
    OBVIOUS
  <2>2. field # "name" /\ ~ById
    BY <2>1 DEF Continues, ById
  <2>3. SubscriptionCondition(Direction(reversed), reversed, last) = PageCondition(Direction(reversed), reversed, last)
    BY <2>2 DEF SubscriptionCondition
  <2>4. QED
    BY <2>2, <2>3, KeyQuery DEF MongoQueryForSubscriptions
<1>4. search = "auditLogs" => IsQuery(MongoQueryForAuditLogs(reversed, last), reversed, last)
  BY KeyQuery DEF MongoQueryForAuditLogs, AuditLogCondition, ById
<1>5. search = "users" => IsQuery(MongoQueryForUsers(reversed, last), reversed, last)
  BY KeyQuery DEF MongoQueryForUsers, Reversible, ById
<1>6. search = "cameraEvents" => IsQuery(ElasticsearchQueryForCameraEvents(reversed, last), reversed, last)
  BY KeyQuery DEF ElasticsearchQueryForCameraEvents, ById
<1>7. QED
  BY <1>1, <1>2, <1>3, <1>4, <1>5, <1>6

-----------------------------------------------------------------------------
(* Pages.                                                                  *)

\* A place to continue from: none, for the first page, or that of a document.
PlaceOK(p) == p.id = NoDoc \/ p \in PlacedDocs

LEMMA PlaceClosed ==
  ASSUME SearchOK, NEW p, PlaceOK(p)
  PROVE  /\ AfterPlace(p) \in SUBSET Listed /\ BeforePlace(p) \in SUBSET Listed
         /\ \A d \in AfterPlace(p), e \in Listed : Ahead(d, e) => e \in AfterPlace(p)
         /\ \A d \in BeforePlace(p), e \in Listed : Ahead(e, d) => e \in BeforePlace(p)
<1>1. AfterPlace(p) \in SUBSET Listed /\ BeforePlace(p) \in SUBSET Listed
  BY DEF AfterPlace, BeforePlace
<1>2. CASE p.id = NoDoc
  BY <1>1, <1>2 DEF AfterPlace, BeforePlace
<1>3. CASE p \in PlacedDocs
  <2>1. \A d \in Listed : Place(d) \in PlacedDocs
    BY ListedFacts DEF Listed
  <2>2. \A d, e \in Listed : Ahead(d, e) <=> Precedes(Place(d), Place(e))
    BY AheadPrecedes
  <2>3. ASSUME NEW d \in AfterPlace(p), NEW e \in Listed, Ahead(d, e) PROVE e \in AfterPlace(p)
    BY <1>3, <2>1, <2>2, <2>3, PrecedesOrder DEF AfterPlace, SearchOK
  <2>4. ASSUME NEW d \in BeforePlace(p), NEW e \in Listed, Ahead(e, d) PROVE e \in BeforePlace(p)
    BY <1>3, <2>1, <2>2, <2>4, PrecedesOrder DEF BeforePlace, SearchOK
  <2>5. QED
    BY <1>1, <2>3, <2>4
<1>4. QED
  BY <1>2, <1>3 DEF PlaceOK

\* The first page of documents in order.
LEMMA OnwardPage ==
  ASSUME SearchOK, NEW D \in SUBSET Listed, NEW page, page = FirstOf(size, Onward(D))
  PROVE  LET m == IF size < Cardinality(D) THEN size ELSE Cardinality(D)
         IN  /\ page \in Seq(D) /\ Len(page) = m /\ m \in 0..size /\ Cardinality(D) \in Nat
             /\ \A i \in 1..m : page[i] = Onward(D)[i]
             /\ ToSet(page) \subseteq D /\ (page = <<>> <=> D = {})
             /\ m = Cardinality(D) => ToSet(page) = D
             /\ page # <<>> =>
                  /\ Last(page) \in D /\ Head(page) \in D
                  /\ \A d \in D : d \in ToSet(page) <=> ~Ahead(Last(page), d)
                  /\ Cardinality(D) > size <=> \E d \in D : Ahead(Last(page), d)
<1> DEFINE n == Cardinality(D)
           m == IF size < n THEN size ELSE n
           s == Onward(D)
<1>1. /\ n \in Nat /\ s \in [1..n -> D] /\ s \in Seq(D) /\ Len(s) = n
      /\ \A i, j \in 1..n : Ahead(s[i], s[j]) <=> i < j
      /\ \A d \in D : \E i \in 1..n : s[i] = d
  BY OrderedFacts
<1> HIDE DEF n, s
<1>2. size \in Nat /\ size > 0 /\ m \in 0..size /\ m <= n /\ m \in Nat
  BY <1>1 DEF SearchOK
<1>3. page \in Seq(D) /\ Len(page) = m /\ \A i \in 1..m : page[i] = s[i]
  <2>1. page = FirstOf(size, s)
    BY DEF s
  <2>2. QED
    BY <1>1, <1>2, <2>1, FirstFacts
<1> HIDE DEF m
<1>4. DOMAIN page = 1..m /\ ToSet(page) = {s[i] : i \in 1..m}
  <2>1. DOMAIN page = 1..m
    BY <1>3, SeqFacts
  <2>2. ToSet(page) = {page[i] : i \in 1..m}
    BY <2>1 DEF ToSet
  <2>3. QED
    BY <1>3, <2>1, <2>2
<1>5. ToSet(page) \subseteq D
  BY <1>1, <1>2, <1>4
<1>6. m = n => ToSet(page) = D
  BY <1>1, <1>4, <1>5
<1>7. page = <<>> <=> m = 0
  BY <1>2, <1>3, EmptySeq
<1>8. D = {} <=> n = 0
  <2>1. D = {} => n = 0
    BY FS_EmptySet DEF n
  <2>2. n = 0 => D = {}
    BY <1>1
  <2>3. QED
    BY <2>1, <2>2
<1>9. page = <<>> <=> D = {}
  BY <1>1, <1>2, <1>7, <1>8 DEF m
<1>10. ASSUME page # <<>>
       PROVE  /\ Last(page) \in D /\ Head(page) \in D
              /\ \A d \in D : d \in ToSet(page) <=> ~Ahead(Last(page), d)
              /\ n > size <=> \E d \in D : Ahead(Last(page), d)
  <2>1. m \in 1..n /\ 1 \in 1..m /\ Last(page) = s[m] /\ Head(page) = s[1]
    BY <1>2, <1>3, <1>7, <1>10 DEF Last
  <2>2. Last(page) \in D /\ Head(page) \in D
    BY <1>1, <1>2, <2>1
  <2>3. ASSUME NEW d \in D PROVE d \in ToSet(page) <=> ~Ahead(Last(page), d)
    <3>1. PICK i \in 1..n : s[i] = d
      BY <1>1
    <3>2. Ahead(Last(page), d) <=> m < i
      BY <1>1, <2>1, <3>1
    <3>3. i <= m => d \in ToSet(page)
      BY <1>1, <1>2, <1>4, <3>1
    <3>4. ASSUME d \in ToSet(page) PROVE i <= m
      <4>1. PICK j \in 1..m : s[j] = d
        BY <1>4, <3>4
      <4>2. j \in 1..n
        BY <1>1, <1>2, <4>1
      <4>3. ~Ahead(s[j], s[i]) /\ ~Ahead(s[i], s[j])
        <5>1. ~Ahead(s[i], s[i])
          BY <1>1, <3>1
        <5>2. QED
          BY <3>1, <4>1, <5>1
      <4>4. i = j
        BY <1>1, <3>1, <4>2, <4>3
      <4>5. QED
        BY <4>1, <4>4
    <3>5. QED
      BY <1>1, <1>2, <3>1, <3>2, <3>3, <3>4
  <2>4. ASSUME n > size PROVE \E d \in D : Ahead(Last(page), d)
    <3>1. m + 1 \in 1..n /\ m < m + 1
      BY <1>1, <1>2, <2>4 DEF m
    <3>2. QED
      BY <1>1, <2>1, <3>1
  <2>5. ASSUME NEW d \in D, Ahead(Last(page), d) PROVE n > size
    <3>1. PICK i \in 1..n : s[i] = d
      BY <1>1
    <3>2. m < i
      BY <1>1, <2>1, <2>5, <3>1
    <3>3. QED
      BY <1>1, <1>2, <3>1, <3>2 DEF m
  <2>6. QED
    BY <2>2, <2>3, <2>4, <2>5
<1>11. QED
  BY <1>1, <1>2, <1>3, <1>4, <1>5, <1>6, <1>9, <1>10 DEF n, m, s

\* The last page of documents in order, found backward.
LEMMA BackwardPage ==
  ASSUME SearchOK, NEW D \in SUBSET Listed, NEW page, page = Reverse(FirstOf(size, Backward(D)))
  PROVE  LET n == Cardinality(D)
             m == IF size < n THEN size ELSE n
         IN  /\ page \in Seq(D) /\ Len(page) = m /\ m \in 0..size /\ n \in Nat
             /\ \A i \in 1..m : page[i] = Onward(D)[n - m + i]
             /\ (page = <<>> <=> D = {})
             /\ page # <<>> => /\ Last(page) \in D /\ Head(page) \in D
                               /\ n > size <=> \E d \in D : Ahead(d, Head(page))
<1> DEFINE n == Cardinality(D)
           m == IF size < n THEN size ELSE n
           s == Onward(D)
           b == Backward(D)
           f == FirstOf(size, b)
<1>1. /\ n \in Nat /\ s \in [1..n -> D]
      /\ \A i, j \in 1..n : Ahead(s[i], s[j]) <=> i < j
      /\ \A d \in D : \E i \in 1..n : s[i] = d
      /\ b \in Seq(D) /\ Len(b) = n
  BY OrderedFacts
<1>2. \A i \in 1..n : b[i] = s[n + 1 - i]
  BY BackwardReverses
<1> HIDE DEF n, s, b
<1>3. size \in Nat /\ size > 0 /\ m \in 0..size /\ m <= n /\ m \in Nat
  BY <1>1 DEF SearchOK
<1>4. f \in Seq(D) /\ Len(f) = m /\ \A i \in 1..m : f[i] = b[i]
  BY <1>1, <1>3, FirstFacts
<1> HIDE DEF m
<1>5. page = Reverse(f)
  BY DEF b
<1> HIDE DEF f
<1>6. /\ page \in [1..m -> D]
      /\ \A i \in 1..m : page[i] = s[n - m + i]
  <2>1. page = [i \in 1..m |-> f[m - i + 1]]
    BY <1>4, <1>5 DEF Reverse
  <2>2. ASSUME NEW i \in 1..m PROVE f[m - i + 1] = s[n - m + i] /\ n - m + i \in 1..n
    <3>1. m - i + 1 \in 1..m /\ m - i + 1 \in 1..n /\ n + 1 - (m - i + 1) = n - m + i /\ n - m + i \in 1..n
      BY <1>1, <1>3
    <3>2. QED
      BY <1>2, <1>4, <3>1
  <2>3. QED
    BY <1>1, <2>1, <2>2
<1>7. page \in Seq(D) /\ Len(page) = m
  BY <1>3, <1>6, SeqDef, LenProperties
<1>8. D = {} <=> n = 0
  <2>1. D = {} => n = 0
    BY FS_EmptySet DEF n
  <2>2. n = 0 => D = {}
    BY <1>1
  <2>3. QED
    BY <2>1, <2>2
<1>9. (page = <<>> <=> m = 0) /\ (m = 0 <=> n = 0)
  BY <1>1, <1>3, <1>7, EmptySeq DEF m
<1>10. ASSUME page # <<>>
       PROVE  /\ Last(page) \in D /\ Head(page) \in D
              /\ n > size <=> \E d \in D : Ahead(d, Head(page))
  <2>1. m \in 1..m /\ 1 \in 1..m /\ n - m + 1 \in 1..n /\ Last(page) = page[m] /\ Head(page) = s[n - m + 1]
    BY <1>1, <1>3, <1>6, <1>7, <1>9, <1>10 DEF Last
  <2>2. Last(page) \in D /\ Head(page) \in D
    BY <1>1, <1>6, <2>1
  <2>3. ASSUME n > size PROVE \E d \in D : Ahead(d, Head(page))
    <3>1. 1 \in 1..n /\ 1 < n - m + 1
      BY <1>1, <1>3, <2>3 DEF m
    <3>2. QED
      BY <1>1, <2>1, <3>1
  <2>4. ASSUME NEW d \in D, Ahead(d, Head(page)) PROVE n > size
    <3>1. PICK i \in 1..n : s[i] = d
      BY <1>1
    <3>2. i < n - m + 1
      BY <1>1, <2>1, <2>4, <3>1
    <3>3. QED
      BY <1>1, <1>3, <3>1, <3>2 DEF m
  <2>5. QED
    BY <2>2, <2>3, <2>4
<1>11. QED
  BY <1>1, <1>3, <1>6, <1>7, <1>8, <1>9, <1>10 DEF n, m, s

-----------------------------------------------------------------------------
(* What holds at every step of a search.                                   *)

Cursors == {Nobody} \cup [id : Docs, key : IF search = "cameraEvents" THEN Keys ELSE {<<>>}]
Lasts == [id : Docs \cup {NoDoc}, key : Keys \cup {<<>>}]

Requests ==
  [pc : {"idle", "lookUp", "find", "readBack", "lookUpMore", "more", "readMore"}, reversed : BOOLEAN,
   cursor : Cursors, last : Lasts, skip : Nat, found : Seq(Docs), count : Nat, page : Seq(Docs),
   own : BOOLEAN, end : Cursors, before : Cursors]

Views ==
  [shown : BOOLEAN, page : Seq(Docs), hasNext : BOOLEAN, hasPrevious : BOOLEAN, end : Cursors,
   before : Cursors, reversed : BOOLEAN, cursor : Cursors, skip : Nat]

TypeInv ==
  /\ SearchOK
  /\ req \in Requests /\ view \in Views /\ seen \in [Docs -> Nat]
  /\ start \ touched \subseteq Listed
  /\ still => calm
  /\ forward /\ still => start = Listed /\ touched = {}
  /\ forward => ~req.reversed /\ (req.pc = "idle" => view.shown)
  /\ search \in TwoQueries => ~req.reversed /\ ~view.reversed /\ ~view.hasPrevious
  /\ req.pc = "lookUp" => req.cursor.id # NoDoc /\ LooksUp /\ req.last = req.cursor
  /\ req.pc = "find" => PlaceOK(req.last)
  /\ req.pc \in {"readBack", "lookUpMore", "readMore"} => search \notin TwoQueries /\ search # "cameraEvents"

\* The place of a cursor: that of an event comes with it.
Where(c) == IF c.id # NoDoc /\ search # "cameraEvents" THEN Place(c.id) ELSE c

\* A page found from a place, and whether there is more the same way.
PageFrom(page, own, reversed, p) ==
  /\ PlaceOK(p)
  /\ ~reversed => page = FirstOf(size, Onward(AfterPlace(p)))
  /\ reversed /\ Reversible => page = Reverse(FirstOf(size, Backward(BeforePlace(p))))
  /\ own <=> Cardinality(IF reversed THEN BeforePlace(p) ELSE AfterPlace(p)) > size

\* The document the second query starts from.
Edge(page, reversed) == IF reversed THEN Last(page) ELSE Head(page)

\* Nothing has changed: the search goes by the documents listed.
CalmSearch ==
  /\ req.pc = "find" => req.last = Where(req.cursor)
  /\ req.pc = "readBack" => PlaceOK(Where(req.cursor)) /\ IsQuery(req.found, req.reversed, Where(req.cursor))
  /\ req.pc \in {"lookUpMore", "more", "readMore"} /\ search \notin TwoQueries =>
       LET from == Edge(req.page, req.reversed)
       IN  /\ PageFrom(req.page, req.own, req.reversed, Where(req.cursor))
           /\ req.pc = "lookUpMore" => req.last.id = from
           /\ req.pc = "more" => req.last = Place(from)
           /\ req.pc = "readMore" => IsQuery(req.found, ~req.reversed, Place(from))
  /\ req.pc = "more" /\ search \in {"malDevices", "staffDevices"} => req.last = Where(req.cursor) /\ PlaceOK(req.last)
  /\ req.pc = "more" /\ search = "malDevices" => req.page = FirstOf(size, Onward(AfterPlace(req.last)))
  /\ req.pc = "more" /\ search = "staffDevices" => req.count = Cardinality(AfterPlace(req.last))
  /\ req.pc = "more" /\ search = "abnormalDevices" => req.count = Cardinality(Listed)

\* The page shown is the one next to its cursor, and its flags are right.
CalmView ==
  /\ search # "abnormalDevices" =>
       PageFrom(view.page, IF view.reversed THEN view.hasPrevious ELSE view.hasNext, view.reversed, Where(view.cursor))
  /\ search \notin TwoQueries /\ view.page # <<>> =>
       IF view.reversed
       THEN view.hasNext <=> AfterPlace(Place(Last(view.page))) # {}
       ELSE view.hasPrevious <=> BeforePlace(Place(Head(view.page))) # {}
  /\ search = "abnormalDevices" /\ view.page # <<>> =>
       ((\E d \in Listed : Ahead(Last(view.page), d)) => view.hasNext)

CalmInv == calm => CalmSearch /\ (req.pc = "idle" /\ view.shown => CalmView)

\* A cursor to continue from: the document has not changed.
Trusted(c) == search = "cameraEvents" \/ c.id \notin touched
CursorKnown(c) == search = "cameraEvents" \/ c.id \in DOMAIN rows

EndOf(page) == IF page = <<>> THEN Nobody ELSE CursorOf(Last(page))

Steady == start \ touched

\* What is not beyond a place has been shown.
SeenTo(p) == \A d \in Steady : seen[d] = IF p.id = NoDoc \/ Precedes(p, Place(d)) THEN 0 ELSE 1

\* The same once a page is shown: up to its end, or everything when it is the last one.
PageSeen(page, own, end) ==
  /\ \A d \in Steady : d \in ToSet(page) => seen[d] = 0
  /\ ~own => \A d \in Steady : seen[d] = 1 \/ d \in ToSet(page)
  /\ own => end.id # NoDoc
  /\ own /\ Trusted(end) =>
       /\ CursorKnown(end)
       /\ \A d \in Steady : (seen[d] = 1 \/ d \in ToSet(page)) <=> ~Precedes(Where(end), Place(d))

WalkSearch ==
  /\ req.pc = "idle" => PageSeen(<<>>, view.hasNext, view.end)
  /\ req.pc = "lookUp" /\ Trusted(req.cursor) => CursorKnown(req.cursor) /\ SeenTo(Where(req.cursor))
  /\ req.pc = "find" => SeenTo(req.last)
  /\ req.pc = "readBack" => PageSeen(Trimmed(req.found), Len(req.found) = size + 1, EndOf(Trimmed(req.found)))
  /\ req.pc \in {"lookUpMore", "more", "readMore"} /\ search \notin TwoQueries => PageSeen(req.page, req.own, req.end)
  /\ req.pc = "more" /\ search \in {"malDevices", "staffDevices"} => SeenTo(req.last)
  /\ req.pc = "more" /\ search = "malDevices" => req.end = EndOf(req.page)

\* The first n documents listed have been shown.
ShownTo(n) == \A i \in 1..Cardinality(Listed) : seen[Onward(Listed)[i]] = IF i <= n THEN 1 ELSE 0

WalkByNumber ==
  IF req.pc = "idle"
  THEN ShownTo((view.skip + 1) * size) /\ (~view.hasNext => Cardinality(Listed) <= (view.skip + 1) * size)
  ELSE ShownTo(req.skip * size)

Sound == forward /\ IF search \in TwoQueries THEN still ELSE ~stale

WalkInv ==
  Sound =>
    /\ \A d \in Steady : seen[d] <= 1
    /\ IF search = "abnormalDevices" THEN WalkByNumber ELSE WalkSearch

\* What does not depend on the request.
LEMMA Frame ==
  ASSUME UNCHANGED asked, UNCHANGED collection
  PROVE  /\ SearchOK' <=> SearchOK
         /\ Listed' = Listed /\ (Reversible' <=> Reversible) /\ (Continues' <=> Continues) /\ (LooksUp' <=> LooksUp)
         /\ Requests' = Requests /\ Views' = Views /\ size' = size /\ search' = search
         /\ \A d : Place(d)' = Place(d) /\ CursorOf(d)' = CursorOf(d)
         /\ \A d, e : Ahead(d, e)' <=> Ahead(d, e)
         /\ \A p, q : Precedes(p, q)' <=> Precedes(p, q)
         /\ \A D : Onward(D)' = Onward(D) /\ Backward(D)' = Backward(D)
         /\ \A p : AfterPlace(p)' = AfterPlace(p) /\ BeforePlace(p)' = BeforePlace(p) /\ (PlaceOK(p)' <=> PlaceOK(p))
         /\ \A c : Where(c)' = Where(c) /\ (CursorKnown(c)' <=> CursorKnown(c))
         /\ \A s : EndOf(s)' = EndOf(s) /\ Trimmed(s)' = Trimmed(s)
         /\ \A s, back, p : IsQuery(s, back, p)' <=> IsQuery(s, back, p)
         /\ \A s, own, back, p : PageFrom(s, own, back, p)' <=> PageFrom(s, own, back, p)
<1>1. search' = search /\ field' = field /\ order' = order /\ size' = size /\ rows' = rows
  BY DEF asked, collection
<1>2. /\ SearchOK' <=> SearchOK
      /\ Listed' = Listed /\ (Continues' <=> Continues) /\ (LooksUp' <=> LooksUp)
      /\ Requests' = Requests /\ Views' = Views
  BY <1>1 DEF SearchOK, Listed, Continues, Unsorted, LooksUp, Requests, Views, Cursors, Lasts
<1>3. \A d : Key(d)' = Key(d)
  BY <1>1 DEF Key
<1>4. \A k, l : Beyond(order, k, l)' <=> Beyond(order, k, l)
  BY <1>1 DEF Beyond
<1>5. /\ \A d : Place(d)' = Place(d) /\ CursorOf(d)' = CursorOf(d)
      /\ \A d, e : Ahead(d, e)' <=> Ahead(d, e)
  BY <1>1, <1>3, <1>4 DEF Place, CursorOf, EncodeAsCursor, Ahead
<1>6. \A p, q : Precedes(p, q)' <=> Precedes(p, q)
  BY <1>1, <1>4 DEF Precedes, ById
<1>7. Reversible' <=> Reversible
  BY <1>1, <1>2, <1>3 DEF Reversible
<1>8. \A D : Onward(D)' = Onward(D) /\ Backward(D)' = Backward(D)
  BY <1>5 DEF Onward, Backward
<1>9. \A p : AfterPlace(p)' = AfterPlace(p) /\ BeforePlace(p)' = BeforePlace(p) /\ (PlaceOK(p)' <=> PlaceOK(p))
  BY <1>2, <1>5, <1>6 DEF AfterPlace, BeforePlace, PlaceOK
<1>10. \A c : Where(c)' = Where(c) /\ (CursorKnown(c)' <=> CursorKnown(c))
  BY <1>1, <1>5 DEF Where, CursorKnown
<1>11. \A s : EndOf(s)' = EndOf(s) /\ Trimmed(s)' = Trimmed(s)
  BY <1>1, <1>5 DEF EndOf, Trimmed
<1>12. \A s, back, p : IsQuery(s, back, p)' <=> IsQuery(s, back, p)
  BY <1>1, <1>2, <1>7, <1>8, <1>9 DEF IsQuery
<1>13. \A s, own, back, p : PageFrom(s, own, back, p)' <=> PageFrom(s, own, back, p)
  BY <1>1, <1>7, <1>8, <1>9 DEF PageFrom
<1>14. QED
  BY <1>1, <1>2, <1>5, <1>6, <1>7, <1>8, <1>9, <1>10, <1>11, <1>12, <1>13

LEMMA WalkFrame ==
  ASSUME UNCHANGED asked, UNCHANGED collection, UNCHANGED <<start, touched, seen>>
  PROVE  /\ Steady' = Steady
         /\ \A c : Trusted(c)' <=> Trusted(c)
         /\ \A p : SeenTo(p)' <=> SeenTo(p)
         /\ \A s, own, end : PageSeen(s, own, end)' <=> PageSeen(s, own, end)
         /\ \A n : ShownTo(n)' <=> ShownTo(n)
<1>1. start' = start /\ touched' = touched /\ seen' = seen
  OBVIOUS
<1>2. Steady' = Steady /\ \A c : Trusted(c)' <=> Trusted(c)
  BY <1>1, Frame DEF Steady, Trusted
<1>3. \A p : SeenTo(p)' <=> SeenTo(p)
  BY <1>1, <1>2, Frame DEF SeenTo
<1>4. \A s, own, end : PageSeen(s, own, end)' <=> PageSeen(s, own, end)
  BY <1>1, <1>2, Frame DEF PageSeen
<1>5. \A n : ShownTo(n)' <=> ShownTo(n)
  BY <1>1, Frame DEF ShownTo
<1>6. QED
  BY <1>2, <1>3, <1>4, <1>5

LEMMA CursorFacts ==
  ASSUME SearchOK, Continues
  PROVE  /\ \A d : CursorOf(d) = [id |-> d, key |-> IF search = "cameraEvents" THEN Key(d) ELSE <<>>]
         /\ \A d \in Docs : d # NoDoc /\ CursorOf(d) # Nobody
         /\ \A d \in Docs : search # "cameraEvents" => CursorOf(d) \in Cursors
         /\ \A d \in DOMAIN rows : CursorOf(d) \in Cursors
         /\ \A d \in Docs : Where(CursorOf(d)) = Place(d)
         /\ \A c \in Cursors : /\ c = Nobody <=> c.id = NoDoc
                               /\ c.id \in Docs \cup {NoDoc} /\ c \in Lasts
                               /\ c.id # NoDoc /\ CursorKnown(c) => Where(c) \in PlacedDocs
                               /\ c.id = NoDoc => Where(c) = Nobody
         /\ Nobody \in Cursors /\ Where(Nobody) = Nobody /\ PlaceOK(Nobody)
<1>1. \A d \in Docs : d # NoDoc
  BY DocsAssumption DEF NoDoc
<1>2. \A d : CursorOf(d) = [id |-> d, key |-> IF search = "cameraEvents" THEN Key(d) ELSE <<>>]
  BY DEF CursorOf, EncodeAsCursor, Continues
<1>3. \A d \in Docs : d # NoDoc /\ CursorOf(d) # Nobody /\ (search # "cameraEvents" => CursorOf(d) \in Cursors)
  BY <1>1, <1>2 DEF Nobody, Cursors
<1>4. \A d \in DOMAIN rows : CursorOf(d) \in Cursors
  BY <1>2 DEF SearchOK, Cursors, Key
<1>5. \A d \in Docs : Where(CursorOf(d)) = Place(d)
  BY <1>1, <1>2 DEF Where, Place
<1>6. ASSUME NEW c \in Cursors
      PROVE  /\ c = Nobody <=> c.id = NoDoc
             /\ c.id \in Docs \cup {NoDoc} /\ c \in Lasts
             /\ c.id # NoDoc /\ CursorKnown(c) => Where(c) \in PlacedDocs
             /\ c.id = NoDoc => Where(c) = Nobody
  <2>1. CASE c = Nobody
    <3>1. c.id = NoDoc /\ c.key = <<>> /\ c \in Lasts
      BY <2>1 DEF Nobody, Lasts
    <3>2. QED
      BY <2>1, <3>1 DEF Where
  <2>2. CASE c \in [id : Docs, key : IF search = "cameraEvents" THEN Keys ELSE {<<>>}]
    <3>1. c.id \in Docs /\ c.id # NoDoc /\ c \in Lasts /\ (search = "cameraEvents" => c \in PlacedDocs)
      BY <1>1, <2>2 DEF Lasts, PlacedDocs
    <3>2. c # Nobody
      BY <3>1 DEF Nobody
    <3>3. CursorKnown(c) => Where(c) \in PlacedDocs
      BY <3>1, ListedFacts DEF CursorKnown, Where
    <3>4. QED
      BY <3>1, <3>2, <3>3
  <2>3. QED
    BY <2>1, <2>2 DEF Cursors
<1>7. Nobody \in Cursors /\ Where(Nobody) = Nobody /\ PlaceOK(Nobody)
  BY DEF Nobody, Cursors, Where, PlaceOK
<1>8. QED
  BY <1>2, <1>3, <1>4, <1>5, <1>6, <1>7

LEMMA TrimmedFacts ==
  ASSUME SearchOK, NEW S, NEW edges \in Seq(S), NEW back \in BOOLEAN
  PROVE  LET page == IF back THEN Reverse(Trimmed(edges)) ELSE Trimmed(edges)
         IN  /\ page \in Seq(S) /\ Trimmed(edges) \in Seq(S)
             /\ page = <<>> <=> edges = <<>>
             /\ Trimmed(edges) = <<>> <=> edges = <<>>
             /\ page # <<>> => Last(page) \in S /\ Head(page) \in S
             /\ edges = <<>> => Len(edges) # size + 1
<1> DEFINE t == Trimmed(edges)
           m == IF size < Len(edges) THEN size ELSE Len(edges)
           page == IF back THEN Reverse(t) ELSE t
<1>1. size \in Nat /\ size > 0 /\ Len(edges) \in Nat /\ m \in Nat
  BY LenProperties DEF SearchOK
<1>2. t \in Seq(S) /\ Len(t) = m
  BY <1>1, FirstFacts DEF Trimmed
<1> HIDE DEF t
<1>3. t \in [1..m -> S]
  BY <1>2, SeqFacts
<1>4. page \in [1..m -> S]
  <2>1. CASE back
    <3>1. page = [i \in 1..m |-> t[m - i + 1]]
      BY <1>2, <2>1 DEF Reverse
    <3>2. \A i \in 1..m : m - i + 1 \in 1..m
      BY <1>1
    <3>3. QED
      BY <1>3, <3>1, <3>2
  <2>2. CASE ~back
    BY <1>3, <2>2
  <2>3. QED
    BY <2>1, <2>2
<1>5. page \in Seq(S) /\ Len(page) = m
  BY <1>1, <1>4, SeqDef, LenProperties
<1> HIDE DEF page
<1>6. (page = <<>> <=> m = 0) /\ (edges = <<>> <=> Len(edges) = 0) /\ (t = <<>> <=> m = 0)
  BY <1>2, <1>5, EmptySeq
<1>7. m = 0 <=> Len(edges) = 0
  BY <1>1
<1>8. ASSUME page # <<>> PROVE Last(page) \in S /\ Head(page) \in S
  <2>1. m \in 1..m /\ 1 \in 1..m
    BY <1>1, <1>6, <1>8
  <2>2. Last(page) = page[m] /\ Head(page) = page[1]
    BY <1>5, <1>6, <1>8 DEF Last
  <2>3. QED
    BY <1>4, <2>1, <2>2
<1>9. edges = <<>> => Len(edges) # size + 1
  BY <1>1, <1>6
<1>10. QED
  BY <1>2, <1>5, <1>6, <1>7, <1>8, <1>9 DEF page, t

-----------------------------------------------------------------------------
(* What the steps of a search do.                                          *)

LEMMA IdleFacts ==
  ASSUME SearchOK, Continues
  PROVE  /\ Idle \in Requests /\ Idle.pc = "idle" /\ ~Idle.reversed
         /\ NoView \in Views /\ ~NoView.shown /\ ~NoView.reversed /\ ~NoView.hasPrevious /\ ~NoView.hasNext
<1>1. Nobody \in Cursors /\ Nobody \in Lasts /\ <<>> \in Seq(Docs)
  BY CursorFacts, EmptySeq
<1>2. QED
  BY <1>1 DEF Idle, NoView, Requests, Views

LEMMA AskFacts ==
  ASSUME TypeInv, Continues, NEW c \in Cursors, NEW back \in BOOLEAN, NEW n \in Nat, Ask(c, back, n)
  PROVE  /\ req' \in Requests /\ calm' = TRUE
         /\ req'.pc = (IF c.id # NoDoc /\ LooksUp THEN "lookUp" ELSE "find")
         /\ req'.cursor = c /\ req'.last = c /\ req'.reversed = back /\ req'.skip = n
<1>1. /\ Nobody \in Cursors /\ Nobody \in Lasts /\ c \in Lasts /\ <<>> \in Seq(Docs)
  BY CursorFacts, EmptySeq DEF TypeInv
<1> DEFINE stage == IF c.id # NoDoc /\ LooksUp THEN "lookUp" ELSE "find"
<1>2. req' = [pc |-> stage, reversed |-> back, cursor |-> c,
              last |-> c, skip |-> n, found |-> <<>>, count |-> 0, page |-> <<>>, own |-> FALSE,
              end |-> Nobody, before |-> Nobody]
  BY DEF Ask, Idle
<1>3. stage \in {"lookUp", "find"} /\ calm' = TRUE
  BY DEF Ask
<1> HIDE DEF stage
<1>4. /\ req' \in Requests /\ req'.pc = stage
      /\ req'.cursor = c /\ req'.last = c /\ req'.reversed = back /\ req'.skip = n
  BY <1>1, <1>2, <1>3 DEF Requests
<1>5. QED
  BY <1>3, <1>4 DEF stage

LEMMA AnswerFacts ==
  ASSUME TypeInv, NEW r \in Requests, NEW own \in BOOLEAN, NEW other \in BOOLEAN, Answer(r, own, other)
  PROVE  /\ UNCHANGED <<asked, collection, forward, start, touched, still, stale, calm>>
         /\ req' = Idle /\ view' \in Views /\ view'.shown
         /\ view'.page = r.page /\ view'.end = r.end /\ view'.reversed = r.reversed /\ view'.cursor = r.cursor
         /\ view'.skip = r.skip
         /\ view'.hasNext = (IF r.reversed THEN other ELSE own)
         /\ view'.hasPrevious = (IF r.reversed THEN own ELSE other)
         /\ seen' \in [Docs -> Nat]
         /\ \A d \in Docs : seen'[d] = IF forward /\ d \in ToSet(r.page) /\ seen[d] < 2 THEN seen[d] + 1 ELSE seen[d]
<1>1. view' = [shown |-> TRUE, page |-> r.page, end |-> r.end, before |-> r.before,
               hasNext |-> IF r.reversed THEN other ELSE own, hasPrevious |-> IF r.reversed THEN own ELSE other,
               reversed |-> r.reversed, cursor |-> r.cursor, skip |-> r.skip]
  BY DEF Answer
<1>2. UNCHANGED <<asked, collection, forward, start, touched, still, stale, calm>> /\ req' = Idle
  BY DEF Answer
<1>3. /\ r.page \in Seq(Docs) /\ r.end \in Cursors /\ r.before \in Cursors /\ r.reversed \in BOOLEAN
      /\ r.cursor \in Cursors /\ r.skip \in Nat
  BY DEF Requests
<1>4. seen' = [d \in Docs |-> IF forward /\ d \in ToSet(r.page) /\ seen[d] < 2 THEN seen[d] + 1 ELSE seen[d]]
  BY DEF Answer
<1>5. \A d \in Docs : seen[d] \in Nat
  BY DEF TypeInv
<1>6. seen' \in [Docs -> Nat]
  BY <1>4, <1>5
<1>7. \A d \in Docs : seen'[d] = IF forward /\ d \in ToSet(r.page) /\ seen[d] < 2 THEN seen[d] + 1 ELSE seen[d]
  BY <1>4
<1>8. view' \in Views
  BY <1>1, <1>3 DEF Views
<1>9. QED
  BY <1>1, <1>2, <1>6, <1>7, <1>8

LEMMA PagedFacts ==
  ASSUME TypeInv, Continues, NEW page \in Seq(Docs),
         search = "cameraEvents" => page \in Seq(Listed)
  PROVE  /\ Paged(page) \in Requests /\ Paged(page).page = page
         /\ Paged(page).pc = req.pc /\ Paged(page).reversed = req.reversed /\ Paged(page).cursor = req.cursor
         /\ Paged(page).last = req.last /\ Paged(page).skip = req.skip
         /\ Paged(page).end = EndOf(page) /\ EndOf(page) \in Cursors
         /\ Paged(page).before = (IF page = <<>> THEN Nobody ELSE CursorOf(Head(page)))
         /\ page # <<>> => CursorOf(Last(page)) \in Cursors /\ CursorOf(Head(page)) \in Cursors
                           /\ Last(page) \in Docs /\ Head(page) \in Docs
<1>1. req \in Requests /\ SearchOK
  BY DEF TypeInv
<1>2. ASSUME page # <<>>
      PROVE  CursorOf(Last(page)) \in Cursors /\ CursorOf(Head(page)) \in Cursors /\ Last(page) \in Docs /\ Head(page) \in Docs
  <2>1. ASSUME NEW S, page \in Seq(S) PROVE Last(page) \in S /\ Head(page) \in S
    <3>1. Len(page) \in Nat /\ page \in [1..Len(page) -> S]
      BY <2>1, SeqFacts
    <3>2. Len(page) # 0
      BY <1>2, <2>1, EmptySeq
    <3>3. Len(page) \in 1..Len(page) /\ 1 \in 1..Len(page)
      BY <3>1, <3>2
    <3>4. Last(page) = page[Len(page)] /\ Head(page) = page[1]
      BY <1>2, <2>1 DEF Last
    <3>5. QED
      BY <3>1, <3>3, <3>4
  <2>2. Last(page) \in Docs /\ Head(page) \in Docs
    BY <2>1
  <2>3. search = "cameraEvents" => Last(page) \in DOMAIN rows /\ Head(page) \in DOMAIN rows
    BY <2>1 DEF Listed
  <2>4. QED
    BY <1>1, <2>2, <2>3, CursorFacts
<1>3. EndOf(page) \in Cursors /\ (IF page = <<>> THEN Nobody ELSE CursorOf(Head(page))) \in Cursors
  BY <1>1, <1>2, CursorFacts DEF EndOf
<1> DEFINE b == IF page = <<>> THEN Nobody ELSE CursorOf(Head(page))
<1>4. Paged(page) = [req EXCEPT !.page = page, !.end = EndOf(page), !.before = b, !.found = <<>>]
  BY DEF Paged, EndOf
<1>5. b \in Cursors /\ <<>> \in Seq(Docs)
  BY <1>3, EmptySeq
<1> HIDE DEF b
<1>6. /\ Paged(page) \in Requests /\ Paged(page).page = page
      /\ Paged(page).pc = req.pc /\ Paged(page).reversed = req.reversed /\ Paged(page).cursor = req.cursor
      /\ Paged(page).last = req.last /\ Paged(page).skip = req.skip
      /\ Paged(page).end = EndOf(page) /\ Paged(page).before = b
  BY <1>1, <1>3, <1>4, <1>5 DEF Requests
<1>7. QED
  BY <1>2, <1>3, <1>6 DEF b

LEMMA TakeFacts ==
  ASSUME TypeInv, Continues, NEW S \in SUBSET Docs, NEW edges \in Seq(S), Take(edges),
         search = "cameraEvents" => S = Listed
  PROVE  LET page == IF req.reversed THEN Reverse(Trimmed(edges)) ELSE Trimmed(edges)
             own == Len(edges) = size + 1
         IN  /\ UNCHANGED <<asked, collection, forward, start, touched, still, stale, calm>>
             /\ page \in Seq(S)
             /\ \/ /\ page = <<>> /\ ~own
                   /\ req' = Idle /\ view' \in Views /\ view'.shown /\ view'.page = page /\ ~view'.hasNext
                   /\ ~view'.hasPrevious /\ view'.reversed = req.reversed /\ view'.cursor = req.cursor
                   /\ view'.end = Nobody /\ seen' \in [Docs -> Nat] /\ \A d \in Docs : seen'[d] = seen[d]
                \/ /\ page # <<>> /\ UNCHANGED <<view, seen>>
                   /\ req' \in Requests /\ req'.pc = IF LooksUp THEN "lookUpMore" ELSE "more"
                   /\ req'.page = page /\ req'.own = own /\ req'.end = EndOf(page)
                   /\ req'.reversed = req.reversed /\ req'.cursor = req.cursor
                   /\ req'.last = CursorOf(Edge(page, req.reversed))
<1> DEFINE page == IF req.reversed THEN Reverse(Trimmed(edges)) ELSE Trimmed(edges)
           own == Len(edges) = size + 1
           r == Paged(page)
           from == IF req.reversed THEN r.end ELSE r.before
           q == [r EXCEPT !.own = own, !.last = from, !.pc = IF LooksUp THEN "lookUpMore" ELSE "more"]
<1>1. req \in Requests /\ SearchOK /\ req.reversed \in BOOLEAN
  BY DEF TypeInv, Requests
<1>2. page \in Seq(S) /\ (page = <<>> <=> edges = <<>>) /\ (edges = <<>> => ~own)
  BY <1>1, TrimmedFacts
<1>3. page \in Seq(Docs) /\ (search = "cameraEvents" => page \in Seq(Listed))
  BY <1>2, WiderSeq
<1>4. IF from = Nobody THEN Answer(r, own, FALSE) ELSE Proceed(q)
  BY DEF Take
<1> HIDE DEF page, own
<1>5. /\ r \in Requests /\ r.page = page /\ r.reversed = req.reversed /\ r.cursor = req.cursor
      /\ r.end = EndOf(page) /\ EndOf(page) \in Cursors
      /\ r.before = (IF page = <<>> THEN Nobody ELSE CursorOf(Head(page)))
      /\ page # <<>> => CursorOf(Last(page)) \in Cursors /\ CursorOf(Head(page)) \in Cursors
                        /\ Last(page) \in Docs /\ Head(page) \in Docs
  BY <1>3, PagedFacts
<1>6. own \in BOOLEAN
  BY DEF own
<1> HIDE DEF r
<1>7. CASE page = <<>>
  <2>1. from = Nobody /\ r.end = Nobody
    BY <1>5, <1>7 DEF EndOf
  <2>2. Answer(r, FALSE, FALSE)
    BY <1>2, <1>4, <1>6, <1>7, <2>1
  <2>3. \A d : d \notin ToSet(r.page)
    BY <1>5, <1>7 DEF ToSet
  <2>4. /\ UNCHANGED <<asked, collection, forward, start, touched, still, stale, calm>>
        /\ req' = Idle /\ view' \in Views /\ view'.shown /\ view'.page = page /\ ~view'.hasNext
        /\ ~view'.hasPrevious /\ view'.reversed = req.reversed /\ view'.cursor = req.cursor
        /\ view'.end = Nobody /\ seen' \in [Docs -> Nat] /\ \A d \in Docs : seen'[d] = seen[d]
    BY <1>5, <2>1, <2>2, <2>3, AnswerFacts
  <2>5. QED
    BY <1>2, <1>7, <2>4 DEF page, own
<1>8. CASE page # <<>>
  <2>1. from = CursorOf(Edge(page, req.reversed)) /\ from \in Cursors /\ from # Nobody
    BY <1>1, <1>5, <1>8, CursorFacts DEF EndOf, Edge
  <2>2. Proceed(q)
    BY <1>4, <2>1
  <2>3. from \in Lasts
    BY <1>1, <2>1, CursorFacts
  <2> HIDE DEF from
  <2>4. /\ q \in Requests /\ q.pc = (IF LooksUp THEN "lookUpMore" ELSE "more") /\ q.page = r.page /\ q.own = own
        /\ q.end = r.end /\ q.reversed = r.reversed /\ q.cursor = r.cursor /\ q.last = from
    BY <1>5, <1>6, <2>3 DEF Requests
  <2>5. req' = q /\ UNCHANGED <<asked, collection, forward, start, touched, still, stale, calm>> /\ UNCHANGED <<view, seen>>
    BY <2>2 DEF Proceed, walk
  <2> HIDE DEF q
  <2>6. QED
    BY <1>2, <1>5, <1>8, <2>1, <2>4, <2>5 DEF page, own
<1>9. QED
  BY <1>7, <1>8

\* The steps the seven searches both ways have in common.
SearchStep ==
  /\ search \notin TwoQueries
  /\ \/ /\ req.pc = "find"
        /\ \E edges \in Seq(Listed) : IsQuery(edges, req.reversed, req.last) /\ Take(edges)
     \/ /\ req.pc = "find" /\ search # "cameraEvents"
        /\ \E edges \in Seq(Listed) :
             IsQuery(edges, req.reversed, req.last) /\ Proceed([req EXCEPT !.pc = "readBack", !.found = edges])
     \/ req.pc = "readBack" /\ Take(req.found)
     \/ /\ req.pc = "more"
        /\ \E edges \in Seq(Listed) : IsQuery(edges, ~req.reversed, req.last) /\ Answer(req, req.own, edges # <<>>)
     \/ /\ req.pc = "more" /\ search # "cameraEvents"
        /\ \E edges \in Seq(Listed) :
             IsQuery(edges, ~req.reversed, req.last) /\ Proceed([req EXCEPT !.pc = "readMore", !.found = edges])
     \/ req.pc = "readMore" /\ Answer(req, req.own, req.found # <<>>)
     \/ Fail

LEMMA SearchSteps ==
  ASSUME TypeInv, Continues,
         \/ SearchDevices \/ SearchDevicesForBuildingFilter \/ SearchRules \/ SearchSubscriptions
         \/ SearchAuditLogs \/ SearchUsers \/ CameraEventHistory
  PROVE  SearchStep
<1>1. SearchOK /\ req.reversed \in BOOLEAN /\ (~req.reversed) \in BOOLEAN
  BY DEF TypeInv, Requests
<1>2. /\ search \in {"devices", "buildingDevices"} =>
           /\ IsQuery(MongoQueryForDevices(req.reversed, req.last), req.reversed, req.last)
           /\ IsQuery(MongoQueryForDevices(~req.reversed, req.last), ~req.reversed, req.last)
      /\ search = "rules" =>
           /\ IsQuery(MongoQueryForRules(req.reversed, req.last), req.reversed, req.last)
           /\ IsQuery(MongoQueryForRules(~req.reversed, req.last), ~req.reversed, req.last)
      /\ search = "subscriptions" =>
           /\ IsQuery(MongoQueryForSubscriptions(req.reversed, req.last), req.reversed, req.last)
           /\ IsQuery(MongoQueryForSubscriptions(~req.reversed, req.last), ~req.reversed, req.last)
      /\ search = "auditLogs" =>
           /\ IsQuery(MongoQueryForAuditLogs(req.reversed, req.last), req.reversed, req.last)
           /\ IsQuery(MongoQueryForAuditLogs(~req.reversed, req.last), ~req.reversed, req.last)
      /\ search = "users" =>
           /\ IsQuery(MongoQueryForUsers(req.reversed, req.last), req.reversed, req.last)
           /\ IsQuery(MongoQueryForUsers(~req.reversed, req.last), ~req.reversed, req.last)
      /\ search = "cameraEvents" =>
           /\ IsQuery(ElasticsearchQueryForCameraEvents(req.reversed, req.last), req.reversed, req.last)
           /\ IsQuery(ElasticsearchQueryForCameraEvents(~req.reversed, req.last), ~req.reversed, req.last)
  BY <1>1, QueryFacts
<1>3. \A edges, back : IsQuery(edges, back, req.last) => edges \in Seq(Listed)
  BY DEF IsQuery
<1>4. CASE SearchDevices \/ SearchDevicesForBuildingFilter
  BY <1>2, <1>3, <1>4 DEF SearchDevices, SearchDevicesForBuildingFilter, Pages, SearchStep, TwoQueries
<1>5. CASE SearchRules
  BY <1>2, <1>3, <1>5 DEF SearchRules, Pages, SearchStep, TwoQueries
<1>6. CASE SearchUsers
  BY <1>2, <1>3, <1>6 DEF SearchUsers, Pages, SearchStep, TwoQueries
<1>7. CASE CameraEventHistory
  BY <1>2, <1>3, <1>7 DEF CameraEventHistory, Pages, SearchStep, TwoQueries
<1>8. CASE SearchSubscriptions
  BY <1>2, <1>3, <1>8 DEF SearchSubscriptions, PagesReadBack, SearchStep, TwoQueries
<1>9. CASE SearchAuditLogs
  BY <1>2, <1>3, <1>9 DEF SearchAuditLogs, PagesReadBack, SearchStep, TwoQueries
<1>10. QED
  BY <1>4, <1>5, <1>6, <1>7, <1>8, <1>9

-----------------------------------------------------------------------------
(* Pages and what they show.                                               *)

LEMMA FirstOfFirst ==
  ASSUME SearchOK, NEW S, NEW s \in Seq(S)
  PROVE  FirstOf(size, FirstOf(size + 1, s)) = FirstOf(size, s)
<1> DEFINE n == Len(s)
           k == IF size + 1 < n THEN size + 1 ELSE n
           m == IF size < n THEN size ELSE n
           t == FirstOf(size + 1, s)
<1>1. n \in Nat /\ size \in Nat /\ k \in Nat /\ m \in Nat /\ m <= k
  BY LenProperties DEF SearchOK
<1>2. t \in Seq(S) /\ Len(t) = k /\ \A i \in 1..k : t[i] = s[i]
  BY <1>1, FirstFacts
<1>3. FirstOf(size, s) \in Seq(S) /\ Len(FirstOf(size, s)) = m /\ \A i \in 1..m : FirstOf(size, s)[i] = s[i]
  BY <1>1, FirstFacts
<1> HIDE DEF t
<1>4. (IF size < Len(t) THEN size ELSE Len(t)) = m
  BY <1>1, <1>2
<1> HIDE DEF m, n, k
<1>5. FirstOf(size, t) \in Seq(S) /\ Len(FirstOf(size, t)) = m /\ \A i \in 1..m : FirstOf(size, t)[i] = t[i]
  BY <1>1, <1>2, <1>4, FirstFacts
<1>6. FirstOf(size, t) \in [1..m -> S] /\ FirstOf(size, s) \in [1..m -> S]
  BY <1>3, <1>5, SeqFacts
<1>7. \A i \in 1..m : FirstOf(size, t)[i] = FirstOf(size, s)[i]
  <2>1. \A i \in 1..m : i \in 1..k
    BY <1>1
  <2>2. QED
    BY <1>2, <1>3, <1>5, <2>1
<1>8. FirstOf(size, t) = FirstOf(size, s)
  <2> DEFINE f == FirstOf(size, t)
             g == FirstOf(size, s)
  <2>1. f \in [1..m -> S] /\ g \in [1..m -> S] /\ \A i \in 1..m : f[i] = g[i]
    BY <1>6, <1>7
  <2> HIDE DEF f, g
  <2>2. f = [i \in 1..m |-> f[i]] /\ g = [i \in 1..m |-> g[i]]
    BY <2>1
  <2>3. [i \in 1..m |-> f[i]] = [i \in 1..m |-> g[i]]
    BY <2>1
  <2>4. QED
    BY <2>2, <2>3 DEF f, g
<1>9. QED
  BY <1>8 DEF t

\* The page of a query.
LEMMA PageOf ==
  ASSUME SearchOK, NEW p, PlaceOK(p), NEW back \in BOOLEAN, NEW edges, IsQuery(edges, back, p)
  PROVE  PageFrom(IF back THEN Reverse(Trimmed(edges)) ELSE Trimmed(edges), Len(edges) = size + 1, back, p)
<1>1. AfterPlace(p) \in SUBSET Listed /\ BeforePlace(p) \in SUBSET Listed
  BY PlaceClosed
<1>2. /\ Onward(AfterPlace(p)) \in Seq(AfterPlace(p)) /\ Backward(BeforePlace(p)) \in Seq(BeforePlace(p))
      /\ Cardinality(AfterPlace(p)) \in Nat /\ Cardinality(BeforePlace(p)) \in Nat
  BY <1>1, OrderedFacts
<1>3. ~back => Trimmed(edges) = FirstOf(size, Onward(AfterPlace(p)))
  BY <1>2, FirstOfFirst DEF IsQuery, Trimmed
<1>4. back /\ Reversible => Trimmed(edges) = FirstOf(size, Backward(BeforePlace(p)))
  BY <1>2, FirstOfFirst DEF IsQuery, Trimmed
<1>5. (Len(edges) = size + 1) <=> Cardinality(IF back THEN BeforePlace(p) ELSE AfterPlace(p)) > size
  <2> DEFINE c == Cardinality(IF back THEN BeforePlace(p) ELSE AfterPlace(p))
  <2>1. c \in Nat /\ size \in Nat /\ Len(edges) = IF size + 1 < c THEN size + 1 ELSE c
    BY <1>2 DEF IsQuery, SearchOK
  <2> HIDE DEF c
  <2>2. (Len(edges) = size + 1) <=> c > size
    BY <2>1
  <2>3. QED
    BY <2>2 DEF c
<1>6. QED
  BY <1>3, <1>4, <1>5 DEF PageFrom

\* A page shows what comes next.
LEMMA WalkPage ==
  ASSUME TypeInv, Continues, NEW p, PlaceOK(p), SeenTo(p), NEW own \in BOOLEAN,
         NEW page, page = FirstOf(size, Onward(AfterPlace(p))),
         own <=> Cardinality(AfterPlace(p)) > size
  PROVE  PageSeen(page, own, EndOf(page))
<1> DEFINE D == AfterPlace(p)
<1>1. SearchOK /\ D \in SUBSET Listed /\ Steady \subseteq Listed /\ \A d \in D, e \in Listed : Ahead(d, e) => e \in D
  BY PlaceClosed DEF TypeInv, Steady
<1>2. \A d \in Listed : d \in D <=> (p.id = NoDoc \/ Precedes(p, Place(d)))
  BY DEF AfterPlace
<1>3. \A d \in Steady : seen[d] = IF d \in D THEN 0 ELSE 1
  BY <1>1, <1>2 DEF SeenTo
<1>4. page = FirstOf(size, Onward(D))
  OBVIOUS
<1> HIDE DEF D
<1>5. /\ ToSet(page) \subseteq D /\ (page = <<>> <=> D = {}) /\ Cardinality(D) \in Nat
      /\ ~(size < Cardinality(D)) => ToSet(page) = D
      /\ page # <<>> => /\ Last(page) \in D
                        /\ \A d \in D : d \in ToSet(page) <=> ~Ahead(Last(page), d)
                        /\ Cardinality(D) > size <=> \E d \in D : Ahead(Last(page), d)
  BY <1>1, <1>4, OnwardPage
<1>6. \A d \in Steady : d \in ToSet(page) => seen[d] = 0
  BY <1>1, <1>3, <1>5
<1>7. own <=> Cardinality(D) > size
  BY DEF D
<1>8. ASSUME ~own PROVE \A d \in Steady : seen[d] = 1 \/ d \in ToSet(page)
  <2>1. ToSet(page) = D
    BY <1>1, <1>5, <1>7, <1>8 DEF SearchOK
  <2>2. QED
    BY <1>3, <2>1
<1>9. ASSUME own
      PROVE  /\ EndOf(page).id # NoDoc /\ CursorKnown(EndOf(page))
             /\ \A d \in Steady : (seen[d] = 1 \/ d \in ToSet(page)) <=> ~Precedes(Where(EndOf(page)), Place(d))
  <2>1. D # {}
    <3>1. Cardinality({}) = 0
      BY FS_EmptySet
    <3>2. QED
      BY <1>1, <1>7, <1>9, <3>1 DEF SearchOK
  <2> DEFINE e == Last(page)
  <2>2. page # <<>> /\ e \in D /\ \A d \in D : d \in ToSet(page) <=> ~Ahead(e, d)
    BY <1>5, <2>1
  <2>3. EndOf(page) = CursorOf(e)
    BY <2>2 DEF EndOf
  <2> HIDE DEF e
  <2>4. e \in Listed /\ e \in DOMAIN rows /\ e \in Docs
    BY <1>1, <2>2, ListedFacts DEF Listed
  <2>5. CursorOf(e).id = e /\ e # NoDoc /\ Where(CursorOf(e)) = Place(e)
    BY <1>1, <2>4, CursorFacts
  <2>6. ASSUME NEW d \in Steady PROVE (seen[d] = 1 \/ d \in ToSet(page)) <=> ~Precedes(Place(e), Place(d))
    <3>1. Ahead(e, d) <=> Precedes(Place(e), Place(d))
      BY AheadPrecedes
    <3>2. CASE d \in D
      BY <1>3, <2>2, <3>1, <3>2
    <3>3. CASE d \notin D
      BY <1>1, <1>3, <2>2, <3>1, <3>3
    <3>4. QED
      BY <3>2, <3>3
  <2>7. QED
    BY <2>3, <2>4, <2>5, <2>6 DEF CursorKnown
<1>10. QED
  BY <1>6, <1>8, <1>9 DEF PageSeen

-----------------------------------------------------------------------------
(* Types.                                                                  *)

\* A step of a search that leaves the documents and the walk alone.
LEMMA TypeStep ==
  ASSUME TypeInv, Continues,
         UNCHANGED <<asked, collection, forward, start, touched, still, calm>>,
         req' \in Requests, view' \in Views, seen' \in [Docs -> Nat],
         forward => ~req'.reversed /\ (req'.pc = "idle" => view'.shown),
         search \in TwoQueries => ~req'.reversed /\ ~view'.reversed /\ ~view'.hasPrevious,
         req'.pc # "lookUp",
         req'.pc = "find" => PlaceOK(req'.last),
         req'.pc \in {"readBack", "lookUpMore", "readMore"} => search \notin TwoQueries /\ search # "cameraEvents"
  PROVE  TypeInv'
<1>1. UNCHANGED asked /\ UNCHANGED collection /\ UNCHANGED <<forward, start, touched, still, calm>>
  OBVIOUS
<1>2. /\ SearchOK' <=> SearchOK
      /\ Listed' = Listed /\ Requests' = Requests /\ Views' = Views /\ search' = search
      /\ \A p : PlaceOK(p)' <=> PlaceOK(p)
  BY <1>1, Frame
<1>3. TwoQueries' = TwoQueries
  BY DEF TwoQueries
<1>4. /\ SearchOK' /\ req' \in Requests' /\ view' \in Views' /\ (seen \in [Docs -> Nat])'
      /\ (start \ touched \subseteq Listed)' /\ (still => calm)'
      /\ (forward /\ still => start = Listed /\ touched = {})'
  BY <1>1, <1>2 DEF TypeInv
<1>5. /\ (forward => ~req.reversed /\ (req.pc = "idle" => view.shown))'
      /\ (search \in TwoQueries => ~req.reversed /\ ~view.reversed /\ ~view.hasPrevious)'
      /\ (req.pc = "find" => PlaceOK(req.last))'
      /\ (req.pc \in {"readBack", "lookUpMore", "readMore"} => search \notin TwoQueries /\ search # "cameraEvents")'
  BY <1>1, <1>2, <1>3
<1>6. QED
  BY <1>4, <1>5 DEF TypeInv

LEMMA TypeTake ==
  ASSUME TypeInv, Continues, search \notin TwoQueries, NEW S \in SUBSET Docs, NEW edges \in Seq(S), Take(edges),
         search = "cameraEvents" => S = Listed
  PROVE  TypeInv'
<1> DEFINE page == IF req.reversed THEN Reverse(Trimmed(edges)) ELSE Trimmed(edges)
           own == Len(edges) = size + 1
<1>1. /\ UNCHANGED <<asked, collection, forward, start, touched, still, stale, calm>>
      /\ \/ /\ req' = Idle /\ view' \in Views /\ view'.shown /\ seen' \in [Docs -> Nat]
         \/ /\ UNCHANGED <<view, seen>>
            /\ req' \in Requests /\ req'.pc = (IF LooksUp THEN "lookUpMore" ELSE "more")
            /\ req'.reversed = req.reversed
  BY TakeFacts
<1>2. /\ Idle \in Requests /\ Idle.pc = "idle" /\ ~Idle.reversed
  BY IdleFacts DEF TypeInv
<1>3. view \in Views /\ seen \in [Docs -> Nat] /\ (forward => ~req.reversed)
  BY DEF TypeInv
<1>4. LooksUp => search # "cameraEvents"
  BY DEF LooksUp
<1>5. CASE req' = Idle /\ view' \in Views /\ view'.shown /\ seen' \in [Docs -> Nat]
  BY <1>1, <1>2, <1>5, TypeStep
<1>6. CASE /\ UNCHANGED <<view, seen>>
           /\ req' \in Requests /\ req'.pc = (IF LooksUp THEN "lookUpMore" ELSE "more")
           /\ req'.reversed = req.reversed
  <2>1. req'.pc \in {"lookUpMore", "more"} /\ (req'.pc = "lookUpMore" => search # "cameraEvents")
    BY <1>4, <1>6
  <2>2. view' \in Views /\ seen' \in [Docs -> Nat] /\ (forward => ~req'.reversed)
    BY <1>3, <1>6
  <2>3. QED
    BY <1>1, <1>6, <2>1, <2>2, TypeStep
<1>7. QED
  BY <1>1, <1>5, <1>6

LEMMA TypeAnswer ==
  ASSUME TypeInv, Continues, NEW r \in Requests, NEW own \in BOOLEAN, NEW other \in BOOLEAN, Answer(r, own, other),
         r.reversed = req.reversed, search \in TwoQueries => ~other
  PROVE  TypeInv'
<1>1. /\ UNCHANGED <<asked, collection, forward, start, touched, still, stale, calm>>
      /\ req' = Idle /\ view' \in Views /\ view'.shown
      /\ view'.reversed = r.reversed
      /\ view'.hasPrevious = (IF r.reversed THEN own ELSE other)
      /\ seen' \in [Docs -> Nat]
  BY AnswerFacts
<1>2. /\ Idle \in Requests /\ Idle.pc = "idle" /\ ~Idle.reversed
  BY IdleFacts DEF TypeInv
<1>3. search \in TwoQueries => ~req.reversed
  BY DEF TypeInv
<1>4. QED
  BY <1>1, <1>2, <1>3, TypeStep

LEMMA TypeFail ==
  ASSUME TypeInv, Continues, Fail
  PROVE  TypeInv'
<1>1. /\ UNCHANGED asked /\ UNCHANGED collection /\ UNCHANGED <<still, calm>>
      /\ req' = Idle /\ view' = NoView /\ forward' = FALSE /\ start' = {} /\ touched' = {}
      /\ seen' = [d \in Docs |-> 0]
  BY DEF Fail
<1>2. /\ SearchOK' <=> SearchOK
      /\ Listed' = Listed /\ Requests' = Requests /\ Views' = Views
  BY <1>1, Frame
<1>3. /\ Idle \in Requests /\ Idle.pc = "idle" /\ ~Idle.reversed
      /\ NoView \in Views /\ ~NoView.shown /\ ~NoView.reversed /\ ~NoView.hasPrevious
  BY IdleFacts DEF TypeInv
<1>4. seen' \in [Docs -> Nat]
  BY <1>1
<1>5. QED
  BY <1>1, <1>2, <1>3, <1>4 DEF TypeInv

LEMMA TypeSearch ==
  ASSUME TypeInv, Continues, SearchStep
  PROVE  TypeInv'
<1>1. /\ req \in Requests /\ view \in Views /\ seen \in [Docs -> Nat] /\ req.reversed \in BOOLEAN
      /\ req.own \in BOOLEAN /\ req.found \in Seq(Docs) /\ Listed \in SUBSET Docs
  BY ListedFacts DEF TypeInv, Requests
<1>2. CASE \E edges \in Seq(Listed) : Take(edges)
  BY <1>1, <1>2, TypeTake DEF SearchStep
<1>3. CASE req.pc = "readBack" /\ Take(req.found)
  <2>1. search # "cameraEvents"
    BY <1>3 DEF TypeInv
  <2>2. QED
    BY <1>1, <1>3, <2>1, TypeTake DEF SearchStep
<1>4. CASE \E edges \in Seq(Listed), pc \in {"readBack", "readMore"} :
             search # "cameraEvents" /\ Proceed([req EXCEPT !.pc = pc, !.found = edges])
  <2>1. PICK edges \in Seq(Listed), pc \in {"readBack", "readMore"} :
               search # "cameraEvents" /\ Proceed([req EXCEPT !.pc = pc, !.found = edges])
    BY <1>4
  <2>2. edges \in Seq(Docs)
    BY <1>1, WiderSeq
  <2>3. req' \in Requests /\ req'.pc = pc /\ req'.reversed = req.reversed
    BY <1>1, <2>1, <2>2 DEF Proceed, Requests
  <2>4. UNCHANGED <<asked, collection, forward, start, touched, still, calm>> /\ UNCHANGED <<view, seen>>
    BY <2>1 DEF Proceed, walk
  <2>5. (forward => ~req'.reversed) /\ req'.pc \in {"readBack", "readMore"}
    BY <2>3 DEF TypeInv
  <2>6. search \notin TwoQueries
    BY DEF SearchStep
  <2>7. view' \in Views /\ seen' \in [Docs -> Nat]
    BY <1>1, <2>4
  <2>8. QED
    BY <2>1, <2>3, <2>4, <2>5, <2>6, <2>7, TypeStep
<1>5. CASE \E other \in BOOLEAN : Answer(req, req.own, other)
  BY <1>1, <1>5, TypeAnswer DEF SearchStep
<1>6. CASE Fail
  BY <1>6, TypeFail
<1>7. \/ \E edges \in Seq(Listed) : Take(edges)
      \/ req.pc = "readBack" /\ Take(req.found)
      \/ \E edges \in Seq(Listed), pc \in {"readBack", "readMore"} :
           search # "cameraEvents" /\ Proceed([req EXCEPT !.pc = pc, !.found = edges])
      \/ \E other \in BOOLEAN : Answer(req, req.own, other)
      \/ Fail
  <2>1. \A edges : (edges # <<>>) \in BOOLEAN
    OBVIOUS
  <2>2. QED
    BY <2>1 DEF SearchStep
<1>8. QED
  BY <1>2, <1>3, <1>4, <1>5, <1>6, <1>7

-----------------------------------------------------------------------------
(* While nothing changes.                                                  *)

\* A page is shown.
LEMMA CalmShown ==
  ASSUME TypeInv, Continues, UNCHANGED asked, UNCHANGED collection, search # "abnormalDevices",
         req' = Idle, view' \in Views, NEW page, NEW own \in BOOLEAN, NEW back \in BOOLEAN, NEW c,
         PageFrom(page, own, back, Where(c)),
         view'.page = page, view'.reversed = back, view'.cursor = c,
         (IF back THEN view'.hasPrevious ELSE view'.hasNext) <=> own,
         search \notin TwoQueries /\ page # <<>> =>
           IF back THEN view'.hasNext <=> AfterPlace(Place(Last(page))) # {}
                   ELSE view'.hasPrevious <=> BeforePlace(Place(Head(page))) # {}
  PROVE  CalmInv'
<1>1. /\ search' = search /\ Listed' = Listed /\ size' = size /\ (Reversible' <=> Reversible)
      /\ \A d : Place(d)' = Place(d)
      /\ \A D : Onward(D)' = Onward(D) /\ Backward(D)' = Backward(D)
      /\ \A p : AfterPlace(p)' = AfterPlace(p) /\ BeforePlace(p)' = BeforePlace(p) /\ (PlaceOK(p)' <=> PlaceOK(p))
      /\ \A d : Where(d)' = Where(d)
  BY Frame
<1>2. TwoQueries' = TwoQueries
  BY DEF TwoQueries
<1>3. CalmSearch'
  BY DEF CalmSearch, Idle
<1>4. (PageFrom(view.page, IF view.reversed THEN view.hasPrevious ELSE view.hasNext, view.reversed, Where(view.cursor)))'
  BY <1>1 DEF PageFrom
<1>5. (search \notin TwoQueries /\ view.page # <<>> =>
         IF view.reversed
         THEN view.hasNext <=> AfterPlace(Place(Last(view.page))) # {}
         ELSE view.hasPrevious <=> BeforePlace(Place(Head(view.page))) # {})'
  BY <1>1, <1>2
<1>6. QED
  BY <1>1, <1>3, <1>4, <1>5 DEF CalmInv, CalmView

LEMMA CalmTake ==
  ASSUME TypeInv, Continues, search \notin TwoQueries, NEW edges \in Seq(Listed),
         PlaceOK(Where(req.cursor)), IsQuery(edges, req.reversed, Where(req.cursor)), Take(edges)
  PROVE  CalmInv'
<1> DEFINE page == IF req.reversed THEN Reverse(Trimmed(edges)) ELSE Trimmed(edges)
           own == Len(edges) = size + 1
<1>1. SearchOK /\ req.reversed \in BOOLEAN /\ own \in BOOLEAN /\ Listed \in SUBSET Docs
  BY ListedFacts DEF TypeInv, Requests
<1>2. PageFrom(page, own, req.reversed, Where(req.cursor))
  BY <1>1, PageOf
<1>3. /\ UNCHANGED <<asked, collection, forward, start, touched, still, stale, calm>>
      /\ page \in Seq(Listed)
      /\ \/ /\ page = <<>> /\ ~own
            /\ req' = Idle /\ view' \in Views /\ view'.shown /\ view'.page = page /\ ~view'.hasNext
            /\ ~view'.hasPrevious /\ view'.reversed = req.reversed /\ view'.cursor = req.cursor
         \/ /\ page # <<>>
            /\ req' \in Requests /\ req'.pc = (IF LooksUp THEN "lookUpMore" ELSE "more")
            /\ req'.page = page /\ (req'.own <=> own)
            /\ req'.reversed = req.reversed /\ req'.cursor = req.cursor
            /\ req'.last = CursorOf(Edge(page, req.reversed))
  BY <1>1, TakeFacts
<1>4. search # "abnormalDevices" /\ (LooksUp <=> search # "cameraEvents")
  BY DEF TwoQueries, LooksUp
<1>5. UNCHANGED asked /\ UNCHANGED collection
  BY <1>3
<1>6. CASE page = <<>>
  BY <1>1, <1>2, <1>3, <1>4, <1>5, <1>6, CalmShown
<1>7. CASE page # <<>>
  <2> DEFINE from == Edge(page, req.reversed)
  <2>1. from \in Listed
    <3>1. page # <<>> => Last(page) \in Listed /\ Head(page) \in Listed
      BY <1>1, TrimmedFacts
    <3>2. QED
      BY <1>7, <3>1 DEF Edge
  <2>2. CursorOf(from).id = from /\ (search = "cameraEvents" => CursorOf(from) = Place(from))
    BY <1>1, CursorFacts DEF Place
  <2>3. /\ search' = search /\ size' = size /\ (Reversible' <=> Reversible)
        /\ \A d : Place(d)' = Place(d)
        /\ \A D : Onward(D)' = Onward(D) /\ Backward(D)' = Backward(D)
        /\ \A p : AfterPlace(p)' = AfterPlace(p) /\ BeforePlace(p)' = BeforePlace(p) /\ (PlaceOK(p)' <=> PlaceOK(p))
        /\ \A d : Where(d)' = Where(d)
    BY <1>5, Frame
  <2>4. req'.reversed \in BOOLEAN /\ req'.own \in BOOLEAN
    BY <1>3, <1>7 DEF Requests
  <2> HIDE DEF page, own
  <2>5. PageFrom(req.page, req.own, req.reversed, Where(req.cursor))'
    BY <1>2, <1>3, <1>7, <2>3, <2>4 DEF PageFrom
  <2>6. (Edge(req.page, req.reversed))' = from
    BY <1>3, <1>7 DEF Edge
  <2>7. TwoQueries' = TwoQueries
    BY DEF TwoQueries
  <2> HIDE DEF from
  <2>8. req'.pc = (IF LooksUp THEN "lookUpMore" ELSE "more") /\ req'.last = CursorOf(from)
    BY <1>3, <1>7 DEF from
  <2>9. CalmSearch'
    BY <1>4, <2>2, <2>3, <2>5, <2>6, <2>7, <2>8 DEF CalmSearch, TwoQueries
  <2>10. QED
    BY <2>8, <2>9 DEF CalmInv
<1>8. QED
  BY <1>6, <1>7

\* The second query gives the other flag.
LEMMA CalmAnswer ==
  ASSUME TypeInv, Continues, search \notin TwoQueries, NEW edges,
         IsQuery(edges, ~req.reversed, Place(Edge(req.page, req.reversed))),
         PageFrom(req.page, req.own, req.reversed, Where(req.cursor)),
         Answer(req, req.own, edges # <<>>)
  PROVE  CalmInv'
<1>1. SearchOK /\ req \in Requests /\ req.reversed \in BOOLEAN /\ req.own \in BOOLEAN
  BY DEF TypeInv, Requests
<1> DEFINE other == edges # <<>>
<1>2. other \in BOOLEAN
  OBVIOUS
<1>3. /\ UNCHANGED <<asked, collection, forward, start, touched, still, stale, calm>>
      /\ req' = Idle /\ view' \in Views /\ view'.shown
      /\ view'.page = req.page /\ view'.reversed = req.reversed /\ view'.cursor = req.cursor
      /\ view'.hasNext = (IF req.reversed THEN other ELSE req.own)
      /\ view'.hasPrevious = (IF req.reversed THEN req.own ELSE other)
  BY <1>1, <1>2, AnswerFacts
<1>4. ASSUME req.page # <<>>
      PROVE  IF req.reversed THEN view'.hasNext <=> AfterPlace(Place(Last(req.page))) # {}
                             ELSE view'.hasPrevious <=> BeforePlace(Place(Head(req.page))) # {}
  <2> DEFINE p == Place(Edge(req.page, req.reversed))
             D == IF req.reversed THEN AfterPlace(p) ELSE BeforePlace(p)
  <2>1. edges \in Seq(Listed) /\ Len(edges) = IF size + 1 < Cardinality(D) THEN size + 1 ELSE Cardinality(D)
    BY <1>1 DEF IsQuery
  <2>2. IsFiniteSet(D) /\ Cardinality(D) \in Nat
    <3>1. D \in SUBSET Listed
      BY DEF AfterPlace, BeforePlace
    <3>2. QED
      BY <1>1, <3>1, ListedFacts, FS_CardinalityType
  <2>3. Cardinality(D) = 0 <=> D = {}
    BY <2>2, FS_EmptySet
  <2> HIDE DEF D
  <2>4. edges = <<>> <=> Len(edges) = 0
    BY <2>1, EmptySeq
  <2>5. size \in Nat /\ size > 0
    BY <1>1 DEF SearchOK
  <2>6. other <=> D # {}
    BY <2>1, <2>2, <2>3, <2>4, <2>5
  <2>7. QED
    BY <1>1, <1>3, <2>6 DEF Edge, D
<1>5. search # "abnormalDevices" /\ UNCHANGED asked /\ UNCHANGED collection
  BY <1>3 DEF TwoQueries
<1>6. (IF req.reversed THEN view'.hasPrevious ELSE view'.hasNext) <=> req.own
  BY <1>1, <1>3
<1>7. QED
  BY <1>1, <1>3, <1>4, <1>5, <1>6, CalmShown

LEMMA CalmFail ==
  ASSUME Fail
  PROVE  CalmInv'
<1>1. req' = Idle /\ view' = NoView
  BY DEF Fail
<1>2. Idle.pc = "idle" /\ ~NoView.shown
  BY DEF Idle, NoView
<1>3. CalmSearch'
  BY <1>1, <1>2 DEF CalmSearch
<1>4. QED
  BY <1>1, <1>2, <1>3 DEF CalmInv

\* The documents of a query are to be read again.
LEMMA CalmReadBack ==
  ASSUME TypeInv, Continues, search \notin TwoQueries, CalmSearch, NEW edges \in Seq(Listed),
         NEW pc, NEW back \in BOOLEAN, IsQuery(edges, back, req.last),
         \/ req.pc = "find" /\ pc = "readBack" /\ (back <=> req.reversed)
         \/ req.pc = "more" /\ pc = "readMore" /\ (back <=> ~req.reversed),
         Proceed([req EXCEPT !.pc = pc, !.found = edges])
  PROVE  CalmInv'
<1>1. UNCHANGED <<asked, collection, calm>> /\ req' = [req EXCEPT !.pc = pc, !.found = edges]
  BY DEF Proceed
<1>2. /\ UNCHANGED asked /\ UNCHANGED collection
      /\ req'.pc = pc /\ req'.found = edges /\ req'.reversed = req.reversed /\ req'.cursor = req.cursor
      /\ req'.page = req.page /\ req'.own = req.own
  BY <1>1 DEF TypeInv, Requests
<1>3. /\ \A d : Place(d)' = Place(d)
      /\ \A d : Where(d)' = Where(d)
      /\ \A p : PlaceOK(p)' <=> PlaceOK(p)
      /\ \A s, b, p : IsQuery(s, b, p)' <=> IsQuery(s, b, p)
      /\ \A s, own, b, p : PageFrom(s, own, b, p)' <=> PageFrom(s, own, b, p)
      /\ search' = search
  BY <1>2, Frame
<1>4. TwoQueries' = TwoQueries /\ search \notin {"malDevices", "staffDevices", "abnormalDevices"}
  BY DEF TwoQueries
<1>5. (Edge(req.page, req.reversed))' = Edge(req.page, req.reversed)
  BY <1>2 DEF Edge
<1>6. CASE pc = "readBack"
  <2>1. req.pc = "find" /\ IsQuery(edges, req.reversed, req.last)
    <3>1. req.reversed \in BOOLEAN /\ req.pc = "find" /\ back = req.reversed
      BY <1>6 DEF TypeInv, Requests
    <3>2. QED
      BY <3>1
  <2>2. req.last = Where(req.cursor) /\ PlaceOK(req.last)
    BY <2>1 DEF CalmSearch, TypeInv
  <2>3. CalmSearch'
    BY <1>2, <1>3, <1>4, <1>6, <2>1, <2>2 DEF CalmSearch
  <2>4. QED
    BY <1>2, <1>6, <2>3 DEF CalmInv
<1>7. CASE pc = "readMore"
  <2>1. req.pc = "more" /\ IsQuery(edges, ~req.reversed, req.last)
    <3>1. req.reversed \in BOOLEAN /\ req.pc = "more" /\ back = ~req.reversed
      BY <1>7 DEF TypeInv, Requests
    <3>2. QED
      BY <3>1
  <2>2. /\ PageFrom(req.page, req.own, req.reversed, Where(req.cursor))
        /\ req.last = Place(Edge(req.page, req.reversed))
    BY <2>1 DEF CalmSearch
  <2>3. CalmSearch'
    BY <1>2, <1>3, <1>4, <1>5, <1>7, <2>1, <2>2 DEF CalmSearch
  <2>4. QED
    BY <1>2, <1>7, <2>3 DEF CalmInv
<1>8. QED
  BY <1>6, <1>7

LEMMA CalmSteps ==
  ASSUME TypeInv, CalmInv, Continues, SearchStep
  PROVE  CalmInv'
<1>1. req.reversed \in BOOLEAN /\ search \notin TwoQueries
  BY DEF TypeInv, Requests, SearchStep
<1>2. CASE Fail
  BY <1>2, CalmFail
<1>3. CASE ~calm /\ ~Fail
  <2>1. \/ \E edges : Take(edges)
        \/ \E r : Proceed(r)
        \/ \E r, own, other : Answer(r, own, other)
    BY <1>3 DEF SearchStep
  <2>2. calm' = calm
    BY <2>1 DEF Take, Proceed, Answer
  <2>3. QED
    BY <1>3, <2>2 DEF CalmInv
<1>4. CASE calm
  <2>1. CalmSearch
    BY <1>4 DEF CalmInv
  <2>2. ASSUME req.pc = "find", NEW edges \in Seq(Listed), IsQuery(edges, req.reversed, req.last), Take(edges)
        PROVE  CalmInv'
    <3>1. req.last = Where(req.cursor) /\ PlaceOK(req.last)
      BY <2>1, <2>2 DEF CalmSearch, TypeInv
    <3>2. QED
      BY <1>1, <2>2, <3>1, CalmTake
  <2>3. ASSUME req.pc = "find", NEW edges \in Seq(Listed), IsQuery(edges, req.reversed, req.last),
               Proceed([req EXCEPT !.pc = "readBack", !.found = edges])
        PROVE  CalmInv'
    BY <1>1, <2>1, <2>3, CalmReadBack
  <2>4. ASSUME req.pc = "readBack", Take(req.found) PROVE CalmInv'
    <3>1. PlaceOK(Where(req.cursor)) /\ IsQuery(req.found, req.reversed, Where(req.cursor))
      BY <2>1, <2>4 DEF CalmSearch
    <3>2. req.found \in Seq(Listed)
      BY <3>1 DEF IsQuery
    <3>3. QED
      BY <1>1, <2>4, <3>1, <3>2, CalmTake
  <2>5. ASSUME req.pc = "more", NEW edges \in Seq(Listed), IsQuery(edges, ~req.reversed, req.last),
               Answer(req, req.own, edges # <<>>)
        PROVE  CalmInv'
    <3>1. /\ PageFrom(req.page, req.own, req.reversed, Where(req.cursor))
          /\ req.last = Place(Edge(req.page, req.reversed))
      BY <1>1, <2>1, <2>5 DEF CalmSearch
    <3>2. QED
      BY <1>1, <2>5, <3>1, CalmAnswer
  <2>6. ASSUME req.pc = "more", NEW edges \in Seq(Listed), IsQuery(edges, ~req.reversed, req.last),
               Proceed([req EXCEPT !.pc = "readMore", !.found = edges])
        PROVE  CalmInv'
    <3>1. (~req.reversed) \in BOOLEAN
      OBVIOUS
    <3>2. QED
      BY <1>1, <2>1, <2>6, <3>1, CalmReadBack
  <2>7. ASSUME req.pc = "readMore", Answer(req, req.own, req.found # <<>>) PROVE CalmInv'
    <3>1. /\ PageFrom(req.page, req.own, req.reversed, Where(req.cursor))
          /\ IsQuery(req.found, ~req.reversed, Place(Edge(req.page, req.reversed)))
      BY <1>1, <2>1, <2>7 DEF CalmSearch
    <3>2. QED
      BY <1>1, <2>7, <3>1, CalmAnswer
  <2>8. QED
    BY <1>2, <2>2, <2>3, <2>4, <2>5, <2>6, <2>7 DEF SearchStep
<1>5. QED
  BY <1>2, <1>3, <1>4

-----------------------------------------------------------------------------
(* The walk.                                                               *)

LEMMA WalkAnswer ==
  ASSUME TypeInv, Continues, forward, search # "abnormalDevices", \A d \in Steady : seen[d] <= 1,
         NEW r \in Requests, r.reversed = req.reversed, NEW own \in BOOLEAN, NEW other \in BOOLEAN,
         PageSeen(r.page, own, r.end), Answer(r, own, other)
  PROVE  WalkInv'
<1>1. ~req.reversed /\ Steady \subseteq Docs /\ \A d \in Docs : seen[d] \in Nat
  BY ListedFacts DEF TypeInv, Steady
<1>2. /\ UNCHANGED <<asked, collection, forward, start, touched, still, stale, calm>>
      /\ req' = Idle /\ view'.end = r.end
      /\ view'.hasNext = own
      /\ \A d \in Docs : seen'[d] = IF forward /\ d \in ToSet(r.page) /\ seen[d] < 2 THEN seen[d] + 1 ELSE seen[d]
  BY <1>1, AnswerFacts
<1>3. UNCHANGED asked /\ UNCHANGED collection /\ start' = start /\ touched' = touched
  BY <1>2
<1>4. /\ search' = search
      /\ \A d : Place(d)' = Place(d)
      /\ \A p, q : Precedes(p, q)' <=> Precedes(p, q)
      /\ \A c : Where(c)' = Where(c) /\ (CursorKnown(c)' <=> CursorKnown(c))
  BY <1>3, Frame
<1>5. Steady' = Steady /\ \A c : Trusted(c)' <=> Trusted(c)
  BY <1>3, <1>4 DEF Steady, Trusted
<1>6. \A d \in Steady : /\ seen'[d] <= 1
                        /\ seen'[d] = 1 <=> (seen[d] = 1 \/ d \in ToSet(r.page))
  <2>1. TAKE d \in Steady
  <2>2. seen[d] \in Nat /\ seen[d] <= 1 /\ (d \in ToSet(r.page) => seen[d] = 0)
    BY <1>1 DEF PageSeen
  <2>3. seen'[d] = IF d \in ToSet(r.page) /\ seen[d] < 2 THEN seen[d] + 1 ELSE seen[d]
    BY <1>1, <1>2
  <2>4. QED
    BY <2>2, <2>3
<1>7. \A d : d \notin ToSet(<<>>)
  BY DEF ToSet
<1>8. /\ ~own => \A d \in Steady : seen'[d] = 1
      /\ own => r.end.id # NoDoc
      /\ own /\ Trusted(r.end) =>
           /\ CursorKnown(r.end)
           /\ \A d \in Steady : seen'[d] = 1 <=> ~Precedes(Where(r.end), Place(d))
  BY <1>6 DEF PageSeen
<1>9. PageSeen(<<>>, view.hasNext, view.end)'
  BY <1>2, <1>4, <1>5, <1>7, <1>8 DEF PageSeen
<1>10. WalkSearch'
  BY <1>2, <1>9 DEF WalkSearch, Idle
<1>11. QED
  BY <1>4, <1>5, <1>6, <1>10 DEF WalkInv

LEMMA WalkTake ==
  ASSUME TypeInv, Continues, forward, search \notin TwoQueries, \A d \in Steady : seen[d] <= 1,
         NEW S \in SUBSET Docs, NEW edges \in Seq(S), Take(edges), search = "cameraEvents" => S = Listed,
         PageSeen(Trimmed(edges), Len(edges) = size + 1, EndOf(Trimmed(edges)))
  PROVE  WalkInv'
<1> DEFINE page == Trimmed(edges)
           own == Len(edges) = size + 1
<1>1. ~req.reversed /\ seen \in [Docs -> Nat]
  BY DEF TypeInv
<1>2. /\ UNCHANGED <<asked, collection, forward, start, touched, still, stale, calm>>
      /\ \/ /\ page = <<>> /\ ~own
            /\ req' = Idle /\ view' \in Views /\ ~view'.hasNext
            /\ view'.end = Nobody /\ seen' \in [Docs -> Nat] /\ \A d \in Docs : seen'[d] = seen[d]
         \/ /\ page # <<>> /\ UNCHANGED <<view, seen>>
            /\ req' \in Requests /\ req'.pc = (IF LooksUp THEN "lookUpMore" ELSE "more")
            /\ req'.page = page /\ (req'.own <=> own) /\ req'.end = EndOf(page)
  BY <1>1, TakeFacts
<1>3. UNCHANGED <<start, touched, seen>> /\ UNCHANGED asked /\ UNCHANGED collection
  <2>1. CASE seen' \in [Docs -> Nat] /\ \A d \in Docs : seen'[d] = seen[d]
    BY <1>1, <1>2, <2>1
  <2>2. CASE UNCHANGED <<view, seen>>
    BY <1>2, <2>2
  <2>3. QED
    BY <1>2, <2>1, <2>2
<1>4. /\ Steady' = Steady
      /\ \A s, b, end : PageSeen(s, b, end)' <=> PageSeen(s, b, end)
      /\ search' = search /\ TwoQueries' = TwoQueries
  BY <1>3, Frame, WalkFrame DEF TwoQueries
<1>5. search # "abnormalDevices" /\ search \notin {"malDevices", "staffDevices"}
  BY DEF TwoQueries
<1>6. CASE page = <<>>
  <2>1. own = FALSE /\ view'.hasNext = FALSE /\ view'.end = EndOf(page) /\ req' = Idle
    BY <1>2, <1>6 DEF Views, EndOf
  <2>2. PageSeen(page, own, EndOf(page))
    OBVIOUS
  <2>3. PageSeen(<<>>, FALSE, EndOf(page))
    BY <1>6, <2>1, <2>2
  <2>4. PageSeen(<<>>, view'.hasNext, view'.end)
    BY <2>1, <2>3
  <2>5. PageSeen(<<>>, view.hasNext, view.end)'
    BY <1>4, <2>4
  <2>6. WalkSearch'
    BY <2>1, <2>5 DEF WalkSearch, Idle
  <2>7. QED
    BY <1>3, <1>4, <1>5, <2>6 DEF WalkInv
<1>7. CASE page # <<>>
  <2>1. req'.own \in BOOLEAN
    BY <1>2, <1>7 DEF Requests
  <2>2. own \in BOOLEAN /\ req'.own = own /\ req'.page = page /\ req'.end = EndOf(page)
    BY <1>2, <1>7, <2>1
  <2>3. PageSeen(page, own, EndOf(page))
    OBVIOUS
  <2>4. PageSeen(req'.page, req'.own, req'.end)
    BY <2>2, <2>3
  <2>5. PageSeen(req.page, req.own, req.end)'
    BY <1>4, <2>4
  <2>6. req'.pc \in {"lookUpMore", "more"}
    BY <1>2, <1>7
  <2>7. WalkSearch'
    BY <1>4, <1>5, <2>5, <2>6 DEF WalkSearch
  <2>8. QED
    BY <1>3, <1>4, <1>5, <2>7 DEF WalkInv
<1>8. QED
  BY <1>6, <1>7

\* A query shows the page it gives.
LEMMA WalkQuery ==
  ASSUME TypeInv, Continues, PlaceOK(req.last), SeenTo(req.last), forward,
         NEW edges, IsQuery(edges, req.reversed, req.last)
  PROVE  PageSeen(Trimmed(edges), Len(edges) = size + 1, EndOf(Trimmed(edges)))
<1>1. SearchOK /\ req.reversed = FALSE
  BY DEF TypeInv, Requests
<1> DEFINE own == Len(edges) = size + 1
           page == Trimmed(edges)
<1>2. PageFrom(IF FALSE THEN Reverse(page) ELSE page, own, FALSE, req.last)
  BY <1>1, PageOf
<1>3. /\ page = FirstOf(size, Onward(AfterPlace(req.last))) /\ own \in BOOLEAN
      /\ own <=> Cardinality(AfterPlace(req.last)) > size
  BY <1>2 DEF PageFrom
<1> HIDE DEF own, page
<1>4. PageSeen(page, own, EndOf(page))
  BY <1>3, WalkPage
<1>5. QED
  BY <1>4 DEF own, page

LEMMA WalkSteps ==
  ASSUME TypeInv, WalkInv, Continues, SearchStep
  PROVE  WalkInv'
<1>1. search \notin TwoQueries /\ search # "abnormalDevices" /\ req \in Requests /\ SearchOK
  BY DEF SearchStep, TwoQueries, TypeInv
<1>2. CASE Fail
  <2>1. ~forward'
    BY <1>2 DEF Fail
  <2>2. QED
    BY <2>1 DEF WalkInv, Sound
<1>3. CASE ~Fail
  <2>1. \/ \E edges : Take(edges)
        \/ \E r : Proceed(r)
        \/ \E r, own, other : Answer(r, own, other)
    BY <1>3 DEF SearchStep
  <2>2. UNCHANGED <<asked, forward, still, stale>>
    BY <2>1 DEF Take, Proceed, Answer, walk
  <2>3. Sound' <=> Sound
    BY <2>2 DEF Sound, asked, TwoQueries
  <2>4. SUFFICES ASSUME Sound PROVE WalkInv'
    BY <2>3 DEF WalkInv
  <2>5. forward /\ WalkSearch /\ \A d \in Steady : seen[d] <= 1
    BY <1>1, <2>4 DEF WalkInv, Sound
  <2>6. Listed \in SUBSET Docs
    BY <1>1, ListedFacts
  <2>7. ASSUME req.pc = "find", NEW edges \in Seq(Listed), IsQuery(edges, req.reversed, req.last), Take(edges)
        PROVE  WalkInv'
    <3>1. PageSeen(Trimmed(edges), Len(edges) = size + 1, EndOf(Trimmed(edges)))
      BY <2>5, <2>7, WalkQuery DEF WalkSearch, TypeInv
    <3>2. QED
      BY <1>1, <2>5, <2>6, <2>7, <3>1, WalkTake
  <2>8. ASSUME req.pc = "find", NEW edges \in Seq(Listed), IsQuery(edges, req.reversed, req.last),
               Proceed([req EXCEPT !.pc = "readBack", !.found = edges])
        PROVE  WalkInv'
    <3>1. PageSeen(Trimmed(edges), Len(edges) = size + 1, EndOf(Trimmed(edges)))
      BY <2>5, <2>8, WalkQuery DEF WalkSearch, TypeInv
    <3>2. /\ UNCHANGED asked /\ UNCHANGED collection /\ UNCHANGED <<start, touched, seen>>
          /\ req'.pc = "readBack" /\ req'.found = edges
      BY <1>1, <2>8 DEF Proceed, walk, Requests
    <3>3. /\ Steady' = Steady /\ search' = search /\ size' = size
          /\ \A s, b, end : PageSeen(s, b, end)' <=> PageSeen(s, b, end)
          /\ \A s : EndOf(s)' = EndOf(s) /\ Trimmed(s)' = Trimmed(s)
      BY <3>2, Frame, WalkFrame
    <3>4. PageSeen(Trimmed(req.found), Len(req.found) = size + 1, EndOf(Trimmed(req.found)))'
      BY <3>1, <3>2, <3>3
    <3>5. WalkSearch'
      BY <3>2, <3>4 DEF WalkSearch
    <3>6. QED
      BY <1>1, <2>5, <3>2, <3>3, <3>5 DEF WalkInv
  <2>9. ASSUME req.pc = "readBack", Take(req.found) PROVE WalkInv'
    <3>1. PageSeen(Trimmed(req.found), Len(req.found) = size + 1, EndOf(Trimmed(req.found)))
      BY <2>5, <2>9 DEF WalkSearch
    <3>2. req.found \in Seq(Docs) /\ search # "cameraEvents"
      BY <1>1, <2>9 DEF Requests, TypeInv
    <3>3. QED
      BY <1>1, <2>5, <2>9, <3>1, <3>2, WalkTake
  <2>10. ASSUME NEW other \in BOOLEAN, req.pc \in {"more", "readMore"}, Answer(req, req.own, other) PROVE WalkInv'
    <3>1. PageSeen(req.page, req.own, req.end)
      BY <1>1, <2>5, <2>10 DEF WalkSearch
    <3>2. req.own \in BOOLEAN
      BY <1>1 DEF Requests
    <3>3. QED
      BY <1>1, <2>5, <2>10, <3>1, <3>2, WalkAnswer
  <2>11. ASSUME req.pc = "more", NEW edges \in Seq(Listed),
                Proceed([req EXCEPT !.pc = "readMore", !.found = edges])
         PROVE  WalkInv'
    <3>1. PageSeen(req.page, req.own, req.end)
      BY <1>1, <2>5, <2>11 DEF WalkSearch
    <3>2. /\ UNCHANGED asked /\ UNCHANGED collection /\ UNCHANGED <<start, touched, seen>>
          /\ req'.pc = "readMore" /\ req'.page = req.page /\ req'.own = req.own /\ req'.end = req.end
      BY <1>1, <2>11 DEF Proceed, walk, Requests
    <3>3. /\ Steady' = Steady /\ search' = search
          /\ \A s, b, end : PageSeen(s, b, end)' <=> PageSeen(s, b, end)
      BY <3>2, Frame, WalkFrame
    <3>4. WalkSearch'
      BY <3>1, <3>2, <3>3 DEF WalkSearch
    <3>5. QED
      BY <1>1, <2>5, <3>2, <3>3, <3>4 DEF WalkInv
  <2>12. CASE /\ req.pc = "find"
              /\ \E edges \in Seq(Listed) : IsQuery(edges, req.reversed, req.last) /\ Take(edges)
    BY <2>7, <2>12
  <2>13. CASE /\ req.pc = "find" /\ search # "cameraEvents"
              /\ \E edges \in Seq(Listed) :
                   IsQuery(edges, req.reversed, req.last) /\ Proceed([req EXCEPT !.pc = "readBack", !.found = edges])
    BY <2>8, <2>13
  <2>14. CASE /\ req.pc = "more"
              /\ \E edges \in Seq(Listed) : IsQuery(edges, ~req.reversed, req.last) /\ Answer(req, req.own, edges # <<>>)
    <3>1. PICK edges : Answer(req, req.own, edges # <<>>)
      BY <2>14
    <3>2. (edges # <<>>) \in BOOLEAN
      OBVIOUS
    <3>3. QED
      BY <2>10, <2>14, <3>1, <3>2
  <2>15. CASE /\ req.pc = "more" /\ search # "cameraEvents"
              /\ \E edges \in Seq(Listed) :
                   IsQuery(edges, ~req.reversed, req.last) /\ Proceed([req EXCEPT !.pc = "readMore", !.found = edges])
    BY <2>11, <2>15
  <2>16. CASE req.pc = "readMore" /\ Answer(req, req.own, req.found # <<>>)
    <3>1. (req.found # <<>>) \in BOOLEAN
      OBVIOUS
    <3>2. QED
      BY <2>10, <2>16, <3>1
  <2>17. QED
    BY <1>3, <2>9, <2>12, <2>13, <2>14, <2>15, <2>16 DEF SearchStep
<1>4. QED
  BY <1>2, <1>3

-----------------------------------------------------------------------------
(* The client asks.                                                        *)

LEMMA AskPlace ==
  ASSUME TypeInv, Continues, NEW c \in Cursors, NEW back \in BOOLEAN, NEW n \in Nat, Ask(c, back, n),
         UNCHANGED asked, UNCHANGED collection,
         search = "abnormalDevices" => c = Nobody
  PROVE  /\ req' \in Requests' /\ calm' = TRUE /\ req'.pc \in {"lookUp", "find"}
         /\ req'.pc = "lookUp" <=> c.id # NoDoc /\ LooksUp
         /\ req'.cursor = c /\ req'.last = c /\ req'.reversed = back /\ req'.skip = n
         /\ req'.pc = "find" => PlaceOK(c) /\ c = Where(c)
         /\ CalmInv'
<1>1. /\ req' \in Requests /\ calm' = TRUE
      /\ req'.pc = (IF c.id # NoDoc /\ LooksUp THEN "lookUp" ELSE "find")
      /\ req'.cursor = c /\ req'.last = c /\ req'.reversed = back /\ req'.skip = n
  BY AskFacts
<1>2. SearchOK
  BY DEF TypeInv
<1>3. ASSUME req'.pc = "find" PROVE PlaceOK(c) /\ c = Where(c)
  <2>1. CASE c.id = NoDoc
    BY <1>2, <2>1, CursorFacts DEF PlaceOK
  <2>2. CASE c.id # NoDoc
    <3>1. search = "cameraEvents"
      <4>1. ~LooksUp
        BY <1>1, <1>3, <2>2
      <4>2. search # "abnormalDevices"
        BY <1>2, <2>2, CursorFacts
      <4>3. QED
        BY <4>1, <4>2 DEF LooksUp
    <3>2. Where(c) = c /\ CursorKnown(c)
      BY <3>1 DEF Where, CursorKnown
    <3>3. QED
      BY <1>2, <2>2, <3>2, CursorFacts DEF PlaceOK
  <2>3. QED
    BY <2>1, <2>2
<1>4. Requests' = Requests /\ \A d : Where(d)' = Where(d)
  BY Frame
<1>5. req'.pc \in {"lookUp", "find"}
  BY <1>1
<1>6. CalmSearch'
  BY <1>1, <1>3, <1>4, <1>5 DEF CalmSearch
<1>7. CalmInv'
  BY <1>5, <1>6 DEF CalmInv
<1>8. QED
  BY <1>1, <1>3, <1>4, <1>5, <1>7

\* The invariant, for searches whose cursors can be continued from.
AllInv == TypeInv /\ CalmInv /\ WalkInv

LEMMA FirstPageStep ==
  ASSUME AllInv, Continues, FirstPage
  PROVE  AllInv'
<1>1. /\ UNCHANGED asked /\ UNCHANGED collection /\ Ask(Nobody, FALSE, 0) /\ view' = NoView
      /\ forward' = TRUE /\ start' = Listed /\ touched' = {} /\ still' = TRUE
      /\ seen' = [d \in Docs |-> 0]
  BY DEF FirstPage
<1>2. SearchOK /\ TypeInv
  BY DEF AllInv, TypeInv
<1>3. Nobody \in Cursors /\ Nobody.id = NoDoc
  BY <1>2, CursorFacts DEF Nobody
<1>4. /\ req' \in Requests' /\ calm' = TRUE /\ req'.pc = "find"
      /\ req'.last = Nobody /\ req'.reversed = FALSE /\ req'.skip = 0
      /\ PlaceOK(Nobody) /\ CalmInv'
  BY <1>1, <1>2, <1>3, AskPlace
<1>5. /\ SearchOK' /\ Listed' = Listed /\ Views' = Views /\ \A p : PlaceOK(p)' <=> PlaceOK(p)
  BY <1>1, <1>2, Frame
<1>6. NoView \in Views /\ ~NoView.reversed /\ ~NoView.hasPrevious
  BY <1>2, IdleFacts
<1>7. TypeInv'
  <2>1. seen' \in [Docs -> Nat]
    BY <1>1
  <2>2. QED
    BY <1>1, <1>4, <1>5, <1>6, <2>1 DEF TypeInv
<1>8. Steady' = Listed /\ Listed \subseteq Docs
  BY <1>1, <1>2, ListedFacts DEF Steady
<1>9. \A d \in Docs : seen'[d] = 0
  BY <1>1
<1>10. (\A d \in Steady : seen[d] <= 1)'
  BY <1>8, <1>9
<1>11. SeenTo(req.last)'
  BY <1>3, <1>4, <1>8, <1>9 DEF SeenTo
<1>12. WalkSearch'
  BY <1>4, <1>11 DEF WalkSearch
<1>13. WalkByNumber'
  <2> DEFINE n == Cardinality(Listed)
             k == req'.skip * size'
  <2>1. n \in Nat /\ Onward(Listed) \in [1..n -> Listed]
    BY <1>2, OrderedFacts
  <2>2. k = 0
    <3>1. req'.skip = 0
      BY <1>4
    <3>2. \A m \in Nat : 0 * m = 0
      OBVIOUS
    <3>3. size' = size /\ size \in Nat
      BY <1>2, <1>5, Frame, <1>1 DEF SearchOK
    <3>4. 0 * size = 0
      BY <3>2, <3>3
    <3>5. QED
      BY <3>1, <3>3, <3>4
  <2>3. Onward(Listed)' = Onward(Listed)
    <3>1. \A D : Onward(D)' = Onward(D)
      BY <1>1, Frame
    <3>2. QED
      BY <1>5, <3>1
  <2>4. \A i \in 1..n : seen'[Onward(Listed)[i]] = 0
    BY <1>8, <1>9, <2>1
  <2> HIDE DEF k
  <2>5. \A i \in 1..n : ~(i <= k)
    BY <2>1, <2>2
  <2>6. ShownTo(req.skip * size)'
    BY <1>5, <2>3, <2>4, <2>5 DEF ShownTo, k
  <2>7. QED
    BY <1>4, <2>6 DEF WalkByNumber
<1>14. QED
  BY <1>4, <1>7, <1>10, <1>12, <1>13 DEF AllInv, WalkInv

\* Asking for a page beside the one shown.
LEMMA AskType ==
  ASSUME TypeInv, Continues, UNCHANGED asked, UNCHANGED collection, UNCHANGED <<view, still>>,
         NEW c \in Cursors, NEW back \in BOOLEAN, NEW n \in Nat, Ask(c, back, n),
         search = "abnormalDevices" => c = Nobody,
         start' \ touched' \subseteq Listed, seen' \in [Docs -> Nat],
         forward' /\ still => start' = Listed /\ touched' = {},
         forward' => ~back, search \in TwoQueries => ~back
  PROVE  TypeInv'
<1>1. /\ req' \in Requests' /\ calm' = TRUE /\ req'.pc \in {"lookUp", "find"}
      /\ req'.pc = "lookUp" <=> c.id # NoDoc /\ LooksUp
      /\ req'.cursor = c /\ req'.last = c /\ req'.reversed = back
      /\ req'.pc = "find" => PlaceOK(c)
  BY AskPlace
<1>2. /\ SearchOK' <=> SearchOK
      /\ Listed' = Listed /\ Views' = Views /\ (\A p : PlaceOK(p)' <=> PlaceOK(p)) /\ search' = search
      /\ (LooksUp' <=> LooksUp) /\ TwoQueries' = TwoQueries
  BY Frame DEF TwoQueries
<1>3. /\ SearchOK /\ view \in Views
      /\ search \in TwoQueries => ~view.reversed /\ ~view.hasPrevious
  BY DEF TypeInv
<1>4. /\ SearchOK' /\ req' \in Requests' /\ view' \in Views' /\ (seen \in [Docs -> Nat])'
      /\ (start \ touched \subseteq Listed)' /\ (still => calm)'
      /\ (forward /\ still => start = Listed /\ touched = {})'
  BY <1>1, <1>2, <1>3
<1>5. /\ (forward => ~req.reversed /\ (req.pc = "idle" => view.shown))'
      /\ (search \in TwoQueries => ~req.reversed /\ ~view.reversed /\ ~view.hasPrevious)'
  BY <1>1, <1>2, <1>3
<1>6. /\ (req.pc = "lookUp" => req.cursor.id # NoDoc /\ LooksUp /\ req.last = req.cursor)'
      /\ (req.pc = "find" => PlaceOK(req.last))'
      /\ (req.pc \in {"readBack", "lookUpMore", "readMore"} => search \notin TwoQueries /\ search # "cameraEvents")'
  BY <1>1, <1>2
<1>7. QED
  BY <1>4, <1>5, <1>6 DEF TypeInv

LEMMA PreviousPageStep ==
  ASSUME AllInv, Continues, PreviousPage
  PROVE  AllInv'
<1>1. /\ UNCHANGED asked /\ UNCHANGED collection /\ UNCHANGED <<view, still>> /\ Ask(view.before, TRUE, 0)
      /\ forward' = FALSE /\ start' = {} /\ touched' = {} /\ seen' = [d \in Docs |-> 0] /\ view.hasPrevious
  BY DEF PreviousPage
<1>2. TypeInv /\ view.before \in Cursors /\ search \notin TwoQueries
  BY <1>1 DEF AllInv, TypeInv, Views
<1>3. search # "abnormalDevices" /\ seen' \in [Docs -> Nat]
  BY <1>1, <1>2 DEF TwoQueries
<1>4. TypeInv'
  BY <1>1, <1>2, <1>3, AskType
<1>5. CalmInv'
  BY <1>1, <1>2, <1>3, AskPlace
<1>6. WalkInv'
  BY <1>1 DEF WalkInv, Sound
<1>7. QED
  BY <1>4, <1>5, <1>6 DEF AllInv

LEMMA Times ==
  /\ \A k, n \in Nat : k * n \in Nat /\ (k + 1) * n = k * n + n
  /\ \A n \in Nat : 0 * n = 0
  OBVIOUS

LEMMA NextPageStep ==
  ASSUME AllInv, Continues, NextPage
  PROVE  AllInv'
<1>1. /\ UNCHANGED asked /\ UNCHANGED collection /\ UNCHANGED <<view, walk>> /\ req.pc = "idle" /\ view.hasNext
      /\ IF search = "abnormalDevices" THEN Ask(Nobody, FALSE, view.skip + 1) ELSE Ask(view.end, FALSE, 0)
  BY DEF NextPage
<1> DEFINE c == IF search = "abnormalDevices" THEN Nobody ELSE view.end
           n == IF search = "abnormalDevices" THEN view.skip + 1 ELSE 0
<1>2. TypeInv /\ SearchOK /\ view \in Views /\ view.end \in Cursors /\ view.skip \in Nat
  BY DEF AllInv, TypeInv, Views
<1>3. c \in Cursors /\ n \in Nat /\ Ask(c, FALSE, n) /\ (search = "abnormalDevices" => c = Nobody)
  <2>1. Nobody \in Cursors
    BY <1>2, CursorFacts
  <2>2. CASE search = "abnormalDevices"
    <3>1. c = Nobody /\ n = view.skip + 1 /\ Ask(Nobody, FALSE, view.skip + 1)
      BY <1>1, <2>2
    <3> HIDE DEF c, n
    <3>2. view.skip + 1 \in Nat
      BY <1>2
    <3>3. QED
      BY <2>1, <3>1, <3>2
  <2>3. CASE search # "abnormalDevices"
    BY <1>1, <1>2, <2>3
  <2>4. QED
    BY <2>2, <2>3
<1>4. /\ start' = start /\ touched' = touched /\ seen' = seen /\ forward' = forward /\ still' = still /\ stale' = stale
  BY <1>1 DEF walk
<1>5. TypeInv'
  BY <1>1, <1>2, <1>3, <1>4, AskType DEF TypeInv
<1> HIDE DEF c, n
<1>6. /\ req'.pc \in {"lookUp", "find"} /\ CalmInv'
      /\ req'.pc = "lookUp" <=> c.id # NoDoc /\ LooksUp
      /\ req'.cursor = c /\ req'.last = c /\ req'.skip = n
      /\ req'.pc = "find" => c = Where(c)
  BY <1>1, <1>2, <1>3, AskPlace
<1>7. /\ Steady' = Steady
      /\ (\A d : Trusted(d)' <=> Trusted(d)) /\ (\A d : CursorKnown(d)' <=> CursorKnown(d))
      /\ (\A p : SeenTo(p)' <=> SeenTo(p)) /\ (\A d : Where(d)' = Where(d))
      /\ (\A k : ShownTo(k)' <=> ShownTo(k))
      /\ search' = search /\ size' = size
  BY <1>1, <1>4, Frame, WalkFrame
<1>8. ASSUME Sound PROVE WalkInv'
  <2>1. \A d \in Steady : seen[d] <= 1 /\ seen[d] \in Nat
    BY <1>2, <1>8, ListedFacts DEF AllInv, WalkInv, TypeInv, Steady
  <2>2. CASE search # "abnormalDevices"
    <3>1. PageSeen(<<>>, TRUE, c)
      <4>1. PageSeen(<<>>, view.hasNext, view.end) /\ view.hasNext = TRUE
        BY <1>1, <1>2, <1>8, <2>2 DEF AllInv, WalkInv, WalkSearch, Views
      <4>2. QED
        BY <2>2, <4>1 DEF c
    <3>2. c.id # NoDoc /\ (Trusted(c) => CursorKnown(c) /\ \A d \in Steady : seen[d] = 1 <=> ~Precedes(Where(c), Place(d)))
      BY <3>1 DEF PageSeen, ToSet
    <3>3. Where(c).id # NoDoc
      BY <3>2 DEF Where, Place
    <3>4. Trusted(c) => CursorKnown(c) /\ SeenTo(Where(c))
      BY <2>1, <3>2, <3>3 DEF SeenTo
    <3>5. req'.pc = "find" => search = "cameraEvents"
      BY <1>6, <2>2, <3>2 DEF LooksUp
    <3>6. search = "cameraEvents" => Trusted(c)
      BY DEF Trusted
    <3>7. WalkSearch'
      BY <1>6, <1>7, <3>4, <3>5, <3>6 DEF WalkSearch
    <3>8. QED
      BY <1>4, <1>7, <2>1, <2>2, <3>7 DEF WalkInv
  <2>3. CASE search = "abnormalDevices"
    <3>1. ShownTo((view.skip + 1) * size)
      BY <1>1, <1>8, <2>3 DEF AllInv, WalkInv, WalkByNumber
    <3>2. req'.skip = view.skip + 1
      BY <1>6, <2>3 DEF n
    <3>3. ShownTo(req.skip * size)'
      BY <1>7, <3>1, <3>2
    <3>4. WalkByNumber'
      BY <1>6, <3>3 DEF WalkByNumber
    <3>5. QED
      BY <1>4, <1>7, <2>1, <2>3, <3>4 DEF WalkInv
  <2>4. QED
    BY <2>2, <2>3
<1>9. ASSUME ~Sound PROVE WalkInv'
  <2>1. ~Sound'
    BY <1>4, <1>7, <1>9 DEF Sound, TwoQueries
  <2>2. QED
    BY <2>1 DEF WalkInv
<1>10. QED
  BY <1>5, <1>6, <1>8, <1>9 DEF AllInv

LEMMA FailStep ==
  ASSUME AllInv, Continues, Fail
  PROVE  AllInv'
<1>1. TypeInv' /\ CalmInv'
  BY TypeFail, CalmFail DEF AllInv
<1>2. ~forward'
  BY DEF Fail
<1>3. WalkInv'
  BY <1>2 DEF WalkInv, Sound
<1>4. QED
  BY <1>1, <1>3 DEF AllInv

-----------------------------------------------------------------------------
(* The sort value of a cursor is looked up.                                *)

LEMMA LookUpStep ==
  ASSUME AllInv, Continues, LookUp
  PROVE  AllInv'
<1> DEFINE id == req.cursor.id
<1>1. CASE id \notin DOMAIN rows
  BY <1>1, FailStep DEF LookUp, Continues
<1>2. CASE id \in DOMAIN rows
  <2>1. /\ req.pc = "lookUp" /\ req' = [req EXCEPT !.pc = "find", !.last.key = Key(id)]
        /\ stale' = (stale \/ id \in touched)
        /\ UNCHANGED asked /\ UNCHANGED collection /\ UNCHANGED <<view, forward, start, touched, still, seen, calm>>
    BY <1>2 DEF LookUp
  <2>2. /\ TypeInv /\ SearchOK /\ req \in Requests /\ req.cursor \in Cursors /\ req.last = req.cursor /\ id # NoDoc /\ LooksUp
    BY <2>1 DEF AllInv, TypeInv, Requests
  <2>3. search # "cameraEvents" /\ search # "abnormalDevices"
    BY <2>2 DEF LooksUp
  <2>4. Where(req.cursor) = Place(id) /\ Place(id) \in PlacedDocs
    BY <1>2, <2>2, <2>3, ListedFacts DEF Where
  <2>5. req' \in Requests /\ req'.pc = "find" /\ req'.last = Place(id) /\ req'.cursor = req.cursor /\ req'.reversed = req.reversed
    <3>1. req.last \in Lasts
      BY <2>2 DEF Requests
    <3>2. [req.last EXCEPT !.key = Key(id)] = Place(id)
      BY <2>2, <3>1 DEF Place, Lasts
    <3>3. Place(id) \in Lasts
      BY <2>4 DEF PlacedDocs, Lasts
    <3>4. req' = [req EXCEPT !.pc = "find", !.last = [req.last EXCEPT !.key = Key(id)]]
      BY <2>1, <2>2 DEF Requests
    <3>5. req' = [req EXCEPT !.pc = "find", !.last = Place(id)]
      BY <3>2, <3>4
    <3>6. QED
      BY <2>2, <3>3, <3>5 DEF Requests
  <2> HIDE DEF id
  <2>6. TypeInv'
    <3>1. view' \in Views /\ seen' \in [Docs -> Nat] /\ (forward => ~req'.reversed)
          /\ (search \in TwoQueries => ~req'.reversed /\ ~view'.reversed /\ ~view'.hasPrevious)
      BY <2>1, <2>2, <2>5 DEF TypeInv
    <3>2. PlaceOK(req'.last)
      BY <2>4, <2>5 DEF PlaceOK
    <3>3. QED
      BY <2>1, <2>2, <2>5, <3>1, <3>2, TypeStep
  <2>7. CalmInv'
    <3>1. \A c : Where(c)' = Where(c)
      BY <2>1, Frame
    <3>2. CalmSearch'
      BY <2>4, <2>5, <3>1 DEF CalmSearch
    <3>3. QED
      BY <2>5, <3>2 DEF CalmInv
  <2>8. ASSUME Sound' PROVE WalkInv'
    <3>1. search' = search /\ TwoQueries' = TwoQueries
      BY <2>1, Frame DEF TwoQueries
    <3>2. Sound /\ id \notin touched
      BY <2>1, <2>2, <2>8, <3>1 DEF Sound, TypeInv
    <3>3. Trusted(req.cursor)
      BY <3>2 DEF Trusted, id
    <3>4. SeenTo(Place(id)) /\ \A d \in Steady : seen[d] <= 1
      BY <2>1, <2>3, <2>4, <3>2, <3>3 DEF AllInv, WalkInv, WalkSearch
    <3>5. Steady' = Steady /\ \A p : SeenTo(p)' <=> SeenTo(p)
      BY <2>1, WalkFrame
    <3>6. WalkSearch'
      BY <2>5, <3>4, <3>5 DEF WalkSearch
    <3>7. QED
      BY <2>1, <2>3, <3>1, <3>4, <3>5, <3>6 DEF WalkInv
  <2>9. WalkInv'
    BY <2>8 DEF WalkInv
  <2>10. QED
    BY <2>6, <2>7, <2>9 DEF AllInv
<1>3. QED
  BY <1>1, <1>2

LEMMA LookUpMoreStep ==
  ASSUME AllInv, Continues, LookUpMore
  PROVE  AllInv'
<1> DEFINE id == req.last.id
<1>1. CASE id \notin DOMAIN rows
  BY <1>1, FailStep DEF LookUpMore, Continues
<1>2. CASE id \in DOMAIN rows
  <2>1. /\ req.pc = "lookUpMore" /\ req' = [req EXCEPT !.pc = "more", !.last.key = Key(id)]
        /\ UNCHANGED asked /\ UNCHANGED collection /\ UNCHANGED <<start, touched, seen>>
        /\ UNCHANGED <<view, forward, still, stale, calm>>
    BY <1>2 DEF LookUpMore, Proceed, walk
  <2>2. /\ TypeInv /\ SearchOK /\ req \in Requests /\ req.last \in Lasts /\ search \notin TwoQueries
    BY <2>1 DEF AllInv, TypeInv, Requests
  <2>3. Place(id) \in PlacedDocs
    BY <1>2, <2>2, ListedFacts
  <2>4. /\ req' \in Requests /\ req'.pc = "more" /\ req'.last = Place(id) /\ req'.cursor = req.cursor
        /\ req'.reversed = req.reversed /\ req'.page = req.page /\ req'.own = req.own /\ req'.end = req.end
    <3>1. [req.last EXCEPT !.key = Key(id)] = Place(id)
      BY <2>2 DEF Place, Lasts
    <3>2. Place(id) \in Lasts
      BY <2>3 DEF PlacedDocs, Lasts
    <3>3. req' = [req EXCEPT !.pc = "more", !.last = [req.last EXCEPT !.key = Key(id)]]
      BY <2>1, <2>2 DEF Requests
    <3>4. req' = [req EXCEPT !.pc = "more", !.last = Place(id)]
      BY <3>1, <3>3
    <3>5. QED
      BY <2>2, <3>2, <3>4 DEF Requests
  <2> HIDE DEF id
  <2>5. TypeInv'
    <3>1. view' \in Views /\ seen' \in [Docs -> Nat] /\ (forward => ~req'.reversed)
      BY <2>1, <2>2, <2>4 DEF TypeInv
    <3>2. QED
      BY <2>1, <2>2, <2>4, <3>1, TypeStep
  <2>6. /\ search' = search /\ TwoQueries' = TwoQueries
        /\ \A c : Where(c)' = Where(c)
        /\ \A d : Place(d)' = Place(d)
        /\ \A s, own, b, p : PageFrom(s, own, b, p)' <=> PageFrom(s, own, b, p)
    BY <2>1, Frame DEF TwoQueries
  <2>7. (Edge(req.page, req.reversed))' = Edge(req.page, req.reversed)
    BY <2>4 DEF Edge
  <2>8. search \notin {"malDevices", "staffDevices", "abnormalDevices"}
    BY <2>2 DEF TwoQueries
  <2>9. ASSUME calm PROVE CalmSearch'
    <3>1. PageFrom(req.page, req.own, req.reversed, Where(req.cursor)) /\ id = Edge(req.page, req.reversed)
      BY <2>1, <2>2, <2>9 DEF AllInv, CalmInv, CalmSearch, id
    <3>2. QED
      BY <2>4, <2>6, <2>7, <2>8, <3>1 DEF CalmSearch
  <2>10. CalmInv'
    BY <2>1, <2>4, <2>9 DEF CalmInv
  <2>11. WalkInv'
    <3>1. Sound' <=> Sound
      BY <2>1, <2>6 DEF Sound
    <3>2. /\ Steady' = Steady
          /\ \A s, own, end : PageSeen(s, own, end)' <=> PageSeen(s, own, end)
      BY <2>1, WalkFrame
    <3>3. ASSUME Sound PROVE WalkSearch'
      <4>1. PageSeen(req.page, req.own, req.end)
        BY <2>1, <2>2, <2>8, <3>3 DEF AllInv, WalkInv, WalkSearch
      <4>2. QED
        BY <2>4, <2>6, <2>8, <3>2, <4>1 DEF WalkSearch
    <3>4. QED
      BY <2>1, <2>6, <2>8, <3>1, <3>2, <3>3 DEF AllInv, WalkInv
  <2>12. QED
    BY <2>5, <2>10, <2>11 DEF AllInv
<1>3. QED
  BY <1>1, <1>2

-----------------------------------------------------------------------------
(* Malfunctioning devices and the devices of a staff member.               *)

LEMMA ForwardPage ==
  ASSUME SearchOK, Continues, search \in TwoQueries, NEW last, NEW n \in Nat
  PROVE  LET page == Top(PageCondition(order, FALSE, last), order, FALSE, n)
             c == Cardinality(AfterPlace(last))
         IN  /\ PageCondition(order, FALSE, last) = AfterPlace(last) /\ c \in Nat
             /\ page = FirstOf(n, Onward(AfterPlace(last))) /\ page \in Seq(Docs)
             /\ Len(page) = IF n < c THEN n ELSE c
<1> DEFINE D == AfterPlace(last)
<1>1. ~ById
  BY DEF ById, TwoQueries
<1>2. ASSUME NEW d \in Listed
      PROVE  (last.id = NoDoc \/ Beyond(order, last.key, Key(d)) \/ (Key(d) = last.key /\ IdBeyond(FALSE, d, last)))
             <=> (last.id = NoDoc \/ Precedes(last, Place(d)))
  BY <1>1 DEF Precedes, Place, IdBeyond
<1>3. PageCondition(order, FALSE, last) = D
  BY <1>2 DEF PageCondition, AfterPlace
<1>4. D \in SUBSET Listed /\ order \in Orders /\ Listed \subseteq Docs
  BY ListedFacts DEF AfterPlace, SearchOK
<1>5. Top(D, order, FALSE, n) = FirstOf(n, Onward(D))
  BY <1>1, ForwardTop
<1>6. /\ Top(D, order, FALSE, n) \in Seq(D) /\ Cardinality(D) \in Nat
      /\ Len(Top(D, order, FALSE, n)) = IF n < Cardinality(D) THEN n ELSE Cardinality(D)
  BY <1>4, TopFacts
<1>7. Top(D, order, FALSE, n) \in Seq(Docs)
  BY <1>4, <1>6, WiderSeq
<1>8. QED
  BY <1>3, <1>5, <1>6, <1>7

\* The first of the two queries.
LEMMA FirstQuery ==
  ASSUME AllInv, Continues, search \in {"malDevices", "staffDevices"}, req.pc = "find",
         NEW r \in Requests, r.pc = "more", r.reversed = req.reversed, r.cursor = req.cursor, r.last = req.last, Proceed(r),
         search = "malDevices" => r.page = FirstOf(size, Onward(AfterPlace(req.last))) /\ r.end = EndOf(r.page),
         search = "staffDevices" => r.count = Cardinality(AfterPlace(req.last))
  PROVE  AllInv'
<1>1. /\ req' = r /\ UNCHANGED asked /\ UNCHANGED collection /\ UNCHANGED <<start, touched, seen>>
      /\ UNCHANGED <<view, forward, still, stale, calm>>
  BY DEF Proceed, walk
<1>2. TypeInv /\ CalmInv /\ WalkInv /\ search \in TwoQueries
  BY DEF AllInv, TwoQueries
<1>3. TypeInv'
  <2>1. /\ view' \in Views /\ seen' \in [Docs -> Nat] /\ (forward => ~req'.reversed)
        /\ search \in TwoQueries => ~req'.reversed /\ ~view'.reversed /\ ~view'.hasPrevious
    BY <1>1, <1>2 DEF TypeInv
  <2>2. QED
    BY <1>1, <1>2, <2>1, TypeStep DEF TypeInv
<1>4. /\ search' = search /\ TwoQueries' = TwoQueries /\ size' = size
      /\ \A c : Where(c)' = Where(c)
      /\ \A p : PlaceOK(p)' <=> PlaceOK(p)
      /\ \A D : Onward(D)' = Onward(D)
      /\ \A p : AfterPlace(p)' = AfterPlace(p)
      /\ \A s : EndOf(s)' = EndOf(s)
  BY <1>1, Frame DEF TwoQueries
<1>5. ASSUME calm PROVE CalmSearch'
  <2>1. req.last = Where(req.cursor) /\ PlaceOK(req.last)
    BY <1>2, <1>5 DEF CalmInv, CalmSearch, TypeInv
  <2>2. QED
    BY <1>1, <1>2, <1>4, <2>1 DEF CalmSearch
<1>6. CalmInv'
  BY <1>1, <1>5 DEF CalmInv
<1>7. Sound' <=> Sound
  BY <1>1, <1>4 DEF Sound
<1>8. /\ Steady' = Steady /\ \A p : SeenTo(p)' <=> SeenTo(p)
  BY <1>1, WalkFrame
<1>9. ASSUME Sound PROVE WalkInv'
  <2>1. SeenTo(req.last) /\ \A d \in Steady : seen[d] <= 1
    BY <1>2, <1>9 DEF WalkInv, WalkSearch
  <2>2. WalkSearch'
    BY <1>1, <1>2, <1>4, <1>8, <2>1 DEF WalkSearch
  <2>3. QED
    BY <1>1, <1>4, <1>8, <2>1, <2>2 DEF WalkInv
<1>10. WalkInv'
  BY <1>7, <1>9 DEF WalkInv
<1>11. QED
  BY <1>3, <1>6, <1>10 DEF AllInv

\* The second of the two.
LEMMA SecondQuery ==
  ASSUME AllInv, Continues, search \in {"malDevices", "staffDevices"}, req.pc = "more",
         NEW r \in Requests, r.reversed = req.reversed, r.cursor = req.cursor,
         NEW own \in BOOLEAN, Answer(r, own, FALSE),
         calm => /\ r.page = FirstOf(size, Onward(AfterPlace(req.last)))
                 /\ own <=> Cardinality(AfterPlace(req.last)) > size,
         Sound => r.end = EndOf(r.page)
  PROVE  AllInv'
<1>1. TypeInv /\ CalmInv /\ WalkInv /\ search \in TwoQueries
  BY DEF AllInv, TwoQueries
<1>2. TypeInv'
  BY <1>1, TypeAnswer
<1>3. /\ UNCHANGED asked /\ UNCHANGED collection /\ UNCHANGED <<forward, still, stale, calm>>
      /\ req' = Idle /\ view' \in Views
      /\ view'.page = r.page /\ view'.reversed = r.reversed /\ view'.cursor = r.cursor
      /\ view'.hasNext = (IF r.reversed THEN FALSE ELSE own)
  BY <1>1, AnswerFacts
<1>4. req.reversed = FALSE
  BY <1>1 DEF TypeInv, Requests
<1>5. ASSUME calm PROVE CalmInv'
  <2>1. req.last = Where(req.cursor) /\ PlaceOK(req.last)
    BY <1>1, <1>5 DEF CalmInv, CalmSearch
  <2>2. PageFrom(r.page, own, FALSE, Where(req.cursor))
    BY <1>5, <2>1 DEF PageFrom
  <2>3. search # "abnormalDevices" /\ view'.reversed = FALSE /\ view'.cursor = req.cursor /\ (view'.hasNext <=> own)
    BY <1>3, <1>4
  <2>4. QED
    BY <1>1, <1>3, <2>2, <2>3, CalmShown
<1>6. CalmInv'
  BY <1>3, <1>5 DEF CalmInv
<1>7. Sound' <=> Sound
  BY <1>3 DEF Sound, asked, TwoQueries
<1>8. ASSUME Sound PROVE WalkInv'
  <2>1. forward /\ calm
    BY <1>1, <1>8 DEF Sound, TypeInv
  <2>2. SeenTo(req.last) /\ \A d \in Steady : seen[d] <= 1
    BY <1>1, <1>8 DEF WalkInv, WalkSearch
  <2>3. PlaceOK(req.last)
    BY <1>1, <2>1 DEF CalmInv, CalmSearch
  <2>4. PageSeen(r.page, own, EndOf(r.page))
    BY <1>1, <2>1, <2>2, <2>3, WalkPage
  <2>5. QED
    BY <1>1, <1>8, <2>1, <2>2, <2>4, WalkAnswer
<1>9. WalkInv'
  BY <1>7, <1>8 DEF WalkInv
<1>10. QED
  BY <1>2, <1>6, <1>9 DEF AllInv

LEMMA MalDevicesStep ==
  ASSUME AllInv, Continues, GetMalDevices
  PROVE  AllInv'
<1>1. TypeInv /\ SearchOK /\ req \in Requests /\ search = "malDevices" /\ search \in TwoQueries
  BY DEF AllInv, TypeInv, GetMalDevices, TwoQueries
<1>2. size \in Nat /\ size + 1 \in Nat
  BY <1>1 DEF SearchOK
<1> DEFINE page == Top(MalDevicesBeyond(req.last), order, FALSE, size)
           more == Top(MalDevicesBeyond(req.last), order, FALSE, size + 1)
           c == Cardinality(AfterPlace(req.last))
           own == Len(req.page) = size /\ Len(more) > Len(req.page)
<1>3. /\ page = FirstOf(size, Onward(AfterPlace(req.last))) /\ page \in Seq(Docs) /\ c \in Nat
      /\ Len(page) = (IF size < c THEN size ELSE c) /\ Len(more) = (IF size + 1 < c THEN size + 1 ELSE c)
  BY <1>1, <1>2, ForwardPage DEF MalDevicesBeyond
<1>4. \/ req.pc = "find" /\ Proceed([Paged(page) EXCEPT !.pc = "more"])
      \/ req.pc = "more" /\ Answer(req, own, FALSE)
  BY DEF GetMalDevices
<1> HIDE DEF page, more, c
<1>5. CASE req.pc = "find" /\ Proceed([Paged(page) EXCEPT !.pc = "more"])
  <2> DEFINE r == [Paged(page) EXCEPT !.pc = "more"]
  <2>1. /\ Paged(page) \in Requests /\ Paged(page).page = page
        /\ Paged(page).reversed = req.reversed /\ Paged(page).cursor = req.cursor
        /\ Paged(page).last = req.last /\ Paged(page).end = EndOf(page)
    BY <1>1, <1>3, PagedFacts
  <2>2. /\ r \in Requests /\ r.pc = "more" /\ r.page = page /\ r.reversed = req.reversed /\ r.cursor = req.cursor
        /\ r.last = req.last /\ r.end = EndOf(page)
    BY <2>1 DEF Requests
  <2>3. Proceed(r)
    BY <1>5
  <2> HIDE DEF r
  <2>4. QED
    BY <1>1, <1>3, <1>5, <2>2, <2>3, FirstQuery
<1>6. CASE req.pc = "more" /\ Answer(req, own, FALSE)
  <2>1. ASSUME calm
        PROVE  /\ req.page = FirstOf(size, Onward(AfterPlace(req.last)))
               /\ own <=> Cardinality(AfterPlace(req.last)) > size
    <3>1. req.page = page
      BY <1>1, <1>3, <1>6, <2>1 DEF AllInv, CalmInv, CalmSearch
    <3>2. own <=> c > size
      BY <1>2, <1>3, <3>1
    <3>3. QED
      BY <1>3, <3>1, <3>2 DEF c
  <2>2. Sound => req.end = EndOf(req.page)
    BY <1>1, <1>6 DEF AllInv, WalkInv, WalkSearch
  <2>3. own \in BOOLEAN
    OBVIOUS
  <2> HIDE DEF own
  <2>4. QED
    BY <1>1, <1>6, <2>1, <2>2, <2>3, SecondQuery
<1>7. QED
  BY <1>4, <1>5, <1>6

LEMMA StaffDevicesStep ==
  ASSUME AllInv, Continues, SearchDevicesByStaff
  PROVE  AllInv'
<1>1. TypeInv /\ SearchOK /\ req \in Requests /\ search = "staffDevices" /\ search \in TwoQueries
  BY DEF AllInv, TypeInv, SearchDevicesByStaff, TwoQueries
<1>2. size \in Nat
  BY <1>1 DEF SearchOK
<1> DEFINE page == Top(StaffDevicesBeyond(req.last), order, FALSE, size)
           c == Cardinality(AfterPlace(req.last))
           own == req.count > Len(Paged(page).page)
<1>3. /\ page = FirstOf(size, Onward(AfterPlace(req.last))) /\ page \in Seq(Docs) /\ c \in Nat
      /\ Len(page) = (IF size < c THEN size ELSE c) /\ StaffDevicesBeyond(req.last) = AfterPlace(req.last)
  BY <1>1, <1>2, ForwardPage DEF StaffDevicesBeyond, Continues
<1>4. \/ req.pc = "find" /\ Proceed([req EXCEPT !.pc = "more", !.count = Cardinality(StaffDevicesBeyond(req.last))])
      \/ req.pc = "more" /\ Answer(Paged(page), own, FALSE)
  BY DEF SearchDevicesByStaff, StaffDevices, Continues
<1> HIDE DEF page, c
<1>5. CASE req.pc = "find" /\ Proceed([req EXCEPT !.pc = "more", !.count = Cardinality(StaffDevicesBeyond(req.last))])
  <2> DEFINE r == [req EXCEPT !.pc = "more", !.count = c]
  <2>1. /\ r \in Requests /\ r.pc = "more" /\ r.reversed = req.reversed /\ r.cursor = req.cursor
        /\ r.last = req.last /\ r.count = c
    BY <1>1, <1>3 DEF Requests
  <2>2. Proceed(r)
    BY <1>3, <1>5 DEF c
  <2> HIDE DEF r
  <2>3. QED
    BY <1>1, <1>5, <2>1, <2>2, FirstQuery DEF c
<1>6. CASE req.pc = "more" /\ Answer(Paged(page), own, FALSE)
  <2>1. /\ Paged(page) \in Requests /\ Paged(page).page = page
        /\ Paged(page).reversed = req.reversed /\ Paged(page).cursor = req.cursor /\ Paged(page).end = EndOf(page)
    BY <1>1, <1>3, PagedFacts
  <2>2. ASSUME calm PROVE own <=> Cardinality(AfterPlace(req.last)) > size
    <3>1. req.count = c
      BY <1>1, <1>6, <2>2 DEF AllInv, CalmInv, CalmSearch, c
    <3>2. own <=> c > size
      BY <1>2, <1>3, <2>1, <3>1
    <3>3. QED
      BY <3>2 DEF c
  <2>3. own \in BOOLEAN
    OBVIOUS
  <2> HIDE DEF own
  <2>4. QED
    BY <1>1, <1>3, <1>6, <2>1, <2>2, <2>3, SecondQuery
<1>7. QED
  BY <1>4, <1>5, <1>6

-----------------------------------------------------------------------------
(* Abnormal devices, page by page number.                                  *)

LEMMA Slice ==
  ASSUME SearchOK, Continues, search = "abnormalDevices", NEW k \in Nat
  PROVE  LET all == Top(Listed, order, FALSE, Cardinality(Listed))
             page == Trimmed(SubSeq(all, k + 1, Len(all)))
             n == Cardinality(Listed)
         IN  /\ n \in Nat /\ page \in Seq(Listed) /\ Len(page) \in 0..size
             /\ Onward(Listed) \in [1..n -> Listed]
             /\ \A d \in Listed : \E i \in 1..n : Onward(Listed)[i] = d
             /\ \A i \in 1..n : Onward(Listed)[i] \in ToSet(page) <=> k < i /\ i <= k + size
             /\ page # <<>> => \A d \in Listed : Ahead(Last(page), d) => n > Len(page)
<1> DEFINE n == Cardinality(Listed)
           s == Onward(Listed)
           all == Top(Listed, order, FALSE, n)
           t == SubSeq(all, k + 1, n)
           l == IF k + 1 <= n THEN n - k ELSE 0
           m == IF size < l THEN size ELSE l
           page == Trimmed(t)
<1>1. Listed \in SUBSET Listed /\ ~ById
  BY DEF ById
<1>2. /\ n \in Nat /\ s \in [1..n -> Listed] /\ s \in Seq(Listed) /\ Len(s) = n
      /\ \A i, j \in 1..n : Ahead(s[i], s[j]) <=> i < j
      /\ \A d \in Listed : \E i \in 1..n : s[i] = d
  BY <1>1, OrderedFacts
<1>3. all = FirstOf(n, s)
  BY <1>1, ForwardTop
<1> HIDE DEF n, s, all
<1>4. all = s
  <2>1. /\ FirstOf(n, s) \in Seq(Listed) /\ Len(FirstOf(n, s)) = n
        /\ \A i \in 1..n : FirstOf(n, s)[i] = s[i]
    BY <1>2, FirstFacts
  <2>2. all \in [1..n -> Listed] /\ \A i \in 1..n : all[i] = s[i]
    BY <1>3, <2>1, SeqFacts
  <2>3. all = [i \in 1..n |-> all[i]] /\ s = [i \in 1..n |-> s[i]]
    BY <1>2, <2>2
  <2>4. [i \in 1..n |-> all[i]] = [i \in 1..n |-> s[i]]
    BY <2>2
  <2>5. QED
    BY <2>3, <2>4
<1>5. t \in Seq(Listed) /\ Len(t) = l /\ \A i \in 1..l : t[i] = s[k + i]
  <2>1. \A i \in (k + 1)..n : s[i] \in Listed
    BY <1>2
  <2>2. k + 1 \in Int /\ n \in Int /\ n - (k + 1) + 1 = n - k
    BY <1>2
  <2>3. /\ SubSeq(s, k + 1, n) \in Seq(Listed)
        /\ Len(SubSeq(s, k + 1, n)) = IF k + 1 <= n THEN n - (k + 1) + 1 ELSE 0
        /\ \A i \in 1..(n - (k + 1) + 1) : SubSeq(s, k + 1, n)[i] = s[k + 1 + i - 1]
    BY <2>1, <2>2, SubSeqProperties
  <2>4. \A i \in 1..l : i \in 1..(n - (k + 1) + 1) /\ k + 1 + i - 1 = k + i
    BY <1>2
  <2>5. QED
    BY <1>4, <2>2, <2>3, <2>4
<1> HIDE DEF t
<1>6. size \in Nat /\ size > 0 /\ l \in Nat /\ m \in 0..size /\ m \in Nat
  BY <1>2 DEF SearchOK
<1>7. page \in Seq(Listed) /\ Len(page) = m /\ \A i \in 1..m : page[i] = s[k + i]
  <2>1. page \in Seq(Listed) /\ Len(page) = m /\ \A i \in 1..m : page[i] = t[i]
    BY <1>5, <1>6, FirstFacts DEF Trimmed
  <2>2. \A i \in 1..m : i \in 1..l
    BY <1>6
  <2>3. QED
    BY <1>5, <2>1, <2>2
<1> HIDE DEF page
<1>8. \A i \in 1..m : k + i \in 1..n
  BY <1>2, <1>6
<1>9. ToSet(page) = {s[k + i] : i \in 1..m}
  <2>1. DOMAIN page = 1..m
    BY <1>7, SeqFacts
  <2>2. QED
    BY <1>7, <2>1 DEF ToSet
<1>10. ASSUME NEW i \in 1..n PROVE s[i] \in ToSet(page) <=> k < i /\ i <= k + size
  <2>1. ASSUME s[i] \in ToSet(page) PROVE k < i /\ i <= k + size
    <3>1. PICK j \in 1..m : s[k + j] = s[i]
      BY <1>9, <2>1
    <3>2. k + j \in 1..n
      BY <1>8
    <3>3. ~Ahead(s[i], s[i])
      BY <1>2
    <3>4. ~(i < k + j) /\ ~(k + j < i)
      BY <1>2, <3>1, <3>2, <3>3
    <3>5. i = k + j
      BY <1>2, <3>2, <3>4
    <3>6. QED
      BY <1>6, <3>5
  <2>2. ASSUME k < i, i <= k + size PROVE s[i] \in ToSet(page)
    <3>1. i - k \in 1..m /\ k + (i - k) = i
      BY <1>2, <1>6, <2>2
    <3>2. QED
      BY <1>9, <3>1
  <2>3. QED
    BY <2>1, <2>2
<1>11. ASSUME page # <<>>, NEW d \in Listed, Ahead(Last(page), d) PROVE n > m
  <2>1. m \in 1..m
    BY <1>6, <1>7, <1>11, EmptySeq
  <2>2. Last(page) = s[k + m] /\ k + m \in 1..n
    BY <1>7, <1>8, <2>1 DEF Last
  <2>3. PICK i \in 1..n : s[i] = d
    BY <1>2
  <2>4. k + m < i
    BY <1>2, <1>11, <2>2, <2>3
  <2>5. QED
    BY <1>2, <1>6, <2>4
<1>12. Len(all) = n
  BY <1>2, <1>4
<1> HIDE DEF m, l
<1>13. /\ n \in Nat /\ page \in Seq(Listed) /\ Len(page) \in 0..size /\ s \in [1..n -> Listed]
       /\ \A d \in Listed : \E i \in 1..n : s[i] = d
       /\ \A i \in 1..n : s[i] \in ToSet(page) <=> k < i /\ i <= k + size
       /\ page # <<>> => \A d \in Listed : Ahead(Last(page), d) => n > Len(page)
  BY <1>2, <1>6, <1>7, <1>10, <1>11
<1>14. page = Trimmed(SubSeq(all, k + 1, Len(all)))
  BY <1>12 DEF page, t
<1>15. QED
  BY <1>13, <1>14 DEF all, n, s

LEMMA AbnormalDevicesStep ==
  ASSUME AllInv, Continues, SearchAbnormalDevices
  PROVE  AllInv'
<1>1. TypeInv /\ CalmInv /\ WalkInv /\ SearchOK /\ req \in Requests /\ search = "abnormalDevices" /\ search \in TwoQueries
  BY DEF AllInv, TypeInv, SearchAbnormalDevices, TwoQueries
<1> DEFINE k == req.skip * size
           n == Cardinality(Listed)
           all == Top(Listed, order, FALSE, n)
           page == Trimmed(SubSeq(all, k + 1, Len(all)))
           r == Paged(page)
           own == req.count > Len(r.page)
<1>2. \/ req.pc = "find" /\ Proceed([req EXCEPT !.pc = "more", !.count = n])
      \/ req.pc = "more" /\ Answer(r, own, FALSE)
  BY DEF SearchAbnormalDevices
<1>3. k \in Nat /\ (req.skip + 1) * size = k + size /\ size \in Nat
  BY <1>1, Times DEF Requests, SearchOK
<1>4. /\ n \in Nat /\ page \in Seq(Listed) /\ Len(page) \in 0..size /\ Onward(Listed) \in [1..n -> Listed]
      /\ \A d \in Listed : \E i \in 1..n : Onward(Listed)[i] = d
      /\ \A i \in 1..n : Onward(Listed)[i] \in ToSet(page) <=> k < i /\ i <= k + size
      /\ page # <<>> => \A d \in Listed : Ahead(Last(page), d) => n > Len(page)
  BY <1>1, <1>3, Slice
<1> HIDE DEF page, n
<1>5. Listed \subseteq Docs
  BY <1>1, ListedFacts
<1>6. CASE req.pc = "find" /\ Proceed([req EXCEPT !.pc = "more", !.count = n])
  <2>1. /\ req' \in Requests /\ req'.pc = "more" /\ req'.count = n /\ req'.skip = req.skip /\ req'.reversed = req.reversed
        /\ UNCHANGED asked /\ UNCHANGED collection /\ UNCHANGED <<start, touched, seen>>
        /\ UNCHANGED <<view, forward, still, stale, calm>>
    BY <1>1, <1>4, <1>6 DEF Proceed, walk, Requests
  <2>2. TypeInv'
    <3>1. /\ view' \in Views /\ seen' \in [Docs -> Nat] /\ (forward => ~req'.reversed)
          /\ search \in TwoQueries => ~req'.reversed /\ ~view'.reversed /\ ~view'.hasPrevious
      BY <1>1, <2>1 DEF TypeInv
    <3>2. QED
      BY <1>1, <2>1, <3>1, TypeStep
  <2>3. /\ search' = search /\ size' = size /\ Listed' = Listed /\ TwoQueries' = TwoQueries
        /\ Steady' = Steady /\ \A i : ShownTo(i)' <=> ShownTo(i)
    BY <2>1, Frame, WalkFrame DEF TwoQueries
  <2>4. CalmInv'
    <3>1. CalmSearch'
      BY <1>1, <2>1, <2>3 DEF CalmSearch, n
    <3>2. QED
      BY <2>1, <3>1 DEF CalmInv
  <2>5. ASSUME Sound PROVE WalkInv'
    <3>1. ShownTo(k) /\ \A d \in Steady : seen[d] <= 1
      BY <1>1, <1>6, <2>5 DEF WalkInv, WalkByNumber
    <3>2. ShownTo(req.skip * size)'
      BY <2>1, <2>3, <3>1
    <3>3. WalkByNumber'
      BY <2>1, <3>2 DEF WalkByNumber
    <3>4. QED
      BY <1>1, <2>1, <2>3, <3>1, <3>3 DEF WalkInv
  <2>6. Sound' <=> Sound
    BY <2>1, <2>3 DEF Sound
  <2>7. QED
    BY <2>2, <2>4, <2>5, <2>6 DEF AllInv, WalkInv
<1>7. CASE req.pc = "more" /\ Answer(r, own, FALSE)
  <2>1. page \in Seq(Docs)
    BY <1>4, <1>5, WiderSeq
  <2>2. r \in Requests /\ r.page = page /\ r.reversed = req.reversed /\ r.skip = req.skip /\ req.reversed = FALSE
    <3>1. req.reversed = FALSE
      BY <1>1 DEF TypeInv, Requests
    <3>2. QED
      BY <1>1, <2>1, <3>1, PagedFacts
  <2> HIDE DEF r
  <2>3. own \in BOOLEAN
    OBVIOUS
  <2>4. own <=> req.count > Len(page)
    BY <2>2
  <2> HIDE DEF own
  <2>5. TypeInv'
    BY <1>1, <1>7, <2>2, <2>3, TypeAnswer
  <2>6. /\ UNCHANGED asked /\ UNCHANGED collection /\ UNCHANGED <<forward, start, touched, still, stale, calm>>
        /\ req' = Idle /\ view'.page = page /\ view'.hasNext = own /\ view'.skip = req.skip
        /\ \A d \in Docs : seen'[d] = IF forward /\ d \in ToSet(page) /\ seen[d] < 2 THEN seen[d] + 1 ELSE seen[d]
    BY <1>1, <1>7, <2>2, <2>3, AnswerFacts
  <2>7. /\ search' = search /\ size' = size /\ Listed' = Listed /\ TwoQueries' = TwoQueries
        /\ Onward(Listed)' = Onward(Listed) /\ \A d, e : Ahead(d, e)' <=> Ahead(d, e)
    <3>1. /\ search' = search /\ size' = size /\ Listed' = Listed
          /\ (\A D : Onward(D)' = Onward(D)) /\ \A d, e : Ahead(d, e)' <=> Ahead(d, e)
      BY <2>6, Frame
    <3>2. QED
      BY <3>1 DEF TwoQueries
  <2>8. calm => req.count = n
    BY <1>1, <1>7 DEF CalmInv, CalmSearch, n
  <2>9. CalmInv'
    <3>1. CalmSearch'
      BY <2>6 DEF CalmSearch, Idle
    <3>2. calm /\ page # <<>> => ((\E d \in Listed : Ahead(Last(page), d)) => own)
      BY <1>4, <2>4, <2>8
    <3>3. calm => CalmView'
      BY <1>1, <2>6, <2>7, <3>2 DEF CalmView, TwoQueries
    <3>4. QED
      BY <2>6, <3>1, <3>3 DEF CalmInv
  <2>10. Sound' <=> Sound
    BY <2>6, <2>7 DEF Sound
  <2>11. ASSUME Sound PROVE WalkInv'
    <3>1. forward /\ calm /\ start = Listed /\ touched = {}
      BY <1>1, <2>11 DEF Sound, TypeInv
    <3>2. \A i \in 1..n : seen[Onward(Listed)[i]] = IF i <= k THEN 1 ELSE 0
      BY <1>1, <1>7, <2>11 DEF WalkInv, WalkByNumber, ShownTo, n
    <3>3. \A i \in 1..n : seen'[Onward(Listed)[i]] = IF i <= k + size THEN 1 ELSE 0
      <4>1. TAKE i \in 1..n
      <4>2. Onward(Listed)[i] \in Docs
        BY <1>4, <1>5
      <4>3. Onward(Listed)[i] \in ToSet(page) <=> k < i /\ i <= k + size
        BY <1>4
      <4>4. seen[Onward(Listed)[i]] = IF i <= k THEN 1 ELSE 0
        BY <3>2
      <4>5. seen'[Onward(Listed)[i]] = IF k < i /\ i <= k + size /\ seen[Onward(Listed)[i]] < 2
                                       THEN seen[Onward(Listed)[i]] + 1 ELSE seen[Onward(Listed)[i]]
        BY <2>6, <3>1, <4>2, <4>3
      <4>6. QED
        BY <1>3, <1>4, <4>4, <4>5
    <3>4. ~own => n <= k + size
      BY <1>3, <1>4, <2>4, <2>8, <3>1
    <3>5. view'.skip + 1 = req.skip + 1 /\ ((view.skip + 1) * size)' = k + size
      BY <1>3, <2>6, <2>7
    <3>6. Cardinality(Listed)' = n
      BY <2>7 DEF n
    <3>7. ShownTo((view.skip + 1) * size)'
      <4> DEFINE b == (view.skip + 1) * size
      <4>1. b' = k + size
        BY <3>5
      <4> HIDE DEF b
      <4>2. ShownTo(b)'
        BY <2>7, <3>3, <3>6, <4>1 DEF ShownTo
      <4>3. QED
        BY <4>2 DEF b
    <3>8. (~view.hasNext => Cardinality(Listed) <= (view.skip + 1) * size)'
      BY <2>6, <3>4, <3>5, <3>6
    <3>9. WalkByNumber'
      BY <2>6, <3>7, <3>8 DEF WalkByNumber, Idle
    <3>10. Steady' = Listed
      BY <2>6, <3>1 DEF Steady
    <3>11. \A d \in Listed : seen'[d] <= 1
      BY <1>4, <3>3
    <3>12. QED
      BY <1>1, <2>7, <3>9, <3>10, <3>11 DEF WalkInv
  <2>12. QED
    BY <2>5, <2>9, <2>10, <2>11 DEF AllInv, WalkInv
<1>8. QED
  BY <1>2, <1>6, <1>7

-----------------------------------------------------------------------------
(* What others do meanwhile.                                               *)

\* A document inserted, changed or deleted: those that are not touched stay as they were.
LEMMA MeanwhileStep ==
  ASSUME AllInv, Continues, SearchOK', UNCHANGED <<asked, req, view, forward, start, stale, seen>>,
         calm' = FALSE, still' = FALSE, touched \subseteq touched',
         \A d \in DOMAIN rows \ touched' : d \in DOMAIN rows' /\ rows'[d] = rows[d]
  PROVE  AllInv'
<1>1. TypeInv /\ WalkInv /\ SearchOK
  BY DEF AllInv, TypeInv
<1>2. /\ search' = search /\ field' = field /\ order' = order /\ size' = size /\ req' = req /\ view' = view
      /\ forward' = forward /\ start' = start /\ stale' = stale /\ seen' = seen
  BY DEF asked
<1>3. /\ Requests' = Requests /\ Views' = Views /\ (LooksUp' <=> LooksUp) /\ TwoQueries' = TwoQueries
      /\ \A p : PlaceOK(p)' <=> PlaceOK(p)
  BY <1>2 DEF Requests, Views, Cursors, Lasts, LooksUp, TwoQueries, PlaceOK, PlacedDocs
<1>4. Steady' \subseteq Steady /\ Steady \subseteq Listed
  BY <1>1, <1>2 DEF Steady, TypeInv
<1>5. Steady' \subseteq Listed'
  BY <1>2, <1>4 DEF Steady, Listed
<1>6. TypeInv'
  <2>1. /\ SearchOK' /\ req' \in Requests' /\ view' \in Views' /\ (seen \in [Docs -> Nat])'
        /\ (start \ touched \subseteq Listed)' /\ ~still'
    BY <1>1, <1>2, <1>3, <1>5 DEF TypeInv, Steady
  <2>2. /\ (forward => ~req.reversed /\ (req.pc = "idle" => view.shown))'
        /\ (search \in TwoQueries => ~req.reversed /\ ~view.reversed /\ ~view.hasPrevious)'
        /\ (req.pc = "lookUp" => req.cursor.id # NoDoc /\ LooksUp /\ req.last = req.cursor)'
        /\ (req.pc = "find" => PlaceOK(req.last))'
        /\ (req.pc \in {"readBack", "lookUpMore", "readMore"} => search \notin TwoQueries /\ search # "cameraEvents")'
    BY <1>1, <1>2, <1>3 DEF TypeInv
  <2>3. QED
    BY <2>1, <2>2 DEF TypeInv
<1>7. CalmInv'
  BY DEF CalmInv
<1>8. \A d \in DOMAIN rows \ touched' : Place(d)' = Place(d)
  BY DEF Place, Key
<1>9. \A d \in Steady' : d \in Steady /\ Place(d)' = Place(d)
  BY <1>2, <1>4, <1>8 DEF Steady, Listed
<1>10. \A p, q : Precedes(p, q)' <=> Precedes(p, q)
  <2>1. \A k, l : Beyond(order, k, l)' <=> Beyond(order, k, l)
    BY <1>2 DEF Beyond
  <2>2. QED
    BY <1>2, <2>1 DEF Precedes, ById
<1>11. \A p : SeenTo(p) => SeenTo(p)'
  BY <1>2, <1>9, <1>10 DEF SeenTo
<1>12. ASSUME NEW c, Trusted(c)', CursorKnown(c) PROVE Trusted(c) /\ CursorKnown(c)' /\ Where(c)' = Where(c)
  <2>1. CASE search = "cameraEvents"
    BY <1>2, <2>1 DEF Trusted, CursorKnown, Where
  <2>2. CASE search # "cameraEvents"
    <3>1. c.id \notin touched' /\ c.id \in DOMAIN rows /\ c.id \notin touched
      BY <1>2, <1>12, <2>2 DEF Trusted, CursorKnown
    <3>2. Place(c.id)' = Place(c.id) /\ c.id \in DOMAIN rows'
      BY <1>8, <3>1
    <3>3. QED
      BY <1>2, <3>1, <3>2 DEF Trusted, CursorKnown, Where
  <2>3. QED
    BY <2>1, <2>2
<1>13. \A c : Trusted(c)' => Trusted(c)
  BY <1>2 DEF Trusted
<1>14. ASSUME NEW s, NEW own, NEW end, PageSeen(s, own, end) PROVE PageSeen(s, own, end)'
  <2>1. /\ \A d \in Steady' : d \in ToSet(s) => seen'[d] = 0
        /\ ~own => \A d \in Steady' : seen'[d] = 1 \/ d \in ToSet(s)
        /\ own => end.id # NoDoc
    BY <1>2, <1>4, <1>14 DEF PageSeen
  <2>2. ASSUME own, Trusted(end)'
        PROVE  /\ CursorKnown(end)'
               /\ \A d \in Steady' : (seen'[d] = 1 \/ d \in ToSet(s)) <=> ~Precedes(Where(end), Place(d))'
    <3>1. CursorKnown(end) /\ \A d \in Steady : (seen[d] = 1 \/ d \in ToSet(s)) <=> ~Precedes(Where(end), Place(d))
      BY <1>13, <1>14, <2>2 DEF PageSeen
    <3>2. CursorKnown(end)' /\ Where(end)' = Where(end)
      BY <1>12, <2>2, <3>1
    <3>3. QED
      BY <1>2, <1>9, <1>10, <3>1, <3>2
  <2>3. QED
    BY <2>1, <2>2 DEF PageSeen
<1>15. ASSUME Sound' PROVE WalkInv'
  <2>1. Sound /\ search \notin TwoQueries /\ search # "abnormalDevices"
    BY <1>2, <1>3, <1>15 DEF Sound, TwoQueries
  <2>2. WalkSearch /\ \A d \in Steady : seen[d] <= 1
    BY <1>1, <2>1 DEF WalkInv
  <2>3. WalkSearch'
    <3>1. (req.pc = "idle" => PageSeen(<<>>, view.hasNext, view.end))'
      BY <1>2, <1>14, <2>2 DEF WalkSearch
    <3>2. (req.pc = "lookUp" /\ Trusted(req.cursor) => CursorKnown(req.cursor) /\ SeenTo(Where(req.cursor)))'
      <4>1. ASSUME req'.pc = "lookUp", Trusted(req.cursor)' PROVE CursorKnown(req.cursor)' /\ SeenTo(Where(req.cursor))'
        <5>1. Trusted(req.cursor) /\ req.pc = "lookUp"
          BY <1>2, <1>13, <4>1
        <5>2. CursorKnown(req.cursor) /\ SeenTo(Where(req.cursor))
          BY <2>2, <5>1 DEF WalkSearch
        <5>3. CursorKnown(req.cursor)' /\ Where(req.cursor)' = Where(req.cursor)
          BY <1>2, <1>12, <4>1, <5>2
        <5>4. QED
          BY <1>11, <5>2, <5>3
      <4>2. QED
        BY <4>1
    <3>3. (req.pc = "find" => SeenTo(req.last))'
      BY <1>2, <1>11, <2>2 DEF WalkSearch
    <3>4. (req.pc = "readBack" => PageSeen(Trimmed(req.found), Len(req.found) = size + 1, EndOf(Trimmed(req.found))))'
      <4>1. ASSUME req.pc = "readBack" PROVE EndOf(Trimmed(req.found))' = EndOf(Trimmed(req.found))
        <5>1. search # "cameraEvents"
          BY <1>1, <4>1 DEF TypeInv
        <5>2. \A d : CursorOf(d)' = CursorOf(d)
          BY <1>2, <5>1 DEF CursorOf
        <5>3. QED
          BY <1>2, <5>2 DEF EndOf, Trimmed
      <4>2. ASSUME req.pc = "readBack"
            PROVE  PageSeen(Trimmed(req.found), Len(req.found) = size + 1, EndOf(Trimmed(req.found)))'
        <5>1. PageSeen(Trimmed(req.found), Len(req.found) = size + 1, EndOf(Trimmed(req.found)))
          BY <2>2, <4>2 DEF WalkSearch
        <5>2. Trimmed(req.found)' = Trimmed(req.found) /\ size' = size /\ req'.found = req.found
          BY <1>2 DEF Trimmed
        <5>3. QED
          BY <1>14, <4>1, <4>2, <5>1, <5>2
      <4>3. QED
        BY <1>2, <4>2
    <3>5. (req.pc \in {"lookUpMore", "more", "readMore"} /\ search \notin TwoQueries => PageSeen(req.page, req.own, req.end))'
      BY <1>2, <1>14, <2>1, <2>2 DEF WalkSearch
    <3>6. search' \notin {"malDevices", "staffDevices"}
      BY <1>2, <2>1 DEF TwoQueries
    <3>7. QED
      BY <3>1, <3>2, <3>3, <3>4, <3>5, <3>6 DEF WalkSearch
  <2>4. QED
    BY <1>2, <1>4, <2>1, <2>2, <2>3 DEF WalkInv
<1>16. WalkInv'
  BY <1>15 DEF WalkInv
<1>17. QED
  BY <1>6, <1>7, <1>16 DEF AllInv

LEMMA ChangeSteps ==
  ASSUME AllInv, Continues, NEW d \in Docs,
         \/ \E k \in Keys : Insert(d, k)
         \/ \E k \in Keys, listed \in BOOLEAN : Change(d, k, listed)
         \/ Delete(d)
  PROVE  AllInv'
<1>1. SearchOK
  BY DEF AllInv, TypeInv
<1>2. ASSUME NEW k \in Keys, Insert(d, k) PROVE AllInv'
  <2>1. /\ rows' = [e \in DOMAIN rows \cup {d} |-> IF e = d THEN [key |-> k, listed |-> TRUE] ELSE rows[e]]
        /\ d \notin DOMAIN rows /\ touched' = touched /\ calm' = FALSE /\ still' = FALSE
        /\ UNCHANGED <<asked, req, view, forward, start, stale, seen>>
    BY <1>2 DEF Insert, Meanwhile
  <2>2. SearchOK'
    <3>1. order' = order /\ size' = size
      BY <2>1 DEF asked
    <3>2. DOMAIN rows' = DOMAIN rows \cup {d}
      BY <2>1
    <3>3. \A e \in DOMAIN rows' : rows'[e].key \in Keys /\ rows'[e].listed \in BOOLEAN
      BY <1>1, <2>1 DEF SearchOK
    <3>4. QED
      BY <1>1, <3>1, <3>2, <3>3 DEF SearchOK
  <2>3. \A e \in DOMAIN rows \ touched' : e \in DOMAIN rows' /\ rows'[e] = rows[e]
    BY <2>1
  <2>4. QED
    BY <2>1, <2>2, <2>3, MeanwhileStep
<1>3. ASSUME NEW k \in Keys, NEW listed \in BOOLEAN, Change(d, k, listed) PROVE AllInv'
  <2>1. /\ rows' = [rows EXCEPT ![d] = [key |-> k, listed |-> listed]]
        /\ d \in DOMAIN rows /\ touched' = touched \cup {d} /\ calm' = FALSE /\ still' = FALSE
        /\ UNCHANGED <<asked, req, view, forward, start, stale, seen>>
    BY <1>3 DEF Change, Meanwhile
  <2>2. DOMAIN rows' = DOMAIN rows /\ \A e \in DOMAIN rows : rows'[e] = IF e = d THEN [key |-> k, listed |-> listed] ELSE rows[e]
    BY <2>1
  <2>3. SearchOK'
    <3>1. order' = order /\ size' = size
      BY <2>1 DEF asked
    <3>2. \A e \in DOMAIN rows' : rows'[e].key \in Keys /\ rows'[e].listed \in BOOLEAN
      BY <1>1, <2>2 DEF SearchOK
    <3>3. QED
      BY <1>1, <2>2, <3>1, <3>2 DEF SearchOK
  <2>4. \A e \in DOMAIN rows \ touched' : e \in DOMAIN rows' /\ rows'[e] = rows[e]
    BY <2>1, <2>2
  <2>5. QED
    BY <2>1, <2>3, <2>4, MeanwhileStep
<1>4. ASSUME Delete(d) PROVE AllInv'
  <2>1. /\ rows' = [e \in DOMAIN rows \ {d} |-> rows[e]]
        /\ touched' = touched \cup {d} /\ calm' = FALSE /\ still' = FALSE
        /\ UNCHANGED <<asked, req, view, forward, start, stale, seen>>
    BY <1>4 DEF Delete, Meanwhile
  <2>2. SearchOK'
    <3>1. order' = order /\ size' = size
      BY <2>1 DEF asked
    <3>2. QED
      BY <1>1, <2>1, <3>1 DEF SearchOK
  <2>3. \A e \in DOMAIN rows \ touched' : e \in DOMAIN rows' /\ rows'[e] = rows[e]
    BY <2>1
  <2>4. QED
    BY <2>1, <2>2, <2>3, MeanwhileStep
<1>5. QED
  BY <1>2, <1>3, <1>4

-----------------------------------------------------------------------------
(* The invariant.                                                          *)

PagingInv == Continues => AllInv

LEMMA PagingInitInv ==
  ASSUME PagingInit
  PROVE  PagingInv
<1>1. SUFFICES ASSUME Continues PROVE AllInv
  BY DEF PagingInv
<1>2. /\ order \in Orders /\ size \in 1..MaxSize /\ req = Idle /\ view = NoView /\ calm = TRUE /\ still = TRUE
      /\ forward = FALSE /\ start = {} /\ touched = {} /\ seen = [d \in Docs |-> 0]
  BY DEF PagingInit, Orders
<1>3. SearchOK
  <2>1. PICK D \in SUBSET Docs : rows \in [D -> [key : Keys, listed : {TRUE}]]
    BY DEF PagingInit
  <2>2. DOMAIN rows = D /\ \A d \in D : rows[d] \in [key : Keys, listed : {TRUE}]
    BY <2>1
  <2>3. \A d \in DOMAIN rows : rows[d].key \in Keys /\ rows[d].listed \in BOOLEAN
    BY <2>2
  <2>4. size \in Nat \ {0}
    BY <1>2, SizeAssumption
  <2>5. QED
    BY <1>2, <2>2, <2>3, <2>4 DEF SearchOK
<1>4. /\ Idle \in Requests /\ Idle.pc = "idle" /\ ~Idle.reversed
      /\ NoView \in Views /\ ~NoView.shown /\ ~NoView.reversed /\ ~NoView.hasPrevious
  BY <1>1, <1>3, IdleFacts
<1>5. TypeInv
  <2>1. seen \in [Docs -> Nat]
    BY <1>2
  <2>2. QED
    BY <1>2, <1>3, <1>4, <2>1 DEF TypeInv
<1>6. CalmInv
  BY <1>2, <1>4 DEF CalmInv, CalmSearch
<1>7. WalkInv
  BY <1>2 DEF WalkInv, Sound
<1>8. QED
  BY <1>5, <1>6, <1>7 DEF AllInv

LEMMA Unchanged ==
  ASSUME AllInv, UNCHANGED pagingVars
  PROVE  AllInv'
<1>1. /\ UNCHANGED asked /\ UNCHANGED collection /\ UNCHANGED <<start, touched, seen>>
      /\ UNCHANGED <<req, view, forward, still, stale, calm>>
  BY DEF pagingVars, walk
<1>2. /\ SearchOK' <=> SearchOK
      /\ Listed' = Listed /\ (LooksUp' <=> LooksUp) /\ Requests' = Requests /\ Views' = Views
      /\ size' = size /\ search' = search /\ TwoQueries' = TwoQueries
      /\ (\A d : Place(d)' = Place(d)) /\ (\A d, e : Ahead(d, e)' <=> Ahead(d, e))
      /\ (\A D : Onward(D)' = Onward(D) /\ Backward(D)' = Backward(D))
      /\ (\A p : AfterPlace(p)' = AfterPlace(p) /\ BeforePlace(p)' = BeforePlace(p) /\ (PlaceOK(p)' <=> PlaceOK(p)))
      /\ (\A c : Where(c)' = Where(c) /\ (CursorKnown(c)' <=> CursorKnown(c)))
      /\ (\A s : EndOf(s)' = EndOf(s) /\ Trimmed(s)' = Trimmed(s))
      /\ (\A s, back, p : IsQuery(s, back, p)' <=> IsQuery(s, back, p))
      /\ (\A s, own, back, p : PageFrom(s, own, back, p)' <=> PageFrom(s, own, back, p))
  BY <1>1, Frame DEF TwoQueries
<1>3. /\ Steady' = Steady
      /\ (\A c : Trusted(c)' <=> Trusted(c)) /\ (\A p : SeenTo(p)' <=> SeenTo(p))
      /\ (\A s, own, end : PageSeen(s, own, end)' <=> PageSeen(s, own, end))
      /\ (\A n : ShownTo(n)' <=> ShownTo(n))
  BY <1>1, WalkFrame
<1>4. TypeInv'
  BY <1>1, <1>2 DEF AllInv, TypeInv
<1>5. CalmInv'
  <2>1. CalmSearch => CalmSearch'
    BY <1>1, <1>2 DEF CalmSearch, Edge
  <2>2. CalmView => CalmView'
    BY <1>1, <1>2 DEF CalmView
  <2>3. QED
    BY <1>1, <2>1, <2>2 DEF AllInv, CalmInv
<1>6. WalkInv'
  <2>1. WalkSearch => WalkSearch'
    BY <1>1, <1>2, <1>3 DEF WalkSearch
  <2>2. WalkByNumber => WalkByNumber'
    BY <1>1, <1>2, <1>3 DEF WalkByNumber
  <2>3. Sound' <=> Sound
    BY <1>1, <1>2 DEF Sound
  <2>4. QED
    BY <1>1, <1>2, <1>3, <2>1, <2>2, <2>3 DEF AllInv, WalkInv
<1>7. QED
  BY <1>4, <1>5, <1>6 DEF AllInv

LEMMA PagingNextInv ==
  ASSUME PagingInv, [PagingNext]_pagingVars
  PROVE  PagingInv'
<1>1. UNCHANGED <<search, field>>
  BY DEF PagingNext, pagingVars, asked, FirstPage, NextPage, PreviousPage, LookUp, LookUpMore, Proceed, Fail,
         SearchDevices, SearchDevicesForBuildingFilter, SearchRules, SearchSubscriptions, SearchAuditLogs,
         SearchUsers, CameraEventHistory, GetMalDevices, SearchDevicesByStaff, SearchAbnormalDevices,
         Pages, PagesReadBack, Take, Answer, Insert, Change, Delete, Meanwhile
<1>2. Continues' <=> Continues
  BY <1>1 DEF Continues, Unsorted
<1>3. SUFFICES ASSUME Continues, AllInv PROVE AllInv'
  BY <1>2 DEF PagingInv
<1>4. CASE FirstPage \/ NextPage \/ PreviousPage
  BY <1>3, <1>4, FirstPageStep, NextPageStep, PreviousPageStep
<1>5. CASE LookUp \/ LookUpMore
  BY <1>3, <1>5, LookUpStep, LookUpMoreStep
<1>6. CASE \/ SearchDevices \/ SearchDevicesForBuildingFilter \/ SearchRules \/ SearchSubscriptions
           \/ SearchAuditLogs \/ SearchUsers \/ CameraEventHistory
  <2>1. SearchStep
    BY <1>3, <1>6, SearchSteps DEF AllInv
  <2>2. QED
    BY <1>3, <2>1, TypeSearch, CalmSteps, WalkSteps DEF AllInv
<1>7. CASE GetMalDevices \/ SearchDevicesByStaff \/ SearchAbnormalDevices
  BY <1>3, <1>7, MalDevicesStep, StaffDevicesStep, AbnormalDevicesStep
<1>8. CASE \/ \E d \in Docs, k \in Keys : Insert(d, k)
           \/ \E d \in Docs, k \in Keys, listed \in BOOLEAN : Change(d, k, listed)
           \/ \E d \in Docs : Delete(d)
  BY <1>3, <1>8, ChangeSteps
<1>9. CASE UNCHANGED pagingVars
  BY <1>3, <1>9, Unchanged
<1>10. QED
  BY <1>4, <1>5, <1>6, <1>7, <1>8, <1>9 DEF PagingNext

LEMMA SpecInv == PagingSpec => []PagingInv
<1>1. PagingInit => PagingInv
  BY PagingInitInv
<1>2. PagingInv /\ [PagingNext]_pagingVars => PagingInv'
  BY PagingNextInv
<1>3. QED
  BY <1>1, <1>2, PTL DEF PagingSpec

-----------------------------------------------------------------------------
(* What a walk promises.                                                   *)

LEMMA OnceOfInv ==
  ASSUME PagingInv
  PROVE  WalkOnce
<1>1. SUFFICES ASSUME forward, Continues, IF search \in TwoQueries THEN still ELSE ~stale, NEW d \in start \ touched
               PROVE  seen[d] <= 1 /\ (req.pc = "idle" /\ view.shown /\ ~view.hasNext => seen[d] = 1)
  BY DEF WalkOnce
<1>2. TypeInv /\ WalkInv /\ Sound /\ d \in Steady
  BY <1>1 DEF PagingInv, AllInv, Sound, Steady
<1>3. seen[d] <= 1
  BY <1>2 DEF WalkInv
<1>4. ASSUME req.pc = "idle", ~view.hasNext PROVE seen[d] = 1
  <2>1. CASE search # "abnormalDevices"
    <3>1. PageSeen(<<>>, view.hasNext, view.end)
      BY <1>2, <1>4, <2>1 DEF WalkInv, WalkSearch
    <3>2. QED
      BY <1>2, <1>4, <3>1 DEF PageSeen, ToSet
  <2>2. CASE search = "abnormalDevices"
    <3> DEFINE n == Cardinality(Listed)
               k == (view.skip + 1) * size
    <3>1. SearchOK /\ d \in Listed /\ Listed \in SUBSET Listed
      BY <1>2 DEF TypeInv, Steady
    <3>2. n \in Nat /\ \E i \in 1..n : Onward(Listed)[i] = d
      BY <3>1, OrderedFacts
    <3>3. k \in Nat
      BY <1>2, Times DEF TypeInv, SearchOK, Views
    <3>4. (\A i \in 1..n : seen[Onward(Listed)[i]] = IF i <= k THEN 1 ELSE 0) /\ n <= k
      BY <1>2, <1>4, <2>2 DEF WalkInv, WalkByNumber, ShownTo
    <3> HIDE DEF n, k
    <3>5. PICK i \in 1..n : Onward(Listed)[i] = d
      BY <3>2
    <3>6. i <= k
      BY <3>2, <3>3, <3>4, <3>5
    <3>7. QED
      BY <3>4, <3>5, <3>6
  <2>3. QED
    BY <2>1, <2>2
<1>5. QED
  BY <1>3, <1>4

LEMMA BesideFacts ==
  ASSUME TypeInv, Continues
  PROVE  Beside = IF view.reversed THEN BeforePlace(Where(view.cursor)) ELSE AfterPlace(Where(view.cursor))
<1> DEFINE c == view.cursor
           p == Where(c)
           back == view.reversed
           Sorted(d, k) == IF back THEN Beyond(order, Key(d), k) ELSE Beyond(order, k, Key(d))
           IsBeside(d) == IF search = "cameraEvents"
                          THEN Sorted(d, c.key) \/ (Key(d) = c.key /\ IdBeyond(back, d, c))
                          ELSE IF back THEN Ahead(d, c.id) ELSE Ahead(c.id, d)
           IsThere(d) == IF back THEN Precedes(Place(d), p) ELSE Precedes(p, Place(d))
<1>1. SearchOK /\ c \in Cursors
  BY DEF TypeInv, Views
<1>2. (c = Nobody <=> c.id = NoDoc) /\ c.id \in Docs \cup {NoDoc}
  BY <1>1, CursorFacts
<1>3. p.id = NoDoc <=> c.id = NoDoc
  BY DEF Where, Place
<1>4. ASSUME NEW d \in Listed, c.id # NoDoc PROVE IsBeside(d) <=> IsThere(d)
  <2>1. d \in Nat /\ c.id \in Nat
    BY <1>1, <1>2, <1>4, ListedFacts, DocsAssumption
  <2>2. CASE search = "cameraEvents"
    <3>1. p = c /\ ~ById
      BY <2>2 DEF Where, ById
    <3>2. IsBeside(d) <=> (Sorted(d, c.key) \/ (Key(d) = c.key /\ IdBeyond(back, d, c)))
      BY <2>2
    <3>3. IdBeyond(back, d, c) <=> IF back THEN d < c.id ELSE c.id < d
      BY <2>1 DEF IdBeyond
    <3>4. Precedes(Place(d), c) <=> Beyond(order, Key(d), c.key) \/ (Key(d) = c.key /\ d < c.id)
      BY <3>1 DEF Precedes, Place
    <3>5. Precedes(c, Place(d)) <=> Beyond(order, c.key, Key(d)) \/ (c.key = Key(d) /\ c.id < d)
      BY <3>1 DEF Precedes, Place
    <3>6. QED
      BY <3>1, <3>2, <3>3, <3>4, <3>5
  <2>3. CASE search # "cameraEvents"
    <3>1. p = Place(c.id)
      BY <1>4, <2>3 DEF Where
    <3>2. (Ahead(d, c.id) <=> Precedes(Place(d), Place(c.id))) /\ (Ahead(c.id, d) <=> Precedes(Place(c.id), Place(d)))
      BY AheadPrecedes
    <3>3. QED
      BY <2>3, <3>1, <3>2
  <2>4. QED
    BY <2>2, <2>3
<1>5. Beside = {d \in Listed : c = Nobody \/ IsBeside(d)}
  BY DEF Beside
<1> HIDE DEF IsBeside
<1>6. CASE c.id = NoDoc
  BY <1>2, <1>3, <1>5, <1>6 DEF BeforePlace, AfterPlace
<1>7. CASE c.id # NoDoc
  <2>1. Beside = {d \in Listed : IsThere(d)}
    BY <1>2, <1>4, <1>5, <1>7
  <2>2. QED
    BY <1>3, <1>7, <2>1 DEF BeforePlace, AfterPlace
<1>8. QED
  BY <1>6, <1>7

LEMMA AdjoinsOfInv ==
  ASSUME PagingInv
  PROVE  PageAdjoins
<1>1. SUFFICES ASSUME Fresh, Continues, Reversible, search # "abnormalDevices"
               PROVE  view.page = NextTo(InOrder(Beside, {p \in Beside \X Beside : Ahead(p[1], p[2])}))
  BY DEF PageAdjoins
<1>2. TypeInv /\ SearchOK /\ CalmView
  BY <1>1 DEF PagingInv, AllInv, TypeInv, CalmInv, Fresh
<1> DEFINE p == Where(view.cursor)
           own == IF view.reversed THEN view.hasPrevious ELSE view.hasNext
           n == Cardinality(Beside)
           s == Onward(Beside)
           m == IF size < n THEN size ELSE n
<1>3. PageFrom(view.page, own, view.reversed, p)
  BY <1>1, <1>2 DEF CalmView
<1>4. Beside = IF view.reversed THEN BeforePlace(p) ELSE AfterPlace(p)
  BY <1>1, <1>2, BesideFacts
<1>5. Beside \in SUBSET Listed
  BY <1>4 DEF BeforePlace, AfterPlace
<1>6. n \in Nat /\ s \in [1..n -> Beside] /\ s \in Seq(Beside) /\ Len(s) = n
  BY <1>2, <1>5, OrderedFacts
<1>7. s = InOrder(Beside, {q \in Beside \X Beside : Ahead(q[1], q[2])})
  BY DEF Onward
<1>8. SUFFICES view.page = NextTo(s)
  BY <1>7
<1>9. size \in Nat /\ m \in Nat /\ m <= n
  BY <1>2, <1>6 DEF SearchOK
<1>10. CASE ~view.reversed
  BY <1>3, <1>4, <1>6, <1>10 DEF PageFrom, NextTo, FirstOf
<1>11. CASE view.reversed
  <2>1. view.page = Reverse(FirstOf(size, Backward(Beside)))
    BY <1>1, <1>3, <1>4, <1>11 DEF PageFrom
  <2>2. view.page \in Seq(Beside) /\ Len(view.page) = m /\ \A i \in 1..m : view.page[i] = s[n - m + i]
    BY <1>2, <1>5, <2>1, BackwardPage
  <2> DEFINE t == SubSeq(s, n - m + 1, n)
  <2>3. t \in Seq(Beside) /\ Len(t) = m /\ \A i \in 1..m : t[i] = s[n - m + i]
    <3>1. n - m + 1 \in Int /\ n \in Int /\ n - (n - m + 1) + 1 = m /\ \A i \in (n - m + 1)..n : i \in 1..n
      BY <1>6, <1>9
    <3>2. \A i \in (n - m + 1)..n : s[i] \in Beside
      BY <1>6, <3>1
    <3>3. /\ t \in Seq(Beside)
          /\ Len(t) = IF n - m + 1 <= n THEN n - (n - m + 1) + 1 ELSE 0
          /\ \A i \in 1..(n - (n - m + 1) + 1) : t[i] = s[n - m + 1 + i - 1]
      BY <3>1, <3>2, SubSeqProperties
    <3>4. \A i \in 1..m : n - m + 1 + i - 1 = n - m + i
      BY <1>6, <1>9
    <3>5. n - m + 1 <= n \/ m = 0
      BY <1>6, <1>9
    <3> HIDE DEF t, m
    <3>6. QED
      BY <1>6, <1>9, <3>1, <3>3, <3>4, <3>5
  <2>4. NextTo(s) = t
    BY <1>6, <1>11 DEF NextTo
  <2> HIDE DEF t, s, m, n
  <2>5. view.page \in [1..m -> Beside] /\ t \in [1..m -> Beside]
    BY <2>2, <2>3, SeqFacts
  <2> DEFINE q == view.page
  <2>6. q \in [1..m -> Beside] /\ \A i \in 1..m : q[i] = t[i]
    BY <2>2, <2>3, <2>5
  <2> HIDE DEF q
  <2>7. q = [i \in 1..m |-> q[i]] /\ t = [i \in 1..m |-> t[i]]
    BY <2>5, <2>6
  <2>8. [i \in 1..m |-> q[i]] = [i \in 1..m |-> t[i]]
    BY <2>6
  <2>9. QED
    BY <2>4, <2>7, <2>8 DEF q
<1>12. QED
  BY <1>10, <1>11

LEMMA InfoOfInv ==
  ASSUME PagingInv
  PROVE  PageInfoTrue
<1> DEFINE page == view.page
           after == \E d \in Listed : Ahead(Last(page), d)
           before == \E d \in Listed : Ahead(d, Head(page))
<1>1. SUFFICES ASSUME Fresh, Continues, Reversible, page # <<>>
               PROVE  /\ search # "abnormalDevices" => view.hasNext = after
                      /\ after => view.hasNext
                      /\ search \notin TwoQueries => view.hasPrevious = before
  BY DEF PageInfoTrue
<1>2. TypeInv /\ SearchOK /\ CalmView /\ view \in Views
  BY <1>1 DEF PagingInv, AllInv, TypeInv, CalmInv, Fresh
<1>3. view.hasNext \in BOOLEAN /\ view.hasPrevious \in BOOLEAN /\ view.reversed \in BOOLEAN /\ after \in BOOLEAN /\ before \in BOOLEAN
  BY <1>2 DEF Views
<1>4. CASE search = "abnormalDevices"
  BY <1>1, <1>2, <1>4 DEF CalmView, TwoQueries
<1>5. CASE search # "abnormalDevices"
  <2> DEFINE p == Where(view.cursor)
             own == IF view.reversed THEN view.hasPrevious ELSE view.hasNext
  <2>1. PageFrom(page, own, view.reversed, p)
    BY <1>2, <1>5 DEF CalmView
  <2>2. /\ AfterPlace(p) \in SUBSET Listed /\ BeforePlace(p) \in SUBSET Listed
        /\ \A d \in AfterPlace(p), e \in Listed : Ahead(d, e) => e \in AfterPlace(p)
        /\ \A d \in BeforePlace(p), e \in Listed : Ahead(e, d) => e \in BeforePlace(p)
    BY <1>2, <2>1, PlaceClosed DEF PageFrom
  <2>3. \A d \in Listed : Place(d).id # NoDoc
    BY <1>2, ListedFacts DEF Listed, Place, NoDoc
  <2>4. CASE ~view.reversed
    <3>1. page = FirstOf(size, Onward(AfterPlace(p))) /\ (view.hasNext <=> Cardinality(AfterPlace(p)) > size)
      BY <2>1, <2>4 DEF PageFrom
    <3>2. /\ Last(page) \in AfterPlace(p) /\ Head(page) \in AfterPlace(p)
          /\ Cardinality(AfterPlace(p)) > size <=> \E d \in AfterPlace(p) : Ahead(Last(page), d)
      BY <1>1, <1>2, <2>2, <3>1, OnwardPage
    <3>3. view.hasNext <=> after
      BY <2>2, <3>1, <3>2
    <3>4. search \notin TwoQueries => (view.hasPrevious <=> BeforePlace(Place(Head(page))) # {})
      BY <1>1, <1>2, <2>4 DEF CalmView
    <3>5. BeforePlace(Place(Head(page))) # {} <=> before
      BY <2>2, <2>3, <3>2, AheadPrecedes DEF BeforePlace
    <3>6. QED
      BY <1>3, <3>3, <3>4, <3>5
  <2>5. CASE view.reversed
    <3>1. page = Reverse(FirstOf(size, Backward(BeforePlace(p)))) /\ (view.hasPrevious <=> Cardinality(BeforePlace(p)) > size)
      BY <1>1, <2>1, <2>5 DEF PageFrom
    <3>2. /\ Last(page) \in BeforePlace(p) /\ Head(page) \in BeforePlace(p)
          /\ Cardinality(BeforePlace(p)) > size <=> \E d \in BeforePlace(p) : Ahead(d, Head(page))
      BY <1>1, <1>2, <2>2, <3>1, BackwardPage
    <3>3. view.hasPrevious <=> before
      BY <2>2, <3>1, <3>2
    <3>4. search \notin TwoQueries
      BY <1>2, <2>5 DEF TypeInv
    <3>5. view.hasNext <=> AfterPlace(Place(Last(page))) # {}
      BY <1>1, <1>2, <2>5, <3>4 DEF CalmView
    <3>6. AfterPlace(Place(Last(page))) # {} <=> after
      BY <2>2, <2>3, <3>2, AheadPrecedes DEF AfterPlace
    <3>7. QED
      BY <1>3, <3>3, <3>5, <3>6
  <2>6. QED
    BY <2>4, <2>5
<1>6. QED
  BY <1>4, <1>5

\* A client that goes forward sees every document that stays as it was exactly
\* once: searchDevices, searchRules, searchSubscriptions, searchAuditLogs and
\* searchUsers page by page with documents coming, changing and going at any
\* await, the other searches while nothing changes.
THEOREM ShownOnce == PagingSpec => []WalkOnce
<1>1. PagingInv => WalkOnce
  BY OnceOfInv
<1>2. QED
  BY <1>1, SpecInv, PTL

\* The answer of a search adjoins the cursor it was asked from, forward and
\* backward, while nothing changes (mongoQueryForDevices and its copies).
THEOREM PagesAdjoin == PagingSpec => []PageAdjoins
<1>1. PagingInv => PageAdjoins
  BY AdjoinsOfInv
<1>2. QED
  BY <1>1, SpecInv, PTL

\* The flags of PageInfo tell the truth about the page shown while nothing
\* changes: one comes of the document too many, the other of the second query.
THEOREM FlagsAreTrue == PagingSpec => []PageInfoTrue
<1>1. PagingInv => PageInfoTrue
  BY InfoOfInv
<1>2. QED
  BY <1>1, SpecInv, PTL
================================================================================
