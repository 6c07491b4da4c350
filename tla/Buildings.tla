------------------------------- MODULE Buildings -------------------------------
(***************************************************************************)
(* Buildings, the devices on their floors and the images of their floor    *)
(* plans (building.service.ts, image-mgmt).  A building is a document with *)
(* its floors, created on the platform first; a device placed on a floor   *)
(* has the flag usedForBuilding, by which the search leaves out devices    *)
(* that are in use; what a client then gives, perhaps much later, is not   *)
(* checked.  A building is a device too: the operations on devices in      *)
(* general (device.service.ts) add it to groups and take it out of them,   *)
(* leaving the flags alone.  A floor plan is replaced by uploading an      *)
(* image, storing its id and deleting the image that was stored before.    *)
(*                                                                         *)
(* Each operation is a job, whose steps are the awaits of the code.        *)
(***************************************************************************)
EXTENDS Naturals, FiniteSets

CONSTANTS
  Devices, Buildings, Floors, Images,
  NoImage,
  MaxJobs,    \* bound: operations begun
  MaxFaults   \* bound: calls of the platform or the database that fail, restarts

ASSUME BuildingsAssumption == NoImage \notin Images /\ Floors # {}

VARIABLES
  serial,     \* operations come one at a time
  backslash,  \* the server runs where a backslash separates directories
  used,       \* devices with usedForBuilding
  building,   \* documents: [floors, groups, disabled]: how many groups, and disabledGroups, it has
  files, images,  \* files of images, and their documents
  jobs,       \* operations in progress
  spoilt,     \* devices the operations on buildings cannot keep in order: see FlagsExact
  replaced,   \* images that updateFloorplan has put others in the place of
  begun, faults

vars == <<serial, backslash, used, building, files, images, jobs, spoilt, replaced, begun, faults>>
env == <<serial, backslash>>
store == <<files, images>>

On(floors) == UNION {floors[f].devices : f \in Floors}

\* Deleted, a building is left without groups.
Live(b) == b \in DOMAIN building /\ building[b].groups > 0

Uses(b, d) == Live(b) /\ d \in On(building[b].floors)

\* Mutation: all devices are shown.
AllMutation == Devices

\* The search offers the devices without the flag.
SearchDevicesForBuilding == {d \in Devices : d \notin used}

\* An image is stored for a floor, or in the hands of an operation.
Referred(i) ==
  \/ \E j \in jobs, f \in Floors : i \in {j.image, j.oldImage, j.input[f].plan}
  \/ \E b \in DOMAIN building, f \in Floors : building[b].floors[f].plan = i

\* What a client may give: any devices, as the search that offered them may be long ago, and on each
\* floor no plan, the plan that is stored, one replaced since, or an image uploaded for the form.
Forms(b) ==
  LET uploaded == {i \in images \cap files : ~Referred(i)}
      plans(f) == {NoImage} \cup replaced \cup uploaded
                  \cup (IF b \in DOMAIN building THEN {building[b].floors[f].plan} ELSE {})
  IN  {floors \in [Floors -> [devices : SUBSET Devices, plan : Images \cup {NoImage}]] :
         \A f \in Floors : floors[f].plan \in plans(f)}

\* Devices of a form that are neither offered any more nor the building's own.
Taken(b, input) == {d \in On(input) : d \notin SearchDevicesForBuilding /\ ~Uses(b, d)}
-----------------------------------------------------------------------------
(* Jobs.                                                                   *)

Blank == [f \in Floors |-> [devices |-> {}, plan |-> NoImage]]
Job(kind, b, pc) ==
  [kind |-> kind, b |-> b, pc |-> pc, input |-> Blank, old |-> {}, todo |-> {}, groups |-> 0,
   floor |-> CHOOSE f \in Floors : TRUE, image |-> NoImage, oldImage |-> NoImage, id |-> begun]

Begin(j) ==
  /\ begun < MaxJobs /\ begun' = begun + 1
  /\ serial => jobs = {}
  /\ jobs' = jobs \cup {j}
  /\ spoilt' = spoilt \cup Taken(j.b, j.input)
  /\ UNCHANGED <<env, used, building, store, faults>>

Goes(j, k) == jobs' = (jobs \ {j}) \cup {k}
Ends(j) == jobs' = jobs \ {j}

Touched(j) == On(j.input) \cup j.old

\* An operation that is done has put its devices right, unless another building has them too.
Repaired(j, b) == {d \in Touched(j) : \A c \in DOMAIN building \ {b} : ~Uses(c, d)}

AskCreate(b) ==
  /\ b \notin DOMAIN building /\ \A j \in jobs : j.b # b
  /\ \E input \in Forms(b) : Begin([Job("create", b, "platform") EXCEPT !.input = input])
  /\ UNCHANGED replaced

\* A client that has not heard of a deletion may still ask for an update.
AskUpdate(b) ==
  /\ b \in DOMAIN building
  /\ \E input \in Forms(b) : Begin([Job("update", b, "find") EXCEPT !.input = input])
  /\ UNCHANGED replaced

AskDelete(b) == Live(b) /\ Begin(Job("delete", b, "find")) /\ UNCHANGED replaced

\* Ids are never given twice: an image whose id is still found somewhere is none of the free ones.
Known(i) == i \in images \cup files \/ Referred(i)

AskPlan(b, f, i) ==
  /\ Live(b) /\ ~Known(i)
  /\ Begin([Job("plan", b, "upload") EXCEPT !.floor = f, !.image = i])
  /\ replaced' = replaced \ {i}
-----------------------------------------------------------------------------
(* createBuilding, updateBuilding, deleteBuilding.                         *)

Fault == faults < MaxFaults /\ faults' = faults + 1
NoFault == UNCHANGED faults

\* createDevice or the time zone fails: nothing was changed here.
CreateOnPlatform(j) ==
  /\ j.kind = "create" /\ j.pc = "platform"
  /\ \/ Goes(j, [j EXCEPT !.pc = "flag", !.todo = On(j.input)]) /\ NoFault
     \/ Ends(j) /\ Fault
  /\ UNCHANGED <<env, used, building, store, spoilt, replaced, begun>>

Flag(j, d) == used' = used \cup {d}

SetFlag(j) ==
  /\ j.kind \in {"create", "update"} /\ j.pc = "flag"
  /\ IF j.todo = {}
     THEN Goes(j, [j EXCEPT !.pc = "store"]) /\ UNCHANGED used
     ELSE \E d \in j.todo : Flag(j, d) /\ Goes(j, [j EXCEPT !.todo = @ \ {d}])
  /\ UNCHANGED <<env, building, store, spoilt, replaced, begun, faults>>

\* An address lookup or the creation fails: the flags stay.
CreateDocument(j) ==
  /\ j.kind = "create" /\ j.pc = "store" /\ Ends(j)
  /\ \/ /\ building' = [c \in DOMAIN building \cup {j.b} |->
                          IF c = j.b THEN [floors |-> j.input, groups |-> 1, disabled |-> 0] ELSE building[c]]
        /\ NoFault /\ UNCHANGED spoilt
     \/ spoilt' = spoilt \cup On(j.input) /\ Fault /\ UNCHANGED building
  /\ UNCHANGED <<env, used, store, replaced, begun>>

\* findOne; deleteBuilding goes on only where a group of the building is one of the user's.
FindBuilding(j) ==
  /\ j.kind \in {"update", "delete"} /\ j.pc = "find"
  /\ IF j.kind = "delete" /\ ~Live(j.b)
     THEN Ends(j)
     ELSE LET devices == On(building[j.b].floors) IN Goes(j, [j EXCEPT !.pc = "clear", !.todo = devices, !.old = devices])
  /\ UNCHANGED <<env, used, building, store, spoilt, replaced, begun, faults>>

\* Mutation: the flags stay set.
KeptMutation(j, d) == UNCHANGED used

Clear(j, d) == used' = used \ {d}

ClearFlag(j) ==
  /\ j.kind \in {"update", "delete"} /\ j.pc = "clear"
  /\ IF j.todo = {}
     THEN Goes(j, [j EXCEPT !.pc = IF j.kind = "update" THEN "platform" ELSE "remove"]) /\ UNCHANGED used
     ELSE \E d \in j.todo : Clear(j, d) /\ Goes(j, [j EXCEPT !.todo = @ \ {d}])
  /\ UNCHANGED <<env, building, store, spoilt, replaced, begun, faults>>

\* A failure of the platform leaves the flags cleared.
UpdateOnPlatform(j) ==
  /\ j.kind = "update" /\ j.pc = "platform"
  /\ \/ Goes(j, [j EXCEPT !.pc = "read"]) /\ NoFault /\ UNCHANGED spoilt
     \/ Ends(j) /\ Fault /\ spoilt' = spoilt \cup j.old
  /\ UNCHANGED <<env, used, building, store, replaced, begun>>

\* The groups are read here and written back with the rest.
ReadGroups(j) ==
  /\ j.kind = "update" /\ j.pc = "read"
  /\ Goes(j, [j EXCEPT !.pc = "flag", !.todo = On(j.input), !.groups = building[j.b].groups])
  /\ UNCHANGED <<env, used, building, store, spoilt, replaced, begun, faults>>

\* An address lookup or the update fails: the new flags are set, the document has the old floors.
UpdateDocument(j) ==
  /\ j.kind = "update" /\ j.pc = "store" /\ Ends(j)
  /\ \/ /\ building' = [building EXCEPT ![j.b].floors = j.input, ![j.b].groups = j.groups]
        /\ spoilt' = IF j.groups > 0 THEN spoilt \ Repaired(j, j.b) ELSE spoilt \cup Touched(j)
        /\ NoFault
     \/ spoilt' = spoilt \cup Touched(j) /\ Fault /\ UNCHANGED building
  /\ UNCHANGED <<env, used, store, replaced, begun>>

\* deleteDevices in each of the groups that are the user's; the building may have others, or one twice.
DeleteDocument(j) ==
  /\ j.kind = "delete" /\ j.pc = "remove" /\ Ends(j)
  /\ LET had == building[j.b].groups
     IN  \E left \in 0..had :
           /\ serial => left < had
           /\ building' = [building EXCEPT ![j.b].groups = left, ![j.b].disabled = @ + had - left]
           /\ spoilt' = IF left = 0 THEN spoilt \ Repaired(j, j.b) ELSE spoilt \cup Touched(j)
  /\ UNCHANGED <<env, used, store, replaced, begun, faults>>

\* Operations on devices in general take a building into groups and out of them: the flags of the
\* devices on its floors stay as they are.
Regroup(b, groups, disabled) ==
  /\ begun < MaxJobs /\ begun' = begun + 1
  /\ serial => jobs = {}
  /\ building' = [building EXCEPT ![b].groups = groups, ![b].disabled = disabled]
  /\ spoilt' = spoilt \cup On(building[b].floors)
  /\ UNCHANGED <<env, used, store, jobs, replaced, faults>>

\* addDevices: to one group more; what disabledGroups holds stays.
AddDevices(b) ==
  b \in DOMAIN building /\ Regroup(b, building[b].groups + 1, building[b].disabled)

\* deleteDevices: one group less.
DeleteDevices(b) ==
  Live(b) /\ Regroup(b, building[b].groups - 1, building[b].disabled + 1)

\* restoreDevices: a disabled group is one of the groups again, even where it already was.
RestoreDevices(b) ==
  /\ b \in DOMAIN building /\ building[b].disabled > 0
  /\ Regroup(b, building[b].groups + 1, building[b].disabled - 1)
-----------------------------------------------------------------------------
(* Replacing a floor plan: uploadedFile, updateFloorplan, deleteUploadedFilebyId. *)

WriteFile(j) ==
  /\ j.kind = "plan" /\ j.pc = "upload"
  /\ files' = files \cup {j.image}
  /\ Goes(j, [j EXCEPT !.pc = "insert"])
  /\ UNCHANGED <<env, used, building, images, spoilt, replaced, begun, faults>>

AddImages(j) ==
  /\ j.kind = "plan" /\ j.pc = "insert"
  /\ \/ images' = images \cup {j.image} /\ Goes(j, [j EXCEPT !.pc = "find"]) /\ NoFault
     \/ Ends(j) /\ Fault /\ UNCHANGED images
  /\ UNCHANGED <<env, used, building, files, spoilt, replaced, begun>>

\* The client keeps the id of its image for a form.
KeepImage(j) ==
  /\ j.kind = "plan" /\ j.pc = "find" /\ Ends(j)
  /\ UNCHANGED <<env, used, building, store, spoilt, replaced, begun, faults>>

FindPlan(j) ==
  /\ j.kind = "plan" /\ j.pc = "find"
  /\ Goes(j, [j EXCEPT !.pc = "set", !.oldImage = building[j.b].floors[j.floor].plan])
  /\ UNCHANGED <<env, used, building, store, spoilt, replaced, begun, faults>>

Replaced(j) == replaced' = replaced \cup ({j.oldImage} \cap Images)

\* Mutation: the id returned is that of the new image.
NewIdMutation(j) ==
  /\ j.kind = "plan" /\ j.pc = "set"
  /\ building' = [building EXCEPT ![j.b].floors[j.floor].plan = j.image]
  /\ Replaced(j)
  /\ Goes(j, [j EXCEPT !.pc = "lookUp", !.oldImage = j.image])
  /\ UNCHANGED <<env, used, store, spoilt, begun, faults>>

UpdateFloorplan(j) ==
  /\ j.kind = "plan" /\ j.pc = "set"
  /\ building' = [building EXCEPT ![j.b].floors[j.floor].plan = j.image]
  /\ Replaced(j)
  /\ IF j.oldImage = NoImage THEN Ends(j) ELSE Goes(j, [j EXCEPT !.pc = "lookUp"])
  /\ UNCHANGED <<env, used, store, spoilt, begun, faults>>

GetFilename(j) ==
  /\ j.kind = "plan" /\ j.pc = "lookUp"
  /\ IF j.oldImage \in images THEN Goes(j, [j EXCEPT !.pc = "unlink"]) ELSE Ends(j)
  /\ UNCHANGED <<env, used, building, store, spoilt, replaced, begun, faults>>

\* The path is put together with a backslash: elsewhere no such file exists.
UnlinkFile(j) ==
  /\ j.kind = "plan" /\ j.pc = "unlink"
  /\ IF backslash /\ j.oldImage \in files
     THEN files' = files \ {j.oldImage} /\ Goes(j, [j EXCEPT !.pc = "purge"])
     ELSE Ends(j) /\ UNCHANGED files
  /\ UNCHANGED <<env, used, building, images, spoilt, replaced, begun, faults>>

DeleteImages(j) ==
  /\ j.kind = "plan" /\ j.pc = "purge" /\ Ends(j)
  /\ \/ images' = images \ {j.oldImage} /\ NoFault
     \/ Fault /\ UNCHANGED images
  /\ UNCHANGED <<env, used, building, files, spoilt, replaced, begun>>

Restart ==
  /\ jobs # {} /\ Fault
  /\ jobs' = {}
  /\ spoilt' = spoilt \cup UNION {Touched(j) : j \in jobs}
  /\ UNCHANGED <<env, used, building, store, replaced, begun>>
-----------------------------------------------------------------------------
Init ==
  /\ serial \in BOOLEAN /\ backslash \in BOOLEAN
  /\ used = {} /\ building = [b \in {} |-> Blank]
  /\ files = {} /\ images = {} /\ jobs = {} /\ spoilt = {} /\ replaced = {}
  /\ begun = 0 /\ faults = 0

BuildingStep(j) ==
  \/ CreateOnPlatform(j) \/ SetFlag(j) \/ CreateDocument(j) \/ FindBuilding(j) \/ ClearFlag(j)
  \/ UpdateOnPlatform(j) \/ ReadGroups(j) \/ UpdateDocument(j) \/ DeleteDocument(j)

PlanStep(j) ==
  \/ WriteFile(j) \/ AddImages(j) \/ KeepImage(j) \/ FindPlan(j) \/ UpdateFloorplan(j)
  \/ GetFilename(j) \/ UnlinkFile(j) \/ DeleteImages(j)

Next ==
  \/ \E b \in Buildings : AskCreate(b) \/ AskUpdate(b) \/ AskDelete(b)
  \/ \E b \in Buildings : AddDevices(b) \/ DeleteDevices(b) \/ RestoreDevices(b)
  \/ \E b \in Buildings, f \in Floors, i \in Images : AskPlan(b, f, i)
  \/ \E j \in jobs : BuildingStep(j) \/ PlanStep(j)
  \/ Restart

Spec == Init /\ [][Next]_vars
-----------------------------------------------------------------------------
Quiet == serial /\ jobs = {}

\* Operations done one at a time leave usedForBuilding set on exactly the
\* devices on the floors of the buildings there are, except for devices
\*   - of an operation that failed half way or was interrupted,
\*   - that a form placed although they were taken when it was submitted,
\*   - of a building that addDevices, deleteDevices or restoreDevices moved, that
\*     deleteBuilding left in a group or that was updated after its deletion,
\* until an update or the deletion of the building puts right what no other has.
FlagsExact == Quiet => \A d \in Devices \ spoilt : d \in used <=> \E b \in Buildings : Uses(b, d)

\* Forms that place devices the search still offers when they are submitted
\* (building.service.ts:228) never put a device in two buildings, whatever was
\* created, updated and deleted before, with the exceptions of FlagsExact.
OneBuilding == Quiet => \A d \in Devices \ spoilt : \A b, c \in Buildings : Uses(b, d) /\ Uses(c, d) => b = c

\* The plan of every floor is an image there is, whatever overlaps, fails or is
\* interrupted, unless it had been replaced, and a form brought it back.
PlanServed ==
  \A b \in DOMAIN building, f \in Floors :
    building[b].floors[f].plan \notin replaced \cup {NoImage} => building[b].floors[f].plan \in images \cap files
===============================================================================
