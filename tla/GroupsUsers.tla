------------------------------ MODULE GroupsUsers ------------------------------
(***************************************************************************)
(* The tree of groups, the users with one permission document for each     *)
(* group they belong to, the registration codes, and the groups devices    *)
(* are placed in: GroupService, UserService and PermissionService.         *)
(*                                                                         *)
(* The database has no transactions and no foreign keys.  A handler checks *)
(* what it needs, then writes in several later calls; a user is read whole *)
(* and written back whole.  A reference to a document that is gone is read *)
(* as null (autopopulate), and a handler that looks into it ends with an   *)
(* error there.  Ids are never reused.                                     *)
(***************************************************************************)
EXTENDS Naturals, Sequences, SequencesExt

CONSTANTS
    Groups, Root,       \* ids of groups; the root group
    Users, Admin,       \* e-mail addresses; that of the root user
    Permissions, Full,  \* ids of permission documents; that of the root user
    Codes,              \* registration codes
    Devices,
    Requests,           \* slots for requests being served
    None,               \* null
    Deepest,            \* DEEPEST_LEVEL_FOR_GROUPS
    MaxEvents,          \* bound: requests in a behaviour
    MaxMishaps          \* bound: restarts and expired codes

ASSUME GroupsUsersAssumption ==
    /\ Root \in Groups /\ Admin \in Users /\ Full \in Permissions
    /\ None \notin Groups \cup Users \cup Permissions \cup Codes
    /\ Deepest \in Nat \ {0}
    /\ MaxEvents \in Nat /\ MaxMishaps \in Nat

VARIABLES
    group,       \* the groups stored, each with its ancestors from the root down
    projects,    \* the groups of the project level with a project on the platform
    user,        \* the users stored
    permission,  \* the permission documents stored
    code,        \* whom each available registration code is for
    placed,      \* the groups each device document lists
    allocated,   \* the ids given out so far
    request,     \* where each request is, and what it carries
    overlap,     \* whether requests overlap in this behaviour
    events, mishaps

store == <<group, projects, user, permission, code, placed>>
vars  == <<store, allocated, request, overlap, events, mishaps>>

-----------------------------------------------------------------------------
(* Users as stored, and as a query returns them.                           *)

Membership == [group : Groups \cup {None}, permission : Permissions \cup {None}, inUse : BOOLEAN]

Joined(g, p, inUse) == [group |-> g, permission |-> p, inUse |-> inUse]

NoAccount == [status |-> "none", groups |-> <<>>]

Account == [status : {"none", "WAITING", "ACTIVE"}, groups : Seq(Membership)]

Populated(m) ==
    Joined(IF m.group \in DOMAIN group THEN m.group ELSE None,
           IF m.permission \in permission THEN m.permission ELSE None, m.inUse)

\* findUser
Fetched(u) == [user[u] EXCEPT !.groups = [i \in DOMAIN @ |-> Populated(@[i])]]

GroupsOf(account) == {account.groups[i].group : i \in DOMAIN account.groups}

\* Looking into a group that is null ends a handler.
Broken(account) == None \in GroupsOf(account)

\* The user of a token, with the group its requests name in their header.
SignedIn(by, using) ==
    LET me == Fetched(by) IN
    /\ me.status = "ACTIVE" /\ ~Broken(me)
    /\ \E i \in DOMAIN me.groups : me.groups[i].group = using /\ me.groups[i].permission # None

\* isGroupUnder
Under(using) == {using} \cup {g \in DOMAIN group : using \in ToSet(group[g])}

\* Mutation: a group with subgroups counts as one without.
NoChilds(g) == {}

\* getDirectChilds
DirectChilds(g) == {h \in DOMAIN group : group[h] # <<>> /\ Last(group[h]) = g}

-----------------------------------------------------------------------------
(* Requests.                                                               *)

Idle == [op |-> "idle", at |-> "idle", group |-> None, path |-> <<>>, user |-> None,
         given |-> FALSE, permission |-> None, code |-> None, seen |-> NoAccount,
         work |-> <<>>, found |-> {}]

Quiet == \A r \in Requests : request[r] = Idle

Free(r) == request[r] = Idle /\ (overlap \/ Quiet) /\ events < MaxEvents

Start(r, q) ==
    /\ events' = events + 1
    /\ request' = [request EXCEPT ![r] = q]

At(r, op, at) == request[r].op = op /\ request[r].at = at

Goto(r, at) == request' = [request EXCEPT ![r].at = at]

Done(r) == request' = [request EXCEPT ![r] = Idle]

\* A call that fails, an expired code, a restart.
Mishap == mishaps < MaxMishaps /\ mishaps' = mishaps + 1

NewId(ids, x) == x \in ids \ allocated

Bounds == <<overlap, events, mishaps>>

-----------------------------------------------------------------------------
(* GroupService.create                                                     *)

\* Mutation: one level more.
OneDeeper(path) == Len(path) + 1 > Deepest

TooDeep(path) == Len(path) + 1 >= Deepest

CreateGroup(r) ==
    Free(r) /\ \E by \in Users, using \in DOMAIN group, parent \in DOMAIN group, new \in Groups :
        /\ SignedIn(by, using)
        /\ parent \in Under(using)
        /\ ~TooDeep(group[parent])
        /\ NewId(Groups, new)
        /\ allocated' = allocated \cup {new}
        /\ Start(r, [Idle EXCEPT !.op = "createGroup", !.group = new,
                                 !.at = IF group[parent] = <<>> THEN "project" ELSE "store",
                                 !.path = Append(group[parent], parent)])
        /\ UNCHANGED <<store, overlap, mishaps>>

\* Mutation: a refusal of the platform is logged, no more.
RefusalIgnored(r) == Goto(r, "store")

Refused(r) == Done(r)

\* Below the root the platform is asked for a project; when it refuses, there is no group.
CreateProject(r) ==
    /\ At(r, "createGroup", "project")
    /\ \/ Goto(r, "store") /\ projects' = projects \cup {request[r].group}
       \/ Refused(r) /\ UNCHANGED projects
    /\ UNCHANGED <<group, user, permission, code, placed, allocated, Bounds>>

StoreGroup(r) ==
    /\ At(r, "createGroup", "store")
    /\ group' = [g \in DOMAIN group \cup {request[r].group} |->
                    IF g = request[r].group THEN request[r].path ELSE group[g]]
    /\ Done(r)
    /\ UNCHANGED <<projects, user, permission, code, placed, allocated, Bounds>>

-----------------------------------------------------------------------------
(* UserService.deleteUsers: one job for each user, all at once.            *)

WithoutUser(at) == [at |-> at, seen |-> NoAccount, position |-> 0]

Jobs(us) == [u \in us |-> WithoutUser("find")]

Set(r, u, job) == request' = [request EXCEPT ![r].work[u] = job]

Working(r, u, at) == u \in DOMAIN request[r].work /\ request[r].work[u].at = at

\* Mutation: the root user is like any other.
NobodyProtected(us) == FALSE

\* With the root user among them, nobody goes.
Protected(us) == Admin \in us

\* deleteUsers on behalf of a user who names the group in use and the users to take out.
DeleteUsers(r) ==
    Free(r) /\ \E by \in Users, using \in DOMAIN group, g \in DOMAIN group, named \in SUBSET Users \ {{}} :
        /\ SignedIn(by, using)
        /\ g \in Under(using)
        /\ LET valid == IF using = g THEN named \ {by} ELSE named IN
           /\ ~Protected(valid)
           /\ Start(r, [Idle EXCEPT !.op = "deleteUsers", !.at = "remove",
                                    !.group = g, !.work = Jobs(valid)])
        /\ UNCHANGED <<store, allocated, overlap, mishaps>>

\* The search stops at the first membership that is the group's, or that is null.
FindMember(r, u) ==
    LET seen == Fetched(u)
        Stop(i) == seen.groups[i].group \in {request[r].group, None}
    IN /\ Working(r, u, "find")
       /\ \/ /\ \A i \in DOMAIN seen.groups : ~Stop(i)
             /\ Set(r, u, WithoutUser("done"))
          \/ \E i \in DOMAIN seen.groups :
             /\ Stop(i) /\ \A j \in DOMAIN seen.groups : j < i => ~Stop(j)
             /\ Set(r, u, IF seen.groups[i].group = None THEN WithoutUser("failed")
                          ELSE [at |-> IF seen.groups[i].permission = None
                                       THEN "write" ELSE "permission",
                                seen |-> seen, position |-> i])
       /\ UNCHANGED <<store, allocated, Bounds>>

\* Mutation: the permission document stays when the membership goes.
PermissionKept(p) == permission

WithoutPermission(p) == permission \ {p}

DeletePermission(r, u) ==
    /\ Working(r, u, "permission")
    /\ LET job == request[r].work[u] IN
       /\ permission' = WithoutPermission(job.seen.groups[job.position].permission)
       /\ Set(r, u, [job EXCEPT !.at = "write"])
    /\ UNCHANGED <<group, projects, user, code, placed, allocated, Bounds>>

\* The user is written back without the group, whatever happened to it meanwhile.
WriteMember(r, u) ==
    /\ Working(r, u, "write")
    /\ LET job  == request[r].work[u]
           left == RemoveAt(job.seen.groups, job.position)
           more == job.seen.groups[job.position].inUse /\ left # <<>>
       IN IF Broken(job.seen)
          THEN Set(r, u, [job EXCEPT !.at = "failed"]) /\ UNCHANGED user
          ELSE /\ user' = [user EXCEPT ![u] = [job.seen EXCEPT !.groups = left]]
               /\ Set(r, u, [job EXCEPT !.at = IF more THEN "use" ELSE "done"])
    /\ UNCHANGED <<group, projects, permission, code, placed, allocated, Bounds>>

\* $set on groups.0 creates the element when the array has become empty meanwhile.
FirstInUse(groups) ==
    IF groups = <<>> THEN <<Joined(None, None, TRUE)>> ELSE [groups EXCEPT ![1].inUse = TRUE]

UseAnother(r, u) ==
    /\ Working(r, u, "use")
    /\ user' = [user EXCEPT ![u].groups = FirstInUse(@)]
    /\ Set(r, u, [request[r].work[u] EXCEPT !.at = "done"])
    /\ UNCHANGED <<group, projects, permission, code, placed, allocated, Bounds>>

\* Promise.all: the error of one job is the error of the request.
UsersRemoved(r) ==
    /\ request[r].at = "remove"
    /\ \A u \in DOMAIN request[r].work : request[r].work[u].at \in {"done", "failed"}
    /\ IF \/ request[r].op = "deleteUsers"
          \/ \E u \in DOMAIN request[r].work : request[r].work[u].at = "failed"
       THEN Done(r)
       ELSE request' = [request EXCEPT ![r].at = "devices", ![r].work = <<>>]
    /\ UNCHANGED <<store, allocated, Bounds>>

-----------------------------------------------------------------------------
(* GroupService.deleteGroup                                                *)

DeleteGroup(r) ==
    Free(r) /\ \E by \in Users, using \in DOMAIN group, g \in DOMAIN group :
        /\ SignedIn(by, using)
        /\ g \in Under(using) \ {using}
        /\ DirectChilds(g) = {}
        /\ Start(r, [Idle EXCEPT !.op = "deleteGroup", !.at = "users",
                                 !.group = g, !.path = group[g]])
        /\ UNCHANGED <<store, allocated, overlap, mishaps>>

\* removeUsersFrom
FindMembers(r) ==
    /\ At(r, "deleteGroup", "users")
    /\ LET members == {u \in Users : request[r].group \in GroupsOf(user[u])} IN
       IF Protected(members)
       THEN Done(r)
       ELSE request' = [request EXCEPT ![r].at = "remove", ![r].work = Jobs(members)]
    /\ UNCHANGED <<store, allocated, Bounds>>

AfterDevices(r) == IF Len(request[r].path) = 1 THEN "project" ELSE "erase"

\* removeDeviceFrom
FindDevices(r) ==
    /\ At(r, "deleteGroup", "devices")
    /\ LET found == {d \in Devices : request[r].group \in placed[d]} IN
       request' = [request EXCEPT ![r].found = found,
                                  ![r].at = IF found = {} THEN AfterDevices(r) ELSE "unplace"]
    /\ UNCHANGED <<store, allocated, Bounds>>

UnplaceDevices(r) ==
    /\ At(r, "deleteGroup", "unplace")
    /\ placed' = [d \in Devices |-> IF d \in request[r].found
                                    THEN placed[d] \ {request[r].group} ELSE placed[d]]
    /\ Goto(r, AfterDevices(r))
    /\ UNCHANGED <<group, projects, user, permission, code, allocated, Bounds>>

\* A refusal of the platform is logged, no more.
DeleteProject(r) ==
    /\ At(r, "deleteGroup", "project")
    /\ \/ projects' = projects \ {request[r].group}
       \/ UNCHANGED projects
    /\ Goto(r, "erase")
    /\ UNCHANGED <<group, user, permission, code, placed, allocated, Bounds>>

EraseGroup(r) ==
    /\ At(r, "deleteGroup", "erase")
    /\ group' = [g \in DOMAIN group \ {request[r].group} |-> group[g]]
    /\ Done(r)
    /\ UNCHANGED <<projects, user, permission, code, placed, allocated, Bounds>>

-----------------------------------------------------------------------------
(* UserService.invite                                                      *)

Invite(r) ==
    Free(r) /\ \E by \in Users, using \in DOMAIN group, g \in DOMAIN group, u \in Users, given \in BOOLEAN :
        /\ SignedIn(by, using)
        /\ g \in Under(using)
        /\ Start(r, [Idle EXCEPT !.op = "invite", !.at = "find", !.group = g,
                                 !.user = u, !.given = given])
        /\ UNCHANGED <<store, allocated, overlap, mishaps>>

\* PermissionService.create for a user who is to join; nobody else knows the new id yet.
Permit(r, at, seen) ==
    \E p \in Permissions :
        /\ NewId(Permissions, p)
        /\ allocated' = allocated \cup {p}
        /\ permission' = permission \cup {p}
        /\ request' = [request EXCEPT ![r].at = at, ![r].seen = seen, ![r].permission = p]

FindInvited(r) ==
    LET q == request[r]  seen == Fetched(q.user) IN
    /\ At(r, "invite", "find")
    /\ IF seen.status = "none" THEN Permit(r, "create", seen)
       ELSE IF q.group \notin GroupsOf(seen) /\ ~Broken(seen) THEN Permit(r, "push", seen)
       ELSE /\ IF Broken(seen) \/ q.given \/ seen.status = "ACTIVE" THEN Done(r) ELSE Goto(r, "mail")
            /\ UNCHANGED <<permission, allocated>>
    /\ UNCHANGED <<group, projects, user, code, placed, Bounds>>

\* The e-mail address is the one unique index.
CreateAccount(r) ==
    LET q == request[r] IN
    /\ At(r, "invite", "create")
    /\ IF user[q.user] # NoAccount
       THEN Done(r) /\ UNCHANGED user
       ELSE /\ user' = [user EXCEPT ![q.user] =
                           [status |-> "WAITING", groups |-> <<Joined(q.group, q.permission, TRUE)>>]]
            /\ Goto(r, "code")
    /\ UNCHANGED <<group, projects, permission, code, placed, allocated, Bounds>>

NewMembership(g, p) == Joined(g, p, FALSE)

\* Mutation: $push of the membership on whatever is stored.
PushMutation(u, seen, m) == [user[u] EXCEPT !.groups = Append(@, m)]

\* updateOne with the whole user.
WithMembership(u, seen, m) == [seen EXCEPT !.groups = Append(@, m)]

JoinGroup(r) ==
    LET q == request[r] IN
    /\ At(r, "invite", "push")
    /\ user' = [user EXCEPT ![q.user] =
                   WithMembership(q.user, q.seen, NewMembership(q.group, q.permission))]
    /\ IF q.seen.status = "ACTIVE" THEN Done(r) ELSE Goto(r, "mail")
    /\ UNCHANGED <<group, projects, permission, code, placed, allocated, Bounds>>

\* getVerificationCode: the one there is, unless it has expired.
FindCode(r) ==
    LET mine == {c \in Codes : code[c] = request[r].user} IN
    /\ At(r, "invite", "mail")
    /\ \/ mine = {} /\ Goto(r, "code") /\ UNCHANGED <<code, mishaps>>
       \/ mine # {} /\ Done(r) /\ UNCHANGED <<code, mishaps>>
       \/ \E c \in mine : code' = [code EXCEPT ![c] = None] /\ Goto(r, "code") /\ Mishap
    /\ UNCHANGED <<group, projects, user, permission, placed, allocated, overlap, events>>

\* createVerificationCode
CreateCode(r) ==
    /\ At(r, "invite", "code")
    /\ \E c \in Codes :
        /\ NewId(Codes, c)
        /\ allocated' = allocated \cup {c}
        /\ code' = [code EXCEPT ![c] = request[r].user]
    /\ Done(r)
    /\ UNCHANGED <<group, projects, user, permission, placed, Bounds>>

-----------------------------------------------------------------------------
(* UserService.createUser: the person with a code registers.               *)

Register(r) ==
    Free(r) /\ \E c \in Codes :
        /\ code[c] # None
        /\ Start(r, [Idle EXCEPT !.op = "register", !.at = "check", !.code = c,
                                 !.user = code[c], !.seen = Fetched(code[c])])
        /\ UNCHANGED <<store, allocated, overlap, mishaps>>

\* isValidAccessCode; an expired code is deleted.
CheckCode(r) ==
    /\ At(r, "register", "check")
    /\ \/ code[request[r].code] = request[r].user /\ Goto(r, "consume") /\ UNCHANGED <<code, mishaps>>
       \/ code[request[r].code] = None /\ Done(r) /\ UNCHANGED <<code, mishaps>>
       \/ /\ code[request[r].code] # None
          /\ code' = [code EXCEPT ![request[r].code] = None]
          /\ Done(r)
          /\ Mishap
    /\ UNCHANGED <<group, projects, user, permission, placed, allocated, overlap, events>>

\* Mutation: a code that was used stays available.
StillAvailable(c) == code

Consumed(c) == [code EXCEPT ![c] = None]

ConsumeCode(r) ==
    /\ At(r, "register", "consume")
    /\ code' = Consumed(request[r].code)
    /\ Goto(r, "activate")
    /\ UNCHANGED <<group, projects, user, permission, placed, allocated, Bounds>>

\* findOneAndUpdate with the whole user as read before the code was checked.
Activate(r) ==
    /\ At(r, "register", "activate")
    /\ user' = [user EXCEPT ![request[r].user] = [request[r].seen EXCEPT !.status = "ACTIVE"]]
    /\ Done(r)
    /\ UNCHANGED <<group, projects, permission, code, placed, allocated, Bounds>>

-----------------------------------------------------------------------------
(* A device is added to a group, as far as groups are concerned; restarts. *)

AddDevice(r) ==
    Free(r) /\ \E by \in Users, using \in DOMAIN group, g \in DOMAIN group, d \in Devices :
        /\ SignedIn(by, using)
        /\ g \in Under(using)
        /\ Start(r, [Idle EXCEPT !.op = "addDevice", !.at = "place", !.group = g, !.found = {d}])
        /\ UNCHANGED <<store, allocated, overlap, mishaps>>

PlaceDevice(r) ==
    /\ At(r, "addDevice", "place")
    /\ placed' = [d \in Devices |-> IF d \in request[r].found
                                    THEN placed[d] \cup {request[r].group} ELSE placed[d]]
    /\ Done(r)
    /\ UNCHANGED <<group, projects, user, permission, code, allocated, Bounds>>

Restart ==
    /\ ~Quiet
    /\ Mishap
    /\ request' = [r \in Requests |-> Idle]
    /\ UNCHANGED <<store, allocated, overlap, events>>

-----------------------------------------------------------------------------
\* onModuleInit on an empty database.
Init ==
    /\ group = [g \in {Root} |-> <<>>]
    /\ projects = {}
    /\ user = [u \in Users |-> IF u = Admin
                               THEN [status |-> "ACTIVE", groups |-> <<Joined(Root, Full, TRUE)>>]
                               ELSE NoAccount]
    /\ permission = {Full}
    /\ code = [c \in Codes |-> None]
    /\ placed = [d \in Devices |-> {}]
    /\ allocated = {Root, Full}
    /\ request = [r \in Requests |-> Idle]
    /\ overlap \in BOOLEAN
    /\ events = 0
    /\ mishaps = 0

Step(r) ==
    \/ CreateGroup(r) \/ CreateProject(r) \/ StoreGroup(r)
    \/ DeleteGroup(r) \/ FindMembers(r) \/ UsersRemoved(r)
    \/ FindDevices(r) \/ UnplaceDevices(r) \/ DeleteProject(r) \/ EraseGroup(r)
    \/ DeleteUsers(r)
    \/ \E u \in Users : FindMember(r, u) \/ DeletePermission(r, u) \/ WriteMember(r, u) \/ UseAnother(r, u)
    \/ Invite(r) \/ FindInvited(r) \/ CreateAccount(r) \/ JoinGroup(r) \/ FindCode(r) \/ CreateCode(r)
    \/ Register(r) \/ CheckCode(r) \/ ConsumeCode(r) \/ Activate(r)
    \/ AddDevice(r) \/ PlaceDevice(r)

Next == Restart \/ \E r \in Requests : Step(r)

Spec == Init /\ [][Next]_vars

-----------------------------------------------------------------------------
(* Properties.                                                             *)

\* Everything stored has its shape, and no group lies below the deepest level: createGroup
\* counts the ancestors of the parent it read, to which nothing can be added later.
TypeOK ==
    /\ DOMAIN group \subseteq Groups
    /\ \A g \in DOMAIN group : group[g] \in Seq(Groups) /\ Len(group[g]) < Deepest
    /\ projects \subseteq Groups
    /\ user \in [Users -> Account]
    /\ permission \subseteq Permissions
    /\ code \in [Codes -> Users \cup {None}]
    /\ placed \in [Devices -> SUBSET Groups]
    /\ DOMAIN request = Requests

Memberships == UNION {{<<u, i>> : i \in DOMAIN user[u].groups} : u \in Users}

MembershipAt(m) == user[m[1]].groups[m[2]]

\* Every membership names a group that exists: a membership without its group ends every
\* request its user makes, since the token's user is read with its groups.
UsersLeaveGroup == \A m \in Memberships : MembershipAt(m).group \in DOMAIN group

\* When requests do not overlap, also across restarts in the middle of one, no user, no device and
\* no group refers to a group that is gone.
GroupsKnown ==
    ~overlap => /\ UsersLeaveGroup
                /\ \A g \in DOMAIN group : ToSet(group[g]) \subseteq DOMAIN group
                /\ \A d \in Devices : placed[d] \subseteq DOMAIN group

\* When requests do not overlap and none is cut off, there is one permission document for
\* each membership and no other: none is shared, none is left over.
PermissionsExact ==
    ~overlap /\ Quiet /\ mishaps = 0 =>
        /\ permission = {MembershipAt(m).permission : m \in Memberships}
        /\ \A m, n \in Memberships : MembershipAt(m).permission = MembershipAt(n).permission => m = n

\* When requests do not overlap and none is cut off, whoever is invited and has not
\* registered has a code to register with, and whoever has registered has none.
CodesMatchStatus ==
    ~overlap /\ Quiet /\ mishaps = 0 =>
        \A u \in Users : (user[u].status = "WAITING") <=> (\E c \in Codes : code[c] = u)

\* Whatever interleaves, a user never belongs to a group twice: invite looks before it appends,
\* and what it appends to is what it looked at; and only the first group is in use, since
\* deleteUsers marks the first of those left when it takes out the one in use.
JoinedOnce ==
    \A u \in Users : \A i, j \in DOMAIN user[u].groups :
        /\ user[u].groups[i].inUse => i = 1
        /\ user[u].groups[i].group = user[u].groups[j].group /\ user[u].groups[i].group # None => i = j

\* Whatever interleaves, the root user keeps the root group as the first of its groups, with
\* its permission: at every start the server looks for that permission among the root user's
\* groups, and does not come up when it is missing or a broken membership comes before it.
AdminKept ==
    /\ Root \in DOMAIN group /\ Full \in permission
    /\ user[Admin].groups # <<>>
    /\ user[Admin].groups[1] = Joined(Root, Full, TRUE)

\* Whatever interleaves, a group of the project level has its project on the platform, unless
\* its deletion has come past that point or was cut off there: a deletion that is
\* refused leaves the project.
ProjectsBacked ==
    \A g \in DOMAIN group :
        Len(group[g]) = 1 /\ mishaps = 0 =>
            \/ g \in projects
            \/ \E r \in Requests : At(r, "deleteGroup", "erase") /\ request[r].group = g
=============================================================================
