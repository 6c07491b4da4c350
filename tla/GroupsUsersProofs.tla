--------------------------- MODULE GroupsUsersProofs ---------------------------
(***************************************************************************)
(* For any groups, users, permissions, codes, devices and requests: the    *)
(* root user keeps the root group with its permission, nobody belongs to   *)
(* a group twice, and a group of the project level has its project,        *)
(* whatever interleaves.  Without overlap, nothing refers to a group that  *)
(* is gone, and as long as none is cut off, permissions match memberships  *)
(* and codes match invited users.                                          *)
(***************************************************************************)
EXTENDS GroupsUsers, SequenceTheorems, TLAPS

\* What a copy of a user, stored or held by a request, may be: the root user's begins with the
\* root group, and nobody else's has the root user's permission.
Sound(u, account) ==
    /\ account \in Account
    /\ u = Admin => account.groups # <<>> /\ account.groups[1] = Joined(Root, Full, TRUE)
    /\ u # Admin => \A i \in DOMAIN account.groups : account.groups[i].permission # Full

\* Nobody is about to take the root user out of a group.
JobInv(u, job) ==
    /\ u \in Users \ {Admin}
    /\ DOMAIN job = {"at", "seen", "position"}
    /\ job.at \in {"permission", "write"} =>
        Sound(u, job.seen) /\ job.position \in DOMAIN job.seen.groups

Fields == {"op", "at", "group", "path", "user", "given", "permission", "code", "seen", "work", "found"}

\* What a request carries from one step to the next.
RequestInv(q) ==
    /\ DOMAIN q = Fields
    /\ q.op = "createGroup" => /\ q.group \in Groups \ {Root}
                               /\ q.path \in Seq(Groups) /\ Len(q.path) < Deepest
    /\ q.op = "deleteGroup" => q.group # Root
    /\ q.op = "addDevice" => q.group \in Groups
    /\ q.op = "invite" => q.group \in Groups /\ q.user \in Users
    /\ q.op = "invite" /\ q.at \in {"create", "push"} => q.permission \in Permissions \ {Full}
    /\ q.op = "invite" /\ q.at = "push" => Sound(q.user, q.seen)
    /\ q.op = "register" => q.user \in Users /\ Sound(q.user, q.seen)
    /\ \A u \in DOMAIN q.work : JobInv(u, q.work[u])

RequestsInv ==
    /\ request = [r \in Requests |-> request[r]]
    /\ \A r \in Requests : RequestInv(request[r])

\* The root group stands at the top, and its id and the root user's permission are taken.
RootInv ==
    /\ Root \in DOMAIN group /\ group[Root] = <<>>
    /\ Full \in permission
    /\ {Root, Full} \subseteq allocated

AccountsInv == \A u \in Users : Sound(u, user[u])

IInv == TypeOK /\ RootInv /\ AccountsInv /\ RequestsInv

-----------------------------------------------------------------------------
LEMMA OneElement ==
    ASSUME NEW S, NEW x \in S
    PROVE  <<x>> \in Seq(S)
<1>1. <<x>> \in [1..1 -> S]
  OBVIOUS
<1>2. QED
  BY <1>1, SeqDef

LEMMA IdleInv == RequestInv(Idle)
BY DEF RequestInv, Idle, Fields

LEMMA InitInv == Init => IInv
<1> SUFFICES ASSUME Init PROVE IInv
  OBVIOUS
<1> USE GroupsUsersAssumption DEF Init
<1>1. RootInv
  BY DEF RootInv
<1>2. NoAccount \in Account
  BY EmptySeq DEF NoAccount, Account
<1>3. Joined(Root, Full, TRUE) \in Membership
  BY DEF Joined, Membership
<1>4. <<Joined(Root, Full, TRUE)>> \in Seq(Membership)
  BY <1>3, OneElement
<1>5. user[Admin] \in Account
  BY <1>4 DEF Account
<1>6. AccountsInv
  <2>1. ASSUME NEW u \in Users, u # Admin PROVE Sound(u, user[u])
    <3>1. user[u] = NoAccount
      BY <2>1
    <3>2. DOMAIN NoAccount.groups = {}
      BY DEF NoAccount
    <3>3. QED
      BY <2>1, <3>1, <3>2, <1>2 DEF Sound
  <2>2. Sound(Admin, user[Admin])
    BY <1>5 DEF Sound
  <2>3. QED
    BY <2>1, <2>2 DEF AccountsInv
<1>8. RequestsInv
  BY IdleInv DEF RequestsInv
<1>9. TypeOK
  <2>1. user \in [Users -> Account]
    BY <1>2, <1>5
  <2>2. <<>> \in Seq(Groups) /\ Len(<<>>) = 0
    BY EmptySeq
  <2>3. \A g \in DOMAIN group : group[g] \in Seq(Groups) /\ Len(group[g]) < Deepest
    BY <2>2
  <2>4. DOMAIN group \subseteq Groups /\ permission \subseteq Permissions /\ DOMAIN request = Requests
    OBVIOUS
  <2>5. code \in [Codes -> Users \cup {None}] /\ placed \in [Devices -> SUBSET Groups]
    OBVIOUS
  <2>6. QED
    BY <2>1, <2>3, <2>4, <2>5 DEF TypeOK
<1>10. QED
  BY <1>1, <1>6, <1>8, <1>9 DEF IInv

-----------------------------------------------------------------------------
(* What the helpers of the handlers keep.                                  *)

\* A query gives back a sound user: the root user's root group and permission exist, so
\* they are not read as null.
LEMMA FetchedSound ==
    ASSUME TypeOK, RootInv, AccountsInv, NEW u \in Users
    PROVE  Sound(u, Fetched(u))
<1> DEFINE old == user[u].groups
           new == [i \in DOMAIN old |-> Populated(old[i])]
<1>1. user[u] \in Account /\ Sound(u, user[u])
  BY DEF TypeOK, AccountsInv
<1>2. old \in Seq(Membership)
  BY <1>1 DEF Account
<1>3. Fetched(u) = [status |-> user[u].status, groups |-> new]
  BY <1>1 DEF Fetched, Account
<1>4. Len(old) \in Nat /\ DOMAIN old = 1..Len(old)
  BY <1>2, LenProperties
<1>5. ASSUME NEW i \in DOMAIN old
      PROVE  /\ Populated(old[i]) \in Membership
             /\ Populated(old[i]).permission \in {old[i].permission, None}
  <2>1. old[i] \in Membership
    BY <1>2, <1>4, ElementOfSeq
  <2>2. QED
    BY <2>1 DEF Membership, Populated, Joined
<1>6. new \in [1..Len(old) -> Membership]
  BY <1>4, <1>5
<1>7. new \in Seq(Membership) /\ Len(new) = Len(old)
  BY <1>6, <1>4, SeqDef
<1>8. Fetched(u) \in Account
  BY <1>1, <1>3, <1>7 DEF Account
<1>9. ASSUME u = Admin
      PROVE  new # <<>> /\ new[1] = Joined(Root, Full, TRUE)
  <2>1. old # <<>> /\ old[1] = Joined(Root, Full, TRUE)
    BY <1>1, <1>9 DEF Sound
  <2>2. 1 \in DOMAIN old
    BY <2>1, <1>2, <1>4, EmptySeq
  <2>3. Populated(Joined(Root, Full, TRUE)) = Joined(Root, Full, TRUE)
    BY DEF Populated, Joined, RootInv
  <2>4. new[1] = Joined(Root, Full, TRUE)
    BY <2>1, <2>2, <2>3
  <2>5. Len(new) # 0
    BY <2>2, <1>4, <1>7
  <2>6. QED
    BY <2>4, <2>5, EmptySeq
<1>10. ASSUME u # Admin, NEW i \in DOMAIN new
       PROVE  new[i].permission # Full
  BY <1>1, <1>5, <1>10, GroupsUsersAssumption DEF Sound
<1>11. Fetched(u).groups = new
  BY <1>3
<1>12. QED
  BY <1>8, <1>9, <1>10, <1>11 DEF Sound

LEMMA RequestsKept ==
    ASSUME RequestsInv, NEW r \in Requests, NEW q, RequestInv(q),
           request' = [request EXCEPT ![r] = q]
    PROVE  RequestsInv'
BY DEF RequestsInv

LEMMA DoneKept ==
    ASSUME RequestsInv, NEW r \in Requests, Done(r)
    PROVE  RequestsInv'
BY IdleInv, RequestsKept DEF Done

LEMMA GotoKept ==
    ASSUME RequestsInv, NEW r \in Requests, NEW at, at \notin {"create", "push"}, Goto(r, at)
    PROVE  RequestsInv'
<1> DEFINE q == request[r]
           n == [q EXCEPT !.at = at]
<1>1. RequestInv(q)
  BY DEF RequestsInv
<1>2. /\ DOMAIN n = DOMAIN q /\ n.at = at /\ n.op = q.op /\ n.group = q.group /\ n.path = q.path
      /\ n.user = q.user /\ n.permission = q.permission /\ n.seen = q.seen /\ n.work = q.work
  BY <1>1 DEF RequestInv, Fields
<1>3. RequestInv(n)
  BY <1>1, <1>2 DEF RequestInv
<1>4. request' = [request EXCEPT ![r] = n]
  BY DEF Goto
<1>5. QED
  BY <1>3, <1>4, RequestsKept

\* A job moves on.
LEMMA SetKept ==
    ASSUME RequestsInv, NEW r \in Requests, NEW u, NEW job, JobInv(u, job), Set(r, u, job)
    PROVE  RequestsInv'
<1> DEFINE q == request[r]
           n == [q EXCEPT !.work[u] = job]
<1>1. RequestInv(q)
  BY DEF RequestsInv
<1>2. /\ DOMAIN n = DOMAIN q /\ n.at = q.at /\ n.op = q.op /\ n.group = q.group /\ n.path = q.path
      /\ n.user = q.user /\ n.permission = q.permission /\ n.seen = q.seen
      /\ n.work = [q.work EXCEPT ![u] = job]
  BY <1>1 DEF RequestInv, Fields
<1>3. \A v \in DOMAIN n.work : JobInv(v, n.work[v])
  BY <1>1, <1>2 DEF RequestInv
<1>4. RequestInv(n)
  BY <1>1, <1>2, <1>3 DEF RequestInv
<1>5. request' = [request EXCEPT ![r] = n]
  BY DEF Set
<1>6. QED
  BY <1>4, <1>5, RequestsKept

\* A step that touches neither groups, users nor permissions.
LEMMA FrameInv ==
    ASSUME IInv, RequestsInv', UNCHANGED <<group, user, permission>>,
           allocated \subseteq allocated', projects' \in SUBSET Groups,
           code' \in [Codes -> Users \cup {None}], placed' \in [Devices -> SUBSET Groups]
    PROVE  IInv'
BY DEF IInv, TypeOK, RootInv, AccountsInv, RequestsInv

\* A step that writes one user.
LEMMA UserInv ==
    ASSUME IInv, RequestsInv', NEW u \in Users, NEW account, Sound(u, account),
           user' = [user EXCEPT ![u] = account],
           UNCHANGED <<group, projects, permission, code, placed, allocated>>
    PROVE  IInv'
<1>1. user' \in [Users -> Account] /\ AccountsInv'
  BY DEF IInv, TypeOK, AccountsInv, Sound
<1>2. QED
  BY <1>1 DEF IInv, TypeOK, RootInv, RequestsInv

LEMMA StartKept ==
    ASSUME RequestsInv, NEW r \in Requests, NEW q, RequestInv(q), Start(r, q)
    PROVE  RequestsInv'
BY RequestsKept DEF Start

-----------------------------------------------------------------------------
(* Groups.                                                                 *)

LEMMA CreateGroupStep ==
    ASSUME IInv, NEW r \in Requests, CreateGroup(r)
    PROVE  IInv'
<1>1. PICK parent \in DOMAIN group, new \in Groups :
        /\ ~TooDeep(group[parent]) /\ NewId(Groups, new) /\ allocated' = allocated \cup {new}
        /\ Start(r, [Idle EXCEPT !.op = "createGroup", !.group = new,
                                 !.at = IF group[parent] = <<>> THEN "project" ELSE "store",
                                 !.path = Append(group[parent], parent)])
        /\ UNCHANGED store
  BY DEF CreateGroup
<1> DEFINE path == Append(group[parent], parent)
           q == [Idle EXCEPT !.op = "createGroup", !.group = new,
                             !.at = IF group[parent] = <<>> THEN "project" ELSE "store",
                             !.path = path]
<1>2. parent \in Groups /\ group[parent] \in Seq(Groups)
  BY DEF IInv, TypeOK
<1>3. path \in Seq(Groups) /\ Len(path) = Len(group[parent]) + 1
  BY <1>2, AppendProperties
<1>4. Len(path) < Deepest
  BY <1>1, <1>2, <1>3, LenProperties, GroupsUsersAssumption DEF TooDeep
<1>5. new # Root
  BY <1>1 DEF NewId, IInv, RootInv
<1>6. DOMAIN q = Fields /\ q.op = "createGroup" /\ q.group = new /\ q.path = path /\ q.work = <<>>
  BY DEF Idle, Fields
<1>7. RequestInv(q)
  BY <1>3, <1>4, <1>5, <1>6 DEF RequestInv
<1>8. RequestsInv'
  BY <1>1, <1>7, StartKept DEF IInv
<1>9. QED
  BY <1>1, <1>8, FrameInv DEF store, IInv, TypeOK

LEMMA CreateProjectStep ==
    ASSUME IInv, NEW r \in Requests, CreateProject(r)
    PROVE  IInv'
<1>1. RequestsInv'
  BY GotoKept, DoneKept DEF CreateProject, Refused, IInv
<1>2. request[r].group \in Groups
  BY DEF CreateProject, At, IInv, RequestsInv, RequestInv
<1>3. projects' \in SUBSET Groups
  BY <1>2 DEF CreateProject, IInv, TypeOK
<1>4. QED
  BY <1>1, <1>3, FrameInv DEF CreateProject, IInv, TypeOK

LEMMA StoreGroupStep ==
    ASSUME IInv, NEW r \in Requests, StoreGroup(r)
    PROVE  IInv'
<1> DEFINE q == request[r]
<1>1. RequestsInv'
  BY DoneKept DEF StoreGroup, IInv
<1>2. q.group \in Groups \ {Root} /\ q.path \in Seq(Groups) /\ Len(q.path) < Deepest
  BY DEF StoreGroup, At, IInv, RequestsInv, RequestInv
<1>3. group' = [g \in DOMAIN group \cup {q.group} |-> IF g = q.group THEN q.path ELSE group[g]]
  BY DEF StoreGroup
<1>4. /\ DOMAIN group' \subseteq Groups
      /\ \A g \in DOMAIN group' : group'[g] \in Seq(Groups) /\ Len(group'[g]) < Deepest
  BY <1>2, <1>3 DEF IInv, TypeOK
<1>5. RootInv'
  BY <1>2, <1>3 DEF IInv, RootInv, StoreGroup
<1>6. TypeOK' /\ AccountsInv'
  BY <1>1, <1>4 DEF IInv, TypeOK, AccountsInv, RequestsInv, StoreGroup
<1>7. QED
  BY <1>1, <1>5, <1>6 DEF IInv

\* Only a group below the one in use is deleted, and the root group is below none.
LEMMA DeleteGroupStep ==
    ASSUME IInv, NEW r \in Requests, DeleteGroup(r)
    PROVE  IInv'
<1>1. PICK using \in DOMAIN group, g \in DOMAIN group :
        /\ g \in Under(using) \ {using}
        /\ Start(r, [Idle EXCEPT !.op = "deleteGroup", !.at = "users",
                                 !.group = g, !.path = group[g]])
        /\ UNCHANGED <<store, allocated>>
  BY DEF DeleteGroup
<1> DEFINE q == [Idle EXCEPT !.op = "deleteGroup", !.at = "users", !.group = g, !.path = group[g]]
<1>2. using \in ToSet(group[g])
  BY <1>1 DEF Under
<1>3. ToSet(<<>>) = {}
  BY DEF ToSet
<1>4. g # Root
  BY <1>2, <1>3 DEF IInv, RootInv
<1>5. RequestInv(q)
  <2>1. DOMAIN q = Fields /\ q.op = "deleteGroup" /\ q.group = g /\ q.work = <<>>
    BY DEF Idle, Fields
  <2>2. QED
    BY <2>1, <1>4 DEF RequestInv
<1>6. RequestsInv'
  BY <1>1, <1>5, StartKept DEF IInv
<1>7. QED
  BY <1>1, <1>6, FrameInv DEF store, IInv, TypeOK

LEMMA ChangedWork ==
    ASSUME NEW q, RequestInv(q), NEW at, at \notin {"create", "push"}, NEW work,
           \A u \in DOMAIN work : JobInv(u, work[u])
    PROVE  RequestInv([q EXCEPT !.at = at, !.work = work])
<1> DEFINE n == [q EXCEPT !.at = at, !.work = work]
<1>1. /\ DOMAIN n = DOMAIN q /\ n.at = at /\ n.op = q.op /\ n.group = q.group /\ n.path = q.path
      /\ n.user = q.user /\ n.permission = q.permission /\ n.seen = q.seen /\ n.work = work
  BY DEF RequestInv, Fields
<1>2. QED
  BY <1>1 DEF RequestInv

LEMMA JobsKept ==
    ASSUME NEW us \in SUBSET Users, Admin \notin us
    PROVE  \A u \in DOMAIN Jobs(us) : JobInv(u, Jobs(us)[u])
BY DEF Jobs, JobInv, WithoutUser

LEMMA FindMembersStep ==
    ASSUME IInv, NEW r \in Requests, FindMembers(r)
    PROVE  IInv'
<1> DEFINE q == request[r]
           members == {u \in Users : q.group \in GroupsOf(user[u])}
           n == [q EXCEPT !.at = "remove", !.work = Jobs(members)]
<1>1. RequestsInv'
  <2>1. CASE Admin \in members
    BY <2>1, DoneKept DEF FindMembers, Protected, IInv
  <2>2. CASE Admin \notin members
    <3>1. RequestInv(q)
      BY DEF IInv, RequestsInv
    <3>2. \A u \in DOMAIN Jobs(members) : JobInv(u, Jobs(members)[u])
      BY <2>2, JobsKept
    <3>3. RequestInv(n)
      BY <3>1, <3>2, ChangedWork
    <3>4. request' = [request EXCEPT ![r] = n]
      BY <2>2 DEF FindMembers, Protected
    <3>5. QED
      BY <3>3, <3>4, RequestsKept DEF IInv
  <2>3. QED
    BY <2>1, <2>2
<1>2. QED
  BY <1>1, FrameInv DEF FindMembers, store, IInv, TypeOK

LEMMA FindDevicesStep ==
    ASSUME IInv, NEW r \in Requests, FindDevices(r)
    PROVE  IInv'
<1> DEFINE q == request[r]
           found == {d \in Devices : q.group \in placed[d]}
           at == IF found = {} THEN AfterDevices(r) ELSE "unplace"
           n == [q EXCEPT !.found = found, !.at = at]
<1>1. RequestInv(q)
  BY DEF IInv, RequestsInv
<1>2. at \notin {"create", "push"}
  BY DEF AfterDevices
<1>3. /\ DOMAIN n = DOMAIN q /\ n.at = at /\ n.op = q.op /\ n.group = q.group /\ n.path = q.path
      /\ n.user = q.user /\ n.permission = q.permission /\ n.seen = q.seen /\ n.work = q.work
  BY <1>1 DEF RequestInv, Fields
<1>4. RequestInv(n)
  BY <1>1, <1>2, <1>3 DEF RequestInv
<1>5. request' = [request EXCEPT ![r] = n]
  BY DEF FindDevices
<1>6. RequestsInv'
  BY <1>4, <1>5, RequestsKept DEF IInv
<1>7. QED
  BY <1>6, FrameInv DEF FindDevices, store, IInv, TypeOK

LEMMA UnplaceDevicesStep ==
    ASSUME IInv, NEW r \in Requests, UnplaceDevices(r)
    PROVE  IInv'
<1>1. AfterDevices(r) \notin {"create", "push"}
  BY DEF AfterDevices
<1>2. RequestsInv'
  BY <1>1, GotoKept DEF UnplaceDevices, IInv
<1>3. placed' \in [Devices -> SUBSET Groups]
  BY DEF UnplaceDevices, IInv, TypeOK
<1>4. QED
  BY <1>2, <1>3, FrameInv DEF UnplaceDevices, IInv, TypeOK

LEMMA DeleteProjectStep ==
    ASSUME IInv, NEW r \in Requests, DeleteProject(r)
    PROVE  IInv'
<1>1. RequestsInv'
  BY GotoKept DEF DeleteProject, IInv
<1>2. projects' \in SUBSET Groups
  BY DEF DeleteProject, IInv, TypeOK
<1>3. QED
  BY <1>1, <1>2, FrameInv DEF DeleteProject, IInv, TypeOK

LEMMA EraseGroupStep ==
    ASSUME IInv, NEW r \in Requests, EraseGroup(r)
    PROVE  IInv'
<1>1. RequestsInv'
  BY DoneKept DEF EraseGroup, IInv
<1>2. request[r].group # Root
  BY DEF EraseGroup, At, IInv, RequestsInv, RequestInv
<1>3. RootInv'
  BY <1>2 DEF EraseGroup, IInv, RootInv
<1>4. TypeOK' /\ AccountsInv'
  BY <1>1 DEF EraseGroup, IInv, TypeOK, AccountsInv, RequestsInv
<1>5. QED
  BY <1>1, <1>3, <1>4 DEF IInv

-----------------------------------------------------------------------------
(* Removal of users.                                                       *)

LEMMA DeleteUsersStep ==
    ASSUME IInv, NEW r \in Requests, DeleteUsers(r)
    PROVE  IInv'
<1>1. PICK g \in Groups, us \in SUBSET Users :
        /\ Admin \notin us
        /\ Start(r, [Idle EXCEPT !.op = "deleteUsers", !.at = "remove", !.group = g, !.work = Jobs(us)])
        /\ UNCHANGED <<store, allocated>>
  <2>1. PICK by \in Users, using \in DOMAIN group, g \in DOMAIN group, named \in SUBSET Users \ {{}} :
          LET valid == IF using = g THEN named \ {by} ELSE named
          IN  /\ ~Protected(valid)
              /\ Start(r, [Idle EXCEPT !.op = "deleteUsers", !.at = "remove",
                                       !.group = g, !.work = Jobs(valid)])
              /\ UNCHANGED <<store, allocated>>
    BY DEF DeleteUsers
  <2>5. g \in Groups
    BY <2>1 DEF IInv, TypeOK
  <2> DEFINE valid == IF using = g THEN named \ {by} ELSE named
  <2>2. valid \in SUBSET Users /\ Admin \notin valid
    BY <2>1 DEF Protected
  <2>3. Start(r, [Idle EXCEPT !.op = "deleteUsers", !.at = "remove", !.group = g, !.work = Jobs(valid)])
    BY <2>1
  <2> HIDE DEF valid
  <2>4. QED
    BY <2>1, <2>2, <2>3, <2>5
<1> DEFINE q == [Idle EXCEPT !.op = "deleteUsers", !.at = "remove", !.group = g, !.work = Jobs(us)]
<1>2. DOMAIN q = Fields /\ q.op = "deleteUsers" /\ q.work = Jobs(us)
  BY DEF Idle, Fields
<1>3. RequestInv(q)
  BY <1>1, <1>2, JobsKept DEF RequestInv
<1>4. RequestsInv'
  BY <1>1, <1>3, StartKept DEF IInv
<1>5. QED
  BY <1>1, <1>4, FrameInv DEF store, IInv, TypeOK

LEMMA WorkingJob ==
    ASSUME IInv, NEW r \in Requests, NEW u, u \in DOMAIN request[r].work
    PROVE  JobInv(u, request[r].work[u])
BY DEF IInv, RequestsInv, RequestInv

LEMMA FindMemberStep ==
    ASSUME IInv, NEW r \in Requests, NEW u \in Users, FindMember(r, u)
    PROVE  IInv'
<1> DEFINE seen == Fetched(u)
<1>1. u # Admin
  BY WorkingJob DEF FindMember, Working, JobInv
<1>2. Sound(u, seen)
  BY FetchedSound DEF IInv
<1>3. \A at : at \notin {"permission", "write"} => JobInv(u, WithoutUser(at))
  BY <1>1 DEF JobInv, WithoutUser
<1>4. \A at : \A i \in DOMAIN seen.groups : JobInv(u, [at |-> at, seen |-> seen, position |-> i])
  BY <1>1, <1>2 DEF JobInv
<1>5. PICK job : Set(r, u, job) /\ JobInv(u, job)
  <2>1. CASE Set(r, u, WithoutUser("done"))
    BY <2>1, <1>3
  <2>2. CASE \E i \in DOMAIN seen.groups :
                Set(r, u, IF seen.groups[i].group = None THEN WithoutUser("failed")
                          ELSE [at |-> IF seen.groups[i].permission = None
                                       THEN "write" ELSE "permission",
                                seen |-> seen, position |-> i])
    BY <2>2, <1>3, <1>4
  <2>3. QED
    BY <2>1, <2>2 DEF FindMember
<1>6. RequestsInv'
  BY <1>5, SetKept DEF IInv
<1>7. QED
  BY <1>6, FrameInv DEF FindMember, store, Bounds, IInv, TypeOK

LEMMA MovedJob ==
    ASSUME NEW u, NEW job, JobInv(u, job), NEW at, at \in {"permission", "write"} => job.at \in {"permission", "write"}
    PROVE  JobInv(u, [job EXCEPT !.at = at])
BY DEF JobInv

\* The permission that goes is not the root user's.
LEMMA DeletePermissionStep ==
    ASSUME IInv, NEW r \in Requests, NEW u \in Users, DeletePermission(r, u)
    PROVE  IInv'
<1> DEFINE job == request[r].work[u]
<1>1. JobInv(u, job) /\ job.at = "permission"
  BY SMTT(30), WorkingJob DEF DeletePermission, Working
<1>2. job.seen.groups[job.position].permission # Full
  BY SMTT(30), <1>1 DEF JobInv, Sound
<1>3. Full \in permission' /\ permission' \subseteq permission
  BY <1>2 DEF DeletePermission, WithoutPermission, IInv, RootInv
<1>4. JobInv(u, [job EXCEPT !.at = "write"])
  BY SMTT(30), <1>1, MovedJob
<1>5. RequestsInv'
  BY <1>4, SetKept DEF DeletePermission, IInv
<1>6. UNCHANGED <<group, projects, user, code, placed, allocated>>
  BY DEF DeletePermission
<1>7. QED
  BY SMTT(30), <1>3, <1>5, <1>6 DEF IInv, TypeOK, RootInv, AccountsInv, RequestsInv

LEMMA RemovedSeq ==
    ASSUME NEW S, NEW s \in Seq(S), NEW i \in 1..Len(s)
    PROVE  RemoveAt(s, i) \in Seq(S)
<1>1. PICK n \in Nat : n = Len(s)
  BY LenProperties
<1>2. i \in 1..n /\ \A k \in 1..n : s[k] \in S
  BY <1>1, ElementOfSeq
<1>3. SubSeq(s, 1, i - 1) \in Seq(S)
  <2>1. i - 1 \in Int /\ \A k \in 1..i - 1 : s[k] \in S
    BY <1>2
  <2>2. QED
    BY <2>1, SubSeqProperties
<1>4. SubSeq(s, i + 1, n) \in Seq(S)
  <2>1. i + 1 \in Int /\ n \in Int /\ \A k \in i + 1..n : s[k] \in S
    BY <1>2
  <2>2. QED
    BY <2>1, SubSeqProperties
<1>5. QED
  BY <1>1, <1>3, <1>4, ConcatProperties DEF RemoveAt

\* The memberships users other than the root user may have.
Foreign == {m \in Membership : m.permission # Full}

LEMMA ForeignSound ==
    ASSUME NEW u, u # Admin, NEW status \in {"none", "WAITING", "ACTIVE"}, NEW groups \in Seq(Foreign)
    PROVE  Sound(u, [status |-> status, groups |-> groups])
<1>1. groups \in Seq(Membership)
  BY SeqMonotonic DEF Foreign
<1>2. \A i \in DOMAIN groups : groups[i] \in Foreign
  BY ElementOfSeq, LenProperties
<1>3. QED
  BY <1>1, <1>2 DEF Sound, Account, Foreign

LEMMA SoundForeign ==
    ASSUME NEW u, u # Admin, NEW account, Sound(u, account)
    PROVE  account.groups \in Seq(Foreign)
<1> DEFINE groups == account.groups
<1>1. groups \in Seq(Membership) /\ \A i \in DOMAIN groups : groups[i].permission # Full
  BY DEF Sound, Account
<1>2. Len(groups) \in Nat /\ groups \in [1..Len(groups) -> Membership]
  BY <1>1, LenProperties
<1>3. groups \in [1..Len(groups) -> Foreign]
  BY SMTT(30), <1>1, <1>2 DEF Foreign
<1>4. QED
  BY <1>2, <1>3, SeqDef

LEMMA WriteMemberStep ==
    ASSUME IInv, NEW r \in Requests, NEW u \in Users, WriteMember(r, u)
    PROVE  IInv'
<1> DEFINE job == request[r].work[u]
           left == RemoveAt(job.seen.groups, job.position)
           new == [job.seen EXCEPT !.groups = left]
<1>1. JobInv(u, job) /\ job.at = "write"
  BY WorkingJob DEF WriteMember, Working
<1>2. \A at : at \notin {"permission", "write"} => JobInv(u, [job EXCEPT !.at = at])
  BY SMTT(30), <1>1, MovedJob
<1>3. PICK at \in {"failed", "use", "done"} : Set(r, u, [job EXCEPT !.at = at])
  BY DEF WriteMember
<1>4. RequestsInv'
  BY <1>2, <1>3, SetKept DEF IInv
<1>5. Sound(u, new)
  <2>1. u # Admin /\ Sound(u, job.seen) /\ job.position \in DOMAIN job.seen.groups
    BY <1>1 DEF JobInv
  <2>2. job.seen.groups \in Seq(Foreign)
    BY <2>1, SoundForeign
  <2>3. job.position \in 1..Len(job.seen.groups)
    BY <2>1, <2>2, LenProperties
  <2>4. left \in Seq(Foreign)
    BY SMTT(30), <2>2, <2>3, RemovedSeq
  <2>5. new = [status |-> job.seen.status, groups |-> left] /\ job.seen.status \in {"none", "WAITING", "ACTIVE"}
    BY SMTT(30), <2>1 DEF Sound, Account
  <2>6. QED
    BY <2>1, <2>4, <2>5, ForeignSound
<1>6. CASE UNCHANGED user
  BY SMTT(30), <1>4, <1>6, FrameInv DEF WriteMember, IInv, TypeOK
<1>7. CASE user' = [user EXCEPT ![u] = new]
  BY <1>4, <1>5, <1>7, UserInv DEF WriteMember
<1>8. QED
  BY SMTT(30), <1>6, <1>7 DEF WriteMember

LEMMA UseAnotherStep ==
    ASSUME IInv, NEW r \in Requests, NEW u \in Users, UseAnother(r, u)
    PROVE  IInv'
<1> DEFINE job == request[r].work[u]
           groups == user[u].groups
           new == [user[u] EXCEPT !.groups = FirstInUse(groups)]
<1>1. JobInv(u, job)
  BY WorkingJob DEF UseAnother, Working
<1>2. u # Admin /\ Sound(u, user[u])
  BY <1>1 DEF JobInv, IInv, AccountsInv
<1>3. groups \in Seq(Foreign)
  BY <1>2, SoundForeign
<1>4. FirstInUse(groups) \in Seq(Foreign)
  <2>1. CASE groups = <<>>
    <3>1. Joined(None, None, TRUE) \in Foreign
      BY GroupsUsersAssumption DEF Foreign, Membership, Joined
    <3>2. QED
      BY <2>1, <3>1, OneElement DEF FirstInUse
  <2>2. CASE groups # <<>>
    <3>1. 1 \in 1..Len(groups)
      BY <2>2, <1>3, EmptySeq
    <3>2. groups[1] \in Foreign
      BY <3>1, <1>3, ElementOfSeq
    <3>3. [groups[1] EXCEPT !.inUse = TRUE] \in Foreign
      BY <3>2 DEF Foreign, Membership
    <3>4. [groups EXCEPT ![1] = [groups[1] EXCEPT !.inUse = TRUE]] \in Seq(Foreign)
      BY <3>1, <3>3, <1>3, ExceptSeq
    <3>5. [groups EXCEPT ![1].inUse = TRUE] = [groups EXCEPT ![1] = [groups[1] EXCEPT !.inUse = TRUE]]
      OBVIOUS
    <3>6. QED
      BY <2>2, <3>4, <3>5 DEF FirstInUse
  <2>3. QED
    BY <2>1, <2>2
<1>5. Sound(u, new)
  <2>1. new = [status |-> user[u].status, groups |-> FirstInUse(groups)]
        /\ user[u].status \in {"none", "WAITING", "ACTIVE"}
    BY <1>2 DEF Sound, Account
  <2>2. QED
    BY <2>1, <1>2, <1>4, ForeignSound
<1>6. JobInv(u, [job EXCEPT !.at = "done"])
  BY <1>1, MovedJob
<1>7. RequestsInv'
  BY <1>6, SetKept DEF UseAnother, IInv
<1>8. user' = [user EXCEPT ![u] = new]
  BY DEF UseAnother
<1>9. QED
  BY <1>5, <1>7, <1>8, UserInv DEF UseAnother

LEMMA UsersRemovedStep ==
    ASSUME IInv, NEW r \in Requests, UsersRemoved(r)
    PROVE  IInv'
<1>1. CASE Done(r)
  BY <1>1, DoneKept, FrameInv DEF UsersRemoved, store, IInv, TypeOK
<1>2. CASE request' = [request EXCEPT ![r].at = "devices", ![r].work = <<>>]
  <2> DEFINE n == [request[r] EXCEPT !.at = "devices", !.work = <<>>]
  <2>1. RequestInv(request[r])
    BY DEF IInv, RequestsInv
  <2>6. \A u \in DOMAIN <<>> : JobInv(u, <<>>[u])
    <3>1. DOMAIN <<>> = {}
      OBVIOUS
    <3>2. QED
      BY <3>1
  <2>2. RequestInv(n)
    BY <2>1, <2>6, ChangedWork
  <2>3. request' = [request EXCEPT ![r] = n]
    BY <1>2
  <2>4. RequestsInv'
    BY <2>2, <2>3, RequestsKept DEF IInv
  <2>5. QED
    BY <2>4, FrameInv DEF UsersRemoved, store, IInv, TypeOK
<1>3. QED
  BY <1>1, <1>2 DEF UsersRemoved

-----------------------------------------------------------------------------
(* Invitations.                                                            *)

LEMMA InviteStep ==
    ASSUME IInv, NEW r \in Requests, Invite(r)
    PROVE  IInv'
<1>1. PICK g \in DOMAIN group, u \in Users, given \in BOOLEAN :
        /\ Start(r, [Idle EXCEPT !.op = "invite", !.at = "find", !.group = g,
                                 !.user = u, !.given = given])
        /\ UNCHANGED <<store, allocated>>
  BY DEF Invite
<1> DEFINE q == [Idle EXCEPT !.op = "invite", !.at = "find", !.group = g, !.user = u, !.given = given]
<1>2. g \in Groups
  BY DEF IInv, TypeOK
<1>3. DOMAIN q = Fields /\ q.op = "invite" /\ q.at = "find" /\ q.group = g /\ q.user = u /\ q.work = <<>>
  BY DEF Idle, Fields
<1>4. RequestInv(q)
  BY <1>2, <1>3 DEF RequestInv
<1>5. RequestsInv'
  BY <1>1, <1>4, StartKept DEF IInv
<1>6. QED
  BY <1>1, <1>5, FrameInv DEF store, IInv, TypeOK

\* The new permission is not the root user's, whose id is taken.
LEMMA PermitKept ==
    ASSUME IInv, NEW r \in Requests, request[r].op = "invite",
           NEW at \in {"create", "push"}, NEW seen,
           at = "push" => Sound(request[r].user, seen), Permit(r, at, seen),
           UNCHANGED <<group, projects, user, code, placed>>
    PROVE  IInv'
<1>1. PICK p \in Permissions :
        /\ NewId(Permissions, p) /\ allocated' = allocated \cup {p} /\ permission' = permission \cup {p}
        /\ request' = [request EXCEPT ![r].at = at, ![r].seen = seen, ![r].permission = p]
  BY DEF Permit
<1> DEFINE q == request[r]
           n == [q EXCEPT !.at = at, !.seen = seen, !.permission = p]
<1>2. RequestInv(q)
  BY DEF IInv, RequestsInv
<1>3. p # Full
  BY <1>1 DEF NewId, IInv, RootInv
<1>4. /\ DOMAIN n = DOMAIN q /\ n.at = at /\ n.op = q.op /\ n.group = q.group /\ n.path = q.path
      /\ n.user = q.user /\ n.permission = p /\ n.seen = seen /\ n.work = q.work
  BY <1>2 DEF RequestInv, Fields
<1>5. RequestInv(n)
  BY <1>2, <1>3, <1>4 DEF RequestInv
<1>6. request' = [request EXCEPT ![r] = n]
  BY <1>1
<1>7. RequestsInv'
  BY <1>5, <1>6, RequestsKept DEF IInv
<1>8. QED
  BY <1>1, <1>7 DEF IInv, TypeOK, RootInv, AccountsInv, RequestsInv

LEMMA FindInvitedStep ==
    ASSUME IInv, NEW r \in Requests, FindInvited(r)
    PROVE  IInv'
<1> DEFINE q == request[r]
           seen == Fetched(q.user)
<1>1. q.op = "invite" /\ q.user \in Users
  BY DEF FindInvited, At, IInv, RequestsInv, RequestInv
<1>2. Sound(q.user, seen)
  BY <1>1, FetchedSound DEF IInv
<1>3. UNCHANGED <<group, projects, user, code, placed>>
  BY DEF FindInvited
<1>4. CASE Permit(r, "create", seen) \/ Permit(r, "push", seen)
  BY <1>1, <1>2, <1>3, <1>4, PermitKept
<1>5. CASE (Done(r) \/ Goto(r, "mail")) /\ UNCHANGED <<permission, allocated>>
  <2>1. RequestsInv'
    BY <1>5, DoneKept, GotoKept DEF IInv
  <2>2. QED
    BY <2>1, <1>3, <1>5, FrameInv DEF IInv, TypeOK
<1>6. QED
  BY <1>4, <1>5 DEF FindInvited

\* The root user has an account, so none is created for its address.
LEMMA CreateAccountStep ==
    ASSUME IInv, NEW r \in Requests, CreateAccount(r)
    PROVE  IInv'
<1> DEFINE q == request[r]
           m == Joined(q.group, q.permission, TRUE)
           new == [status |-> "WAITING", groups |-> <<m>>]
<1>1. q.group \in Groups /\ q.user \in Users /\ q.permission \in Permissions \ {Full}
  BY DEF CreateAccount, At, IInv, RequestsInv, RequestInv
<1>2. RequestsInv'
  BY DoneKept, GotoKept DEF CreateAccount, IInv
<1>3. CASE UNCHANGED user
  BY <1>2, <1>3, FrameInv DEF CreateAccount, IInv, TypeOK
<1>4. CASE user[q.user] = NoAccount /\ user' = [user EXCEPT ![q.user] = new]
  <2>1. q.user # Admin
    <3>1. NoAccount.groups = <<>>
      BY DEF NoAccount
    <3>2. Sound(q.user, NoAccount)
      BY <1>1, <1>4 DEF IInv, AccountsInv
    <3>3. QED
      BY <3>1, <3>2 DEF Sound
  <2>2. m \in Foreign
    BY <1>1 DEF Foreign, Membership, Joined
  <2>3. <<m>> \in Seq(Foreign)
    BY <2>2, OneElement
  <2>4. Sound(q.user, new)
    BY <2>1, <2>3, ForeignSound
  <2>5. QED
    BY <1>1, <1>2, <1>4, <2>4, UserInv DEF CreateAccount
<1>5. QED
  BY <1>3, <1>4 DEF CreateAccount

LEMMA JoinedSound ==
    ASSUME NEW u \in Users, NEW seen, Sound(u, seen), NEW m \in Foreign
    PROVE  Sound(u, [seen EXCEPT !.groups = Append(@, m)])
<1> DEFINE groups == Append(seen.groups, m)
           new == [seen EXCEPT !.groups = groups]
<1>1. /\ seen.groups \in Seq(Membership) /\ seen.status \in {"none", "WAITING", "ACTIVE"}
      /\ new = [status |-> seen.status, groups |-> groups]
  <2>1. seen \in Account
    BY DEF Sound
  <2> HIDE DEF groups
  <2>2. QED
    BY <2>1 DEF Account
<1>2. CASE u # Admin
  <2>1. groups \in Seq(Foreign)
    BY <1>2, SoundForeign, AppendProperties
  <2>2. QED
    BY <1>1, <1>2, <2>1, ForeignSound
<1>3. CASE u = Admin
  <2>1. m \in Membership
    BY DEF Foreign
  <2>2. seen.groups # <<>> /\ seen.groups[1] = Joined(Root, Full, TRUE)
    BY <1>3 DEF Sound
  <2>3. 1 \in 1..Len(seen.groups)
    BY <1>1, <2>2, EmptySeq
  <2>4. groups \in Seq(Membership) /\ groups # <<>> /\ groups[1] = seen.groups[1]
    BY <1>1, <2>1, <2>3, AppendProperties
  <2>5. QED
    BY <1>1, <1>3, <2>2, <2>4 DEF Sound, Account
<1>4. QED
  BY <1>2, <1>3

LEMMA JoinGroupStep ==
    ASSUME IInv, NEW r \in Requests, JoinGroup(r)
    PROVE  IInv'
<1> DEFINE q == request[r]
           m == NewMembership(q.group, q.permission)
           new == [q.seen EXCEPT !.groups = Append(@, m)]
<1>1. /\ q.group \in Groups /\ q.user \in Users /\ q.permission \in Permissions \ {Full}
      /\ Sound(q.user, q.seen)
  BY DEF JoinGroup, At, IInv, RequestsInv, RequestInv
<1>2. m \in Foreign
  BY <1>1 DEF Foreign, Membership, NewMembership, Joined
<1>3. Sound(q.user, new)
  BY <1>1, <1>2, JoinedSound
<1>4. user' = [user EXCEPT ![q.user] = new]
  BY DEF JoinGroup, WithMembership
<1>5. RequestsInv'
  BY DoneKept, GotoKept DEF JoinGroup, IInv
<1>6. QED
  BY <1>1, <1>3, <1>4, <1>5, UserInv DEF JoinGroup

LEMMA FindCodeStep ==
    ASSUME IInv, NEW r \in Requests, FindCode(r)
    PROVE  IInv'
<1>1. RequestsInv'
  BY DoneKept, GotoKept DEF FindCode, IInv
<1>2. code' \in [Codes -> Users \cup {None}]
  BY DEF FindCode, IInv, TypeOK
<1>3. QED
  BY <1>1, <1>2, FrameInv DEF FindCode, IInv, TypeOK

LEMMA CreateCodeStep ==
    ASSUME IInv, NEW r \in Requests, CreateCode(r)
    PROVE  IInv'
<1>1. RequestsInv'
  BY DoneKept DEF CreateCode, IInv
<1>2. request[r].user \in Users
  BY DEF CreateCode, At, IInv, RequestsInv, RequestInv
<1>3. code' \in [Codes -> Users \cup {None}]
  BY <1>2 DEF CreateCode, IInv, TypeOK
<1>4. QED
  BY <1>1, <1>3, FrameInv DEF CreateCode, IInv, TypeOK

-----------------------------------------------------------------------------
(* Registration, devices, restarts.                                        *)

LEMMA RegisterStep ==
    ASSUME IInv, NEW r \in Requests, Register(r)
    PROVE  IInv'
<1>1. PICK c \in Codes :
        /\ code[c] # None
        /\ Start(r, [Idle EXCEPT !.op = "register", !.at = "check", !.code = c,
                                 !.user = code[c], !.seen = Fetched(code[c])])
        /\ UNCHANGED <<store, allocated>>
  BY DEF Register
<1> DEFINE u == code[c]
           q == [Idle EXCEPT !.op = "register", !.at = "check", !.code = c, !.user = u, !.seen = Fetched(u)]
<1>2. u \in Users
  BY <1>1 DEF IInv, TypeOK
<1>3. Sound(u, Fetched(u))
  BY <1>2, FetchedSound DEF IInv
<1>4. DOMAIN q = Fields /\ q.op = "register" /\ q.user = u /\ q.seen = Fetched(u) /\ q.work = <<>>
  BY DEF Idle, Fields
<1>5. RequestInv(q)
  BY <1>2, <1>3, <1>4 DEF RequestInv
<1>6. RequestsInv'
  BY <1>1, <1>5, StartKept DEF IInv
<1>7. QED
  BY <1>1, <1>6, FrameInv DEF store, IInv, TypeOK

LEMMA CheckCodeStep ==
    ASSUME IInv, NEW r \in Requests, CheckCode(r)
    PROVE  IInv'
<1>1. RequestsInv'
  BY DoneKept, GotoKept DEF CheckCode, IInv
<1>2. code' \in [Codes -> Users \cup {None}]
  BY DEF CheckCode, IInv, TypeOK
<1>3. QED
  BY <1>1, <1>2, FrameInv DEF CheckCode, IInv, TypeOK

LEMMA ConsumeCodeStep ==
    ASSUME IInv, NEW r \in Requests, ConsumeCode(r)
    PROVE  IInv'
<1>1. RequestsInv'
  BY GotoKept DEF ConsumeCode, IInv
<1>2. code' \in [Codes -> Users \cup {None}]
  BY DEF ConsumeCode, Consumed, IInv, TypeOK
<1>3. QED
  BY <1>1, <1>2, FrameInv DEF ConsumeCode, IInv, TypeOK

LEMMA ActivateStep ==
    ASSUME IInv, NEW r \in Requests, Activate(r)
    PROVE  IInv'
<1> DEFINE q == request[r]
           new == [q.seen EXCEPT !.status = "ACTIVE"]
<1>1. q.user \in Users /\ Sound(q.user, q.seen)
  BY DEF Activate, At, IInv, RequestsInv, RequestInv
<1>2. Sound(q.user, new)
  BY <1>1 DEF Sound, Account
<1>3. RequestsInv'
  BY DoneKept DEF Activate, IInv
<1>4. QED
  BY <1>1, <1>2, <1>3, UserInv DEF Activate

LEMMA AddDeviceStep ==
    ASSUME IInv, NEW r \in Requests, AddDevice(r)
    PROVE  IInv'
<1>1. PICK g \in DOMAIN group, d \in Devices :
        /\ Start(r, [Idle EXCEPT !.op = "addDevice", !.at = "place", !.group = g, !.found = {d}])
        /\ UNCHANGED <<store, allocated>>
  BY DEF AddDevice
<1> DEFINE q == [Idle EXCEPT !.op = "addDevice", !.at = "place", !.group = g, !.found = {d}]
<1>2. g \in Groups
  BY DEF IInv, TypeOK
<1>3. DOMAIN q = Fields /\ q.op = "addDevice" /\ q.group = g /\ q.work = <<>>
  BY DEF Idle, Fields
<1>4. RequestInv(q)
  BY <1>2, <1>3 DEF RequestInv
<1>5. RequestsInv'
  BY <1>1, <1>4, StartKept DEF IInv
<1>6. QED
  BY <1>1, <1>5, FrameInv DEF store, IInv, TypeOK

LEMMA PlaceDeviceStep ==
    ASSUME IInv, NEW r \in Requests, PlaceDevice(r)
    PROVE  IInv'
<1>1. RequestsInv'
  BY DoneKept DEF PlaceDevice, IInv
<1>2. request[r].group \in Groups
  BY DEF PlaceDevice, At, IInv, RequestsInv, RequestInv
<1>3. placed' \in [Devices -> SUBSET Groups]
  BY <1>2 DEF PlaceDevice, IInv, TypeOK
<1>4. QED
  BY <1>1, <1>3, FrameInv DEF PlaceDevice, IInv, TypeOK

LEMMA RestartStep ==
    ASSUME IInv, Restart
    PROVE  IInv'
<1>1. RequestsInv'
  BY IdleInv DEF Restart, RequestsInv
<1>2. QED
  BY <1>1, FrameInv DEF Restart, store, IInv, TypeOK

-----------------------------------------------------------------------------
LEMMA NextInv == IInv /\ [Next]_vars => IInv'
<1> SUFFICES ASSUME IInv, [Next]_vars PROVE IInv'
  OBVIOUS
<1>1. CASE Restart
  BY <1>1, RestartStep
<1>2. CASE UNCHANGED vars
  BY <1>2 DEF vars, store, IInv, TypeOK, RootInv, AccountsInv, RequestsInv
<1>3. ASSUME NEW r \in Requests, Step(r) PROVE IInv'
  <2>1. CASE CreateGroup(r)
    BY <2>1, CreateGroupStep
  <2>2. CASE CreateProject(r)
    BY <2>2, CreateProjectStep
  <2>3. CASE StoreGroup(r)
    BY <2>3, StoreGroupStep
  <2>4. CASE DeleteGroup(r)
    BY <2>4, DeleteGroupStep
  <2>5. CASE FindMembers(r)
    BY <2>5, FindMembersStep
  <2>6. CASE UsersRemoved(r)
    BY <2>6, UsersRemovedStep
  <2>7. CASE FindDevices(r)
    BY <2>7, FindDevicesStep
  <2>8. CASE UnplaceDevices(r)
    BY <2>8, UnplaceDevicesStep
  <2>9. CASE DeleteProject(r)
    BY <2>9, DeleteProjectStep
  <2>10. CASE EraseGroup(r)
    BY <2>10, EraseGroupStep
  <2>11. CASE DeleteUsers(r)
    BY <2>11, DeleteUsersStep
  <2>12. ASSUME NEW u \in Users, FindMember(r, u) PROVE IInv'
    BY <2>12, FindMemberStep
  <2>13. ASSUME NEW u \in Users, DeletePermission(r, u) PROVE IInv'
    BY <2>13, DeletePermissionStep
  <2>14. ASSUME NEW u \in Users, WriteMember(r, u) PROVE IInv'
    BY <2>14, WriteMemberStep
  <2>15. ASSUME NEW u \in Users, UseAnother(r, u) PROVE IInv'
    BY <2>15, UseAnotherStep
  <2>16. CASE Invite(r)
    BY <2>16, InviteStep
  <2>17. CASE FindInvited(r)
    BY <2>17, FindInvitedStep
  <2>18. CASE CreateAccount(r)
    BY <2>18, CreateAccountStep
  <2>19. CASE JoinGroup(r)
    BY <2>19, JoinGroupStep
  <2>20. CASE FindCode(r)
    BY <2>20, FindCodeStep
  <2>21. CASE CreateCode(r)
    BY <2>21, CreateCodeStep
  <2>22. CASE Register(r)
    BY <2>22, RegisterStep
  <2>23. CASE CheckCode(r)
    BY <2>23, CheckCodeStep
  <2>24. CASE ConsumeCode(r)
    BY <2>24, ConsumeCodeStep
  <2>25. CASE Activate(r)
    BY <2>25, ActivateStep
  <2>26. CASE AddDevice(r)
    BY <2>26, AddDeviceStep
  <2>27. CASE PlaceDevice(r)
    BY <2>27, PlaceDeviceStep
  <2>28. QED
    BY <1>3, <2>1, <2>2, <2>3, <2>4, <2>5, <2>6, <2>7, <2>8, <2>9, <2>10, <2>11, <2>12, <2>13,
       <2>14, <2>15, <2>16, <2>17, <2>18, <2>19, <2>20, <2>21, <2>22, <2>23, <2>24, <2>25,
       <2>26, <2>27 DEF Step
<1>4. QED
  BY <1>1, <1>2, <1>3 DEF Next

\* Every copy of a user that is stored or that a handler is about to write back has the root
\* group first when it is the root user's, and no handler takes the root user out of a group.
THEOREM CopiesSound == Spec => []IInv
BY InitInv, NextInv, PTL DEF Spec

\* The documents GroupService, UserService and PermissionService store keep their shape: no path
\* reaches the deepest level, and every user's groups are memberships.
THEOREM DocumentsTyped == Spec => []TypeOK
<1>1. IInv => TypeOK
  BY DEF IInv
<1>2. QED
  BY <1>1, CopiesSound, PTL

\* Whatever requests overlap, restart or fail, onModuleInit finds the root group, the root user's
\* permission, and the root group with that permission first among the root user's groups.
THEOREM RootUserKept == Spec => []AdminKept
<1>1. IInv => AdminKept
  <2> SUFFICES ASSUME IInv PROVE AdminKept
    OBVIOUS
  <2>1. Admin \in Users
    BY GroupsUsersAssumption
  <2>2. Sound(Admin, user[Admin])
    BY <2>1 DEF IInv, AccountsInv
  <2>3. QED
    BY <2>2 DEF Sound, AdminKept, IInv, RootInv
<1>2. QED
  BY <1>1, CopiesSound, PTL

-----------------------------------------------------------------------------
(* Nobody belongs to a group twice.                                        *)

\* Of the memberships of a user only the first is in use, and no two name the same group.
Once(groups) ==
    \A i, j \in DOMAIN groups :
        /\ groups[i].inUse => i = 1
        /\ groups[i].group = groups[j].group /\ groups[i].group # None => i = j

\* The same of the copies that a request is about to write back; an invited user is not yet
\* a member in the copy that the membership is appended to.
RequestOnce(q) ==
    /\ q.op = "invite" /\ q.at = "push" => Once(q.seen.groups) /\ q.group \notin GroupsOf(q.seen)
    /\ q.op = "register" => Once(q.seen.groups)
    /\ \A u \in DOMAIN q.work : q.work[u].at \in {"permission", "write"} => Once(q.work[u].seen.groups)

UsersOnce == \A u \in Users : Once(user[u].groups)

OnceInv == UsersOnce /\ \A r \in Requests : RequestOnce(request[r])

\* What a step of a request does to the requests.
LEMMA MovedFields ==
    ASSUME RequestsInv, NEW r \in Requests, NEW q, request' = [request EXCEPT ![r] = q]
    PROVE  request'[r] = q /\ \A s \in Requests : s # r => request'[s] = request[s]
BY DEF RequestsInv

LEMMA GotoFields ==
    ASSUME RequestsInv, NEW r \in Requests, NEW at, Goto(r, at)
    PROVE  /\ request'[r].at = at /\ request'[r].op = request[r].op
           /\ request'[r].group = request[r].group /\ request'[r].path = request[r].path
           /\ request'[r].user = request[r].user /\ request'[r].permission = request[r].permission
           /\ request'[r].code = request[r].code /\ request'[r].seen = request[r].seen
           /\ request'[r].work = request[r].work /\ request'[r].found = request[r].found
           /\ \A s \in Requests : s # r => request'[s] = request[s]
<1>1. DOMAIN request[r] = Fields
  BY DEF RequestsInv, RequestInv
<1>2. request'[r] = [request[r] EXCEPT !.at = at] /\ \A s \in Requests : s # r => request'[s] = request[s]
  BY DEF Goto, RequestsInv
<1>3. QED
  BY <1>1, <1>2 DEF Fields

LEMMA SetFields ==
    ASSUME RequestsInv, NEW r \in Requests, NEW u, NEW job, Set(r, u, job)
    PROVE  /\ request'[r].at = request[r].at /\ request'[r].op = request[r].op
           /\ request'[r].group = request[r].group /\ request'[r].path = request[r].path
           /\ request'[r].user = request[r].user /\ request'[r].permission = request[r].permission
           /\ request'[r].code = request[r].code /\ request'[r].seen = request[r].seen
           /\ request'[r].found = request[r].found
           /\ DOMAIN request'[r].work = DOMAIN request[r].work
           /\ \A v \in DOMAIN request[r].work :
                request'[r].work[v] = IF v = u THEN job ELSE request[r].work[v]
           /\ \A s \in Requests : s # r => request'[s] = request[s]
<1>1. DOMAIN request[r] = Fields
  BY DEF RequestsInv, RequestInv
<1>2. /\ request'[r] = [request[r] EXCEPT !.work = [request[r].work EXCEPT ![u] = job]]
      /\ \A s \in Requests : s # r => request'[s] = request[s]
  BY <1>1 DEF Set, RequestsInv, Fields
<1>3. QED
  BY <1>1, <1>2 DEF Fields

LEMMA DoneFields ==
    ASSUME RequestsInv, NEW r \in Requests, Done(r)
    PROVE  request'[r] = Idle /\ \A s \in Requests : s # r => request'[s] = request[s]
BY DEF Done, RequestsInv

LEMMA IdleFields ==
    /\ Idle.op = "idle" /\ Idle.at = "idle" /\ Idle.work = <<>> /\ DOMAIN Idle.work = {}
    /\ Idle.group = None /\ Idle.user = None /\ Idle.code = None
BY DEF Idle

LEMMA FetchedFields ==
    ASSUME TypeOK, NEW u \in Users
    PROVE  /\ Fetched(u).status = user[u].status
           /\ Fetched(u).groups = [i \in DOMAIN user[u].groups |-> Populated(user[u].groups[i])]
           /\ user[u].groups \in Seq(Membership)
           /\ DOMAIN user[u].groups = 1..Len(user[u].groups) /\ Len(user[u].groups) \in Nat
<1>1. user[u] \in Account
  BY DEF TypeOK
<1>2. user[u].groups \in Seq(Membership)
  BY <1>1 DEF Account
<1>3. QED
  BY <1>1, <1>2, LenProperties DEF Fetched, Account

LEMMA FetchedOnce ==
    ASSUME TypeOK, UsersOnce, NEW u \in Users
    PROVE  Once(Fetched(u).groups)
<1>1. /\ Fetched(u).groups = [i \in DOMAIN user[u].groups |-> Populated(user[u].groups[i])]
      /\ Once(user[u].groups)
  BY FetchedFields DEF UsersOnce
<1>2. None \notin DOMAIN group
  BY GroupsUsersAssumption DEF TypeOK
<1>3. ASSUME NEW i \in DOMAIN user[u].groups, NEW j \in DOMAIN user[u].groups
      PROVE  /\ Populated(user[u].groups[i]).inUse = user[u].groups[i].inUse
             /\ Populated(user[u].groups[i]).group \in {user[u].groups[i].group, None}
  BY DEF Populated, Joined
<1>4. QED
  BY <1>1, <1>2, <1>3 DEF Once

\* A sequence without one of its elements.
LEMMA RemovedElements ==
    ASSUME NEW S, NEW s \in Seq(S), NEW p \in 1..Len(s)
    PROVE  /\ RemoveAt(s, p) \in Seq(S) /\ Len(RemoveAt(s, p)) = Len(s) - 1
           /\ DOMAIN RemoveAt(s, p) = 1..(Len(s) - 1)
           /\ \A i \in 1..(Len(s) - 1) : RemoveAt(s, p)[i] = IF i < p THEN s[i] ELSE s[i + 1]
<1>1. PICK n \in Nat : n = Len(s)
  BY LenProperties
<1>2. p \in 1..n /\ \A k \in 1..n : s[k] \in S
  BY <1>1, ElementOfSeq
<1> DEFINE a == SubSeq(s, 1, p - 1)
           b == SubSeq(s, p + 1, n)
<1>3. a \in Seq(S) /\ Len(a) = p - 1 /\ \A i \in 1..(p - 1) : a[i] = s[i]
  <2>1. p - 1 \in Int /\ \A k \in 1..p - 1 : s[k] \in S
    BY <1>2
  <2>2. /\ a \in Seq(S)
        /\ Len(a) = IF 1 <= p - 1 THEN p - 1 - 1 + 1 ELSE 0
        /\ \A i \in 1..p - 1 - 1 + 1 : a[i] = s[1 + i - 1]
    BY <2>1, SubSeqProperties
  <2>3. QED
    BY <2>2, <1>2
<1>4. b \in Seq(S) /\ Len(b) = n - p /\ \A i \in 1..(n - p) : b[i] = s[p + i]
  <2>1. p + 1 \in Int /\ n \in Int /\ \A k \in p + 1..n : s[k] \in S
    BY <1>2
  <2>2. /\ b \in Seq(S)
        /\ Len(b) = IF p + 1 <= n THEN n - (p + 1) + 1 ELSE 0
        /\ \A i \in 1..n - (p + 1) + 1 : b[i] = s[p + 1 + i - 1]
    BY <2>1, SubSeqProperties
  <2>3. QED
    BY <2>2, <1>2
<1>5. RemoveAt(s, p) = a \o b
  BY <1>1 DEF RemoveAt
<1> HIDE DEF a, b
<1>6. /\ a \o b \in Seq(S) /\ Len(a \o b) = Len(a) + Len(b)
      /\ \A i \in 1..(Len(a) + Len(b)) : (a \o b)[i] = IF i <= Len(a) THEN a[i] ELSE b[i - Len(a)]
  BY <1>3, <1>4, ConcatProperties
<1>7. Len(a \o b) = n - 1 /\ DOMAIN (a \o b) = 1..(n - 1)
  BY <1>2, <1>3, <1>4, <1>6, LenProperties
<1>8. ASSUME NEW i \in 1..(n - 1)
      PROVE  (a \o b)[i] = IF i < p THEN s[i] ELSE s[i + 1]
  <2>1. (a \o b)[i] = IF i <= p - 1 THEN a[i] ELSE b[i - (p - 1)]
    BY <1>2, <1>3, <1>4, <1>6
  <2>2. CASE i < p
    BY <1>2, <1>3, <2>1, <2>2
  <2>3. CASE i >= p
    <3>1. i - (p - 1) \in 1..(n - p) /\ p + (i - (p - 1)) = i + 1 /\ ~(i <= p - 1)
      BY <1>2, <2>3
    <3>2. b[i - (p - 1)] = s[i + 1]
      BY <1>4, <3>1
    <3>3. QED
      BY <2>1, <2>3, <3>1, <3>2, <1>2
  <2>4. i < p \/ i >= p
    BY <1>2
  <2>5. QED
    BY <2>2, <2>3, <2>4
<1>9. QED
  BY <1>1, <1>5, <1>6, <1>7, <1>8

LEMMA RemovedOnce ==
    ASSUME NEW s \in Seq(Membership), Once(s), NEW p \in DOMAIN s
    PROVE  Once(RemoveAt(s, p))
<1>1. p \in 1..Len(s) /\ DOMAIN s = 1..Len(s) /\ Len(s) \in Nat
  BY LenProperties
<1>2. /\ DOMAIN RemoveAt(s, p) = 1..(Len(s) - 1)
      /\ \A i \in 1..(Len(s) - 1) : RemoveAt(s, p)[i] = IF i < p THEN s[i] ELSE s[i + 1]
  BY <1>1, RemovedElements
<1> DEFINE left == RemoveAt(s, p)
           from(i) == IF i < p THEN i ELSE i + 1
<1>3. ASSUME NEW i \in DOMAIN left
      PROVE  from(i) \in DOMAIN s /\ left[i] = s[from(i)] /\ (from(i) = 1 => i = 1)
  BY <1>1, <1>2, <1>3
<1>4. \A i, j \in DOMAIN left : from(i) = from(j) => i = j
  BY <1>1, <1>2
<1> HIDE DEF left, from
<1>5. Once(left)
  BY <1>3, <1>4 DEF Once
<1>6. QED
  BY <1>5 DEF left

LEMMA AppendedOnce ==
    ASSUME NEW s \in Seq(Membership), Once(s), NEW m, m.inUse = FALSE,
           \A i \in DOMAIN s : s[i].group # m.group
    PROVE  Once(Append(s, m))
<1>1. DOMAIN s = 1..Len(s) /\ Len(s) \in Nat
  BY LenProperties
<1>2. /\ DOMAIN Append(s, m) = 1..(Len(s) + 1)
      /\ \A i \in 1..(Len(s) + 1) : Append(s, m)[i] = IF i <= Len(s) THEN s[i] ELSE m
  BY <1>1
<1>3. QED
  BY <1>1, <1>2 DEF Once

LEMMA UsedOnce ==
    ASSUME NEW s \in Seq(Membership), Once(s)
    PROVE  Once(FirstInUse(s))
<1>1. CASE s = <<>>
  <2>1. DOMAIN <<Joined(None, None, TRUE)>> = {1}
    OBVIOUS
  <2>2. QED
    BY <1>1, <2>1 DEF FirstInUse, Once
<1>2. CASE s # <<>>
  <2>1. 1 \in DOMAIN s /\ \A i \in DOMAIN s : s[i] \in Membership
    BY <1>2, EmptySeq, LenProperties, ElementOfSeq
  <2>2. /\ DOMAIN FirstInUse(s) = DOMAIN s
        /\ FirstInUse(s)[1].group = s[1].group
        /\ \A i \in DOMAIN s : i # 1 => FirstInUse(s)[i] = s[i]
    BY <1>2, <2>1 DEF FirstInUse, Membership
  <2>3. QED
    BY <2>1, <2>2 DEF Once
<1>3. QED
  BY <1>1, <1>2

-----------------------------------------------------------------------------
(* Requests that begin.                                                    *)

Begun(r) ==
    /\ request[r] = Idle /\ (overlap \/ Quiet)
    /\ UNCHANGED <<store, overlap, mishaps>>
    /\ \A s \in Requests : s # r => request'[s] = request[s]

LEMMA StartBegun ==
    ASSUME RequestsInv, NEW r \in Requests, Free(r), NEW q, Start(r, q),
           UNCHANGED <<store, overlap, mishaps>>
    PROVE  Begun(r) /\ request'[r] = q
BY DEF Begun, Free, Start, RequestsInv

LEMMA CreateGroupBegins ==
    ASSUME IInv, NEW r \in Requests, CreateGroup(r)
    PROVE  /\ Begun(r)
           /\ \E parent \in DOMAIN group, new \in Groups \ allocated :
                /\ allocated' = allocated \cup {new}
                /\ request'[r].op = "createGroup" /\ request'[r].group = new
                /\ request'[r].at = IF group[parent] = <<>> THEN "project" ELSE "store"
                /\ request'[r].path = Append(group[parent], parent) /\ request'[r].work = <<>>
<1>1. PICK parent \in DOMAIN group, new \in Groups :
        /\ NewId(Groups, new) /\ allocated' = allocated \cup {new}
        /\ Start(r, [Idle EXCEPT !.op = "createGroup", !.group = new,
                                 !.at = IF group[parent] = <<>> THEN "project" ELSE "store",
                                 !.path = Append(group[parent], parent)])
        /\ Free(r) /\ UNCHANGED <<store, overlap, mishaps>>
  BY DEF CreateGroup
<1>2. Begun(r) /\ request'[r] = [Idle EXCEPT !.op = "createGroup", !.group = new,
                                 !.at = IF group[parent] = <<>> THEN "project" ELSE "store",
                                 !.path = Append(group[parent], parent)]
  BY <1>1, StartBegun DEF IInv
<1>3. /\ request'[r].op = "createGroup" /\ request'[r].group = new
      /\ request'[r].at = IF group[parent] = <<>> THEN "project" ELSE "store"
      /\ request'[r].path = Append(group[parent], parent) /\ request'[r].work = <<>>
  BY <1>2 DEF Idle
<1>4. new \notin allocated
  BY <1>1 DEF NewId
<1>5. QED
  BY <1>1, <1>2, <1>3, <1>4

LEMMA DeleteGroupBegins ==
    ASSUME IInv, NEW r \in Requests, DeleteGroup(r)
    PROVE  /\ Begun(r) /\ UNCHANGED allocated
           /\ \E g \in DOMAIN group :
                /\ DirectChilds(g) = {}
                /\ request'[r].op = "deleteGroup" /\ request'[r].at = "users"
                /\ request'[r].group = g /\ request'[r].path = group[g] /\ request'[r].work = <<>>
<1>1. PICK g \in DOMAIN group :
        /\ DirectChilds(g) = {}
        /\ Start(r, [Idle EXCEPT !.op = "deleteGroup", !.at = "users",
                                 !.group = g, !.path = group[g]])
        /\ Free(r) /\ UNCHANGED <<store, allocated, overlap, mishaps>>
  BY DEF DeleteGroup
<1>2. Begun(r) /\ request'[r] = [Idle EXCEPT !.op = "deleteGroup", !.at = "users",
                                             !.group = g, !.path = group[g]]
  BY <1>1, StartBegun DEF IInv
<1>3. /\ request'[r].op = "deleteGroup" /\ request'[r].at = "users"
      /\ request'[r].group = g /\ request'[r].path = group[g] /\ request'[r].work = <<>>
  BY <1>2 DEF Idle
<1>4. QED
  BY <1>1, <1>2, <1>3

LEMMA DeleteUsersBegins ==
    ASSUME IInv, NEW r \in Requests, DeleteUsers(r)
    PROVE  /\ Begun(r) /\ UNCHANGED allocated
           /\ request'[r].op = "deleteUsers" /\ request'[r].at = "remove" /\ request'[r].group \in DOMAIN group
           /\ \A u \in DOMAIN request'[r].work : request'[r].work[u].at = "find"
<1>1. PICK g \in DOMAIN group, us \in SUBSET Users :
        /\ Start(r, [Idle EXCEPT !.op = "deleteUsers", !.at = "remove", !.group = g, !.work = Jobs(us)])
        /\ Free(r) /\ UNCHANGED <<store, allocated, overlap, mishaps>>
  <2>1. PICK by \in Users, using \in DOMAIN group, g \in DOMAIN group, named \in SUBSET Users \ {{}} :
          LET valid == IF using = g THEN named \ {by} ELSE named
          IN  /\ Start(r, [Idle EXCEPT !.op = "deleteUsers", !.at = "remove",
                                       !.group = g, !.work = Jobs(valid)])
              /\ Free(r) /\ UNCHANGED <<store, allocated, overlap, mishaps>>
    BY DEF DeleteUsers
  <2> DEFINE valid == IF using = g THEN named \ {by} ELSE named
  <2>2. valid \in SUBSET Users
    OBVIOUS
  <2>3. /\ Start(r, [Idle EXCEPT !.op = "deleteUsers", !.at = "remove", !.group = g, !.work = Jobs(valid)])
        /\ Free(r) /\ UNCHANGED <<store, allocated, overlap, mishaps>>
    BY <2>1
  <2> HIDE DEF valid
  <2>4. QED
    BY <2>2, <2>3
<1>2. Begun(r) /\ request'[r] = [Idle EXCEPT !.op = "deleteUsers", !.at = "remove",
                                             !.group = g, !.work = Jobs(us)]
  BY <1>1, StartBegun DEF IInv
<1>3. /\ request'[r].op = "deleteUsers" /\ request'[r].at = "remove" /\ request'[r].group = g
      /\ request'[r].work = Jobs(us)
  BY <1>2 DEF Idle
<1>4. \A u \in DOMAIN Jobs(us) : Jobs(us)[u].at = "find"
  BY DEF Jobs, WithoutUser
<1>5. QED
  BY <1>1, <1>2, <1>3, <1>4

LEMMA InviteBegins ==
    ASSUME IInv, NEW r \in Requests, Invite(r)
    PROVE  /\ Begun(r) /\ UNCHANGED allocated
           /\ request'[r].op = "invite" /\ request'[r].at = "find" /\ request'[r].work = <<>>
           /\ request'[r].group \in DOMAIN group /\ request'[r].user \in Users
<1>1. PICK g \in DOMAIN group, u \in Users, given \in BOOLEAN :
        /\ Start(r, [Idle EXCEPT !.op = "invite", !.at = "find", !.group = g,
                                 !.user = u, !.given = given])
        /\ Free(r) /\ UNCHANGED <<store, allocated, overlap, mishaps>>
  BY DEF Invite
<1>2. Begun(r) /\ request'[r] = [Idle EXCEPT !.op = "invite", !.at = "find", !.group = g,
                                             !.user = u, !.given = given]
  BY <1>1, StartBegun DEF IInv
<1>3. /\ request'[r].op = "invite" /\ request'[r].at = "find" /\ request'[r].work = <<>>
      /\ request'[r].group = g /\ request'[r].user = u
  BY <1>2 DEF Idle
<1>4. QED
  BY <1>1, <1>2, <1>3

LEMMA RegisterBegins ==
    ASSUME IInv, NEW r \in Requests, Register(r)
    PROVE  /\ Begun(r) /\ UNCHANGED allocated
           /\ request'[r].op = "register" /\ request'[r].at = "check" /\ request'[r].work = <<>>
           /\ request'[r].code \in Codes /\ code[request'[r].code] = request'[r].user
           /\ request'[r].user \in Users
           /\ \E c \in Codes : /\ code[c] \in Users /\ request'[r].code = c
                             /\ request'[r].user = code[c] /\ request'[r].seen = Fetched(code[c])
<1>1. PICK c \in Codes :
        /\ code[c] # None
        /\ Start(r, [Idle EXCEPT !.op = "register", !.at = "check", !.code = c,
                                 !.user = code[c], !.seen = Fetched(code[c])])
        /\ Free(r) /\ UNCHANGED <<store, allocated, overlap, mishaps>>
  BY DEF Register
<1>2. Begun(r) /\ request'[r] = [Idle EXCEPT !.op = "register", !.at = "check", !.code = c,
                                             !.user = code[c], !.seen = Fetched(code[c])]
  BY <1>1, StartBegun DEF IInv
<1>3. /\ request'[r].op = "register" /\ request'[r].at = "check" /\ request'[r].work = <<>>
      /\ request'[r].code = c /\ request'[r].user = code[c] /\ request'[r].seen = Fetched(code[c])
  BY <1>2 DEF Idle
<1>4. code[c] \in Users
  BY <1>1 DEF IInv, TypeOK
<1>5. QED
  BY <1>1, <1>2, <1>3, <1>4

LEMMA AddDeviceBegins ==
    ASSUME IInv, NEW r \in Requests, AddDevice(r)
    PROVE  /\ Begun(r) /\ UNCHANGED allocated
           /\ request'[r].op = "addDevice" /\ request'[r].at = "place" /\ request'[r].work = <<>>
           /\ request'[r].group \in DOMAIN group
<1>1. PICK g \in DOMAIN group, d \in Devices :
        /\ Start(r, [Idle EXCEPT !.op = "addDevice", !.at = "place", !.group = g, !.found = {d}])
        /\ Free(r) /\ UNCHANGED <<store, allocated, overlap, mishaps>>
  BY DEF AddDevice
<1>2. Begun(r) /\ request'[r] = [Idle EXCEPT !.op = "addDevice", !.at = "place", !.group = g, !.found = {d}]
  BY <1>1, StartBegun DEF IInv
<1>3. /\ request'[r].op = "addDevice" /\ request'[r].at = "place" /\ request'[r].work = <<>>
      /\ request'[r].group = g
  BY <1>2 DEF Idle
<1>4. QED
  BY <1>1, <1>2, <1>3

-----------------------------------------------------------------------------
(* Requests that go on.                                                    *)

\* The steps that end a request or move it on, and leave the users alone.
Plain(r) ==
    /\ Done(r) \/ \E at \in {"store", "erase", "project", "code", "consume", "activate"} : Goto(r, at)
    /\ UNCHANGED user

LEMMA PlainSteps ==
    ASSUME NEW r \in Requests,
           \/ CreateProject(r) \/ StoreGroup(r) \/ UnplaceDevices(r) \/ DeleteProject(r) \/ EraseGroup(r)
           \/ FindCode(r) \/ CreateCode(r) \/ CheckCode(r) \/ ConsumeCode(r) \/ PlaceDevice(r)
    PROVE  Plain(r)
<1>1. AfterDevices(r) \in {"project", "erase"}
  BY DEF AfterDevices
<1>2. QED
  BY <1>1 DEF Plain, CreateProject, Refused, StoreGroup, UnplaceDevices, DeleteProject, EraseGroup,
              FindCode, CreateCode, CheckCode, ConsumeCode, PlaceDevice

Works(r, at, work) == request' = [request EXCEPT ![r].at = at, ![r].work = work]

Finds(r, at, found) == request' = [request EXCEPT ![r].found = found, ![r].at = at]

Permits(r, at, seen, p) == request' = [request EXCEPT ![r].at = at, ![r].seen = seen, ![r].permission = p]

LEMMA WorkFields ==
    ASSUME RequestsInv, NEW r \in Requests, NEW at, NEW work,
           Works(r, at, work)
    PROVE  /\ request'[r].at = at /\ request'[r].work = work
           /\ request'[r].op = request[r].op /\ request'[r].group = request[r].group
           /\ request'[r].path = request[r].path /\ request'[r].user = request[r].user
           /\ request'[r].seen = request[r].seen
           /\ \A s \in Requests : s # r => request'[s] = request[s]
<1>1. DOMAIN request[r] = Fields
  BY DEF RequestsInv, RequestInv
<1> DEFINE q == request[r]
           n == [q EXCEPT !.at = at, !.work = work]
<1>2. /\ n.at = at /\ n.work = work /\ n.op = q.op
      /\ n.group = q.group /\ n.path = q.path /\ n.user = q.user /\ n.seen = q.seen
  BY <1>1 DEF Fields
<1>3. request'[r] = n /\ \A s \in Requests : s # r => request'[s] = request[s]
  BY DEF RequestsInv, Works, Finds, Permits
<1> HIDE DEF n
<1>4. QED
  BY <1>2, <1>3

LEMMA FoundFields ==
    ASSUME RequestsInv, NEW r \in Requests, NEW at, NEW found,
           Finds(r, at, found)
    PROVE  /\ request'[r].at = at /\ request'[r].found = found /\ request'[r].work = request[r].work
           /\ request'[r].op = request[r].op /\ request'[r].group = request[r].group
           /\ request'[r].path = request[r].path /\ request'[r].user = request[r].user
           /\ request'[r].seen = request[r].seen
           /\ \A s \in Requests : s # r => request'[s] = request[s]
<1>1. DOMAIN request[r] = Fields
  BY DEF RequestsInv, RequestInv
<1> DEFINE q == request[r]
           n == [q EXCEPT !.found = found, !.at = at]
<1>2. /\ n.at = at /\ n.found = found /\ n.work = q.work /\ n.op = q.op
      /\ n.group = q.group /\ n.path = q.path /\ n.user = q.user /\ n.seen = q.seen
  BY <1>1 DEF Fields
<1>3. request'[r] = n /\ \A s \in Requests : s # r => request'[s] = request[s]
  BY DEF RequestsInv, Works, Finds, Permits
<1> HIDE DEF n
<1>4. QED
  BY <1>2, <1>3

LEMMA PermitFields ==
    ASSUME RequestsInv, NEW r \in Requests, NEW at, NEW seen, NEW p,
           Permits(r, at, seen, p)
    PROVE  /\ request'[r].at = at /\ request'[r].seen = seen /\ request'[r].permission = p
           /\ request'[r].op = request[r].op /\ request'[r].group = request[r].group
           /\ request'[r].user = request[r].user /\ request'[r].work = request[r].work
           /\ \A s \in Requests : s # r => request'[s] = request[s]
<1>1. DOMAIN request[r] = Fields
  BY DEF RequestsInv, RequestInv
<1> DEFINE q == request[r]
           n == [q EXCEPT !.at = at, !.seen = seen, !.permission = p]
<1>2. /\ n.at = at /\ n.seen = seen /\ n.permission = p /\ n.op = q.op
      /\ n.group = q.group /\ n.user = q.user /\ n.work = q.work
  BY <1>1 DEF Fields
<1>3. request'[r] = n /\ \A s \in Requests : s # r => request'[s] = request[s]
  BY SMTT(30) DEF RequestsInv, Works, Finds, Permits
<1> HIDE DEF n
<1>4. QED
  BY <1>2, <1>3

\* A job that looks for its user's membership stops at the first one that is the group's or null.
LEMMA FindMemberJob ==
    ASSUME NEW r \in Requests, NEW u \in Users, FindMember(r, u)
    PROVE  \E job : /\ Set(r, u, job)
                    /\ \/ /\ job.at = "done"
                          /\ \A i \in DOMAIN Fetched(u).groups :
                               Fetched(u).groups[i].group \notin {request[r].group, None}
                       \/ job.at = "failed" /\ \E i \in DOMAIN Fetched(u).groups : Fetched(u).groups[i].group = None
                       \/ /\ job.seen = Fetched(u) /\ job.position \in DOMAIN Fetched(u).groups
                          /\ job.seen.groups[job.position].group = request[r].group
                          /\ job.at = IF job.seen.groups[job.position].permission = None
                                      THEN "write" ELSE "permission"
<1> DEFINE seen == Fetched(u)
<1>1. CASE /\ \A i \in DOMAIN seen.groups : seen.groups[i].group \notin {request[r].group, None}
           /\ Set(r, u, WithoutUser("done"))
  BY <1>1 DEF WithoutUser
<1>2. ASSUME NEW i \in DOMAIN seen.groups, seen.groups[i].group \in {request[r].group, None},
             Set(r, u, IF seen.groups[i].group = None THEN WithoutUser("failed")
                       ELSE [at |-> IF seen.groups[i].permission = None THEN "write" ELSE "permission",
                             seen |-> seen, position |-> i])
      PROVE  \E job : /\ Set(r, u, job)
                      /\ \/ job.at = "failed" /\ \E k \in DOMAIN seen.groups : seen.groups[k].group = None
                         \/ /\ job.seen = seen /\ job.position \in DOMAIN seen.groups
                            /\ job.seen.groups[job.position].group = request[r].group
                            /\ job.at = IF job.seen.groups[job.position].permission = None
                                        THEN "write" ELSE "permission"
  <2>1. CASE seen.groups[i].group = None
    BY <1>2, <2>1 DEF WithoutUser
  <2>2. CASE seen.groups[i].group # None
    <3> DEFINE job == [at |-> IF seen.groups[i].permission = None THEN "write" ELSE "permission",
                       seen |-> seen, position |-> i]
    <3>1. Set(r, u, job)
      BY <1>2, <2>2
    <3>2. /\ job.seen = seen /\ job.position = i /\ seen.groups[i].group = request[r].group
          /\ job.at = IF seen.groups[i].permission = None THEN "write" ELSE "permission"
      BY <1>2, <2>2
    <3> HIDE DEF job
    <3>3. QED
      BY <3>1, <3>2
  <2>3. QED
    BY <2>1, <2>2
<1>3. \/ /\ \A i \in DOMAIN seen.groups : seen.groups[i].group \notin {request[r].group, None}
         /\ Set(r, u, WithoutUser("done"))
      \/ \E i \in DOMAIN seen.groups :
           /\ seen.groups[i].group \in {request[r].group, None}
           /\ Set(r, u, IF seen.groups[i].group = None THEN WithoutUser("failed")
                        ELSE [at |-> IF seen.groups[i].permission = None THEN "write" ELSE "permission",
                              seen |-> seen, position |-> i])
  BY DEF FindMember
<1> HIDE DEF seen
<1>4. QED
  BY <1>1, <1>2, <1>3 DEF seen

-----------------------------------------------------------------------------
(* Memberships stay distinct.                                              *)

LEMMA OnceKept ==
    ASSUME OnceInv, NEW r \in Requests, UsersOnce', RequestOnce(request'[r]),
           \A s \in Requests : s # r => request'[s] = request[s]
    PROVE  OnceInv'
BY DEF OnceInv

LEMMA OnceIdle == RequestOnce(Idle)
BY IdleFields DEF RequestOnce

\* A user is written once with memberships that are distinct.
LEMMA WrittenOnce ==
    ASSUME TypeOK, UsersOnce, NEW u \in Users, NEW account, Once(account.groups),
           user' = [user EXCEPT ![u] = account]
    PROVE  UsersOnce'
BY DEF UsersOnce, TypeOK

LEMMA BeginsOnce ==
    ASSUME IInv, OnceInv, NEW r \in Requests,
           \/ CreateGroup(r) \/ DeleteGroup(r) \/ DeleteUsers(r) \/ Invite(r) \/ Register(r) \/ AddDevice(r)
    PROVE  OnceInv'
<1>1. CASE CreateGroup(r) \/ DeleteGroup(r) \/ DeleteUsers(r) \/ Invite(r) \/ AddDevice(r)
  <2>1. /\ Begun(r) /\ request'[r].op \in {"createGroup", "deleteGroup", "deleteUsers", "invite", "addDevice"}
        /\ request'[r].op = "invite" => request'[r].at = "find"
        /\ \A u \in DOMAIN request'[r].work : request'[r].work[u].at = "find"
    BY <1>1, CreateGroupBegins, DeleteGroupBegins, DeleteUsersBegins, InviteBegins, AddDeviceBegins, IdleFields
  <2>2. RequestOnce(request'[r])
    BY <2>1 DEF RequestOnce
  <2>3. UsersOnce'
    BY <2>1 DEF Begun, store, OnceInv, UsersOnce
  <2>4. QED
    BY <2>1, <2>2, <2>3, OnceKept DEF Begun
<1>2. CASE Register(r)
  <2>1. PICK u \in Users : request'[r].seen = Fetched(u)
    BY <1>2, RegisterBegins
  <2>2. Begun(r) /\ request'[r].op = "register" /\ request'[r].work = <<>>
    BY <1>2, RegisterBegins
  <2>3. Once(request'[r].seen.groups)
    BY <2>1, FetchedOnce DEF IInv, OnceInv
  <2>4. RequestOnce(request'[r])
    BY <2>2, <2>3, IdleFields DEF RequestOnce
  <2>5. UsersOnce'
    BY <2>2 DEF Begun, store, OnceInv, UsersOnce
  <2>6. QED
    BY <2>2, <2>4, <2>5, OnceKept DEF Begun
<1>3. QED
  BY <1>1, <1>2

LEMMA DoneOnce ==
    ASSUME IInv, OnceInv, NEW r \in Requests, Done(r), UsersOnce'
    PROVE  OnceInv'
BY DoneFields, OnceIdle, OnceKept DEF IInv

LEMMA GotoOnce ==
    ASSUME IInv, OnceInv, NEW r \in Requests, NEW at, at # "push", Goto(r, at), UsersOnce'
    PROVE  OnceInv'
<1>1. RequestOnce(request[r])
  BY DEF OnceInv
<1>2. RequestOnce(request'[r])
  BY <1>1, GotoFields DEF RequestOnce, IInv
<1>3. QED
  BY <1>2, GotoFields, OnceKept DEF IInv

LEMMA SetOnce ==
    ASSUME IInv, OnceInv, NEW r \in Requests, NEW u, NEW job, Set(r, u, job), UsersOnce',
           job.at \in {"permission", "write"} => Once(job.seen.groups)
    PROVE  OnceInv'
<1>1. RequestOnce(request[r])
  BY DEF OnceInv
<1>2. /\ request'[r].op = request[r].op /\ request'[r].at = request[r].at /\ request'[r].seen = request[r].seen
      /\ request'[r].group = request[r].group
      /\ DOMAIN request'[r].work = DOMAIN request[r].work
      /\ \A v \in DOMAIN request[r].work :
           request'[r].work[v] = IF v = u THEN job ELSE request[r].work[v]
      /\ \A s \in Requests : s # r => request'[s] = request[s]
  BY SetFields DEF IInv
<1>3. \A v \in DOMAIN request'[r].work : request'[r].work[v].at \in {"permission", "write"}
                                         => Once(request'[r].work[v].seen.groups)
  BY <1>1, <1>2 DEF RequestOnce
<1>4. RequestOnce(request'[r])
  BY <1>1, <1>2, <1>3 DEF RequestOnce
<1>5. QED
  BY <1>2, <1>4, OnceKept

LEMMA GroupStepsOnce ==
    ASSUME IInv, OnceInv, NEW r \in Requests,
           Plain(r) \/ FindMembers(r) \/ FindDevices(r) \/ UsersRemoved(r)
    PROVE  OnceInv'
<1>1. UsersOnce'
  BY DEF Plain, FindMembers, FindDevices, UsersRemoved, store, OnceInv, UsersOnce
<1>2. CASE Done(r)
  BY <1>1, <1>2, DoneOnce
<1>3. CASE \E at \in {"store", "erase", "project", "code", "consume", "activate"} : Goto(r, at)
  BY <1>1, <1>3, GotoOnce
<1>4. ASSUME NEW us \in SUBSET Users, request[r].op = "deleteGroup",
             Works(r, "remove", Jobs(us))
      PROVE  OnceInv'
  <2>1. /\ request'[r].work = Jobs(us) /\ request'[r].op = "deleteGroup"
        /\ \A s \in Requests : s # r => request'[s] = request[s]
    BY <1>4, WorkFields DEF IInv
  <2>2. RequestOnce(request'[r])
    BY <2>1 DEF RequestOnce, Jobs, WithoutUser
  <2>3. QED
    BY <1>1, <2>1, <2>2, OnceKept
<1>5. CASE FindMembers(r)
  <2>1. {u \in Users : request[r].group \in GroupsOf(user[u])} \in SUBSET Users
    OBVIOUS
  <2>2. QED
    BY <1>2, <1>4, <1>5, <2>1 DEF FindMembers, At, Works
<1>6. CASE FindDevices(r)
  <2>1. PICK at, found : Finds(r, at, found)
    BY <1>6 DEF FindDevices, Finds
  <2>2. /\ request'[r].work = request[r].work /\ request'[r].op = request[r].op
        /\ \A s \in Requests : s # r => request'[s] = request[s]
    BY <2>1, FoundFields DEF IInv
  <2>3. request[r].op = "deleteGroup" /\ RequestOnce(request[r])
    BY <1>6 DEF FindDevices, At, OnceInv
  <2>4. RequestOnce(request'[r])
    BY <2>2, <2>3 DEF RequestOnce
  <2>5. QED
    BY <1>1, <2>2, <2>4, OnceKept
<1>7. CASE request[r].at = "remove" /\ Works(r, "devices", <<>>)
  <2>1. /\ request'[r].work = <<>> /\ request'[r].op = request[r].op /\ request'[r].at = "devices"
        /\ request'[r].seen = request[r].seen
        /\ \A s \in Requests : s # r => request'[s] = request[s]
    BY <1>7, WorkFields DEF IInv
  <2>2. RequestOnce(request[r])
    BY DEF OnceInv
  <2>3. RequestOnce(request'[r])
    BY <2>1, <2>2, IdleFields DEF RequestOnce
  <2>4. QED
    BY <1>1, <2>1, <2>3, OnceKept
<1>8. QED
  BY <1>2, <1>3, <1>5, <1>6, <1>7 DEF Plain, UsersRemoved, Works

LEMMA FindMemberOnce ==
    ASSUME IInv, OnceInv, NEW r \in Requests, NEW u \in Users, FindMember(r, u)
    PROVE  OnceInv'
<1>1. UsersOnce'
  BY DEF FindMember, store, OnceInv, UsersOnce
<1>2. PICK job : Set(r, u, job) /\ (job.at \in {"permission", "write"} => job.seen = Fetched(u))
  BY FindMemberJob
<1>3. Once(Fetched(u).groups)
  BY FetchedOnce DEF IInv, OnceInv
<1>4. job.at \in {"permission", "write"} => Once(job.seen.groups)
  BY <1>2, <1>3
<1>5. QED
  BY <1>1, <1>2, <1>4, SetOnce

LEMMA WorkOnce ==
    ASSUME OnceInv, NEW r \in Requests, NEW u, u \in DOMAIN request[r].work,
           request[r].work[u].at \in {"permission", "write"}
    PROVE  Once(request[r].work[u].seen.groups)
BY DEF OnceInv, RequestOnce

LEMMA DeletePermissionOnce ==
    ASSUME IInv, OnceInv, NEW r \in Requests, NEW u \in Users, DeletePermission(r, u)
    PROVE  OnceInv'
<1> DEFINE job == request[r].work[u]
<1>1. JobInv(u, job) /\ job.at = "permission" /\ Once(job.seen.groups)
  BY WorkingJob, WorkOnce DEF DeletePermission, Working
<1>2. PICK new : Set(r, u, new) /\ new.seen = job.seen
  <2> DEFINE next == [job EXCEPT !.at = "write"]
  <2>1. Set(r, u, next)
    BY DEF DeletePermission
  <2>2. next.seen = job.seen
    BY SMTT(30), <1>1 DEF JobInv
  <2> HIDE DEF next
  <2>3. QED
    BY SMTT(30), <2>1, <2>2
<1>3. UsersOnce'
  BY SMTT(30) DEF DeletePermission, OnceInv, UsersOnce
<1>4. QED
  BY SMTT(30), <1>1, <1>2, <1>3, SetOnce

LEMMA WriteMemberOnce ==
    ASSUME IInv, OnceInv, NEW r \in Requests, NEW u \in Users, WriteMember(r, u)
    PROVE  OnceInv'
<1> DEFINE job == request[r].work[u]
           left == RemoveAt(job.seen.groups, job.position)
           new == [job.seen EXCEPT !.groups = left]
<1>1. JobInv(u, job) /\ job.at = "write" /\ Once(job.seen.groups)
  BY WorkingJob, WorkOnce DEF WriteMember, Working
<1>2. job.seen \in Account /\ job.position \in DOMAIN job.seen.groups
  BY SMTT(30), <1>1 DEF JobInv, Sound
<1>3. PICK next : Set(r, u, next) /\ next.at \in {"failed", "use", "done"}
  BY <1>1 DEF WriteMember, JobInv
<1>4. CASE UNCHANGED user
  <2>1. UsersOnce'
    BY <1>4 DEF OnceInv, UsersOnce
  <2>2. QED
    BY <1>3, <2>1, SetOnce
<1>5. CASE user' = [user EXCEPT ![u] = new]
  <2>1. job.seen.groups \in Seq(Membership) /\ new.groups = left
    BY <1>2 DEF Account
  <2>2. Once(new.groups)
    BY <1>1, <1>2, <2>1, RemovedOnce
  <2> HIDE DEF new
  <2>3. UsersOnce'
    BY <1>5, <2>2, WrittenOnce DEF IInv, OnceInv
  <2>4. QED
    BY <1>3, <2>3, SetOnce
<1>6. QED
  BY SMTT(30), <1>4, <1>5 DEF WriteMember

LEMMA UseAnotherOnce ==
    ASSUME IInv, OnceInv, NEW r \in Requests, NEW u \in Users, UseAnother(r, u)
    PROVE  OnceInv'
<1> DEFINE groups == user[u].groups
           new == [user[u] EXCEPT !.groups = FirstInUse(groups)]
<1>1. user[u] \in Account /\ Once(groups)
  BY DEF IInv, TypeOK, OnceInv, UsersOnce
<1>2. groups \in Seq(Membership) /\ new.groups = FirstInUse(groups)
  BY <1>1 DEF Account
<1>3. Once(new.groups)
  BY <1>1, <1>2, UsedOnce
<1>4. user' = [user EXCEPT ![u] = new]
  BY DEF UseAnother
<1> HIDE DEF new
<1>5. UsersOnce'
  BY <1>3, <1>4, WrittenOnce DEF IInv, OnceInv
<1>6. JobInv(u, request[r].work[u])
  BY WorkingJob DEF UseAnother, Working
<1>7. PICK next : Set(r, u, next) /\ next.at = "done"
  BY <1>6 DEF UseAnother, JobInv
<1>8. QED
  BY <1>5, <1>7, SetOnce

LEMMA FindInvitedOnce ==
    ASSUME IInv, OnceInv, NEW r \in Requests, FindInvited(r)
    PROVE  OnceInv'
<1> DEFINE q == request[r]
           seen == Fetched(q.user)
<1>1. UsersOnce'
  BY DEF FindInvited, OnceInv, UsersOnce
<1>2. q.op = "invite" /\ q.user \in Users /\ RequestOnce(q)
  BY DEF FindInvited, At, IInv, RequestsInv, RequestInv, OnceInv
<1>3. Once(seen.groups)
  BY <1>2, FetchedOnce DEF IInv, OnceInv
<1>4. ASSUME NEW at \in {"create", "push"}, at = "push" => q.group \notin GroupsOf(seen), Permit(r, at, seen)
      PROVE  OnceInv'
  <2>1. PICK p : Permits(r, at, seen, p)
    BY <1>4 DEF Permit, Permits
  <2>2. /\ request'[r].at = at /\ request'[r].op = q.op /\ request'[r].group = q.group
        /\ request'[r].seen = seen /\ request'[r].work = q.work
        /\ \A s \in Requests : s # r => request'[s] = request[s]
    BY <2>1, PermitFields DEF IInv
  <2>3. RequestOnce(request'[r])
    BY <1>2, <1>3, <1>4, <2>2 DEF RequestOnce
  <2>4. QED
    BY <1>1, <2>2, <2>3, OnceKept
<1>5. CASE Done(r) \/ Goto(r, "mail")
  BY <1>1, <1>5, DoneOnce, GotoOnce
<1>6. QED
  BY <1>4, <1>5 DEF FindInvited

LEMMA CreateAccountOnce ==
    ASSUME IInv, OnceInv, NEW r \in Requests, CreateAccount(r)
    PROVE  OnceInv'
<1> DEFINE q == request[r]
           m == Joined(q.group, q.permission, TRUE)
           new == [status |-> "WAITING", groups |-> <<m>>]
<1>1. q.user \in Users
  BY DEF CreateAccount, At, IInv, RequestsInv, RequestInv
<1>2. UsersOnce'
  <2>1. CASE UNCHANGED user
    BY <2>1 DEF OnceInv, UsersOnce
  <2>2. CASE user' = [user EXCEPT ![q.user] = new]
    <3>0. DOMAIN <<m>> = {1}
      OBVIOUS
    <3>1. new.groups = <<m>> /\ DOMAIN new.groups = {1}
      BY <3>0
    <3>2. Once(new.groups)
      BY <3>1 DEF Once
    <3> HIDE DEF new
    <3>3. QED
      BY <1>1, <2>2, <3>2, WrittenOnce DEF IInv, OnceInv
  <2>3. QED
    BY <2>1, <2>2 DEF CreateAccount
<1>3. QED
  BY <1>2, DoneOnce, GotoOnce DEF CreateAccount

LEMMA JoinGroupOnce ==
    ASSUME IInv, OnceInv, NEW r \in Requests, JoinGroup(r)
    PROVE  OnceInv'
<1> DEFINE q == request[r]
           m == NewMembership(q.group, q.permission)
           groups == Append(q.seen.groups, m)
           new == [q.seen EXCEPT !.groups = groups]
<1>1. q.user \in Users /\ q.seen \in Account
  BY DEF JoinGroup, At, IInv, RequestsInv, RequestInv, Sound
<1>2. Once(q.seen.groups) /\ q.group \notin GroupsOf(q.seen)
  BY DEF JoinGroup, At, OnceInv, RequestOnce
<1>3. q.seen.groups \in Seq(Membership) /\ new.groups = groups
  BY <1>1 DEF Account
<1>4. m.inUse = FALSE /\ \A i \in DOMAIN q.seen.groups : q.seen.groups[i].group # m.group
  BY <1>2 DEF NewMembership, Joined, GroupsOf
<1> HIDE DEF m
<1>5. Once(groups)
  BY <1>2, <1>3, <1>4, AppendedOnce
<1>6. user' = [user EXCEPT ![q.user] = new]
  BY DEF JoinGroup, WithMembership, m
<1> HIDE DEF new, groups
<1>7. UsersOnce'
  BY <1>1, <1>3, <1>5, <1>6, WrittenOnce DEF IInv, OnceInv
<1>8. QED
  BY <1>7, DoneOnce, GotoOnce DEF JoinGroup

LEMMA ActivateOnce ==
    ASSUME IInv, OnceInv, NEW r \in Requests, Activate(r)
    PROVE  OnceInv'
<1> DEFINE q == request[r]
           new == [q.seen EXCEPT !.status = "ACTIVE"]
<1>1. q.user \in Users /\ q.seen \in Account /\ Once(q.seen.groups)
  BY DEF Activate, At, IInv, RequestsInv, RequestInv, Sound, OnceInv, RequestOnce
<1>2. Once(new.groups)
  BY <1>1 DEF Account
<1>3. user' = [user EXCEPT ![q.user] = new]
  BY DEF Activate
<1> HIDE DEF new
<1>4. UsersOnce'
  BY <1>1, <1>2, <1>3, WrittenOnce DEF IInv, OnceInv
<1>5. QED
  BY <1>4, DoneOnce DEF Activate

LEMMA OnceNext == IInv /\ OnceInv /\ [Next]_vars => OnceInv'
<1> SUFFICES ASSUME IInv, OnceInv, [Next]_vars PROVE OnceInv'
  OBVIOUS
<1>1. CASE Restart
  BY <1>1, OnceIdle DEF Restart, store, OnceInv, UsersOnce
<1>2. CASE UNCHANGED vars
  BY <1>2 DEF vars, store, OnceInv, UsersOnce
<1>3. ASSUME NEW r \in Requests, Step(r) PROVE OnceInv'
  <2>1. CASE CreateGroup(r) \/ DeleteGroup(r) \/ DeleteUsers(r) \/ Invite(r) \/ Register(r) \/ AddDevice(r)
    BY <2>1, BeginsOnce
  <2>2. CASE \/ CreateProject(r) \/ StoreGroup(r) \/ UnplaceDevices(r) \/ DeleteProject(r) \/ EraseGroup(r)
             \/ FindCode(r) \/ CreateCode(r) \/ CheckCode(r) \/ ConsumeCode(r) \/ PlaceDevice(r)
    BY <2>2, PlainSteps, GroupStepsOnce
  <2>3. CASE FindMembers(r) \/ FindDevices(r) \/ UsersRemoved(r)
    BY <2>3, GroupStepsOnce
  <2>4. ASSUME NEW u \in Users, FindMember(r, u) PROVE OnceInv'
    BY <2>4, FindMemberOnce
  <2>5. ASSUME NEW u \in Users, DeletePermission(r, u) PROVE OnceInv'
    BY <2>5, DeletePermissionOnce
  <2>6. ASSUME NEW u \in Users, WriteMember(r, u) PROVE OnceInv'
    BY <2>6, WriteMemberOnce
  <2>7. ASSUME NEW u \in Users, UseAnother(r, u) PROVE OnceInv'
    BY <2>7, UseAnotherOnce
  <2>8. CASE FindInvited(r)
    BY <2>8, FindInvitedOnce
  <2>9. CASE CreateAccount(r)
    BY <2>9, CreateAccountOnce
  <2>10. CASE JoinGroup(r)
    BY <2>10, JoinGroupOnce
  <2>11. CASE Activate(r)
    BY <2>11, ActivateOnce
  <2>12. QED
    BY <1>3, <2>1, <2>2, <2>3, <2>4, <2>5, <2>6, <2>7, <2>8, <2>9, <2>10, <2>11 DEF Step
<1>4. QED
  BY <1>1, <1>2, <1>3 DEF Next

LEMMA InitOnce == Init => OnceInv
<1> SUFFICES ASSUME Init PROVE OnceInv
  OBVIOUS
<1>1. ASSUME NEW u \in Users PROVE Once(user[u].groups)
  <2>1. CASE u = Admin
    <3>1. user[u].groups = <<Joined(Root, Full, TRUE)>>
      BY <2>1 DEF Init
    <3>2. DOMAIN <<Joined(Root, Full, TRUE)>> = {1}
      OBVIOUS
    <3>3. QED
      BY <3>1, <3>2 DEF Once
  <2>2. CASE u # Admin
    <3>1. user[u].groups = <<>> /\ DOMAIN <<>> = {}
      BY <2>2 DEF Init, NoAccount
    <3>2. QED
      BY <3>1 DEF Once
  <2>3. QED
    BY <2>1, <2>2
<1>2. \A r \in Requests : RequestOnce(request[r])
  BY OnceIdle DEF Init
<1>3. QED
  BY <1>1, <1>2 DEF OnceInv, UsersOnce

\* Whatever interleaves, invite never appends a group that its user already has, and
\* deleteUsers leaves only the first group in use: the copies written back are distinct too.
THEOREM NobodyJoinsTwice == Spec => []JoinedOnce
<1>1. OnceInv => JoinedOnce
  BY DEF OnceInv, UsersOnce, Once, JoinedOnce
<1>2. Spec => []OnceInv
  BY InitOnce, OnceNext, CopiesSound, PTL DEF Spec
<1>3. QED
  BY <1>1, <1>2, PTL

-----------------------------------------------------------------------------
(* Projects on the platform.                                               *)

\* The group a request is to create or delete: its id is taken, it is stored last, and by
\* then its project is on the platform if it needs one.
RequestOwn(q) ==
    /\ q.op \in {"createGroup", "deleteGroup"} => q.group \in allocated
    /\ q.op = "createGroup" => q.at \in {"project", "store"} /\ q.group \notin DOMAIN group
    /\ q.op = "createGroup" /\ q.at = "store" /\ Len(q.path) = 1 => q.group \in projects

\* Nobody else knows the group that is being created.
Unshared ==
    \A r, s \in Requests :
        r # s /\ request[r].op = "createGroup" /\ request[s].op \in {"createGroup", "deleteGroup"}
        => request[r].group # request[s].group

ProjectInv ==
    /\ mishaps \in Nat
    /\ DOMAIN group \subseteq allocated
    /\ \A r \in Requests : RequestOwn(request[r])
    /\ Unshared
    /\ ProjectsBacked

\* A step that leaves alone what its request is to create or delete.
Unconcerned(r) ==
    \/ ~At(r, "deleteGroup", "erase") /\ request'[r].op \notin {"createGroup", "deleteGroup"}
    \/ /\ request'[r].op = request[r].op /\ request'[r].group = request[r].group
       /\ request'[r].path = request[r].path
       /\ request[r].op = "createGroup" => request'[r].at = request[r].at
       /\ At(r, "deleteGroup", "erase") => request'[r].at = "erase"

LEMMA ProjectFrame ==
    ASSUME ProjectInv, NEW r \in Requests, UNCHANGED <<group, projects>>, allocated \subseteq allocated',
           mishaps' \in {mishaps, mishaps + 1}, Unconcerned(r),
           \A s \in Requests : s # r => request'[s] = request[s]
    PROVE  ProjectInv'
<1>1. mishaps' \in Nat /\ (mishaps' = 0 => mishaps = 0)
  BY DEF ProjectInv
<1>2. (DOMAIN group \subseteq allocated)'
  BY DEF ProjectInv
<1>3. ASSUME NEW s \in Requests PROVE RequestOwn(request[s])'
  BY <1>3 DEF ProjectInv, RequestOwn, Unconcerned
<1>4. Unshared'
  BY DEF ProjectInv, Unshared, Unconcerned
<1>5. ProjectsBacked'
  BY <1>1 DEF ProjectInv, ProjectsBacked, Unconcerned, At
<1>6. QED
  BY <1>1, <1>2, <1>3, <1>4, <1>5 DEF ProjectInv

LEMMA IdleUnconcerned ==
    ASSUME IInv, NEW r \in Requests, ~At(r, "deleteGroup", "erase"), Done(r)
    PROVE  Unconcerned(r) /\ \A s \in Requests : s # r => request'[s] = request[s]
BY DoneFields, IdleFields DEF IInv, Unconcerned

LEMMA GotoUnconcerned ==
    ASSUME IInv, NEW r \in Requests, NEW at, Goto(r, at),
           ~At(r, "deleteGroup", "erase"), request[r].op # "createGroup"
    PROVE  Unconcerned(r) /\ \A s \in Requests : s # r => request'[s] = request[s]
BY GotoFields DEF IInv, Unconcerned

LEMMA SetUnconcerned ==
    ASSUME IInv, NEW r \in Requests, NEW u, NEW job, Set(r, u, job)
    PROVE  Unconcerned(r) /\ \A s \in Requests : s # r => request'[s] = request[s]
<1>1. /\ request'[r].op = request[r].op /\ request'[r].group = request[r].group
      /\ request'[r].path = request[r].path /\ request'[r].at = request[r].at
      /\ \A s \in Requests : s # r => request'[s] = request[s]
  BY SetFields DEF IInv
<1>2. QED
  BY <1>1 DEF Unconcerned, At

LEMMA JobProject ==
    ASSUME IInv, ProjectInv, NEW r \in Requests, NEW u \in Users,
           FindMember(r, u) \/ DeletePermission(r, u) \/ WriteMember(r, u) \/ UseAnother(r, u)
    PROVE  ProjectInv'
<1>1. PICK job : Set(r, u, job)
  <2>1. CASE FindMember(r, u)
    BY ZenonT(60), <2>1 DEF FindMember
  <2>2. CASE DeletePermission(r, u) \/ WriteMember(r, u) \/ UseAnother(r, u)
    BY ZenonT(60), <2>2 DEF DeletePermission, WriteMember, UseAnother
  <2>3. QED
    BY SMTT(30), <2>1, <2>2
<1>2. UNCHANGED <<group, projects, allocated, mishaps>>
  BY DEF FindMember, DeletePermission, WriteMember, UseAnother, store, Bounds
<1>3. QED
  BY <1>1, <1>2, SetUnconcerned, ProjectFrame

LEMMA InviteProject ==
    ASSUME IInv, ProjectInv, NEW r \in Requests,
           \/ FindInvited(r) \/ CreateAccount(r) \/ JoinGroup(r) \/ FindCode(r) \/ CreateCode(r)
           \/ CheckCode(r) \/ ConsumeCode(r) \/ Activate(r) \/ PlaceDevice(r)
    PROVE  ProjectInv'
<1>1. /\ request[r].op \in {"invite", "register", "addDevice"}
      /\ UNCHANGED <<group, projects>> /\ allocated \subseteq allocated' /\ mishaps' \in {mishaps, mishaps + 1}
  BY DEF At, FindInvited, Permit, CreateAccount, JoinGroup, FindCode, CreateCode, CheckCode, ConsumeCode,
         Activate, PlaceDevice, Bounds, Mishap
<1>2. CASE Done(r)
  BY <1>1, <1>2, IdleUnconcerned, ProjectFrame DEF At
<1>3. CASE \E at : Goto(r, at)
  BY <1>1, <1>3, GotoUnconcerned, ProjectFrame DEF At
<1>4. CASE \E at, seen, p : Permits(r, at, seen, p)
  <2>1. request'[r].op = request[r].op /\ \A s \in Requests : s # r => request'[s] = request[s]
    BY <1>4, PermitFields DEF IInv
  <2>2. Unconcerned(r)
    BY SMTT(30), <1>1, <2>1 DEF Unconcerned, At
  <2>3. QED
    BY <1>1, <2>1, <2>2, ProjectFrame
<1>5. Done(r) \/ (\E at : Goto(r, at)) \/ \E at, seen, p : Permits(r, at, seen, p)
  BY DEF FindInvited, Permit, Permits, CreateAccount, JoinGroup, FindCode, CreateCode, CheckCode, ConsumeCode,
         Activate, PlaceDevice
<1>6. QED
  BY SMTT(30), <1>2, <1>3, <1>4, <1>5

\* Of a deletion, the steps before its group is gone.
LEMMA RemovalProject ==
    ASSUME IInv, ProjectInv, NEW r \in Requests,
           FindMembers(r) \/ UsersRemoved(r) \/ FindDevices(r) \/ UnplaceDevices(r)
    PROVE  ProjectInv'
<1>1. /\ request[r].at \in {"users", "remove", "devices", "unplace"}
      /\ UNCHANGED <<group, projects, allocated, mishaps>>
  BY DEF At, FindMembers, UsersRemoved, FindDevices, UnplaceDevices, store, Bounds
<1>2. request[r].op # "createGroup" /\ ~At(r, "deleteGroup", "erase")
  BY <1>1 DEF ProjectInv, RequestOwn, At
<1>3. CASE Done(r)
  BY <1>1, <1>2, <1>3, IdleUnconcerned, ProjectFrame
<1>4. CASE \E at : Goto(r, at)
  BY <1>1, <1>2, <1>4, GotoUnconcerned, ProjectFrame
<1>5. CASE (\E at, work : Works(r, at, work)) \/ \E at, found : Finds(r, at, found)
  <2>1. /\ request'[r].op = request[r].op /\ request'[r].group = request[r].group
        /\ request'[r].path = request[r].path
        /\ \A s \in Requests : s # r => request'[s] = request[s]
    BY <1>5, WorkFields, FoundFields DEF IInv
  <2>2. Unconcerned(r)
    BY <1>2, <2>1 DEF Unconcerned
  <2>3. QED
    BY <1>1, <2>1, <2>2, ProjectFrame
<1>6. \/ Done(r) \/ (\E at : Goto(r, at))
      \/ (\E at, work : Works(r, at, work)) \/ \E at, found : Finds(r, at, found)
  BY DEF FindMembers, UsersRemoved, FindDevices, UnplaceDevices, Works, Finds
<1>7. QED
  BY <1>3, <1>4, <1>5, <1>6

LEMMA BeginsProject ==
    ASSUME IInv, ProjectInv, NEW r \in Requests,
           DeleteUsers(r) \/ Invite(r) \/ Register(r) \/ AddDevice(r)
    PROVE  ProjectInv'
<1>1. /\ Begun(r) /\ UNCHANGED allocated
      /\ request'[r].op \in {"deleteUsers", "invite", "register", "addDevice"}
  BY DeleteUsersBegins, InviteBegins, RegisterBegins, AddDeviceBegins
<1>2. Unconcerned(r)
  BY <1>1, IdleFields DEF Unconcerned, Begun, At
<1>3. QED
  BY <1>1, <1>2, ProjectFrame DEF Begun, store

LEMMA CreateGroupProject ==
    ASSUME IInv, ProjectInv, NEW r \in Requests, CreateGroup(r)
    PROVE  ProjectInv'
<1>1. PICK parent \in DOMAIN group, new \in Groups \ allocated :
        /\ allocated' = allocated \cup {new}
        /\ request'[r].op = "createGroup" /\ request'[r].group = new
        /\ request'[r].at = IF group[parent] = <<>> THEN "project" ELSE "store"
        /\ request'[r].path = Append(group[parent], parent)
  BY CreateGroupBegins
<1>2. /\ request[r] = Idle /\ UNCHANGED <<group, projects, mishaps>>
      /\ \A s \in Requests : s # r => request'[s] = request[s]
  BY CreateGroupBegins DEF Begun, store
<1>3. Len(request'[r].path) = 1 => group[parent] = <<>>
  <2>1. group[parent] \in Seq(Groups) /\ parent \in Groups
    BY DEF IInv, TypeOK
  <2>2. Len(request'[r].path) = Len(group[parent]) + 1 /\ Len(group[parent]) \in Nat
    BY <1>1, <2>1, AppendProperties, LenProperties
  <2>3. Len(request'[r].path) = 1 => Len(group[parent]) = 0
    <3>1. PICK n \in Nat : n = Len(group[parent]) /\ Len(request'[r].path) = n + 1
      BY <2>2
    <3>2. n + 1 = 1 => n = 0
      OBVIOUS
    <3>3. QED
      BY <3>1, <3>2
  <2>4. Len(group[parent]) = 0 => group[parent] = <<>>
    BY <2>1, EmptySeq
  <2>5. QED
    BY <2>3, <2>4
<1>4. ASSUME NEW s \in Requests PROVE RequestOwn(request[s])'
  <2>1. CASE s = r
    BY <1>1, <1>2, <1>3, <2>1 DEF RequestOwn, ProjectInv
  <2>2. CASE s # r
    BY <1>1, <1>2, <2>2 DEF RequestOwn, ProjectInv
  <2>3. QED
    BY <2>1, <2>2
<1>5. Unshared'
  BY <1>1, <1>2 DEF ProjectInv, Unshared, RequestOwn
<1>6. ProjectsBacked'
  BY <1>2, IdleFields DEF ProjectInv, ProjectsBacked, At
<1>7. QED
  BY <1>1, <1>2, <1>4, <1>5, <1>6 DEF ProjectInv

LEMMA DeleteGroupProject ==
    ASSUME IInv, ProjectInv, NEW r \in Requests, DeleteGroup(r)
    PROVE  ProjectInv'
<1>1. PICK g \in DOMAIN group : request'[r].op = "deleteGroup" /\ request'[r].group = g
  BY DeleteGroupBegins
<1>2. /\ request[r] = Idle /\ UNCHANGED <<group, projects, mishaps, allocated>>
      /\ \A s \in Requests : s # r => request'[s] = request[s]
  BY DeleteGroupBegins DEF Begun, store
<1>3. ASSUME NEW s \in Requests PROVE RequestOwn(request[s])'
  BY <1>1, <1>2 DEF RequestOwn, ProjectInv
<1>4. Unshared'
  BY <1>1, <1>2 DEF ProjectInv, Unshared, RequestOwn
<1>5. ProjectsBacked'
  BY <1>2, IdleFields DEF ProjectInv, ProjectsBacked, At
<1>6. QED
  BY <1>2, <1>3, <1>4, <1>5 DEF ProjectInv

LEMMA CreateProjectProject ==
    ASSUME IInv, ProjectInv, NEW r \in Requests, CreateProject(r)
    PROVE  ProjectInv'
<1>1. /\ At(r, "createGroup", "project") /\ UNCHANGED <<group, allocated, mishaps>>
  BY DEF CreateProject, Bounds
<1>2. CASE Done(r) /\ UNCHANGED projects
  BY <1>1, <1>2, IdleUnconcerned, ProjectFrame DEF At
<1>3. CASE Goto(r, "store") /\ projects' = projects \cup {request[r].group}
  <2>1. /\ request'[r].op = "createGroup" /\ request'[r].at = "store" /\ request'[r].group = request[r].group
        /\ \A s \in Requests : s # r => request'[s] = request[s]
    BY <1>1, <1>3, GotoFields DEF IInv, At
  <2>2. ASSUME NEW s \in Requests PROVE RequestOwn(request[s])'
    BY <1>1, <1>3, <2>1 DEF RequestOwn, ProjectInv, At
  <2>3. Unshared'
    BY <1>1, <2>1 DEF ProjectInv, Unshared, At
  <2>4. ProjectsBacked'
    BY <1>1, <1>3, <2>1 DEF ProjectInv, ProjectsBacked, At
  <2>5. QED
    BY <1>1, <2>2, <2>3, <2>4 DEF ProjectInv
<1>4. QED
  BY <1>2, <1>3 DEF CreateProject, Refused

LEMMA StoreGroupProject ==
    ASSUME IInv, ProjectInv, NEW r \in Requests, StoreGroup(r)
    PROVE  ProjectInv'
<1> DEFINE g == request[r].group
<1>1. /\ At(r, "createGroup", "store") /\ UNCHANGED <<projects, allocated, mishaps>>
      /\ group' = [h \in DOMAIN group \cup {g} |-> IF h = g THEN request[r].path ELSE group[h]]
  BY DEF StoreGroup, Bounds
<1>2. request'[r] = Idle /\ \A s \in Requests : s # r => request'[s] = request[s]
  BY DoneFields DEF StoreGroup, IInv
<1>3. /\ DOMAIN group' = DOMAIN group \cup {g} /\ group'[g] = request[r].path
      /\ \A h \in DOMAIN group : h # g => group'[h] = group[h]
  BY <1>1
<1>4. g \notin DOMAIN group /\ g \in allocated /\ (Len(request[r].path) = 1 => g \in projects)
  BY <1>1 DEF ProjectInv, RequestOwn, At
<1>5. ASSUME NEW s \in Requests PROVE RequestOwn(request[s])'
  <2>1. CASE s = r
    BY <1>2, <2>1, IdleFields DEF RequestOwn
  <2>2. CASE s # r
    BY <1>1, <1>2, <1>3, <2>2 DEF RequestOwn, ProjectInv, Unshared, At
  <2>3. QED
    BY <2>1, <2>2
<1>6. Unshared'
  BY <1>2, IdleFields DEF ProjectInv, Unshared
<1>7. ProjectsBacked'
  BY <1>1, <1>2, <1>3, <1>4, IdleFields DEF ProjectInv, ProjectsBacked, At
<1>8. QED
  BY <1>1, <1>3, <1>4, <1>5, <1>6, <1>7 DEF ProjectInv

LEMMA DeleteProjectProject ==
    ASSUME IInv, ProjectInv, NEW r \in Requests, DeleteProject(r)
    PROVE  ProjectInv'
<1> DEFINE g == request[r].group
<1>1. /\ At(r, "deleteGroup", "project") /\ UNCHANGED <<group, allocated, mishaps>>
      /\ projects \ {g} \subseteq projects'
  BY DEF DeleteProject, Bounds
<1>2. /\ request'[r].op = "deleteGroup" /\ request'[r].at = "erase" /\ request'[r].group = g
      /\ \A s \in Requests : s # r => request'[s] = request[s]
  BY <1>1, GotoFields DEF DeleteProject, IInv, At
<1>3. ASSUME NEW s \in Requests PROVE RequestOwn(request[s])'
  <2>1. CASE s = r
    BY <1>1, <1>2, <2>1 DEF RequestOwn, ProjectInv, At
  <2>2. CASE s # r
    BY <1>1, <1>2, <2>2 DEF RequestOwn, ProjectInv, Unshared, At
  <2>3. QED
    BY <2>1, <2>2
<1>4. Unshared'
  BY <1>1, <1>2 DEF ProjectInv, Unshared, At
<1>5. ProjectsBacked'
  BY <1>1, <1>2 DEF ProjectInv, ProjectsBacked, At
<1>6. QED
  BY <1>1, <1>3, <1>4, <1>5 DEF ProjectInv

LEMMA EraseGroupProject ==
    ASSUME IInv, ProjectInv, NEW r \in Requests, EraseGroup(r)
    PROVE  ProjectInv'
<1> DEFINE g == request[r].group
<1>1. /\ At(r, "deleteGroup", "erase") /\ UNCHANGED <<projects, allocated, mishaps>>
      /\ group' = [h \in DOMAIN group \ {g} |-> group[h]]
  BY DEF EraseGroup, Bounds
<1>2. request'[r] = Idle /\ \A s \in Requests : s # r => request'[s] = request[s]
  BY DoneFields DEF EraseGroup, IInv
<1>3. DOMAIN group' = DOMAIN group \ {g} /\ \A h \in DOMAIN group' : group'[h] = group[h]
  BY <1>1
<1>4. ASSUME NEW s \in Requests PROVE RequestOwn(request[s])'
  BY <1>1, <1>2, <1>3, IdleFields DEF RequestOwn, ProjectInv
<1>5. Unshared'
  BY <1>2, IdleFields DEF ProjectInv, Unshared
<1>6. ProjectsBacked'
  BY <1>1, <1>2, <1>3 DEF ProjectInv, ProjectsBacked, At
<1>7. QED
  BY <1>1, <1>3, <1>4, <1>5, <1>6 DEF ProjectInv

LEMMA ProjectNext == IInv /\ ProjectInv /\ [Next]_vars => ProjectInv'
<1> SUFFICES ASSUME IInv, ProjectInv, [Next]_vars PROVE ProjectInv'
  OBVIOUS
<1>1. CASE Restart
  <2>1. /\ UNCHANGED <<group, projects, allocated>> /\ mishaps' = mishaps + 1
        /\ \A r \in Requests : request'[r] = Idle
    BY <1>1 DEF Restart, store, Mishap
  <2>2. mishaps' \in Nat /\ mishaps' # 0
    BY <2>1 DEF ProjectInv
  <2>3. \A r \in Requests : RequestOwn(request[r])'
    BY <2>1, IdleFields DEF RequestOwn
  <2>4. Unshared'
    BY <2>1, IdleFields DEF Unshared
  <2>5. ProjectsBacked'
    BY <2>2 DEF ProjectsBacked
  <2>6. QED
    BY <2>1, <2>2, <2>3, <2>4, <2>5 DEF ProjectInv
<1>2. CASE UNCHANGED vars
  BY <1>2 DEF vars, store, ProjectInv, RequestOwn, Unshared, ProjectsBacked, At
<1>3. ASSUME NEW r \in Requests, Step(r) PROVE ProjectInv'
  <2>1. CASE DeleteUsers(r) \/ Invite(r) \/ Register(r) \/ AddDevice(r)
    BY <2>1, BeginsProject
  <2>2. CASE CreateGroup(r) \/ DeleteGroup(r) \/ CreateProject(r) \/ StoreGroup(r) \/ DeleteProject(r) \/ EraseGroup(r)
    BY <2>2, CreateGroupProject, DeleteGroupProject, CreateProjectProject, StoreGroupProject,
       DeleteProjectProject, EraseGroupProject
  <2>3. CASE FindMembers(r) \/ UsersRemoved(r) \/ FindDevices(r) \/ UnplaceDevices(r)
    BY <2>3, RemovalProject
  <2>4. CASE \E u \in Users : FindMember(r, u) \/ DeletePermission(r, u) \/ WriteMember(r, u) \/ UseAnother(r, u)
    BY <2>4, JobProject
  <2>5. CASE \/ FindInvited(r) \/ CreateAccount(r) \/ JoinGroup(r) \/ FindCode(r) \/ CreateCode(r)
             \/ CheckCode(r) \/ ConsumeCode(r) \/ Activate(r) \/ PlaceDevice(r)
    BY <2>5, InviteProject
  <2>6. QED
    BY <1>3, <2>1, <2>2, <2>3, <2>4, <2>5 DEF Step
<1>4. QED
  BY <1>1, <1>2, <1>3 DEF Next

LEMMA InitProject == Init => ProjectInv
<1> SUFFICES ASSUME Init PROVE ProjectInv
  OBVIOUS
<1>1. /\ mishaps = 0 /\ DOMAIN group = {Root} /\ group[Root] = <<>> /\ Root \in allocated
      /\ \A r \in Requests : request[r] = Idle
  BY DEF Init
<1>2. Len(<<>>) # 1
  BY EmptySeq
<1>3. ProjectsBacked
  BY <1>1, <1>2 DEF ProjectsBacked
<1>4. QED
  BY <1>1, <1>3, IdleFields DEF ProjectInv, RequestOwn, Unshared

\* Whatever interleaves, a group below the root has its project on the platform: it is stored
\* after the platform has agreed, nobody else can delete it before it is stored, and its
\* deletion takes the project away last, right before the document.
THEOREM ProjectsStay == Spec => []ProjectsBacked
<1>1. ProjectInv => ProjectsBacked
  BY DEF ProjectInv
<1>2. Spec => []ProjectInv
  BY InitProject, ProjectNext, CopiesSound, PTL DEF Spec
<1>3. QED
  BY <1>1, <1>2, PTL

-----------------------------------------------------------------------------
(* When requests do not overlap, nothing refers to a group that is gone.   *)

\* The ancestors on a path exist, each with the part of the path above it.
OnTree(path) ==
    \A n \in 1..Len(path) : path[n] \in DOMAIN group /\ group[path[n]] = SubSeq(path, 1, n - 1)

KnownAccount(account) == GroupsOf(account) \subseteq DOMAIN group

StoreKnown ==
    /\ \A g \in DOMAIN group : OnTree(group[g])
    /\ \A u \in Users : KnownAccount(user[u])
    /\ \A d \in Devices : placed[d] \subseteq DOMAIN group

\* The group that is being deleted has none below it; once the users are through nobody belongs
\* to it, and once the devices are none is placed in it.
DeletionKnown(q) ==
    /\ \A h \in DOMAIN group : q.group \notin ToSet(group[h])
    /\ q.at = "remove" =>
        \A u \in Users : q.group \in GroupsOf(user[u]) =>
            u \in DOMAIN q.work /\ q.work[u].at \notin {"use", "done"}
    /\ q.at \in {"devices", "unplace", "project", "erase"} =>
        \A u \in Users : q.group \notin GroupsOf(user[u])
    /\ q.at = "unplace" => \A d \in Devices : q.group \in placed[d] => d \in q.found
    /\ q.at \in {"project", "erase"} => \A d \in Devices : q.group \notin placed[d]

WorkKnown(q) ==
    \A u \in DOMAIN q.work :
        /\ q.work[u].at \in {"permission", "write"} =>
            /\ KnownAccount(q.work[u].seen)
            /\ q.work[u].seen.groups[q.work[u].position].group = q.group
        /\ q.work[u].at = "use" => user[u].groups # <<>>

RequestKnown(q) ==
    /\ q.op = "createGroup" => OnTree(q.path)
    /\ q.op \in {"addDevice", "invite", "deleteGroup"} => q.group \in DOMAIN group
    /\ q.op = "invite" /\ q.at = "push" => KnownAccount(q.seen)
    /\ q.op = "register" => KnownAccount(q.seen)
    /\ q.op = "deleteGroup" => DeletionKnown(q)
    /\ WorkKnown(q)

Lone == \A r, s \in Requests : request[r] # Idle /\ request[s] # Idle => r = s

KnownInv == ~overlap => Lone /\ StoreKnown /\ \A r \in Requests : RequestKnown(request[r])

\* The situation of a step of request r that overlaps with no other.
Serial(r) ==
    /\ ~overlap /\ StoreKnown /\ RequestKnown(request[r])
    /\ \A s \in Requests : s # r => request[s] = Idle

LEMMA Serially ==
    ASSUME KnownInv, ~overlap, NEW r \in Requests, request[r].op # "idle" \/ request[r].at # "idle" \/ Quiet
    PROVE  Serial(r)
BY IdleFields DEF KnownInv, Lone, Serial, Quiet

LEMMA KnownKept ==
    ASSUME NEW r \in Requests, UNCHANGED overlap, StoreKnown', RequestKnown(request[r])',
           Serial(r), \A s \in Requests : s # r => request'[s] = request[s]
    PROVE  KnownInv'
<1>1. \A s \in Requests : s # r => request'[s] = Idle
  BY DEF Serial
<1>2. ASSUME NEW s \in Requests PROVE RequestKnown(request[s])'
  BY <1>1, IdleFields DEF RequestKnown, WorkKnown
<1>3. Lone'
  BY <1>1 DEF Lone
<1>4. QED
  BY <1>2, <1>3 DEF KnownInv

LEMMA SameKnown ==
    ASSUME StoreKnown, UNCHANGED <<group, user, placed>>
    PROVE  StoreKnown'
BY DEF StoreKnown, OnTree, KnownAccount, GroupsOf

LEMMA UserKnown ==
    ASSUME TypeOK, StoreKnown, NEW u \in Users, NEW account, KnownAccount(account),
           user' = [user EXCEPT ![u] = account], UNCHANGED <<group, placed>>
    PROVE  StoreKnown'
<1>1. \A v \in Users : user'[v] = IF v = u THEN account ELSE user[v]
  BY DEF TypeOK
<1>2. \A v \in Users : KnownAccount(user[v])'
  BY <1>1 DEF StoreKnown, KnownAccount, GroupsOf
<1>3. QED
  BY <1>2 DEF StoreKnown, OnTree

LEMMA DoneKnown ==
    ASSUME IInv, NEW r \in Requests, Serial(r), Done(r), UNCHANGED overlap, StoreKnown'
    PROVE  KnownInv'
<1>1. request'[r] = Idle /\ \A s \in Requests : s # r => request'[s] = request[s]
  BY DoneFields DEF IInv
<1>2. RequestKnown(request[r])'
  BY <1>1, IdleFields DEF RequestKnown, WorkKnown
<1>3. QED
  BY <1>1, <1>2, KnownKept

LEMMA KnownWhole ==
    ASSUME TypeOK, NEW account, KnownAccount(account)
    PROVE  ~Broken(account)
BY GroupsUsersAssumption DEF TypeOK, KnownAccount, Broken

LEMMA FetchedKnown ==
    ASSUME TypeOK, NEW u \in Users, KnownAccount(user[u])
    PROVE  /\ DOMAIN Fetched(u).groups = DOMAIN user[u].groups
           /\ \A i \in DOMAIN user[u].groups : Fetched(u).groups[i].group = user[u].groups[i].group
           /\ KnownAccount(Fetched(u)) /\ GroupsOf(Fetched(u)) = GroupsOf(user[u])
<1>1. Fetched(u).groups = [i \in DOMAIN user[u].groups |-> Populated(user[u].groups[i])]
  BY FetchedFields
<1>2. \A i \in DOMAIN user[u].groups : user[u].groups[i].group \in DOMAIN group
  BY DEF KnownAccount, GroupsOf
<1>3. \A i \in DOMAIN user[u].groups : Fetched(u).groups[i].group = user[u].groups[i].group
  BY <1>1, <1>2 DEF Populated, Joined
<1>4. DOMAIN Fetched(u).groups = DOMAIN user[u].groups
  BY <1>1
<1>5. GroupsOf(Fetched(u)) = GroupsOf(user[u])
  BY <1>3, <1>4 DEF GroupsOf
<1>6. QED
  BY <1>3, <1>4, <1>5 DEF KnownAccount

-----------------------------------------------------------------------------
(* Paths in the tree.                                                      *)

\* A group without direct subgroups is on no path.
LEMMA LeafOnNoPath ==
    ASSUME TypeOK, StoreKnown, NEW g, DirectChilds(g) = {}, NEW h \in DOMAIN group
    PROVE  g \notin ToSet(group[h])
<1> SUFFICES ASSUME g \in ToSet(group[h]) PROVE FALSE
  OBVIOUS
<1>1. PICK path \in Seq(Groups) : path = group[h]
  BY DEF TypeOK
<1>2. PICK len \in Nat : len = Len(path) /\ DOMAIN path = 1..len
  BY LenProperties
<1>3. PICK n \in 1..len : path[n] = g
  BY <1>1, <1>2 DEF ToSet
<1>4. CASE n = len
  <2>1. path # <<>>
    BY <1>1, <1>2, <1>3, EmptySeq
  <2>2. Last(path) = g
    BY <1>2, <1>3, <1>4 DEF Last
  <2>3. QED
    BY <1>1, <2>1, <2>2 DEF DirectChilds
<1>5. CASE n < len
  <2>1. n + 1 \in 1..len /\ n \in Nat /\ n + 1 - 1 = n
    BY <1>5
  <2>2. path[n + 1] \in DOMAIN group /\ group[path[n + 1]] = SubSeq(path, 1, n)
    BY <1>1, <1>2, <2>1 DEF StoreKnown, OnTree
  <2>3. \A i \in 1..n : path[i] \in Groups
    BY <1>2, <1>5, ElementOfSeq
  <2>4. /\ SubSeq(path, 1, n) \in Seq(Groups)
        /\ Len(SubSeq(path, 1, n)) = n /\ SubSeq(path, 1, n)[n] = path[n]
    <3>1. 1 \in Int /\ n \in Int /\ \A i \in 1..n : path[i] \in Groups
      BY <2>1, <2>3
    <3>2. /\ SubSeq(path, 1, n) \in Seq(Groups)
          /\ Len(SubSeq(path, 1, n)) = IF 1 <= n THEN n - 1 + 1 ELSE 0
          /\ \A i \in 1..n - 1 + 1 : SubSeq(path, 1, n)[i] = path[1 + i - 1]
      BY <3>1, SubSeqProperties
    <3>3. QED
      BY <3>2, <1>3, <2>1
  <2>5. Last(SubSeq(path, 1, n)) = g
    BY <1>3, <2>4 DEF Last
  <2>6. SubSeq(path, 1, n) # <<>>
    <3>1. SubSeq(path, 1, n) = <<>> => Len(SubSeq(path, 1, n)) = 0
      BY <2>4, EmptySeq
    <3>2. n # 0
      OBVIOUS
    <3>3. QED
      BY <2>4, <3>1, <3>2
  <2>7. QED
    BY <2>2, <2>5, <2>6 DEF DirectChilds
<1>6. n = len \/ n < len
  BY <1>3
<1>7. QED
  BY <1>4, <1>5, <1>6

LEMMA PrefixOf ==
    ASSUME NEW S, NEW s \in Seq(S), NEW e \in S, NEW n \in 1..(Len(s) + 1)
    PROVE  SubSeq(Append(s, e), 1, n - 1) = SubSeq(s, 1, n - 1)
<1>1. PICK len \in Nat : len = Len(s)
  BY LenProperties
<1>2. n - 1 \in Int /\ n - 1 <= len
  BY <1>1
<1>3. \A i \in 1..len : s[i] \in S /\ Append(s, e)[i] = s[i]
  BY <1>1, ElementOfSeq, AppendProperties
<1>4. \A i \in 1..n - 1 : i \in 1..len
  BY <1>1
<1>5. /\ \A i \in 1..n - 1 : s[i] \in S
      /\ \A i \in 1..n - 1 : Append(s, e)[i] \in S /\ Append(s, e)[i] = s[i]
  BY <1>3, <1>4
<1> DEFINE a == SubSeq(Append(s, e), 1, n - 1)
           b == SubSeq(s, 1, n - 1)
<1>6. /\ a \in Seq(S) /\ Len(a) = IF 1 <= n - 1 THEN n - 1 - 1 + 1 ELSE 0
      /\ \A i \in 1..n - 1 - 1 + 1 : a[i] = Append(s, e)[1 + i - 1]
  BY <1>2, <1>5, SubSeqProperties
<1>7. /\ b \in Seq(S) /\ Len(b) = IF 1 <= n - 1 THEN n - 1 - 1 + 1 ELSE 0
      /\ \A i \in 1..n - 1 - 1 + 1 : b[i] = s[1 + i - 1]
  BY <1>2, <1>5, SubSeqProperties
<1> HIDE DEF a, b
<1>8. \A i \in 1..Len(a) : a[i] = b[i]
  <2>1. ASSUME NEW i \in 1..Len(a) PROVE a[i] = b[i]
    <3>1. i \in 1..n - 1 - 1 + 1 /\ i \in 1..n - 1 /\ 1 + i - 1 = i
      BY <1>1, <1>6
    <3>2. QED
      BY <3>1, <1>5, <1>6, <1>7
  <2>2. QED
    BY <2>1
<1>9. Len(a) = Len(b)
  BY <1>6, <1>7
<1>10. a = b
  BY <1>6, <1>7, <1>8, <1>9, SeqEqual
<1>11. QED
  BY <1>10 DEF a, b

\* The path of a new group, below its parent.
LEMMA ChildOnTree ==
    ASSUME TypeOK, StoreKnown, NEW parent \in DOMAIN group
    PROVE  OnTree(Append(group[parent], parent))
<1>1. PICK path \in Seq(Groups) : path = group[parent]
  BY DEF TypeOK
<1>2. PICK len \in Nat : len = Len(path)
  BY LenProperties
<1>3. parent \in Groups
  BY DEF TypeOK
<1>4. Len(Append(path, parent)) = len + 1 /\ Append(path, parent)[len + 1] = parent
      /\ \A n \in 1..len : Append(path, parent)[n] = path[n]
  BY <1>2, <1>3, AppendProperties
<1>5. ASSUME NEW n \in 1..(len + 1)
      PROVE  /\ Append(path, parent)[n] \in DOMAIN group
             /\ group[Append(path, parent)[n]] = SubSeq(Append(path, parent), 1, n - 1)
  <2>1. SubSeq(Append(path, parent), 1, n - 1) = SubSeq(path, 1, n - 1)
    BY <1>2, <1>3, PrefixOf
  <2>2. CASE n \in 1..len
    BY <1>1, <1>2, <1>4, <2>1, <2>2 DEF StoreKnown, OnTree
  <2>3. CASE n = len + 1
    <3>1. n - 1 = len
      BY <2>3
    <3>2. SubSeq(path, 1, len) = path
      BY <1>2, SubSeqFull
    <3>3. QED
      BY <1>1, <1>4, <2>1, <2>3, <3>1, <3>2
  <2>4. n \in 1..len \/ n = len + 1
    OBVIOUS
  <2>5. QED
    BY <2>2, <2>3, <2>4
<1>6. QED
  BY <1>1, <1>4, <1>5 DEF OnTree

-----------------------------------------------------------------------------
(* Each step leaves everything known.                                      *)

\* A step that only moves a request on.
LEMMA GotoKnown ==
    ASSUME IInv, NEW r \in Requests, NEW at, at # "push", Goto(r, at), Serial(r),
           request[r].op # "deleteGroup", UNCHANGED <<group, user, placed, overlap>>
    PROVE  KnownInv'
<1>1. /\ request'[r].at = at /\ request'[r].op = request[r].op
      /\ request'[r].group = request[r].group /\ request'[r].path = request[r].path
      /\ request'[r].seen = request[r].seen /\ request'[r].work = request[r].work
      /\ \A s \in Requests : s # r => request'[s] = request[s]
  BY SMTT(30), GotoFields DEF IInv
<1>2. WorkKnown(request[r])'
  BY <1>1 DEF Serial, RequestKnown, WorkKnown, KnownAccount
<1>3. RequestKnown(request[r])'
  BY <1>1, <1>2 DEF Serial, RequestKnown, KnownAccount, OnTree
<1>4. QED
  BY <1>1, <1>3, KnownKept, SameKnown DEF Serial

LEMMA BeginsKnown ==
    ASSUME IInv, KnownInv, ~overlap, NEW r \in Requests,
           \/ CreateGroup(r) \/ DeleteGroup(r) \/ DeleteUsers(r) \/ Invite(r) \/ Register(r) \/ AddDevice(r)
    PROVE  KnownInv'
<1>1. Begun(r)
  BY CreateGroupBegins, DeleteGroupBegins, DeleteUsersBegins, InviteBegins, RegisterBegins, AddDeviceBegins
<1>2. Serial(r) /\ UNCHANGED <<group, user, placed, overlap>>
  BY <1>1, Serially DEF Begun, store
<1>3. ASSUME RequestKnown(request[r])' PROVE KnownInv'
  BY <1>1, <1>2, <1>3, KnownKept, SameKnown DEF Serial, Begun
<1>4. CASE CreateGroup(r)
  <2>1. PICK parent \in DOMAIN group :
          /\ request'[r].op = "createGroup" /\ request'[r].work = <<>>
          /\ request'[r].path = Append(group[parent], parent)
    BY <1>4, CreateGroupBegins
  <2>2. OnTree(Append(group[parent], parent))
    BY <1>2, ChildOnTree DEF Serial, IInv
  <2>3. OnTree(request'[r].path)
    BY <2>1, <2>2
  <2>4. RequestKnown(request[r])'
    BY <1>2, <2>1, <2>3, IdleFields DEF RequestKnown, WorkKnown, OnTree
  <2>5. QED
    BY <1>3, <2>4
<1>5. CASE DeleteGroup(r)
  <2>1. PICK g \in DOMAIN group :
          /\ DirectChilds(g) = {}
          /\ request'[r].op = "deleteGroup" /\ request'[r].at = "users"
          /\ request'[r].group = g /\ request'[r].work = <<>>
    BY <1>5, DeleteGroupBegins
  <2>2. \A h \in DOMAIN group : g \notin ToSet(group[h])
    BY <1>2, <2>1, LeafOnNoPath DEF Serial, IInv
  <2>3. DeletionKnown(request[r])'
    BY <1>2, <2>1, <2>2 DEF DeletionKnown
  <2>4. RequestKnown(request[r])'
    BY <1>2, <2>1, <2>3, IdleFields DEF RequestKnown, WorkKnown
  <2>5. QED
    BY <1>3, <2>4
<1>6. CASE DeleteUsers(r)
  <2>1. RequestKnown(request[r])'
    BY <1>6, DeleteUsersBegins DEF RequestKnown, WorkKnown
  <2>2. QED
    BY <1>3, <2>1
<1>7. CASE Invite(r) \/ AddDevice(r)
  <2>1. /\ request'[r].op \in {"invite", "addDevice"} /\ request'[r].at # "push"
        /\ request'[r].work = <<>> /\ request'[r].group \in DOMAIN group
    BY <1>7, InviteBegins, AddDeviceBegins
  <2>2. RequestKnown(request[r])'
    BY <1>2, <2>1, IdleFields DEF RequestKnown, WorkKnown
  <2>3. QED
    BY <1>3, <2>2
<1>8. CASE Register(r)
  <2>1. PICK u \in Users : request'[r].seen = Fetched(u)
    BY <1>8, RegisterBegins
  <2>2. KnownAccount(Fetched(u))
    BY <1>2, FetchedKnown DEF Serial, StoreKnown, IInv
  <2>3. KnownAccount(request'[r].seen)
    BY <2>1, <2>2
  <2>4. request'[r].op = "register" /\ request'[r].work = <<>>
    BY <1>8, RegisterBegins
  <2>5. RequestKnown(request[r])'
    BY <1>2, <2>3, <2>4, IdleFields DEF RequestKnown, WorkKnown, KnownAccount
  <2>6. QED
    BY <1>3, <2>5
<1>9. QED
  BY <1>4, <1>5, <1>6, <1>7, <1>8

LEMMA StoreGroupKnown ==
    ASSUME IInv, ProjectInv, KnownInv, ~overlap, NEW r \in Requests, StoreGroup(r)
    PROVE  KnownInv'
<1> DEFINE g == request[r].group
           path == request[r].path
<1>1. At(r, "createGroup", "store") /\ UNCHANGED <<user, placed, overlap>> /\ Done(r)
      /\ group' = [h \in DOMAIN group \cup {g} |-> IF h = g THEN path ELSE group[h]]
  BY DEF StoreGroup, Bounds
<1>2. Serial(r)
  BY <1>1, Serially DEF At
<1>3. OnTree(path) /\ g \notin DOMAIN group
  BY <1>1, <1>2 DEF Serial, RequestKnown, ProjectInv, RequestOwn, At
<1>4. /\ DOMAIN group' = DOMAIN group \cup {g} /\ group'[g] = path
      /\ \A h \in DOMAIN group : group'[h] = group[h]
  BY <1>1, <1>3
<1>5. ASSUME NEW h \in DOMAIN group' PROVE OnTree(group[h])'
  <2>1. OnTree(group'[h])
    BY <1>2, <1>3, <1>4 DEF Serial, StoreKnown
  <2>2. QED
    BY <1>4, <2>1 DEF OnTree
<1>6. StoreKnown'
  BY <1>1, <1>2, <1>4, <1>5 DEF Serial, StoreKnown, KnownAccount, GroupsOf
<1>7. QED
  BY <1>1, <1>2, <1>6, DoneKnown

LEMMA EraseGroupKnown ==
    ASSUME IInv, KnownInv, ~overlap, NEW r \in Requests, EraseGroup(r)
    PROVE  KnownInv'
<1> DEFINE g == request[r].group
<1>1. At(r, "deleteGroup", "erase") /\ UNCHANGED <<user, placed, overlap>> /\ Done(r)
      /\ group' = [h \in DOMAIN group \ {g} |-> group[h]]
  BY DEF EraseGroup, Bounds
<1>2. Serial(r)
  BY <1>1, Serially DEF At
<1>3. /\ \A h \in DOMAIN group : g \notin ToSet(group[h])
      /\ \A u \in Users : g \notin GroupsOf(user[u])
      /\ \A d \in Devices : g \notin placed[d]
  BY <1>1, <1>2 DEF Serial, RequestKnown, DeletionKnown, At
<1>4. DOMAIN group' = DOMAIN group \ {g} /\ \A h \in DOMAIN group' : group'[h] = group[h]
  BY <1>1
<1>5. ASSUME NEW h \in DOMAIN group' PROVE OnTree(group[h])'
  <2>1. h \in DOMAIN group /\ group'[h] = group[h] /\ OnTree(group[h]) /\ g \notin ToSet(group[h])
    BY <1>2, <1>3, <1>4 DEF Serial, StoreKnown
  <2>2. PICK path \in Seq(Groups) : path = group[h]
    BY <2>1 DEF IInv, TypeOK
  <2>3. \A n \in 1..Len(path) : path[n] # g
    BY <2>1, <2>2, LenProperties DEF ToSet
  <2>4. \A n \in 1..Len(path) : path[n] \in DOMAIN group' /\ group'[path[n]] = SubSeq(path, 1, n - 1)
    BY <1>4, <2>1, <2>2, <2>3 DEF OnTree
  <2>5. QED
    BY <2>1, <2>2, <2>4 DEF OnTree
<1>6. StoreKnown'
  BY <1>1, <1>2, <1>3, <1>4, <1>5 DEF Serial, StoreKnown, KnownAccount, GroupsOf
<1>7. QED
  BY <1>1, <1>2, <1>6, DoneKnown

LEMMA FindMembersKnown ==
    ASSUME IInv, KnownInv, ~overlap, NEW r \in Requests, FindMembers(r)
    PROVE  KnownInv'
<1> DEFINE q == request[r]
           members == {u \in Users : q.group \in GroupsOf(user[u])}
<1>1. At(r, "deleteGroup", "users") /\ UNCHANGED <<group, user, placed, overlap>>
  BY DEF FindMembers, store, Bounds
<1>2. Serial(r)
  BY <1>1, Serially DEF At
<1>3. CASE Done(r)
  BY <1>1, <1>2, <1>3, DoneKnown, SameKnown DEF Serial
<1>4. CASE Works(r, "remove", Jobs(members))
  <2> HIDE DEF members
  <2>1. /\ request'[r].at = "remove" /\ request'[r].work = Jobs(members) /\ request'[r].op = "deleteGroup"
        /\ request'[r].group = q.group
        /\ \A s \in Requests : s # r => request'[s] = request[s]
    BY <1>1, <1>4, WorkFields DEF IInv, At
  <2>2. DOMAIN Jobs(members) = members /\ \A u \in members : Jobs(members)[u].at = "find"
    BY DEF Jobs, WithoutUser
  <2>3. \A u \in Users : q.group \in GroupsOf(user[u]) => u \in members
    BY DEF members
  <2>4. q.group \in DOMAIN group /\ DeletionKnown(q)
    BY <1>1, <1>2 DEF Serial, RequestKnown, At
  <2>5. DeletionKnown(request[r])'
    BY <1>1, <2>1, <2>2, <2>3, <2>4 DEF DeletionKnown, GroupsOf
  <2>6. RequestKnown(request[r])'
    BY <1>1, <2>1, <2>2, <2>4, <2>5 DEF RequestKnown, WorkKnown
  <2>7. QED
    BY <1>1, <1>2, <2>1, <2>6, KnownKept, SameKnown DEF Serial
<1>5. QED
  BY <1>3, <1>4 DEF FindMembers, Works

LEMMA UsersRemovedKnown ==
    ASSUME IInv, KnownInv, ~overlap, NEW r \in Requests, UsersRemoved(r)
    PROVE  KnownInv'
<1> DEFINE q == request[r]
<1>1. q.at = "remove" /\ UNCHANGED <<group, user, placed, overlap>>
  BY DEF UsersRemoved, store, Bounds
<1>2. Serial(r)
  BY <1>1, Serially
<1>3. CASE Done(r)
  BY <1>1, <1>2, <1>3, DoneKnown, SameKnown DEF Serial
<1>4. CASE /\ Works(r, "devices", <<>>)
           /\ \A u \in DOMAIN q.work : q.work[u].at = "done"
  <2>1. /\ request'[r].at = "devices" /\ request'[r].work = <<>> /\ request'[r].op = q.op
        /\ request'[r].group = q.group /\ request'[r].path = q.path /\ request'[r].seen = q.seen
        /\ \A s \in Requests : s # r => request'[s] = request[s]
    BY <1>4, WorkFields DEF IInv
  <2>2. RequestKnown(q)
    BY <1>2 DEF Serial
  <2>3. q.op = "deleteGroup" => DeletionKnown(request[r])'
    BY <1>1, <1>4, <2>1, <2>2 DEF RequestKnown, DeletionKnown, GroupsOf
  <2>4. RequestKnown(request[r])'
    BY <1>1, <2>1, <2>2, <2>3, IdleFields DEF RequestKnown, WorkKnown, KnownAccount, OnTree
  <2>5. QED
    BY <1>1, <1>2, <2>1, <2>4, KnownKept, SameKnown DEF Serial
<1>5. QED
  BY <1>3, <1>4 DEF UsersRemoved, Works

LEMMA FindDevicesKnown ==
    ASSUME IInv, KnownInv, ~overlap, NEW r \in Requests, FindDevices(r)
    PROVE  KnownInv'
<1> DEFINE q == request[r]
           found == {d \in Devices : q.group \in placed[d]}
<1>1. At(r, "deleteGroup", "devices") /\ UNCHANGED <<group, user, placed, overlap>>
  BY DEF FindDevices, store, Bounds
<1>2. Serial(r)
  BY <1>1, Serially DEF At
<1>3. PICK at : /\ Finds(r, at, found)
                /\ IF found = {} THEN at \in {"project", "erase"} ELSE at = "unplace"
  BY DEF FindDevices, Finds, AfterDevices
<1>4. \A d \in Devices : q.group \in placed[d] => d \in found
  OBVIOUS
<1> HIDE DEF found
<1>5. /\ request'[r].at = at /\ request'[r].found = found /\ request'[r].work = q.work
      /\ request'[r].op = "deleteGroup" /\ request'[r].group = q.group
      /\ \A s \in Requests : s # r => request'[s] = request[s]
  BY <1>1, <1>3, FoundFields DEF IInv, At
<1>6. q.group \in DOMAIN group /\ DeletionKnown(q) /\ WorkKnown(q)
  BY <1>1, <1>2 DEF Serial, RequestKnown, At
<1>7. DeletionKnown(request[r])'
  BY SMTT(30), <1>1, <1>3, <1>4, <1>5, <1>6 DEF DeletionKnown, GroupsOf, At
<1>8. WorkKnown(request[r])'
  BY <1>1, <1>5, <1>6 DEF WorkKnown, KnownAccount
<1>9. RequestKnown(request[r])'
  BY <1>1, <1>5, <1>6, <1>7, <1>8 DEF RequestKnown
<1>10. QED
  BY <1>1, <1>2, <1>5, <1>9, KnownKept, SameKnown DEF Serial

LEMMA UnplaceDevicesKnown ==
    ASSUME IInv, KnownInv, ~overlap, NEW r \in Requests, UnplaceDevices(r) \/ DeleteProject(r)
    PROVE  KnownInv'
<1> DEFINE q == request[r]
<1>1. /\ q.op = "deleteGroup" /\ q.at \in {"unplace", "project"} /\ UNCHANGED <<group, user, overlap>>
      /\ \A d \in Devices : placed'[d] \subseteq placed[d]
      /\ q.at = "unplace" => \A d \in Devices : d \in q.found => q.group \notin placed'[d]
  BY DEF UnplaceDevices, DeleteProject, At, Bounds
<1>2. Serial(r)
  BY <1>1, Serially
<1>3. PICK at \in {"project", "erase"} : Goto(r, at)
  BY DEF UnplaceDevices, DeleteProject, AfterDevices
<1>4. /\ request'[r].at = at /\ request'[r].work = q.work
      /\ request'[r].op = "deleteGroup" /\ request'[r].group = q.group
      /\ \A s \in Requests : s # r => request'[s] = request[s]
  BY <1>1, <1>3, GotoFields DEF IInv
<1>5. q.group \in DOMAIN group /\ DeletionKnown(q) /\ WorkKnown(q)
  BY <1>1, <1>2 DEF Serial, RequestKnown
<1>6. \A d \in Devices : q.group \notin placed'[d]
  BY <1>1, <1>5 DEF DeletionKnown
<1>7. \A u \in Users : q.group \notin GroupsOf(user[u])
  BY <1>1, <1>5 DEF DeletionKnown
<1>8. DeletionKnown(request[r])'
  BY SMTT(30), <1>1, <1>3, <1>4, <1>5, <1>6, <1>7 DEF DeletionKnown, GroupsOf
<1>9. WorkKnown(request[r])'
  BY <1>1, <1>4, <1>5 DEF WorkKnown, KnownAccount
<1>10. RequestKnown(request[r])'
  BY <1>1, <1>4, <1>5, <1>8, <1>9 DEF RequestKnown
<1>11. StoreKnown'
  BY <1>1, <1>2 DEF Serial, StoreKnown, OnTree, KnownAccount, GroupsOf
<1>12. QED
  BY <1>1, <1>2, <1>4, <1>10, <1>11, KnownKept

\* A job of deleteUsers never adds its group to a user, and is through only when it is gone.
LEMMA JobKnown ==
    ASSUME IInv, NEW r \in Requests, NEW u \in Users, u \in DOMAIN request[r].work, Serial(r),
           NEW job, Set(r, u, job), UNCHANGED <<group, placed, overlap>>, StoreKnown',
           \A v \in Users : v # u => user'[v] = user[v],
           job.at \in {"permission", "write"} =>
               KnownAccount(job.seen) /\ job.seen.groups[job.position].group = request[r].group,
           job.at = "use" => user'[u].groups # <<>>,
           request[r].op = "deleteGroup" /\ request[r].group \in GroupsOf(user'[u])
               => /\ request[r].group \in GroupsOf(user[u])
                  /\ job.at \in {"use", "done"} => request[r].work[u].at \in {"use", "done"}
    PROVE  KnownInv'
<1> DEFINE q == request[r]
<1>1. /\ request'[r].at = q.at /\ request'[r].op = q.op /\ request'[r].group = q.group
      /\ request'[r].path = q.path /\ request'[r].seen = q.seen /\ request'[r].found = q.found
      /\ DOMAIN request'[r].work = DOMAIN q.work
      /\ \A v \in DOMAIN q.work : request'[r].work[v] = IF v = u THEN job ELSE q.work[v]
      /\ \A s \in Requests : s # r => request'[s] = request[s]
  BY SetFields DEF IInv
<1>2. RequestKnown(q)
  BY DEF Serial
<1>3. \A v \in DOMAIN q.work : v \in Users
  BY SMTT(30) DEF IInv, RequestsInv, RequestInv, JobInv
<1>4. WorkKnown(request[r])'
  BY SMTT(30), <1>1, <1>2, <1>3 DEF RequestKnown, WorkKnown, KnownAccount
<1>5. q.op = "deleteGroup" => DeletionKnown(request[r])'
  <2> SUFFICES ASSUME q.op = "deleteGroup" PROVE DeletionKnown(request[r])'
    OBVIOUS
  <2>1. DeletionKnown(q)
    BY <1>2 DEF RequestKnown
  <2>2. \A v \in Users : q.group \in GroupsOf(user'[v]) => q.group \in GroupsOf(user[v])
    OBVIOUS
  <2>3. q.at = "remove" =>
          \A v \in Users : q.group \in GroupsOf(user'[v]) =>
            v \in DOMAIN request'[r].work /\ request'[r].work[v].at \notin {"use", "done"}
    BY <1>1, <2>1, <2>2 DEF DeletionKnown
  <2>4. QED
    BY <1>1, <2>1, <2>2, <2>3 DEF DeletionKnown, GroupsOf
<1>6. RequestKnown(request[r])'
  BY <1>1, <1>2, <1>4, <1>5 DEF RequestKnown, KnownAccount, OnTree
<1>7. QED
  BY <1>1, <1>6, KnownKept

LEMMA WorkingSerial ==
    ASSUME IInv, KnownInv, ~overlap, NEW r \in Requests, NEW u \in Users, NEW at, Working(r, u, at)
    PROVE  Serial(r) /\ u \in DOMAIN request[r].work /\ JobInv(u, request[r].work[u])
<1>1. u \in DOMAIN request[r].work
  BY DEF Working
<1>2. request[r] # Idle
  BY <1>1, IdleFields
<1>3. \A s \in Requests : s # r => request[s] = Idle
  BY <1>2 DEF KnownInv, Lone
<1>4. QED
  BY <1>1, <1>3 DEF KnownInv, Serial, IInv, RequestsInv, RequestInv

LEMMA FindMemberKnown ==
    ASSUME IInv, KnownInv, ~overlap, NEW r \in Requests, NEW u \in Users, FindMember(r, u)
    PROVE  KnownInv'
<1> DEFINE g == request[r].group
<1>1. UNCHANGED <<group, user, placed, overlap>> /\ Serial(r) /\ u \in DOMAIN request[r].work
  BY WorkingSerial DEF FindMember, store, Bounds
<1>2. PICK job : /\ Set(r, u, job)
                 /\ \/ /\ job.at = "done"
                       /\ \A i \in DOMAIN Fetched(u).groups : Fetched(u).groups[i].group \notin {g, None}
                    \/ job.at = "failed"
                    \/ /\ job.seen = Fetched(u) /\ job.at \in {"permission", "write"}
                       /\ job.seen.groups[job.position].group = g
  BY FindMemberJob
<1>3. KnownAccount(Fetched(u)) /\ GroupsOf(Fetched(u)) = GroupsOf(user[u])
  BY <1>1, FetchedKnown DEF Serial, StoreKnown, IInv
<1>4. job.at = "done" => g \notin GroupsOf(user[u])
  <2>1. job.at = "done" => \A i \in DOMAIN Fetched(u).groups : Fetched(u).groups[i].group # g
    BY <1>2
  <2>2. job.at = "done" => g \notin GroupsOf(Fetched(u))
    BY <2>1 DEF GroupsOf
  <2>3. QED
    BY <1>3, <2>2
<1>5. job.at \in {"permission", "write"} =>
        KnownAccount(job.seen) /\ job.seen.groups[job.position].group = g
  <2>1. CASE job.seen = Fetched(u) /\ job.seen.groups[job.position].group = g
    <3>1. KnownAccount(job.seen)
      BY <1>3, <2>1
    <3>2. QED
      BY <2>1, <3>1
  <2>2. QED
    BY <1>2, <2>1
<1>6. job.at # "use"
  BY <1>2
<1>7. g \in GroupsOf(user'[u]) => g \in GroupsOf(user[u]) /\ job.at \notin {"use", "done"}
  BY SMTT(30), <1>1, <1>4, <1>6
<1>8. QED
  BY <1>1, <1>2, <1>5, <1>6, <1>7, JobKnown, SameKnown DEF Serial

LEMMA DeletePermissionKnown ==
    ASSUME IInv, KnownInv, ~overlap, NEW r \in Requests, NEW u \in Users, DeletePermission(r, u)
    PROVE  KnownInv'
<1> DEFINE job == request[r].work[u]
<1>1. UNCHANGED <<group, user, placed, overlap>> /\ Serial(r) /\ u \in DOMAIN request[r].work /\ JobInv(u, job)
      /\ job.at = "permission"
  BY WorkingSerial DEF DeletePermission, Bounds, Working
<1>2. PICK new : Set(r, u, new) /\ new.seen = job.seen /\ new.at = "write" /\ new.position = job.position
  <2> DEFINE next == [job EXCEPT !.at = "write"]
  <2>1. Set(r, u, next)
    BY DEF DeletePermission
  <2>2. next.seen = job.seen /\ next.at = "write" /\ next.position = job.position
    BY <1>1 DEF JobInv
  <2> HIDE DEF next
  <2>3. QED
    BY SMTT(30), <2>1, <2>2
<1>3. KnownAccount(job.seen) /\ job.seen.groups[job.position].group = request[r].group
  BY <1>1 DEF Serial, RequestKnown, WorkKnown
<1>4. KnownAccount(new.seen) /\ new.seen.groups[new.position].group = request[r].group
  BY <1>2, <1>3
<1>5. QED
  BY ZenonT(60), <1>1, <1>2, <1>4, JobKnown, SameKnown DEF Serial

\* What is left of distinct memberships does not have the group that was taken out.
LEMMA RemovedKnown ==
    ASSUME NEW s \in Seq(Membership), Once(s), NEW p \in DOMAIN s, s[p].group # None
    PROVE  \A i \in DOMAIN RemoveAt(s, p) :
             /\ RemoveAt(s, p)[i].group # s[p].group
             /\ \E j \in DOMAIN s : RemoveAt(s, p)[i].group = s[j].group
<1>1. p \in 1..Len(s) /\ DOMAIN s = 1..Len(s) /\ Len(s) \in Nat
  BY LenProperties
<1>2. /\ DOMAIN RemoveAt(s, p) = 1..(Len(s) - 1)
      /\ \A i \in 1..(Len(s) - 1) : RemoveAt(s, p)[i] = IF i < p THEN s[i] ELSE s[i + 1]
  BY <1>1, RemovedElements
<1>3. ASSUME NEW i \in DOMAIN RemoveAt(s, p)
      PROVE  \E j \in DOMAIN s : j # p /\ RemoveAt(s, p)[i] = s[j]
  <2>1. CASE i < p
    BY <1>1, <1>2, <2>1
  <2>2. CASE i >= p
    <3>1. i + 1 \in DOMAIN s /\ i + 1 # p /\ ~(i < p)
      BY <1>1, <1>2, <2>2
    <3>2. QED
      BY <1>2, <3>1
  <2>3. i < p \/ i >= p
    BY <1>1, <1>2
  <2>4. QED
    BY <2>1, <2>2, <2>3
<1> HIDE DEF RemoveAt
<1>4. QED
  BY <1>3 DEF Once

LEMMA WriteMemberKnown ==
    ASSUME IInv, OnceInv, KnownInv, ~overlap, NEW r \in Requests, NEW u \in Users, WriteMember(r, u)
    PROVE  KnownInv'
<1> DEFINE job == request[r].work[u]
           s == job.seen.groups
           left == RemoveAt(s, job.position)
           new == [job.seen EXCEPT !.groups = left]
           g == request[r].group
           next == [job EXCEPT !.at = IF s[job.position].inUse /\ left # <<>> THEN "use" ELSE "done"]
<1>1. UNCHANGED <<group, placed, overlap>> /\ Serial(r) /\ u \in DOMAIN request[r].work /\ JobInv(u, job)
      /\ job.at = "write"
  BY SMTT(30), WorkingSerial DEF WriteMember, Bounds, Working
<1>2. /\ job.seen \in Account /\ job.position \in DOMAIN s /\ s \in Seq(Membership) /\ Once(s)
      /\ KnownAccount(job.seen) /\ s[job.position].group = g
  BY SMTT(30), <1>1, WorkOnce DEF JobInv, Sound, Account, Serial, RequestKnown, WorkKnown
<1>3. ~Broken(job.seen) /\ g # None
  BY ZenonT(60), <1>2, KnownWhole, GroupsUsersAssumption DEF IInv, TypeOK, KnownAccount, GroupsOf
<1>4. user' = [user EXCEPT ![u] = new] /\ Set(r, u, next)
  BY ZenonT(60), <1>3 DEF WriteMember
<1>5. new.groups = left /\ next.at \in {"use", "done"} /\ (next.at = "use" => left # <<>>)
  BY ZenonT(60), <1>1, <1>2 DEF JobInv, Account
<1> HIDE DEF new, next, left
<1>6. \A i \in DOMAIN left : left[i].group # g /\ \E j \in DOMAIN s : left[i].group = s[j].group
  <2>1. s \in Seq(Membership) /\ Once(s) /\ job.position \in DOMAIN s /\ s[job.position].group # None
    BY SMTT(30), <1>2, <1>3
  <2>2. \A i \in DOMAIN RemoveAt(s, job.position) :
             /\ RemoveAt(s, job.position)[i].group # s[job.position].group
             /\ \E j \in DOMAIN s : RemoveAt(s, job.position)[i].group = s[j].group
    BY ZenonT(60), <2>1, RemovedKnown
  <2>3. QED
    BY <1>2, <2>2 DEF left
<1>7. KnownAccount(new) /\ g \notin GroupsOf(new)
  <2>1. \A j \in DOMAIN s : s[j].group \in DOMAIN group
    BY <1>2 DEF KnownAccount, GroupsOf
  <2>2. \A i \in DOMAIN new.groups : new.groups[i].group \in DOMAIN group /\ new.groups[i].group # g
    BY <1>5, <1>6, <2>1
  <2>3. QED
    BY <2>2 DEF KnownAccount, GroupsOf
<1>8. StoreKnown'
  BY <1>1, <1>4, <1>7, UserKnown DEF Serial, IInv
<1>9. user'[u] = new /\ \A v \in Users : v # u => user'[v] = user[v]
  BY <1>4 DEF IInv, TypeOK
<1>10. QED
  BY SMTT(30), <1>1, <1>4, <1>5, <1>7, <1>8, <1>9, JobKnown

LEMMA UseAnotherKnown ==
    ASSUME IInv, KnownInv, ~overlap, NEW r \in Requests, NEW u \in Users, UseAnother(r, u)
    PROVE  KnownInv'
<1> DEFINE job == request[r].work[u]
           s == user[u].groups
           new == [user[u] EXCEPT !.groups = FirstInUse(s)]
           next == [job EXCEPT !.at = "done"]
<1>1. UNCHANGED <<group, placed, overlap>> /\ Serial(r) /\ u \in DOMAIN request[r].work /\ JobInv(u, job)
      /\ job.at = "use"
  BY WorkingSerial DEF UseAnother, Bounds, Working
<1>2. user[u] \in Account /\ s \in Seq(Membership) /\ s # <<>> /\ KnownAccount(user[u])
  BY <1>1 DEF IInv, TypeOK, Account, Serial, StoreKnown, RequestKnown, WorkKnown
<1>3. 1 \in DOMAIN s /\ \A i \in DOMAIN s : s[i] \in Membership
  BY <1>2, EmptySeq, LenProperties, ElementOfSeq
<1>4. new.groups = [s EXCEPT ![1].inUse = TRUE]
  BY <1>2 DEF FirstInUse, Account
<1>5. DOMAIN new.groups = DOMAIN s /\ \A i \in DOMAIN s : new.groups[i].group = s[i].group
  BY <1>3, <1>4 DEF Membership
<1>6. user' = [user EXCEPT ![u] = new] /\ Set(r, u, next)
  BY DEF UseAnother
<1>7. next.at = "done"
  BY <1>1 DEF JobInv
<1> HIDE DEF new, next
<1>8. GroupsOf(new) = GroupsOf(user[u])
  BY <1>5 DEF GroupsOf
<1>9. StoreKnown'
  BY <1>1, <1>2, <1>6, <1>8, UserKnown DEF Serial, IInv, KnownAccount
<1>10. user'[u] = new /\ \A v \in Users : v # u => user'[v] = user[v]
  BY <1>6 DEF IInv, TypeOK
<1>11. QED
  BY <1>1, <1>6, <1>7, <1>8, <1>9, <1>10, JobKnown

\* The steps of the other requests that leave groups, users and devices alone.
LEMMA OtherKnown ==
    ASSUME IInv, KnownInv, ~overlap, NEW r \in Requests,
           CreateProject(r) \/ FindCode(r) \/ CreateCode(r) \/ CheckCode(r) \/ ConsumeCode(r)
    PROVE  KnownInv'
<1>1. /\ request[r].op \in {"createGroup", "invite", "register"}
      /\ UNCHANGED <<group, user, placed, overlap>>
  BY DEF At, CreateProject, FindCode, CreateCode, CheckCode, ConsumeCode, Bounds
<1>2. Done(r) \/ \E at \in {"store", "code", "consume", "activate"} : Goto(r, at)
  BY DEF CreateProject, Refused, FindCode, CreateCode, CheckCode, ConsumeCode
<1>3. Serial(r)
  BY <1>1, Serially
<1>4. StoreKnown'
  BY <1>1, <1>3, SameKnown DEF Serial
<1>5. CASE Done(r)
  BY <1>1, <1>3, <1>4, <1>5, DoneKnown
<1>6. CASE \E at \in {"store", "code", "consume", "activate"} : Goto(r, at)
  BY <1>1, <1>3, <1>6, GotoKnown
<1>7. QED
  BY <1>2, <1>5, <1>6

LEMMA FindInvitedKnown ==
    ASSUME IInv, KnownInv, ~overlap, NEW r \in Requests, FindInvited(r)
    PROVE  KnownInv'
<1> DEFINE q == request[r]
           seen == Fetched(q.user)
<1>1. q.op = "invite" /\ q.user \in Users /\ UNCHANGED <<group, user, placed, overlap>>
  BY DEF FindInvited, At, IInv, RequestsInv, RequestInv, Bounds
<1>2. Serial(r)
  BY <1>1, Serially
<1>3. KnownAccount(seen) /\ q.group \in DOMAIN group /\ WorkKnown(q)
  BY <1>1, <1>2, FetchedKnown DEF Serial, StoreKnown, RequestKnown, IInv
<1>4. ASSUME NEW at, Permit(r, at, seen) PROVE KnownInv'
  <2>1. PICK p : Permits(r, at, seen, p)
    BY <1>4 DEF Permit, Permits
  <2>2. /\ request'[r].at = at /\ request'[r].op = "invite" /\ request'[r].group = q.group
        /\ request'[r].seen = seen /\ request'[r].work = q.work
        /\ \A s \in Requests : s # r => request'[s] = request[s]
    BY <1>1, <2>1, PermitFields DEF IInv
  <2>3. WorkKnown(request[r])'
    BY <1>1, <1>3, <2>2 DEF WorkKnown, KnownAccount
  <2>4. KnownAccount(request'[r].seen)
    BY <1>3, <2>2
  <2>5. RequestKnown(request[r])'
    BY <1>1, <1>3, <2>2, <2>3, <2>4 DEF RequestKnown, KnownAccount
  <2>6. QED
    BY <1>1, <1>2, <2>2, <2>5, KnownKept, SameKnown DEF Serial
<1>5. CASE Done(r)
  BY <1>1, <1>2, <1>5, DoneKnown, SameKnown DEF Serial
<1>6. CASE Goto(r, "mail")
  BY <1>1, <1>2, <1>6, GotoKnown
<1>7. QED
  BY <1>4, <1>5, <1>6 DEF FindInvited

LEMMA CreateAccountKnown ==
    ASSUME IInv, KnownInv, ~overlap, NEW r \in Requests, CreateAccount(r)
    PROVE  KnownInv'
<1> DEFINE q == request[r]
           m == Joined(q.group, q.permission, TRUE)
           new == [status |-> "WAITING", groups |-> <<m>>]
<1>1. q.op = "invite" /\ q.user \in Users /\ UNCHANGED <<group, placed, overlap>>
  BY DEF CreateAccount, At, IInv, RequestsInv, RequestInv, Bounds
<1>2. Serial(r)
  BY <1>1, Serially
<1>3. CASE Done(r) /\ UNCHANGED user
  BY <1>1, <1>2, <1>3, DoneKnown, SameKnown DEF Serial
<1>4. CASE user' = [user EXCEPT ![q.user] = new] /\ Goto(r, "code")
  <2>0. DOMAIN <<m>> = {1} /\ <<m>>[1] = m
    OBVIOUS
  <2>1. DOMAIN new.groups = {1} /\ new.groups[1].group = q.group
    BY <2>0 DEF Joined
  <2> HIDE DEF new
  <2>2. q.group \in DOMAIN group /\ WorkKnown(q)
    BY <1>1, <1>2 DEF Serial, RequestKnown
  <2>3. KnownAccount(new)
    BY <2>1, <2>2 DEF KnownAccount, GroupsOf
  <2>4. StoreKnown'
    BY <1>1, <1>2, <1>4, <2>3, UserKnown DEF Serial, IInv
  <2>5. /\ request'[r].at = "code" /\ request'[r].op = "invite" /\ request'[r].group = q.group
        /\ request'[r].work = q.work
        /\ \A s \in Requests : s # r => request'[s] = request[s]
    BY <1>1, <1>4, GotoFields DEF IInv
  <2>6. WorkKnown(request[r])'
    <3>1. \A v \in Users : v # q.user => user'[v] = user[v]
      BY <1>4 DEF IInv, TypeOK
    <3>2. user'[q.user].groups # <<>>
      BY <1>1, <1>4, <2>1, IdleFields DEF IInv, TypeOK
    <3>3. \A v \in DOMAIN q.work : v \in Users
      BY DEF IInv, RequestsInv, RequestInv, JobInv
    <3>4. QED
      BY <1>1, <2>2, <2>5, <3>1, <3>2, <3>3 DEF WorkKnown, KnownAccount
  <2>7. RequestKnown(request[r])'
    BY <1>1, <2>2, <2>5, <2>6 DEF RequestKnown
  <2>8. QED
    BY <1>1, <1>2, <2>4, <2>5, <2>7, KnownKept
<1>5. QED
  BY <1>3, <1>4 DEF CreateAccount

LEMMA JoinGroupKnown ==
    ASSUME IInv, KnownInv, ~overlap, NEW r \in Requests, JoinGroup(r)
    PROVE  KnownInv'
<1> DEFINE q == request[r]
           m == NewMembership(q.group, q.permission)
           new == [q.seen EXCEPT !.groups = Append(q.seen.groups, m)]
<1>1. q.op = "invite" /\ q.at = "push" /\ q.user \in Users /\ q.seen \in Account
      /\ UNCHANGED <<group, placed, overlap>>
  BY DEF JoinGroup, At, IInv, RequestsInv, RequestInv, Sound, Bounds
<1>2. Serial(r)
  BY <1>1, Serially
<1>3. q.group \in DOMAIN group /\ WorkKnown(q) /\ KnownAccount(q.seen)
  BY <1>1, <1>2 DEF Serial, RequestKnown
<1>4. new.groups = Append(q.seen.groups, m) /\ q.seen.groups \in Seq(Membership)
  BY <1>1 DEF Account
<1>5. \A i \in DOMAIN new.groups : \/ new.groups[i] = m
                                   \/ \E j \in DOMAIN q.seen.groups : new.groups[i] = q.seen.groups[j]
  <2>1. PICK s \in Seq(Membership) : s = q.seen.groups
    BY <1>4
  <2>2. DOMAIN s = 1..Len(s) /\ Len(s) \in Nat
    BY LenProperties
  <2> HIDE DEF m, new
  <2>3. /\ DOMAIN Append(s, m) = 1..(Len(s) + 1)
        /\ \A i \in 1..(Len(s) + 1) : Append(s, m)[i] = IF i <= Len(s) THEN s[i] ELSE m
    BY <2>2
  <2>4. \A i \in DOMAIN Append(s, m) : Append(s, m)[i] = m \/ \E j \in DOMAIN s : Append(s, m)[i] = s[j]
    BY <2>2, <2>3
  <2>5. QED
    BY <1>4, <2>1, <2>4
<1>6. m.group = q.group
  BY DEF NewMembership, Joined
<1>7. user' = [user EXCEPT ![q.user] = new]
  BY DEF JoinGroup, WithMembership
<1> HIDE DEF new, m
<1>8. KnownAccount(new)
  <2>1. \A j \in DOMAIN q.seen.groups : q.seen.groups[j].group \in DOMAIN group
    BY <1>3 DEF KnownAccount, GroupsOf
  <2>2. \A i \in DOMAIN new.groups : new.groups[i].group \in DOMAIN group
    BY <1>3, <1>5, <1>6, <2>1
  <2>3. QED
    BY <2>2 DEF KnownAccount, GroupsOf
<1>9. StoreKnown'
  BY <1>1, <1>2, <1>7, <1>8, UserKnown DEF Serial, IInv
<1>10. CASE Done(r)
  BY <1>1, <1>2, <1>9, <1>10, DoneKnown
<1>11. CASE Goto(r, "mail")
  <2>1. /\ request'[r].at = "mail" /\ request'[r].op = "invite" /\ request'[r].group = q.group
        /\ request'[r].work = q.work
        /\ \A s \in Requests : s # r => request'[s] = request[s]
    BY SMTT(30), <1>1, <1>11, GotoFields DEF IInv
  <2>2. WorkKnown(request[r])'
    <3>1. \A v \in Users : v # q.user => user'[v] = user[v]
      BY <1>7 DEF IInv, TypeOK
    <3>2. user'[q.user].groups # <<>>
      <4>1. user'[q.user] = new
        BY <1>1, <1>7 DEF IInv, TypeOK
      <4>2. Append(q.seen.groups, m) # <<>>
        BY <1>4
      <4>3. QED
        BY <1>4, <4>1, <4>2 DEF new
    <3>3. \A v \in DOMAIN q.work : v \in Users
      BY DEF IInv, RequestsInv, RequestInv, JobInv
    <3>4. QED
      BY <1>1, <1>3, <2>1, <3>1, <3>2, <3>3 DEF WorkKnown, KnownAccount
  <2>3. RequestKnown(request[r])'
    BY <1>1, <1>3, <2>1, <2>2 DEF RequestKnown
  <2>4. QED
    BY <1>1, <1>2, <1>9, <2>1, <2>3, KnownKept
<1>12. QED
  BY <1>10, <1>11 DEF JoinGroup

LEMMA ActivateKnown ==
    ASSUME IInv, KnownInv, ~overlap, NEW r \in Requests, Activate(r)
    PROVE  KnownInv'
<1> DEFINE q == request[r]
           new == [q.seen EXCEPT !.status = "ACTIVE"]
<1>1. q.op = "register" /\ q.user \in Users /\ q.seen \in Account /\ UNCHANGED <<group, placed, overlap>>
      /\ Done(r) /\ user' = [user EXCEPT ![q.user] = new]
  BY DEF Activate, At, IInv, RequestsInv, RequestInv, Sound, Bounds
<1>2. Serial(r) /\ KnownAccount(q.seen)
  BY <1>1, Serially DEF Serial, RequestKnown
<1>3. new.groups = q.seen.groups
  BY <1>1 DEF Account
<1> HIDE DEF new
<1>4. KnownAccount(new)
  BY <1>2, <1>3 DEF KnownAccount, GroupsOf
<1>5. StoreKnown'
  BY <1>1, <1>2, <1>4, UserKnown DEF Serial, IInv
<1>6. QED
  BY <1>1, <1>2, <1>5, DoneKnown

LEMMA PlaceDeviceKnown ==
    ASSUME IInv, KnownInv, ~overlap, NEW r \in Requests, PlaceDevice(r)
    PROVE  KnownInv'
<1>1. /\ request[r].op = "addDevice" /\ Done(r) /\ UNCHANGED <<group, user, overlap>>
      /\ \A d \in Devices : placed'[d] \subseteq placed[d] \cup {request[r].group}
  BY DEF PlaceDevice, At, Bounds
<1>2. Serial(r)
  BY <1>1, Serially
<1>3. request[r].group \in DOMAIN group
  BY <1>1, <1>2 DEF Serial, RequestKnown
<1>4. StoreKnown'
  BY <1>1, <1>2, <1>3 DEF Serial, StoreKnown, OnTree, KnownAccount, GroupsOf
<1>5. QED
  BY <1>1, <1>2, <1>4, DoneKnown

LEMMA KnownNext == IInv /\ OnceInv /\ ProjectInv /\ KnownInv /\ [Next]_vars => KnownInv'
<1> SUFFICES ASSUME IInv, OnceInv, ProjectInv, KnownInv, [Next]_vars PROVE KnownInv'
  OBVIOUS
<1>1. CASE UNCHANGED vars
  <2>1. UNCHANGED <<group, user, placed, request, overlap>>
    BY <1>1 DEF vars, store
  <2>2. StoreKnown => StoreKnown'
    BY <2>1, SameKnown
  <2>3. ASSUME NEW r \in Requests, RequestKnown(request[r]) PROVE RequestKnown(request[r])'
    <3>1. DeletionKnown(request[r]) => DeletionKnown(request[r])'
      BY <2>1 DEF DeletionKnown, GroupsOf
    <3>2. WorkKnown(request[r]) => WorkKnown(request[r])'
      BY SMTT(30), <2>1 DEF WorkKnown, KnownAccount
    <3>3. QED
      BY <2>1, <2>3, <3>1, <3>2 DEF RequestKnown, KnownAccount, OnTree
  <2>4. QED
    BY <2>1, <2>2, <2>3 DEF KnownInv, Lone
<1>2. UNCHANGED overlap \/ UNCHANGED vars
  <2>1. CASE Restart
    BY SMTT(30), <2>1 DEF Restart
  <2>2. ASSUME NEW r \in Requests, Step(r) PROVE UNCHANGED overlap
    BY <2>2 DEF Step, CreateGroup, CreateProject, StoreGroup, DeleteGroup, FindMembers, UsersRemoved,
       FindDevices, UnplaceDevices, DeleteProject, EraseGroup, DeleteUsers, FindMember, DeletePermission,
       WriteMember, UseAnother, Invite, FindInvited, CreateAccount, JoinGroup, FindCode, CreateCode,
       Register, CheckCode, ConsumeCode, Activate, AddDevice, PlaceDevice, Bounds
  <2>3. QED
    BY <2>1, <2>2 DEF Next
<1>3. CASE overlap /\ UNCHANGED overlap
  BY <1>3 DEF KnownInv
<1>4. CASE ~overlap /\ Restart
  <2>1. \A r \in Requests : request'[r] = Idle
    BY <1>4 DEF Restart
  <2>2. \A r \in Requests : RequestKnown(request[r])'
    BY <2>1, IdleFields DEF RequestKnown, WorkKnown
  <2>3. Lone' /\ StoreKnown'
    BY <1>4, <2>1, SameKnown DEF Lone, KnownInv, Restart, store
  <2>4. QED
    BY <2>2, <2>3 DEF KnownInv
<1>5. ASSUME ~overlap, NEW r \in Requests, Step(r) PROVE KnownInv'
  <2>1. CASE CreateGroup(r) \/ DeleteGroup(r) \/ DeleteUsers(r) \/ Invite(r) \/ Register(r) \/ AddDevice(r)
    BY <1>5, <2>1, BeginsKnown
  <2>2. CASE CreateProject(r) \/ FindCode(r) \/ CreateCode(r) \/ CheckCode(r) \/ ConsumeCode(r)
    BY <1>5, <2>2, OtherKnown
  <2>3. CASE StoreGroup(r) \/ EraseGroup(r) \/ UnplaceDevices(r) \/ DeleteProject(r) \/ PlaceDevice(r)
    BY <1>5, <2>3, StoreGroupKnown, EraseGroupKnown, UnplaceDevicesKnown, PlaceDeviceKnown
  <2>4. CASE FindMembers(r) \/ UsersRemoved(r) \/ FindDevices(r)
    BY <1>5, <2>4, FindMembersKnown, UsersRemovedKnown, FindDevicesKnown
  <2>5. ASSUME NEW u \in Users,
               FindMember(r, u) \/ DeletePermission(r, u) \/ WriteMember(r, u) \/ UseAnother(r, u)
        PROVE  KnownInv'
    BY <1>5, <2>5, FindMemberKnown, DeletePermissionKnown, WriteMemberKnown, UseAnotherKnown
  <2>6. CASE FindInvited(r) \/ CreateAccount(r) \/ JoinGroup(r) \/ Activate(r)
    BY <1>5, <2>6, FindInvitedKnown, CreateAccountKnown, JoinGroupKnown, ActivateKnown
  <2>7. QED
    BY <1>5, <2>1, <2>2, <2>3, <2>4, <2>5, <2>6 DEF Step
<1>6. QED
  BY <1>1, <1>2, <1>3, <1>4, <1>5 DEF Next

LEMMA InitKnown == Init => KnownInv
<1> SUFFICES ASSUME Init PROVE KnownInv
  OBVIOUS
<1>1. /\ DOMAIN group = {Root} /\ group[Root] = <<>>
      /\ \A r \in Requests : request[r] = Idle
      /\ \A d \in Devices : placed[d] = {}
  BY DEF Init
<1>2. OnTree(<<>>)
  <2>1. Len(<<>>) = 0
    BY EmptySeq
  <2>2. QED
    BY <2>1 DEF OnTree
<1>3. \A u \in Users : KnownAccount(user[u])
  <2>1. ASSUME NEW u \in Users, u = Admin PROVE KnownAccount(user[u])
    <3>1. user[u].groups = <<Joined(Root, Full, TRUE)>>
      BY <2>1 DEF Init
    <3>2. DOMAIN <<Joined(Root, Full, TRUE)>> = {1} /\ <<Joined(Root, Full, TRUE)>>[1].group = Root
      BY DEF Joined
    <3>3. QED
      BY <1>1, <3>1, <3>2 DEF KnownAccount, GroupsOf
  <2>2. ASSUME NEW u \in Users, u # Admin PROVE KnownAccount(user[u])
    <3>1. user[u].groups = <<>> /\ DOMAIN <<>> = {}
      BY <2>2 DEF Init, NoAccount
    <3>2. QED
      BY <3>1 DEF KnownAccount, GroupsOf
  <2>3. QED
    BY <2>1, <2>2
<1>4. \A r \in Requests : RequestKnown(request[r])
  BY <1>1, IdleFields DEF RequestKnown, WorkKnown
<1>5. QED
  BY <1>1, <1>2, <1>3, <1>4 DEF KnownInv, Lone, StoreKnown

LEMMA KnownGroups == IInv /\ KnownInv => GroupsKnown
<1> SUFFICES ASSUME IInv, KnownInv, ~overlap PROVE GroupsKnown
  BY DEF GroupsKnown
<1>1. StoreKnown
  BY DEF KnownInv
<1>2. UsersLeaveGroup
  BY <1>1 DEF UsersLeaveGroup, Memberships, MembershipAt, StoreKnown, KnownAccount, GroupsOf
<1>3. ASSUME NEW g \in DOMAIN group PROVE ToSet(group[g]) \subseteq DOMAIN group
  <2>1. PICK path \in Seq(Groups) : path = group[g]
    BY DEF IInv, TypeOK
  <2>2. DOMAIN path = 1..Len(path) /\ \A n \in 1..Len(path) : path[n] \in DOMAIN group
    BY <1>1, <2>1, LenProperties DEF StoreKnown, OnTree
  <2>3. QED
    BY <2>1, <2>2 DEF ToSet
<1>4. QED
  BY <1>1, <1>2, <1>3 DEF GroupsKnown, StoreKnown

\* When requests do not overlap, also when restarts cut them off, nothing refers to a group that is
\* gone: a group is deleted only when no other is below it, and its document goes last, after the
\* users and the devices that were in it.
THEOREM DeletedGroupsForgotten == Spec => []GroupsKnown
<1>1. Spec => []OnceInv
  BY InitOnce, OnceNext, CopiesSound, PTL DEF Spec
<1>2. Spec => []ProjectInv
  BY InitProject, ProjectNext, CopiesSound, PTL DEF Spec
<1>3. Spec => []KnownInv
  BY <1>1, <1>2, InitKnown, KnownNext, CopiesSound, PTL DEF Spec
<1>4. QED
  BY <1>3, CopiesSound, KnownGroups, PTL

-----------------------------------------------------------------------------
(* When requests do not overlap and none is cut off, permissions match the *)
(* memberships and codes match the users who have not registered.          *)

PermissionsOf(account) == {account.groups[i].permission : i \in DOMAIN account.groups}

\* No permission is held twice, and ids that are held or stored are not given out again.
AccountsExact ==
    /\ \A u \in Users : user[u].status = "none" => user[u] = NoAccount
    /\ \A u \in Users : \A i, j \in DOMAIN user[u].groups :
         user[u].groups[i].permission = user[u].groups[j].permission => i = j
    /\ \A u, v \in Users : \A p \in PermissionsOf(user[u]) : p \in PermissionsOf(user[v]) => u = v
    /\ permission \subseteq allocated
    /\ \A u \in Users : PermissionsOf(user[u]) \subseteq allocated
    /\ \A c, d \in Codes : code[c] = code[d] /\ code[c] # None => c = d
    /\ \A c \in Codes : code[c] # None => c \in allocated /\ user[code[c]].status = "WAITING"

\* An invitation has created a permission that nobody holds yet.
Offering(q) == q.op = "invite" /\ q.at \in {"create", "push"}

\* A job has deleted a permission that its user still holds.
Leaving(q, u, p) ==
    /\ u \in DOMAIN q.work /\ q.work[u].at = "write"
    /\ q.work[u].seen.groups[q.work[u].position].permission = p

\* The user is to get a code, or has just used it.
WithoutCode(q) ==
    \/ q.op = "invite" /\ q.at = "code"
    \/ q.op = "register" /\ q.at = "activate"

PermissionsMatch(q) ==
    /\ \A p \in permission : (Offering(q) /\ q.permission = p) \/ \E u \in Users : p \in PermissionsOf(user[u])
    /\ \A u \in Users : \A p \in PermissionsOf(user[u]) : p \in permission \/ Leaving(q, u, p)

CodesMatch(q) ==
    /\ WithoutCode(q) => \A c \in Codes : code[c] # q.user
    /\ \A u \in Users : user[u].status = "WAITING" =>
         (WithoutCode(q) /\ q.user = u) \/ \E c \in Codes : code[c] = u

\* What a request carries is as it is stored.
CopiesExact(q) ==
    /\ IF q.at = "remove" THEN q.op \in {"deleteUsers", "deleteGroup"} ELSE DOMAIN q.work = {}
    /\ Offering(q) => q.permission \in permission /\ \A u \in Users : q.permission \notin PermissionsOf(user[u])
    /\ Offering(q) /\ q.at = "create" => user[q.user] = NoAccount
    /\ Offering(q) /\ q.at = "push" => q.seen = user[q.user] /\ q.seen.status # "none"
    /\ q.op = "invite" /\ q.at \in {"mail", "code"} => user[q.user].status = "WAITING"
    /\ q.op = "register" => q.seen = user[q.user] /\ q.code \in Codes
    /\ q.op = "register" /\ q.at \in {"check", "consume"} => code[q.code] = q.user
    /\ \A u \in DOMAIN q.work : q.work[u].at \in {"permission", "write"} =>
         /\ q.work[u].seen = user[u]
         /\ (q.work[u].at = "permission") <=> user[u].groups[q.work[u].position].permission \in permission

Exact(q) == AccountsExact /\ PermissionsMatch(q) /\ CodesMatch(q) /\ CopiesExact(q)

Unmarred == ~overlap /\ mishaps = 0

ExactInv ==
    Unmarred => /\ Quiet => Exact(Idle)
                /\ \A r \in Requests : request[r] # Idle => Exact(request[r])

LEMMA ExactNow ==
    ASSUME KnownInv, ExactInv, Unmarred, NEW r \in Requests,
           request[r].op # "idle" \/ request[r].at # "idle" \/ Quiet
    PROVE  Serial(r) /\ Exact(request[r])
<1>1. Serial(r)
  BY Serially DEF Unmarred
<1>2. CASE request[r] = Idle
  <2>1. Exact(Idle)
    BY <1>2, IdleFields DEF ExactInv
  <2>2. QED
    BY <1>1, <1>2, <2>1
<1>3. CASE request[r] # Idle
  BY <1>1, <1>3 DEF ExactInv
<1>4. QED
  BY <1>2, <1>3

LEMMA ExactKept ==
    ASSUME NEW r \in Requests, Serial(r), \A s \in Requests : s # r => request'[s] = request[s],
           AccountsExact', PermissionsMatch(request[r])', CodesMatch(request[r])', CopiesExact(request[r])'
    PROVE  ExactInv'
<1>1. \A s \in Requests : s # r => request'[s] = Idle
  BY DEF Serial
<1>2. Exact(request[r])'
  BY DEF Exact
<1>3. CASE request'[r] = Idle
  <2>1. Exact(Idle)'
    BY <1>3, IdleFields DEF Exact, PermissionsMatch, CodesMatch, CopiesExact, Offering, WithoutCode, Leaving
  <2>2. QED
    BY <1>1, <1>3, <2>1 DEF ExactInv
<1>4. CASE request'[r] # Idle
  BY <1>1, <1>2, <1>4 DEF ExactInv, Quiet
<1>5. QED
  BY <1>3, <1>4

LEMMA ExactEnds ==
    ASSUME IInv, NEW r \in Requests, Serial(r), Done(r),
           AccountsExact', PermissionsMatch(Idle)', CodesMatch(Idle)'
    PROVE  ExactInv'
<1>1. request'[r] = Idle /\ \A s \in Requests : s # r => request'[s] = request[s]
  BY DoneFields DEF IInv
<1>2. PermissionsMatch(request[r])' /\ CodesMatch(request[r])' /\ CopiesExact(request[r])'
  BY <1>1, IdleFields DEF PermissionsMatch, CodesMatch, CopiesExact, Offering, WithoutCode, Leaving
<1>3. QED
  BY <1>1, <1>2, ExactKept

\* A request with nothing at stake: it leaves users, permissions and codes alone.
Uninvolved(q) ==
    /\ q.op # "register" /\ (q.op = "invite" => q.at = "find")
    /\ IF q.at = "remove" THEN q.op \in {"deleteUsers", "deleteGroup"} ELSE DOMAIN q.work = {}
    /\ \A u \in DOMAIN q.work : q.work[u].at \notin {"permission", "write"}

LEMMA UninvolvedExact ==
    ASSUME NEW r \in Requests, Serial(r), Exact(request[r]), Uninvolved(request[r]), Uninvolved(request'[r]),
           UNCHANGED <<user, permission, code>>, allocated \subseteq allocated',
           \A s \in Requests : s # r => request'[s] = request[s]
    PROVE  ExactInv'
<1>1. AccountsExact'
  BY SMTT(30) DEF Exact, AccountsExact, PermissionsOf
<1>2. PermissionsMatch(request[r])'
  BY DEF Exact, PermissionsMatch, PermissionsOf, Uninvolved, Offering, Leaving
<1>3. CodesMatch(request[r])'
  BY DEF Exact, CodesMatch, Uninvolved, WithoutCode
<1>4. CopiesExact(request[r])'
  BY DEF CopiesExact, Uninvolved, Offering
<1>5. QED
  BY <1>1, <1>2, <1>3, <1>4, ExactKept

LEMMA BeginsExact ==
    ASSUME IInv, KnownInv, ExactInv, Unmarred, NEW r \in Requests,
           CreateGroup(r) \/ DeleteGroup(r) \/ DeleteUsers(r) \/ Invite(r) \/ AddDevice(r)
    PROVE  ExactInv'
<1>1. Begun(r) /\ allocated \subseteq allocated'
  BY CreateGroupBegins, DeleteGroupBegins, DeleteUsersBegins, InviteBegins, AddDeviceBegins
<1>2. Serial(r) /\ Exact(request[r]) /\ UNCHANGED <<user, permission, code>>
  BY <1>1, ExactNow DEF Begun, store, Unmarred
<1>3. Uninvolved(request[r])
  BY <1>1, IdleFields DEF Begun, Uninvolved
<1>4. Uninvolved(request'[r])
  <2>1. CASE CreateGroup(r)
    <3>1. request'[r].op = "createGroup" /\ request'[r].at \in {"project", "store"} /\ request'[r].work = <<>>
      BY <2>1, CreateGroupBegins
    <3>2. QED
      BY <3>1, IdleFields DEF Uninvolved
  <2>2. CASE DeleteGroup(r) \/ Invite(r) \/ AddDevice(r)
    <3>1. /\ request'[r].op \in {"deleteGroup", "invite", "addDevice"}
          /\ request'[r].at \in {"users", "find", "place"} /\ request'[r].work = <<>>
          /\ request'[r].op = "invite" => request'[r].at = "find"
      BY <2>2, DeleteGroupBegins, InviteBegins, AddDeviceBegins
    <3>2. QED
      BY <3>1, IdleFields DEF Uninvolved
  <2>3. CASE DeleteUsers(r)
    BY <2>3, DeleteUsersBegins DEF Uninvolved
  <2>4. QED
    BY <2>1, <2>2, <2>3
<1>5. QED
  BY <1>1, <1>2, <1>3, <1>4, UninvolvedExact DEF Begun

\* The steps of createGroup, deleteGroup and addDevice outside the jobs of deleteUsers.
LEMMA GroupStepsExact ==
    ASSUME IInv, KnownInv, ExactInv, Unmarred, NEW r \in Requests,
           \/ CreateProject(r) \/ StoreGroup(r) \/ FindMembers(r) \/ UsersRemoved(r) \/ FindDevices(r)
           \/ UnplaceDevices(r) \/ DeleteProject(r) \/ EraseGroup(r) \/ PlaceDevice(r)
    PROVE  ExactInv'
<1> DEFINE q == request[r]
<1>1. /\ UNCHANGED <<user, permission, code, allocated>>
      /\ q.at = "remove" \/ q.op \in {"createGroup", "deleteGroup", "addDevice"}
  BY DEF At, CreateProject, StoreGroup, FindMembers, UsersRemoved, FindDevices, UnplaceDevices,
         DeleteProject, EraseGroup, PlaceDevice, store
<1>2. Serial(r) /\ Exact(q)
  BY <1>1, ExactNow
<1>3. /\ q.op \in {"createGroup", "deleteGroup", "addDevice", "deleteUsers"}
      /\ IF q.at = "remove" THEN q.op \in {"deleteUsers", "deleteGroup"} ELSE DOMAIN q.work = {}
  BY <1>1, <1>2 DEF Exact, CopiesExact
<1>4. Uninvolved(q)
  <2>1. CASE q.at = "remove"
    <3>1. UsersRemoved(r)
      BY <2>1 DEF At, CreateProject, StoreGroup, FindMembers, FindDevices, UnplaceDevices,
                  DeleteProject, EraseGroup, PlaceDevice
    <3>2. \A u \in DOMAIN q.work : q.work[u].at \in {"done", "failed"}
      BY <3>1 DEF UsersRemoved
    <3>3. QED
      BY <1>3, <2>1, <3>2 DEF Uninvolved
  <2>2. CASE q.at # "remove"
    BY <1>3, <2>2 DEF Uninvolved
  <2>3. QED
    BY <2>1, <2>2
<1>5. Uninvolved(request'[r]) /\ \A s \in Requests : s # r => request'[s] = request[s]
  <2>1. CASE Done(r)
    BY <2>1, DoneFields, IdleFields DEF Uninvolved, IInv
  <2>2. CASE q.at # "remove" /\ \E at \in {"store", "erase", "project"} : Goto(r, at)
    BY <1>3, <2>2, GotoFields DEF Uninvolved, IInv
  <2>3. ASSUME NEW us \in SUBSET Users, Works(r, "remove", Jobs(us)), q.op = "deleteGroup"
        PROVE  Uninvolved(request'[r]) /\ \A s \in Requests : s # r => request'[s] = request[s]
    <3>1. \A u \in DOMAIN Jobs(us) : Jobs(us)[u].at = "find"
      BY DEF Jobs, WithoutUser
    <3>2. QED
      BY <2>3, <3>1, WorkFields DEF Uninvolved, IInv
  <2>4. CASE FindMembers(r)
    <3>1. {u \in Users : q.group \in GroupsOf(user[u])} \in SUBSET Users
      OBVIOUS
    <3>2. QED
      BY <2>1, <2>3, <2>4, <3>1 DEF FindMembers, At, Works
  <2>5. CASE Works(r, "devices", <<>>)
    BY <1>3, <2>5, WorkFields, IdleFields DEF Uninvolved, IInv
  <2>6. CASE FindDevices(r)
    <3> DEFINE found == {d \in Devices : q.group \in placed[d]}
    <3>1. PICK at : Finds(r, at, found) /\ at \in {"project", "erase", "unplace"}
      BY <2>6 DEF FindDevices, Finds, AfterDevices
    <3>2. q.at # "remove"
      BY SMTT(30), <2>6 DEF FindDevices, At
    <3>3. QED
      BY <1>3, <3>1, <3>2, FoundFields DEF Uninvolved, IInv
  <2>7. QED
    BY <2>1, <2>2, <2>4, <2>5, <2>6 DEF CreateProject, Refused, StoreGroup, UsersRemoved, UnplaceDevices,
       DeleteProject, EraseGroup, PlaceDevice, AfterDevices, At, Works
<1>6. QED
  BY <1>1, <1>2, <1>4, <1>5, UninvolvedExact

-----------------------------------------------------------------------------
(* The jobs of deleteUsers.                                                *)

LEMMA WorkingExact ==
    ASSUME IInv, KnownInv, ExactInv, Unmarred, NEW r \in Requests, NEW u \in Users, NEW at, Working(r, u, at)
    PROVE  /\ Serial(r) /\ Exact(request[r]) /\ JobInv(u, request[r].work[u])
           /\ u \in DOMAIN request[r].work /\ request[r].work[u].at = at
           /\ request[r].at = "remove" /\ request[r].op \in {"deleteUsers", "deleteGroup"}
           /\ user[u] \in Account
<1>1. Serial(r) /\ u \in DOMAIN request[r].work /\ JobInv(u, request[r].work[u]) /\ request[r].work[u].at = at
  BY WorkingSerial DEF Unmarred, Working
<1>2. Exact(request[r])
  BY <1>1, IdleFields DEF ExactInv
<1>3. request[r].at = "remove"
  BY <1>1, <1>2 DEF Exact, CopiesExact
<1>4. QED
  BY <1>1, <1>2, <1>3 DEF Exact, CopiesExact, IInv, TypeOK

LEMMA JobExact ==
    ASSUME IInv, NEW r \in Requests, NEW u \in Users, NEW job, Serial(r), Exact(request[r]),
           u \in DOMAIN request[r].work, request[r].at = "remove", request[r].op \in {"deleteUsers", "deleteGroup"},
           Set(r, u, job), UNCHANGED code, AccountsExact',
           \A v \in Users : v # u => user'[v] = user[v],
           user'[u].status = user[u].status,
           \A p \in permission' : \E v \in Users : p \in PermissionsOf(user'[v]),
           \A p \in PermissionsOf(user'[u]) :
               p \in permission' \/ (job.at = "write" /\ job.seen.groups[job.position].permission = p),
           \A v \in Users : \A p \in PermissionsOf(user[v]) : v # u => (p \in permission' <=> p \in permission),
           job.at \in {"permission", "write"} =>
               /\ job.seen = user'[u]
               /\ (job.at = "permission") <=> user'[u].groups[job.position].permission \in permission'
    PROVE  ExactInv'
<1> DEFINE q == request[r]
<1>1. /\ request'[r].at = q.at /\ request'[r].op = q.op
      /\ DOMAIN request'[r].work = DOMAIN q.work
      /\ \A v \in DOMAIN q.work : request'[r].work[v] = IF v = u THEN job ELSE q.work[v]
      /\ \A s \in Requests : s # r => request'[s] = request[s]
  BY SetFields DEF IInv
<1>2. \A v \in DOMAIN q.work : v \in Users /\ JobInv(v, q.work[v])
  BY DEF IInv, RequestsInv, RequestInv, JobInv
<1>3. PermissionsMatch(request[r])'
  <2>1. ASSUME NEW v \in Users, NEW p \in PermissionsOf(user'[v])
        PROVE  p \in permission' \/ Leaving(request'[r], v, p)
    <3>1. CASE v = u
      BY <1>1, <2>1, <3>1 DEF Leaving
    <3>2. CASE v # u
      <4>1. p \in PermissionsOf(user[v])
        BY <2>1, <3>2
      <4>2. p \in permission \/ Leaving(q, v, p)
        BY SMTT(30), <4>1 DEF Exact, PermissionsMatch
      <4>3. Leaving(q, v, p) => Leaving(request'[r], v, p)
        BY <1>1, <3>2 DEF Leaving
      <4>4. p \in permission => p \in permission'
        BY <3>2, <4>1
      <4>5. QED
        BY <4>2, <4>3, <4>4
    <3>3. QED
      BY <3>1, <3>2
  <2>2. QED
    BY <2>1 DEF PermissionsMatch
<1>4. CodesMatch(request[r])'
  <2>1. \A v \in Users : user'[v].status = user[v].status
    OBVIOUS
  <2>2. ~WithoutCode(q)
    BY SMTT(30) DEF WithoutCode
  <2>3. QED
    BY <1>1, <2>1, <2>2 DEF Exact, CodesMatch, WithoutCode
<1>5. CopiesExact(request[r])'
  <2>1. CopiesExact(q)
    BY SMTT(30) DEF Exact
  <2>2. ASSUME NEW v \in DOMAIN request'[r].work, request'[r].work[v].at \in {"permission", "write"}
        PROVE  /\ request'[r].work[v].seen = user'[v]
               /\ (request'[r].work[v].at = "permission")
                  <=> user'[v].groups[request'[r].work[v].position].permission \in permission'
    <3>1. CASE v = u
      BY SMTT(30), <1>1, <2>2, <3>1
    <3>2. CASE v # u
      <4>1. /\ v \in DOMAIN q.work /\ request'[r].work[v] = q.work[v] /\ v \in Users
            /\ user'[v] = user[v] /\ JobInv(v, q.work[v])
        BY SMTT(30), <1>1, <1>2, <2>2, <3>2
      <4>2. /\ q.work[v].seen = user[v]
            /\ (q.work[v].at = "permission") <=> user[v].groups[q.work[v].position].permission \in permission
        BY <2>1, <2>2, <4>1 DEF CopiesExact
      <4>3. q.work[v].position \in DOMAIN user[v].groups
        BY SMTT(30), <2>2, <4>1, <4>2 DEF JobInv
      <4>4. user[v].groups[q.work[v].position].permission \in PermissionsOf(user[v])
        BY SMTT(30), <4>3 DEF PermissionsOf
      <4>5. user[v].groups[q.work[v].position].permission \in permission'
            <=> user[v].groups[q.work[v].position].permission \in permission
        BY <3>2, <4>1, <4>4
      <4>6. QED
        BY <4>1, <4>2, <4>5
    <3>3. QED
      BY <3>1, <3>2
  <2>3. ~Offering(request'[r])
    BY <1>1 DEF Offering
  <2>4. QED
    BY <1>1, <2>2, <2>3 DEF CopiesExact
<1>6. QED
  BY <1>1, <1>3, <1>4, <1>5, ExactKept

\* A user whose groups and permissions exist is fetched as it is stored.
LEMMA FetchedExact ==
    ASSUME TypeOK, NEW u \in Users, KnownAccount(user[u]), PermissionsOf(user[u]) \subseteq permission
    PROVE  Fetched(u) = user[u]
<1>1. PICK s \in Seq(Membership) : s = user[u].groups
  BY FetchedFields
<1>2. user[u] \in Account
  BY DEF TypeOK
<1>3. ASSUME NEW i \in DOMAIN s PROVE Populated(s[i]) = s[i]
  <2>1. s[i] \in Membership
    BY <1>3, LenProperties, ElementOfSeq
  <2>2. s[i].group \in DOMAIN group /\ s[i].permission \in permission
    BY <1>1, <1>3 DEF KnownAccount, GroupsOf, PermissionsOf
  <2>3. QED
    BY <2>1, <2>2 DEF Populated, Joined, Membership
<1>4. [i \in DOMAIN s |-> Populated(s[i])] = s
  <2>1. s = [i \in DOMAIN s |-> s[i]]
    BY LenProperties, ElementOfSeq
  <2>2. QED
    BY <1>3, <2>1
<1>5. Fetched(u) = [user[u] EXCEPT !.groups = s]
  BY <1>1, <1>4 DEF Fetched
<1>6. QED
  BY <1>1, <1>2, <1>5 DEF Account

LEMMA FindMemberExact ==
    ASSUME IInv, KnownInv, ExactInv, Unmarred, NEW r \in Requests, NEW u \in Users, FindMember(r, u)
    PROVE  ExactInv'
<1> DEFINE q == request[r]
<1>1. /\ UNCHANGED <<user, permission, code, allocated>>
      /\ Serial(r) /\ Exact(q) /\ u \in DOMAIN q.work /\ q.work[u].at = "find"
      /\ q.at = "remove" /\ q.op \in {"deleteUsers", "deleteGroup"}
  BY WorkingExact DEF FindMember, store
<1>2. PermissionsOf(user[u]) \subseteq permission
  BY <1>1 DEF Exact, PermissionsMatch, Leaving
<1>3. Fetched(u) = user[u]
  BY <1>1, <1>2, FetchedExact DEF Serial, StoreKnown, IInv
<1>4. PICK job : /\ Set(r, u, job)
                 /\ \/ job.at \in {"done", "failed"}
                    \/ /\ job.seen = Fetched(u) /\ job.position \in DOMAIN Fetched(u).groups
                       /\ job.at = IF job.seen.groups[job.position].permission = None
                                   THEN "write" ELSE "permission"
  BY FindMemberJob
<1>5. job.at \in {"permission", "write"} =>
        /\ job.seen = user[u] /\ job.at = "permission"
        /\ user[u].groups[job.position].permission \in permission
  <2> SUFFICES ASSUME job.at \in {"permission", "write"}
               PROVE  /\ job.seen = user[u] /\ job.at = "permission"
                      /\ user[u].groups[job.position].permission \in permission
    OBVIOUS
  <2>1. job.seen = user[u] /\ job.position \in DOMAIN user[u].groups
    BY <1>3, <1>4
  <2>2. user[u].groups[job.position].permission \in permission
    BY <1>2, <2>1 DEF PermissionsOf
  <2>3. None \notin permission
    BY GroupsUsersAssumption DEF IInv, TypeOK
  <2>4. QED
    BY <1>4, <2>1, <2>2, <2>3
<1>6. AccountsExact'
  BY <1>1 DEF Exact, AccountsExact, PermissionsOf
<1>7. \A p \in permission : \E v \in Users : p \in PermissionsOf(user[v])
  BY SMTT(30), <1>1 DEF Exact, PermissionsMatch, Offering
<1>8. QED
  BY <1>1, <1>2, <1>4, <1>5, <1>6, <1>7, JobExact

LEMMA DeletePermissionExact ==
    ASSUME IInv, KnownInv, ExactInv, Unmarred, NEW r \in Requests, NEW u \in Users, DeletePermission(r, u)
    PROVE  ExactInv'
<1> DEFINE q == request[r]
           job == q.work[u]
           gone == job.seen.groups[job.position].permission
           next == [job EXCEPT !.at = "write"]
<1>1. /\ UNCHANGED <<user, code, allocated>>
      /\ Serial(r) /\ Exact(q) /\ JobInv(u, job) /\ u \in DOMAIN q.work /\ job.at = "permission"
      /\ q.at = "remove" /\ q.op \in {"deleteUsers", "deleteGroup"}
  BY SMTT(30), WorkingExact DEF DeletePermission
<1>2. permission' = permission \ {gone} /\ Set(r, u, next)
  BY SMTT(30) DEF DeletePermission, WithoutPermission
<1>3. job.seen = user[u] /\ job.position \in DOMAIN user[u].groups /\ gone \in PermissionsOf(user[u])
  BY <1>1 DEF Exact, CopiesExact, JobInv, PermissionsOf
<1>4. next.at = "write" /\ next.seen = user[u] /\ next.position = job.position
  BY <1>1, <1>3 DEF JobInv
<1>5. gone = user[u].groups[job.position].permission
  BY <1>3
<1> HIDE DEF next, gone
<1>6. AccountsExact'
  BY <1>1, <1>2 DEF Exact, AccountsExact, PermissionsOf
<1>7. \A p \in permission' : \E v \in Users : p \in PermissionsOf(user[v])
  BY <1>1, <1>2 DEF Exact, PermissionsMatch, Offering
<1>8. \A p \in PermissionsOf(user[u]) : p \in permission' \/ gone = p
  BY <1>1, <1>2 DEF Exact, PermissionsMatch, Leaving
<1>9. \A v \in Users : \A p \in PermissionsOf(user[v]) : v # u => p # gone
  BY SMTT(30), <1>1, <1>3 DEF Exact, AccountsExact
<1>10. \A v \in Users : \A p \in PermissionsOf(user[v]) : v # u => (p \in permission' <=> p \in permission)
  BY <1>2, <1>9
<1>11. \A p \in PermissionsOf(user[u]) :
         p \in permission' \/ (next.at = "write" /\ next.seen.groups[next.position].permission = p)
  BY SMTT(30), <1>4, <1>5, <1>8
<1>12. ~(user[u].groups[next.position].permission \in permission')
  BY <1>2, <1>4, <1>5
<1>13. QED
  BY SMTT(30), <1>1, <1>2, <1>4, <1>6, <1>7, <1>10, <1>11, <1>12, JobExact

LEMMA RemovedPermissions ==
    ASSUME NEW s \in Seq(Membership), NEW p \in DOMAIN s,
           \A i, j \in DOMAIN s : s[i].permission = s[j].permission => i = j
    PROVE  /\ \A i, j \in DOMAIN RemoveAt(s, p) :
                RemoveAt(s, p)[i].permission = RemoveAt(s, p)[j].permission => i = j
           /\ {RemoveAt(s, p)[i].permission : i \in DOMAIN RemoveAt(s, p)}
              = {s[i].permission : i \in DOMAIN s} \ {s[p].permission}
<1>1. PICK len \in Nat : p \in 1..len /\ DOMAIN s = 1..len /\ len = Len(s)
  BY LenProperties
<1> DEFINE left == RemoveAt(s, p)
           from(i) == IF i < p THEN i ELSE i + 1
<1>2. DOMAIN left = 1..(len - 1) /\ \A i \in 1..(len - 1) : left[i] = IF i < p THEN s[i] ELSE s[i + 1]
  BY ZenonT(60), <1>1, RemovedElements
<1> HIDE DEF left
<1>3. \A i \in 1..(len - 1) : from(i) \in DOMAIN s /\ from(i) # p /\ left[i] = s[from(i)]
  BY <1>1, <1>2
<1>4. \A i, j \in 1..(len - 1) : from(i) = from(j) => i = j
  BY <1>1
<1>5. ASSUME NEW j \in DOMAIN s, j # p PROVE \E i \in 1..(len - 1) : from(i) = j
  <2>1. CASE j < p
    <3>1. j \in 1..(len - 1) /\ from(j) = j
      BY <1>1, <2>1
    <3>2. QED
      BY <3>1
  <2>2. CASE j > p
    <3>1. j - 1 \in 1..(len - 1) /\ from(j - 1) = j
      BY <1>1, <2>2
    <3>2. QED
      BY <3>1
  <2>3. j < p \/ j > p
    BY <1>1, <1>5
  <2>4. QED
    BY <2>1, <2>2, <2>3
<1> HIDE DEF from
<1>6. \A i, j \in DOMAIN left : left[i].permission = left[j].permission => i = j
  BY <1>2, <1>3, <1>4
<1>7. \A x \in {left[i].permission : i \in DOMAIN left} :
        x \in {s[i].permission : i \in DOMAIN s} /\ x # s[p].permission
  BY <1>2, <1>3
<1>8. ASSUME NEW j \in DOMAIN s, s[j].permission # s[p].permission
      PROVE  s[j].permission \in {left[i].permission : i \in DOMAIN left}
  <2>1. PICK i \in 1..(len - 1) : from(i) = j
    BY <1>5, <1>8
  <2>2. left[i] = s[j] /\ i \in DOMAIN left
    BY <1>2, <1>3, <2>1
  <2>3. QED
    BY <2>2
<1>9. {left[i].permission : i \in DOMAIN left} = {s[i].permission : i \in DOMAIN s} \ {s[p].permission}
  BY ZenonT(60), <1>7, <1>8
<1>10. QED
  BY <1>6, <1>9 DEF left

\* A user is written with the permissions it had, all or all but some.
LEMMA WrittenExact ==
    ASSUME TypeOK, AccountsExact, NEW u \in Users, NEW account,
           user' = [user EXCEPT ![u] = account], UNCHANGED <<permission, code, allocated>>,
           account.status = user[u].status, account.status # "none",
           PermissionsOf(account) \subseteq PermissionsOf(user[u]),
           \A i, j \in DOMAIN account.groups : account.groups[i].permission = account.groups[j].permission => i = j
    PROVE  AccountsExact' /\ user'[u] = account /\ \A v \in Users : v # u => user'[v] = user[v]
<1>1. user'[u] = account /\ \A v \in Users : v # u => user'[v] = user[v]
  BY DEF TypeOK
<1>2. \A v \in Users : user'[v].status = "none" => user'[v] = NoAccount
  BY <1>1 DEF AccountsExact
<1>3. \A v \in Users : \A i, j \in DOMAIN user'[v].groups :
        user'[v].groups[i].permission = user'[v].groups[j].permission => i = j
  BY <1>1 DEF AccountsExact
<1>4. \A v \in Users : PermissionsOf(user'[v]) \subseteq PermissionsOf(user[v])
  BY <1>1
<1>5. \A v, w \in Users : \A p \in PermissionsOf(user'[v]) : p \in PermissionsOf(user'[w]) => v = w
  BY <1>4 DEF AccountsExact
<1>6. \A v \in Users : PermissionsOf(user'[v]) \subseteq allocated
  BY <1>4 DEF AccountsExact
<1>7. \A c \in Codes : code[c] # None => user'[code[c]].status = "WAITING"
  BY <1>1 DEF AccountsExact, TypeOK
<1>8. AccountsExact'
  BY <1>2, <1>3, <1>5, <1>6, <1>7 DEF AccountsExact
<1>9. QED
  BY <1>1, <1>8

\* A user with groups has an account.
LEMMA HasAccount ==
    ASSUME AccountsExact, NEW u \in Users, user[u].groups # <<>>
    PROVE  user[u].status # "none"
BY DEF AccountsExact, NoAccount

LEMMA WriteMemberExact ==
    ASSUME IInv, KnownInv, ExactInv, Unmarred, NEW r \in Requests, NEW u \in Users, WriteMember(r, u)
    PROVE  ExactInv'
<1> DEFINE q == request[r]
           job == q.work[u]
           next == [job EXCEPT !.at = IF job.seen.groups[job.position].inUse
                                         /\ RemoveAt(job.seen.groups, job.position) # <<>>
                                      THEN "use" ELSE "done"]
           new == [job.seen EXCEPT !.groups = RemoveAt(job.seen.groups, job.position)]
<1>1. /\ UNCHANGED <<permission, code, allocated>>
      /\ Serial(r) /\ Exact(q) /\ JobInv(u, job) /\ u \in DOMAIN q.work /\ job.at = "write"
      /\ q.at = "remove" /\ q.op \in {"deleteUsers", "deleteGroup"} /\ user[u] \in Account
  BY SMTT(30), WorkingExact DEF WriteMember
<1>2. job.seen = user[u] /\ job.position \in DOMAIN user[u].groups
  BY <1>1 DEF Exact, CopiesExact, JobInv
<1>3. PICK s \in Seq(Membership) : s = user[u].groups
  BY <1>1 DEF Account
<1>4. PICK p \in DOMAIN s : p = job.position
  BY SMTT(30), <1>2, <1>3
<1>5. s[p].permission \notin permission
  BY <1>1, <1>2, <1>3, <1>4 DEF Exact, CopiesExact
<1>6. ~Broken(job.seen)
  BY SMTT(30), <1>1, <1>2, KnownWhole DEF Serial, StoreKnown, IInv
<1>7. user' = [user EXCEPT ![u] = new] /\ Set(r, u, next)
  BY <1>6 DEF WriteMember
<1>8. next.at \in {"use", "done"}
  BY <1>1 DEF JobInv
<1>9. new.groups = RemoveAt(s, p) /\ new.status = user[u].status
  BY <1>1, <1>2, <1>3, <1>4 DEF Account
<1> HIDE DEF new, next
<1>10. /\ \A i, j \in DOMAIN RemoveAt(s, p) :
            RemoveAt(s, p)[i].permission = RemoveAt(s, p)[j].permission => i = j
       /\ {RemoveAt(s, p)[i].permission : i \in DOMAIN RemoveAt(s, p)}
          = {s[i].permission : i \in DOMAIN s} \ {s[p].permission}
  <2>1. \A i, j \in DOMAIN s : s[i].permission = s[j].permission => i = j
    BY <1>1, <1>3 DEF Exact, AccountsExact
  <2>2. QED
    BY <2>1, RemovedPermissions
<1>11. /\ PermissionsOf(new) = PermissionsOf(user[u]) \ {s[p].permission}
       /\ \A i, j \in DOMAIN new.groups : new.groups[i].permission = new.groups[j].permission => i = j
  <2>1. PICK left : left = RemoveAt(s, p)
    OBVIOUS
  <2>2. PermissionsOf(new) = {left[i].permission : i \in DOMAIN left}
    BY <1>9, <2>1 DEF PermissionsOf
  <2>3. PermissionsOf(user[u]) = {s[i].permission : i \in DOMAIN s}
    BY <1>3 DEF PermissionsOf
  <2>4. \A i, j \in DOMAIN left : left[i].permission = left[j].permission => i = j
    BY <1>10, <2>1
  <2>5. {left[i].permission : i \in DOMAIN left} = {s[i].permission : i \in DOMAIN s} \ {s[p].permission}
    BY <1>10, <2>1
  <2>6. QED
    BY <1>9, <2>1, <2>2, <2>3, <2>4, <2>5
<1>12. new.status # "none"
  <2>1. user[u].groups # <<>>
    BY <1>3, <1>4, IdleFields
  <2>2. QED
    BY <1>1, <1>9, <2>1, HasAccount DEF Exact
<1>13. AccountsExact' /\ user'[u] = new /\ \A v \in Users : v # u => user'[v] = user[v]
  BY <1>1, <1>7, <1>9, <1>11, <1>12, WrittenExact DEF Exact, IInv
<1>14. ASSUME NEW g \in permission PROVE \E v \in Users : g \in PermissionsOf(user'[v])
  <2>1. PICK v \in Users : g \in PermissionsOf(user[v])
    BY <1>1 DEF Exact, PermissionsMatch, Offering
  <2>2. g # s[p].permission
    BY <1>5
  <2>3. g \in PermissionsOf(user'[v])
    BY SMTT(30), <1>11, <1>13, <2>1, <2>2
  <2>4. QED
    BY <2>3
<1>15. ASSUME NEW g \in PermissionsOf(user'[u]) PROVE g \in permission
  <2>1. g \in PermissionsOf(user[u]) /\ g # s[p].permission
    BY <1>11, <1>13
  <2>2. QED
    BY <1>1, <1>2, <1>3, <1>4, <2>1 DEF Exact, PermissionsMatch, Leaving
<1>16. QED
  BY <1>1, <1>7, <1>8, <1>9, <1>13, <1>14, <1>15, JobExact

LEMMA UseAnotherExact ==
    ASSUME IInv, KnownInv, ExactInv, Unmarred, NEW r \in Requests, NEW u \in Users, UseAnother(r, u)
    PROVE  ExactInv'
<1> DEFINE q == request[r]
           job == q.work[u]
           next == [job EXCEPT !.at = "done"]
           new == [user[u] EXCEPT !.groups = FirstInUse(user[u].groups)]
<1>1. /\ UNCHANGED <<permission, code, allocated>>
      /\ Serial(r) /\ Exact(q) /\ JobInv(u, job) /\ u \in DOMAIN q.work /\ job.at = "use"
      /\ q.at = "remove" /\ q.op \in {"deleteUsers", "deleteGroup"} /\ user[u] \in Account
  BY WorkingExact DEF UseAnother
<1>2. PICK s \in Seq(Membership) : s = user[u].groups
  BY <1>1 DEF Account
<1>3. s # <<>>
  BY <1>1, <1>2 DEF Serial, RequestKnown, WorkKnown
<1>4. 1 \in DOMAIN s /\ \A i \in DOMAIN s : s[i] \in Membership
  BY <1>3, EmptySeq, LenProperties, ElementOfSeq
<1>5. new.groups = [s EXCEPT ![1].inUse = TRUE] /\ new.status = user[u].status
  BY <1>1, <1>2, <1>3 DEF FirstInUse, Account
<1>6. DOMAIN new.groups = DOMAIN s /\ \A i \in DOMAIN s : new.groups[i].permission = s[i].permission
  BY <1>4, <1>5 DEF Membership
<1>7. user' = [user EXCEPT ![u] = new] /\ Set(r, u, next)
  BY DEF UseAnother
<1>8. next.at = "done"
  BY <1>1 DEF JobInv
<1> HIDE DEF new, next
<1>9. /\ PermissionsOf(new) = PermissionsOf(user[u])
      /\ \A i, j \in DOMAIN new.groups : new.groups[i].permission = new.groups[j].permission => i = j
  BY <1>1, <1>2, <1>6 DEF PermissionsOf, Exact, AccountsExact
<1>10. new.status # "none"
  BY <1>1, <1>2, <1>3, <1>5, HasAccount DEF Exact
<1>11. AccountsExact' /\ user'[u] = new /\ \A v \in Users : v # u => user'[v] = user[v]
  BY <1>1, <1>5, <1>7, <1>9, <1>10, WrittenExact DEF Exact, IInv
<1>12. \A p \in permission : \E v \in Users : p \in PermissionsOf(user'[v])
  <2>1. \A v \in Users : PermissionsOf(user'[v]) = PermissionsOf(user[v])
    BY SMTT(30), <1>9, <1>11
  <2>2. QED
    BY <1>1, <2>1 DEF Exact, PermissionsMatch, Offering
<1>13. \A p \in PermissionsOf(user'[u]) : p \in permission
  BY <1>1, <1>9, <1>11 DEF Exact, PermissionsMatch, Leaving
<1>14. QED
  BY <1>1, <1>5, <1>7, <1>8, <1>11, <1>12, <1>13, JobExact

-----------------------------------------------------------------------------
(* Invitations and registrations.                                          *)

\* The permission a user gets is nobody else's.
LEMMA GrantedExact ==
    ASSUME TypeOK, AccountsExact, NEW u \in Users, NEW account, NEW p \in permission,
           user' = [user EXCEPT ![u] = account], UNCHANGED <<permission, code, allocated>>,
           account.status # "none", user[u].status = "WAITING" => account.status = "WAITING",
           PermissionsOf(account) = PermissionsOf(user[u]) \cup {p},
           \A v \in Users : p \notin PermissionsOf(user[v]),
           \A i, j \in DOMAIN account.groups : account.groups[i].permission = account.groups[j].permission => i = j
    PROVE  AccountsExact' /\ user'[u] = account /\ \A v \in Users : v # u => user'[v] = user[v]
<1>1. user'[u] = account /\ \A v \in Users : v # u => user'[v] = user[v]
  BY DEF TypeOK
<1>2. \A v \in Users : user'[v].status = "none" => user'[v] = NoAccount
  BY <1>1 DEF AccountsExact
<1>3. \A v \in Users : \A i, j \in DOMAIN user'[v].groups :
        user'[v].groups[i].permission = user'[v].groups[j].permission => i = j
  BY <1>1 DEF AccountsExact
<1>4. \A v \in Users : \A x \in PermissionsOf(user'[v]) : x \in PermissionsOf(user[v]) \/ (v = u /\ x = p)
  BY <1>1
<1>5. \A v, w \in Users : \A x \in PermissionsOf(user'[v]) : x \in PermissionsOf(user'[w]) => v = w
  BY <1>4 DEF AccountsExact
<1>6. \A v \in Users : PermissionsOf(user'[v]) \subseteq allocated
  BY <1>4 DEF AccountsExact
<1>7. \A c \in Codes : code[c] # None => user'[code[c]].status = "WAITING"
  BY <1>1 DEF AccountsExact, TypeOK
<1>8. AccountsExact'
  BY <1>2, <1>3, <1>5, <1>6, <1>7 DEF AccountsExact
<1>9. QED
  BY <1>1, <1>8

LEMMA FindInvitedExact ==
    ASSUME IInv, KnownInv, ExactInv, Unmarred, NEW r \in Requests, FindInvited(r)
    PROVE  ExactInv'
<1> DEFINE q == request[r]
           seen == Fetched(q.user)
<1>1. q.op = "invite" /\ q.at = "find" /\ q.user \in Users /\ UNCHANGED <<user, code>>
  BY DEF FindInvited, At, IInv, RequestsInv, RequestInv
<1>2. Serial(r) /\ Exact(q)
  BY <1>1, ExactNow
<1>3. DOMAIN q.work = {}
  BY <1>1, <1>2 DEF Exact, CopiesExact
<1>4. seen = user[q.user] /\ user[q.user] \in Account
  <2>1. PermissionsOf(user[q.user]) \subseteq permission
    BY <1>1, <1>2, <1>3 DEF Exact, PermissionsMatch, Leaving
  <2>2. QED
    BY <1>1, <1>2, <2>1, FetchedExact DEF Serial, StoreKnown, IInv, TypeOK
<1> HIDE DEF seen
<1>5. ASSUME NEW at \in {"create", "push"}, at = "create" <=> seen.status = "none", Permit(r, at, seen)
      PROVE ExactInv'
  <2>1. PICK p \in Permissions : /\ Permits(r, at, seen, p) /\ p \notin allocated
                                 /\ allocated' = allocated \cup {p} /\ permission' = permission \cup {p}
    BY <1>5 DEF Permit, Permits, NewId
  <2>2. /\ request'[r].at = at /\ request'[r].op = "invite" /\ request'[r].permission = p
        /\ request'[r].seen = seen /\ request'[r].work = q.work /\ request'[r].user = q.user
        /\ \A s \in Requests : s # r => request'[s] = request[s]
    BY <1>1, <2>1, PermitFields DEF IInv
  <2>3. \A u \in Users : p \notin PermissionsOf(user[u])
    BY <1>2, <2>1 DEF Exact, AccountsExact
  <2>4. AccountsExact'
    BY SMTT(30), <1>1, <1>2, <2>1 DEF Exact, AccountsExact, PermissionsOf
  <2>5. PermissionsMatch(request[r])'
    BY <1>1, <1>2, <1>3, <2>1, <2>2 DEF Exact, PermissionsMatch, Leaving, Offering, PermissionsOf
  <2>6. CodesMatch(request[r])'
    BY <1>1, <1>2, <2>2 DEF Exact, CodesMatch, WithoutCode
  <2>7. seen.status = "none" => user[q.user] = NoAccount
    BY <1>1, <1>2, <1>4 DEF Exact, AccountsExact
  <2>8. CopiesExact(request[r])'
    <3>1. request'[r].permission \in permission' /\ \A u \in Users : request'[r].permission \notin PermissionsOf(user[u])
      BY <2>1, <2>2, <2>3
    <3>2. request'[r].at = "create" => user[request'[r].user] = NoAccount
      BY <1>5, <2>2, <2>7
    <3>3. request'[r].at = "push" => request'[r].seen = user[request'[r].user] /\ request'[r].seen.status # "none"
      BY <1>4, <1>5, <2>2
    <3>4. QED
      BY <1>1, <1>3, <2>2, <3>1, <3>2, <3>3 DEF CopiesExact, PermissionsOf
  <2>9. QED
    BY <1>2, <2>2, <2>4, <2>5, <2>6, <2>8, ExactKept
<1>6. ASSUME UNCHANGED <<permission, allocated>>, Done(r) \/ (Goto(r, "mail") /\ seen.status = "WAITING")
      PROVE  ExactInv'
  <2>1. AccountsExact'
    BY <1>1, <1>2, <1>6 DEF Exact, AccountsExact, PermissionsOf
  <2>2. PermissionsMatch(Idle)' /\ CodesMatch(Idle)'
    BY <1>1, <1>2, <1>3, <1>6, IdleFields DEF Exact, PermissionsMatch, CodesMatch, Offering, WithoutCode,
       Leaving, PermissionsOf
  <2>3. CASE Done(r)
    BY <1>2, <2>1, <2>2, <2>3, ExactEnds
  <2>4. CASE Goto(r, "mail") /\ seen.status = "WAITING"
    <3>1. /\ request'[r].at = "mail" /\ request'[r].op = "invite"
          /\ request'[r].work = q.work /\ request'[r].user = q.user
          /\ \A s \in Requests : s # r => request'[s] = request[s]
      BY SMTT(30), <1>1, <2>4, GotoFields DEF IInv
    <3>2. PermissionsMatch(request[r])'
      BY <1>1, <1>2, <1>3, <1>6, <3>1 DEF Exact, PermissionsMatch, Leaving, Offering, PermissionsOf
    <3>3. CodesMatch(request[r])'
      BY <1>1, <1>2, <3>1 DEF Exact, CodesMatch, WithoutCode
    <3>4. CopiesExact(request[r])'
      BY <1>1, <1>3, <1>4, <2>4, <3>1 DEF CopiesExact, Offering
    <3>5. QED
      BY <1>2, <2>1, <3>1, <3>2, <3>3, <3>4, ExactKept
  <2>5. QED
    BY <1>6, <2>3, <2>4
<1>7. seen.status \in {"none", "WAITING", "ACTIVE"} /\ ~Broken(seen)
  BY <1>1, <1>2, <1>4, KnownWhole DEF Account, Serial, StoreKnown, IInv
<1>8. QED
  BY <1>5, <1>6, <1>7 DEF FindInvited, seen

LEMMA CreateAccountExact ==
    ASSUME IInv, KnownInv, ExactInv, Unmarred, NEW r \in Requests, CreateAccount(r)
    PROVE  ExactInv'
<1> DEFINE q == request[r]
           m == Joined(q.group, q.permission, TRUE)
           new == [status |-> "WAITING", groups |-> <<m>>]
<1>1. q.op = "invite" /\ q.at = "create" /\ q.user \in Users /\ UNCHANGED <<permission, code, allocated>>
  BY DEF CreateAccount, At, IInv, RequestsInv, RequestInv
<1>2. Serial(r) /\ Exact(q)
  BY <1>1, ExactNow
<1>3. /\ DOMAIN q.work = {} /\ user[q.user] = NoAccount /\ q.permission \in permission
      /\ \A u \in Users : q.permission \notin PermissionsOf(user[u])
  BY <1>1, <1>2 DEF Exact, CopiesExact, Offering
<1>4. user' = [user EXCEPT ![q.user] = new] /\ Goto(r, "code")
  BY <1>3 DEF CreateAccount
<1>5. DOMAIN <<m>> = {1} /\ <<m>>[1] = m /\ m.permission = q.permission
  BY DEF Joined
<1> HIDE DEF m
<1>6. DOMAIN new.groups = {1} /\ new.groups[1].permission = q.permission /\ new.status = "WAITING"
  BY <1>5
<1> HIDE DEF new
<1>7. DOMAIN user[q.user].groups = {} /\ user[q.user].status = "none"
  BY <1>3, IdleFields DEF NoAccount
<1>8. PermissionsOf(new) = PermissionsOf(user[q.user]) \cup {q.permission}
  <2>1. PermissionsOf(user[q.user]) = {}
    BY <1>7 DEF PermissionsOf
  <2>2. PermissionsOf(new) = {q.permission}
    BY <1>6 DEF PermissionsOf
  <2>3. QED
    BY <2>1, <2>2
<1>9. AccountsExact' /\ user'[q.user] = new /\ \A v \in Users : v # q.user => user'[v] = user[v]
  <2>1. \A i, j \in DOMAIN new.groups : new.groups[i].permission = new.groups[j].permission => i = j
    BY <1>6
  <2>2. new.status # "none" /\ (user[q.user].status = "WAITING" => new.status = "WAITING")
    BY <1>6
  <2>3. QED
    BY <1>1, <1>2, <1>3, <1>4, <1>8, <2>1, <2>2, GrantedExact DEF Exact, IInv
<1>10. /\ request'[r].at = "code" /\ request'[r].op = "invite"
       /\ request'[r].work = q.work /\ request'[r].user = q.user
       /\ \A s \in Requests : s # r => request'[s] = request[s]
  BY <1>1, <1>4, GotoFields DEF IInv
<1>11. PermissionsMatch(request[r])'
  <2>1. \A p \in permission : \E u \in Users : p \in PermissionsOf(user'[u])
    <3>1. ASSUME NEW p \in permission, NEW u \in Users, p \in PermissionsOf(user[u])
          PROVE  p \in PermissionsOf(user'[u])
      BY <1>8, <1>9, <3>1
    <3>2. q.permission \in PermissionsOf(user'[q.user])
      BY <1>8, <1>9
    <3>3. QED
      BY <1>1, <1>2, <3>1, <3>2 DEF Exact, PermissionsMatch
  <2>2. \A u \in Users : \A p \in PermissionsOf(user'[u]) : p \in permission
    <3>1. \A u \in Users : \A p \in PermissionsOf(user[u]) : p \in permission
      BY <1>2, <1>3 DEF Exact, PermissionsMatch, Leaving
    <3>2. QED
      BY <1>3, <1>8, <1>9, <3>1
  <2>3. QED
    BY <1>1, <2>1, <2>2 DEF PermissionsMatch
<1>12. \A c \in Codes : code[c] # q.user
  BY <1>1, <1>2, <1>7, GroupsUsersAssumption DEF Exact, AccountsExact
<1>13. CodesMatch(request[r])'
  BY <1>1, <1>2, <1>9, <1>10, <1>12 DEF Exact, CodesMatch, WithoutCode
<1>14. CopiesExact(request[r])'
  BY <1>1, <1>3, <1>6, <1>9, <1>10 DEF CopiesExact, Offering
<1>15. QED
  BY <1>2, <1>9, <1>10, <1>11, <1>13, <1>14, ExactKept

LEMMA JoinGroupExact ==
    ASSUME IInv, KnownInv, ExactInv, Unmarred, NEW r \in Requests, JoinGroup(r)
    PROVE  ExactInv'
<1> DEFINE q == request[r]
           m == NewMembership(q.group, q.permission)
           new == [q.seen EXCEPT !.groups = Append(q.seen.groups, m)]
<1>1. q.op = "invite" /\ q.at = "push" /\ q.user \in Users /\ UNCHANGED <<permission, code, allocated>>
  BY DEF JoinGroup, At, IInv, RequestsInv, RequestInv
<1>2. Serial(r) /\ Exact(q)
  BY <1>1, ExactNow
<1>3. /\ DOMAIN q.work = {} /\ q.permission \in permission /\ q.seen = user[q.user] /\ q.seen.status # "none"
      /\ \A u \in Users : q.permission \notin PermissionsOf(user[u])
  BY <1>1, <1>2 DEF Exact, CopiesExact, Offering
<1>4. PICK s \in Seq(Membership) : s = user[q.user].groups /\ user[q.user] \in Account
  BY <1>1, FetchedFields DEF IInv, TypeOK
<1>5. PICK n \in Nat : n = Len(s) /\ DOMAIN s = 1..n
  BY LenProperties
<1>6. m.permission = q.permission
  BY DEF NewMembership, Joined
<1>7. user' = [user EXCEPT ![q.user] = new] /\ (Done(r) \/ Goto(r, "mail"))
      /\ (Goto(r, "mail") \/ q.seen.status = "ACTIVE")
      /\ (Done(r) \/ q.seen.status # "ACTIVE")
  BY DEF JoinGroup, WithMembership
<1> HIDE DEF m
<1>8. new.groups = Append(s, m) /\ new.status = user[q.user].status
  BY <1>3, <1>4 DEF Account
<1> HIDE DEF new
<1>9. /\ DOMAIN Append(s, m) = 1..(n + 1)
      /\ \A i \in 1..(n + 1) : Append(s, m)[i] = IF i <= n THEN s[i] ELSE m
  BY <1>4, <1>5
<1>10. /\ DOMAIN new.groups = 1..(n + 1) /\ new.groups[n + 1].permission = q.permission
       /\ \A i \in 1..n : new.groups[i] = s[i]
  BY <1>6, <1>8, <1>9
<1>11. PermissionsOf(user[q.user]) = {s[i].permission : i \in 1..n}
  BY <1>4, <1>5 DEF PermissionsOf
<1>12. \A i \in 1..(n + 1) : i \in 1..n \/ i = n + 1
  OBVIOUS
<1>13. PermissionsOf(new) = PermissionsOf(user[q.user]) \cup {q.permission}
  <2>1. PermissionsOf(new) = {new.groups[i].permission : i \in 1..(n + 1)}
    BY <1>10 DEF PermissionsOf
  <2>2. n + 1 \in 1..(n + 1) /\ \A i \in 1..n : i \in 1..(n + 1)
    OBVIOUS
  <2>3. QED
    BY <1>10, <1>11, <1>12, <2>1, <2>2
<1>14. \A i, j \in DOMAIN new.groups : new.groups[i].permission = new.groups[j].permission => i = j
  <2>1. \A i \in 1..n : s[i].permission # q.permission
    BY <1>1, <1>3, <1>11
  <2>2. \A i, j \in 1..n : s[i].permission = s[j].permission => i = j
    BY <1>1, <1>2, <1>4, <1>5 DEF Exact, AccountsExact
  <2>3. QED
    BY <1>10, <1>12, <2>1, <2>2
<1>15. AccountsExact' /\ user'[q.user] = new /\ \A v \in Users : v # q.user => user'[v] = user[v]
  <2>1. new.status # "none" /\ (user[q.user].status = "WAITING" => new.status = "WAITING")
    BY <1>3, <1>8
  <2>2. QED
    BY <1>1, <1>2, <1>3, <1>7, <1>13, <1>14, <2>1, GrantedExact DEF Exact, IInv
<1>16. \A p \in permission : \E u \in Users : p \in PermissionsOf(user'[u])
  <2>1. ASSUME NEW p \in permission, NEW u \in Users, p \in PermissionsOf(user[u])
        PROVE  p \in PermissionsOf(user'[u])
    BY <1>13, <1>15, <2>1
  <2>2. q.permission \in PermissionsOf(user'[q.user])
    BY <1>13, <1>15
  <2>3. QED
    BY <1>1, <1>2, <2>1, <2>2 DEF Exact, PermissionsMatch
<1>17. \A u \in Users : \A p \in PermissionsOf(user'[u]) : p \in permission
  <2>1. \A u \in Users : \A p \in PermissionsOf(user[u]) : p \in permission
    BY <1>2, <1>3 DEF Exact, PermissionsMatch, Leaving
  <2>2. QED
    BY <1>3, <1>13, <1>15, <2>1
<1>18. \A u \in Users : user'[u].status = user[u].status
  BY <1>8, <1>15
<1>19. \A u \in Users : user'[u].status = "WAITING" => \E c \in Codes : code[c] = u
  BY <1>1, <1>2, <1>18 DEF Exact, CodesMatch, WithoutCode
<1>20. CASE Done(r)
  <2>1. PermissionsMatch(Idle)' /\ CodesMatch(Idle)'
    BY <1>1, <1>16, <1>17, <1>19, IdleFields DEF PermissionsMatch, CodesMatch, WithoutCode
  <2>2. QED
    BY <1>2, <1>15, <1>20, <2>1, ExactEnds
<1>21. CASE Goto(r, "mail") /\ q.seen.status # "ACTIVE"
  <2>1. /\ request'[r].at = "mail" /\ request'[r].op = "invite"
        /\ request'[r].work = q.work /\ request'[r].user = q.user
        /\ \A s0 \in Requests : s0 # r => request'[s0] = request[s0]
    BY <1>1, <1>21, GotoFields DEF IInv
  <2>2. PermissionsMatch(request[r])' /\ CodesMatch(request[r])'
    BY <1>1, <1>16, <1>17, <1>19, <2>1 DEF PermissionsMatch, CodesMatch, WithoutCode
  <2>3. new.status = "WAITING"
    BY <1>3, <1>4, <1>8, <1>21 DEF Account
  <2>4. CopiesExact(request[r])'
    BY <1>1, <1>3, <1>15, <2>1, <2>3 DEF CopiesExact, Offering
  <2>5. QED
    BY <1>2, <1>15, <2>1, <2>2, <2>4, ExactKept
<1>22. QED
  BY <1>7, <1>20, <1>21

\* The steps that move an invitation or a registration on and change at most a code.
LEMMA CodeStepExact ==
    ASSUME IInv, NEW r \in Requests, Serial(r), Exact(request[r]), NEW at, Goto(r, at),
           request[r].op \in {"invite", "register"}, ~Offering(request[r]), at \notin {"create", "push", "remove"},
           UNCHANGED <<user, permission>>, AccountsExact', CodesMatch(request[r])',
           request[r].op = "invite" /\ at \in {"mail", "code"} => user[request[r].user].status = "WAITING",
           request[r].op = "register" /\ at \in {"check", "consume"} => code'[request[r].code] = request[r].user
    PROVE  ExactInv'
<1> DEFINE q == request[r]
<1>1. /\ request'[r].at = at /\ request'[r].op = q.op /\ request'[r].work = q.work /\ request'[r].user = q.user
      /\ request'[r].seen = q.seen /\ request'[r].code = q.code
      /\ \A s \in Requests : s # r => request'[s] = request[s]
  BY GotoFields DEF IInv
<1>2. DOMAIN q.work = {} /\ (q.op = "register" => q.seen = user[q.user] /\ q.code \in Codes)
  BY DEF Exact, CopiesExact
<1>3. PermissionsMatch(request[r])'
  BY <1>1, <1>2 DEF Exact, PermissionsMatch, Leaving, Offering, PermissionsOf
<1>4. CopiesExact(request[r])'
  BY <1>1, <1>2 DEF CopiesExact, Offering
<1>5. QED
  BY <1>1, <1>3, <1>4, ExactKept

LEMMA FindCodeExact ==
    ASSUME IInv, KnownInv, ExactInv, Unmarred, NEW r \in Requests, FindCode(r), UNCHANGED mishaps
    PROVE  ExactInv'
<1> DEFINE q == request[r]
<1>1. q.op = "invite" /\ q.at = "mail" /\ UNCHANGED <<user, permission, allocated>> /\ q.user \in Users
  BY DEF FindCode, At, IInv, RequestsInv, RequestInv
<1>2. Serial(r) /\ Exact(q)
  BY <1>1, ExactNow
<1>3. UNCHANGED code
  BY DEF FindCode, Mishap, Unmarred
<1>4. AccountsExact'
  BY <1>1, <1>2, <1>3 DEF Exact, AccountsExact, PermissionsOf
<1>5. CASE Done(r)
  <2>1. PermissionsMatch(Idle)' /\ CodesMatch(Idle)'
    BY <1>1, <1>2, <1>3, IdleFields DEF Exact, PermissionsMatch, CodesMatch, Offering, WithoutCode,
       CopiesExact, Leaving, PermissionsOf
  <2>2. QED
    BY SMTT(30), <1>2, <1>4, <1>5, <2>1, ExactEnds
<1>6. CASE Goto(r, "code") /\ \A c \in Codes : code[c] # q.user
  <2>1. request'[r].at = "code" /\ request'[r].op = "invite" /\ request'[r].user = q.user
    BY <1>1, <1>6, GotoFields DEF IInv
  <2>2. CodesMatch(request[r])'
    BY <1>1, <1>2, <1>3, <1>6, <2>1 DEF Exact, CodesMatch, WithoutCode
  <2>3. user[q.user].status = "WAITING" /\ ~Offering(q)
    BY <1>1, <1>2 DEF Exact, CopiesExact, Offering
  <2>4. QED
    BY <1>1, <1>2, <1>4, <1>6, <2>2, <2>3, CodeStepExact
<1>7. QED
  BY <1>5, <1>6 DEF FindCode, Mishap, Unmarred

LEMMA CreateCodeExact ==
    ASSUME IInv, KnownInv, ExactInv, Unmarred, NEW r \in Requests, CreateCode(r)
    PROVE  ExactInv'
<1> DEFINE q == request[r]
<1>1. q.op = "invite" /\ q.at = "code" /\ UNCHANGED <<user, permission>> /\ Done(r) /\ q.user \in Users
  BY DEF CreateCode, At, IInv, RequestsInv, RequestInv
<1>2. Serial(r) /\ Exact(q)
  BY <1>1, ExactNow
<1>3. PICK c \in Codes : c \notin allocated /\ allocated' = allocated \cup {c} /\ code' = [code EXCEPT ![c] = q.user]
  BY DEF CreateCode, NewId
<1>4. code'[c] = q.user /\ \A d \in Codes : d # c => code'[d] = code[d]
  BY <1>3 DEF IInv, TypeOK
<1>5. code[c] = None /\ user[q.user].status = "WAITING" /\ \A d \in Codes : code[d] # q.user
  BY <1>1, <1>2, <1>3 DEF Exact, AccountsExact, CopiesExact, CodesMatch, WithoutCode
<1>6. AccountsExact'
  <2>1. \A d, e \in Codes : code'[d] = code'[e] /\ code'[d] # None => d = e
    BY <1>2, <1>4, <1>5 DEF Exact, AccountsExact
  <2>2. \A d \in Codes : code'[d] # None => d \in allocated' /\ user[code'[d]].status = "WAITING"
    BY SMTT(30), <1>2, <1>3, <1>4, <1>5 DEF Exact, AccountsExact
  <2>3. QED
    BY <1>1, <1>2, <1>3, <2>1, <2>2 DEF Exact, AccountsExact, PermissionsOf
<1>7. PermissionsMatch(Idle)'
  BY <1>1, <1>2, IdleFields DEF Exact, PermissionsMatch, Offering, CopiesExact, Leaving, PermissionsOf
<1>8. CodesMatch(Idle)'
  <2>1. ASSUME NEW u \in Users, user[u].status = "WAITING" PROVE \E d \in Codes : code'[d] = u
    <3>1. CASE u = q.user
      BY <1>4, <3>1
    <3>2. CASE u # q.user
      <4>1. PICK d \in Codes : code[d] = u
        BY <1>2, <2>1, <3>2 DEF Exact, CodesMatch
      <4>2. d # c
        BY <1>5, <4>1, GroupsUsersAssumption
      <4>3. QED
        BY <1>4, <4>1, <4>2
    <3>3. QED
      BY <3>1, <3>2
  <2>2. QED
    BY <1>1, <2>1, IdleFields DEF CodesMatch, WithoutCode
<1>9. QED
  BY <1>1, <1>2, <1>6, <1>7, <1>8, ExactEnds

LEMMA RegisterExact ==
    ASSUME IInv, KnownInv, ExactInv, Unmarred, NEW r \in Requests, Register(r)
    PROVE  ExactInv'
<1> DEFINE n == request'[r]
<1>1. Begun(r) /\ UNCHANGED allocated /\ n.op = "register" /\ n.at = "check" /\ n.work = <<>>
  BY RegisterBegins
<1>2. Serial(r) /\ Exact(Idle) /\ UNCHANGED <<user, permission, code>>
  BY <1>1, ExactNow DEF Begun, store, Unmarred
<1>3. PICK c \in Codes : code[c] \in Users /\ n.code = c /\ n.user = code[c] /\ n.seen = Fetched(code[c])
  BY RegisterBegins
<1>4. Fetched(code[c]) = user[code[c]]
  <2>1. PermissionsOf(user[code[c]]) \subseteq permission
    BY <1>2, <1>3, IdleFields DEF Exact, PermissionsMatch, Leaving
  <2>2. QED
    BY <1>2, <1>3, <2>1, FetchedExact DEF Serial, StoreKnown, IInv
<1>5. n.seen = user[n.user]
  BY <1>3, <1>4
<1>6. AccountsExact'
  BY <1>1, <1>2 DEF Exact, AccountsExact, PermissionsOf
<1>7. PermissionsMatch(request[r])'
  BY <1>1, <1>2, IdleFields DEF Exact, PermissionsMatch, Offering, Leaving, PermissionsOf
<1>8. CodesMatch(request[r])'
  BY <1>1, <1>2, IdleFields DEF Exact, CodesMatch, WithoutCode
<1>9. CopiesExact(request[r])'
  BY <1>1, <1>2, <1>3, <1>5, IdleFields DEF CopiesExact, Offering
<1>10. QED
  BY <1>1, <1>2, <1>6, <1>7, <1>8, <1>9, ExactKept DEF Begun

LEMMA CheckCodeExact ==
    ASSUME IInv, KnownInv, ExactInv, Unmarred, NEW r \in Requests, CheckCode(r), UNCHANGED mishaps
    PROVE  ExactInv'
<1> DEFINE q == request[r]
<1>1. q.op = "register" /\ q.at = "check" /\ UNCHANGED <<user, permission, allocated>> /\ q.user \in Users
  BY DEF CheckCode, At, IInv, RequestsInv, RequestInv
<1>2. Serial(r) /\ Exact(q)
  BY <1>1, ExactNow
<1>3. code[q.code] = q.user
  BY <1>1, <1>2 DEF Exact, CopiesExact
<1>4. UNCHANGED code /\ Goto(r, "consume")
  BY <1>1, <1>3, GroupsUsersAssumption DEF CheckCode, Mishap, Unmarred
<1>5. AccountsExact'
  BY <1>1, <1>2, <1>4 DEF Exact, AccountsExact, PermissionsOf
<1>6. request'[r].at = "consume" /\ request'[r].op = "register" /\ request'[r].user = q.user
  BY <1>1, <1>4, GotoFields DEF IInv
<1>7. CodesMatch(request[r])'
  BY <1>1, <1>2, <1>4, <1>6 DEF Exact, CodesMatch, WithoutCode
<1>8. QED
  BY <1>1, <1>2, <1>3, <1>4, <1>5, <1>7, CodeStepExact DEF Offering

LEMMA ConsumeCodeExact ==
    ASSUME IInv, KnownInv, ExactInv, Unmarred, NEW r \in Requests, ConsumeCode(r)
    PROVE  ExactInv'
<1> DEFINE q == request[r]
<1>1. q.op = "register" /\ q.at = "consume" /\ UNCHANGED <<user, permission, allocated>> /\ q.user \in Users
      /\ code' = [code EXCEPT ![q.code] = None] /\ Goto(r, "activate")
  BY DEF ConsumeCode, Consumed, At, IInv, RequestsInv, RequestInv
<1>2. Serial(r) /\ Exact(q)
  BY <1>1, ExactNow
<1>3. q.code \in Codes /\ code[q.code] = q.user
  BY <1>1, <1>2 DEF Exact, CopiesExact
<1>4. code'[q.code] = None /\ \A d \in Codes : d # q.code => code'[d] = code[d]
  BY <1>1, <1>3 DEF IInv, TypeOK
<1>5. AccountsExact'
  <2>1. \A d, e \in Codes : code'[d] = code'[e] /\ code'[d] # None => d = e
    BY <1>2, <1>4 DEF Exact, AccountsExact
  <2>2. \A d \in Codes : code'[d] # None => d \in allocated' /\ user[code'[d]].status = "WAITING"
    BY <1>1, <1>2, <1>4 DEF Exact, AccountsExact
  <2>3. QED
    BY <1>1, <1>2, <2>1, <2>2 DEF Exact, AccountsExact, PermissionsOf
<1>6. request'[r].at = "activate" /\ request'[r].op = "register" /\ request'[r].user = q.user
  BY <1>1, GotoFields DEF IInv
<1>7. CodesMatch(request[r])'
  <2>1. \A d \in Codes : code'[d] # q.user
    <3>1. None # q.user
      BY <1>1, GroupsUsersAssumption
    <3>2. \A d \in Codes : code[d] = q.user => d = q.code
      BY <1>2, <1>3, <3>1 DEF Exact, AccountsExact
    <3>3. QED
      BY <1>4, <3>1, <3>2
  <2>2. ASSUME NEW u \in Users, user[u].status = "WAITING", u # q.user PROVE \E d \in Codes : code'[d] = u
    <3>1. PICK d \in Codes : code[d] = u
      BY <1>1, <1>2, <2>2 DEF Exact, CodesMatch, WithoutCode
    <3>2. QED
      BY <1>3, <1>4, <2>2, <3>1
  <2>3. QED
    BY <1>1, <1>6, <2>1, <2>2 DEF CodesMatch, WithoutCode
<1>8. QED
  BY <1>1, <1>2, <1>5, <1>7, CodeStepExact DEF Offering

LEMMA ActivateExact ==
    ASSUME IInv, KnownInv, ExactInv, Unmarred, NEW r \in Requests, Activate(r)
    PROVE  ExactInv'
<1> DEFINE q == request[r]
           new == [q.seen EXCEPT !.status = "ACTIVE"]
<1>1. q.op = "register" /\ q.at = "activate" /\ UNCHANGED <<code, permission, allocated>> /\ q.user \in Users
      /\ user' = [user EXCEPT ![q.user] = new] /\ Done(r)
  BY DEF Activate, At, IInv, RequestsInv, RequestInv
<1>2. Serial(r) /\ Exact(q)
  BY <1>1, ExactNow
<1>3. q.seen = user[q.user] /\ DOMAIN q.work = {} /\ \A c \in Codes : code[c] # q.user
  BY <1>1, <1>2 DEF Exact, CopiesExact, CodesMatch, WithoutCode
<1>4. new.status = "ACTIVE" /\ new.groups = user[q.user].groups
  BY <1>1, <1>3 DEF IInv, TypeOK, Account
<1> HIDE DEF new
<1>5. user'[q.user] = new /\ \A v \in Users : v # q.user => user'[v] = user[v]
  BY <1>1 DEF IInv, TypeOK
<1>6. \A v \in Users : user'[v].groups = user[v].groups /\ PermissionsOf(user'[v]) = PermissionsOf(user[v])
  BY <1>4, <1>5 DEF PermissionsOf
<1>7. AccountsExact'
  <2>1. \A v \in Users : user'[v].status = "none" => user'[v] = NoAccount
    BY <1>2, <1>4, <1>5 DEF Exact, AccountsExact
  <2>2. \A v \in Users : \A i, j \in DOMAIN user'[v].groups :
          user'[v].groups[i].permission = user'[v].groups[j].permission => i = j
    BY <1>2, <1>6 DEF Exact, AccountsExact
  <2>3. \A v, w \in Users : \A p \in PermissionsOf(user'[v]) : p \in PermissionsOf(user'[w]) => v = w
    BY <1>2, <1>6 DEF Exact, AccountsExact
  <2>4. \A v \in Users : PermissionsOf(user'[v]) \subseteq allocated
    BY <1>2, <1>6 DEF Exact, AccountsExact
  <2>5. \A c \in Codes : code[c] # None => user'[code[c]].status = "WAITING"
    BY <1>2, <1>3, <1>5 DEF Exact, AccountsExact, IInv, TypeOK
  <2>6. QED
    BY <1>1, <1>2, <2>1, <2>2, <2>3, <2>4, <2>5 DEF Exact, AccountsExact
<1>8. PermissionsMatch(Idle)'
  <2>1. \A p \in permission : \E u \in Users : p \in PermissionsOf(user'[u])
    BY <1>1, <1>2, <1>6 DEF Exact, PermissionsMatch, Offering
  <2>2. \A u \in Users : \A p \in PermissionsOf(user'[u]) : p \in permission
    BY <1>2, <1>3, <1>6 DEF Exact, PermissionsMatch, Leaving
  <2>3. QED
    BY <1>1, <2>1, <2>2 DEF PermissionsMatch
<1>9. CodesMatch(Idle)'
  <2>1. ASSUME NEW u \in Users, user'[u].status = "WAITING" PROVE \E c \in Codes : code[c] = u
    <3>1. u # q.user /\ user[u].status = "WAITING"
      BY <1>4, <1>5, <2>1
    <3>2. QED
      BY <1>2, <3>1 DEF Exact, CodesMatch
  <2>2. QED
    BY <1>1, <2>1, IdleFields DEF CodesMatch, WithoutCode
<1>10. QED
  BY <1>1, <1>2, <1>7, <1>8, <1>9, ExactEnds

\* Overlap is for a whole behaviour, and no step makes up for a mishap.
LEMMA UnmarredBefore ==
    ASSUME ProjectInv, [Next]_vars, Unmarred'
    PROVE  Unmarred /\ UNCHANGED mishaps
<1>1. UNCHANGED overlap /\ mishaps' \in {mishaps, mishaps + 1}
  <2>1. CASE UNCHANGED vars
    BY <2>1 DEF vars
  <2>2. CASE Restart
    BY SMTT(30), <2>2 DEF Restart, Mishap
  <2>3. ASSUME NEW r \in Requests, Step(r) PROVE UNCHANGED overlap /\ mishaps' \in {mishaps, mishaps + 1}
    BY <2>3 DEF Step, CreateGroup, CreateProject, StoreGroup, DeleteGroup, FindMembers, UsersRemoved,
       FindDevices, UnplaceDevices, DeleteProject, EraseGroup, DeleteUsers, FindMember, DeletePermission,
       WriteMember, UseAnother, Invite, FindInvited, CreateAccount, JoinGroup, FindCode, CreateCode,
       Register, CheckCode, ConsumeCode, Activate, AddDevice, PlaceDevice, Bounds, Mishap
  <2>4. QED
    BY <2>1, <2>2, <2>3 DEF Next
<1>2. mishaps \in Nat
  BY DEF ProjectInv
<1>3. QED
  BY <1>1, <1>2 DEF Unmarred

LEMMA ExactNext == IInv /\ ProjectInv /\ KnownInv /\ ExactInv /\ [Next]_vars => ExactInv'
<1> SUFFICES ASSUME IInv, ProjectInv, KnownInv, ExactInv, [Next]_vars, Unmarred' PROVE ExactInv'
  BY DEF ExactInv
<1>1. Unmarred /\ UNCHANGED mishaps
  BY UnmarredBefore
<1>2. CASE UNCHANGED vars
  <2>1. UNCHANGED <<user, permission, code, allocated, request>>
    BY <1>2 DEF vars, store
  <2>2. AccountsExact => AccountsExact'
    BY <2>1 DEF AccountsExact, PermissionsOf
  <2>3. Quiet => Exact(Idle)'
    <3>1. Quiet => Exact(Idle)
      BY SMTT(30), <1>1 DEF ExactInv
    <3>2. QED
      BY <2>1, <2>2, <3>1 DEF Exact, PermissionsMatch, CodesMatch, CopiesExact, PermissionsOf
  <2>4. ASSUME NEW r \in Requests, request[r] # Idle PROVE Exact(request[r])'
    <3>1. Exact(request[r])
      BY <1>1, <2>4 DEF ExactInv
    <3>2. QED
      BY <2>1, <2>2, <3>1 DEF Exact, PermissionsMatch, CodesMatch, CopiesExact, PermissionsOf
  <2>5. QED
    BY <2>1, <2>3, <2>4 DEF ExactInv, Quiet
<1>3. CASE Restart
  BY <1>1, <1>3 DEF Restart, Mishap, ProjectInv
<1>4. ASSUME NEW r \in Requests, Step(r) PROVE ExactInv'
  <2>1. CASE CreateGroup(r) \/ DeleteGroup(r) \/ DeleteUsers(r) \/ Invite(r) \/ AddDevice(r)
    BY <1>1, <2>1, BeginsExact
  <2>2. CASE \/ CreateProject(r) \/ StoreGroup(r) \/ FindMembers(r) \/ UsersRemoved(r) \/ FindDevices(r)
             \/ UnplaceDevices(r) \/ DeleteProject(r) \/ EraseGroup(r) \/ PlaceDevice(r)
    BY <1>1, <2>2, GroupStepsExact
  <2>3. ASSUME NEW u \in Users,
               FindMember(r, u) \/ DeletePermission(r, u) \/ WriteMember(r, u) \/ UseAnother(r, u)
        PROVE  ExactInv'
    BY <1>1, <2>3, FindMemberExact, DeletePermissionExact, WriteMemberExact, UseAnotherExact
  <2>4. CASE FindInvited(r) \/ CreateAccount(r) \/ JoinGroup(r) \/ FindCode(r) \/ CreateCode(r)
    BY <1>1, <2>4, FindInvitedExact, CreateAccountExact, JoinGroupExact, FindCodeExact, CreateCodeExact
  <2>5. CASE Register(r) \/ CheckCode(r) \/ ConsumeCode(r) \/ Activate(r)
    BY <1>1, <2>5, RegisterExact, CheckCodeExact, ConsumeCodeExact, ActivateExact
  <2>6. QED
    BY <1>4, <2>1, <2>2, <2>3, <2>4, <2>5 DEF Step
<1>5. QED
  BY <1>2, <1>3, <1>4 DEF Next

LEMMA InitExact == Init => ExactInv
<1> SUFFICES ASSUME Init PROVE ExactInv
  OBVIOUS
<1>1. /\ permission = {Full} /\ allocated = {Root, Full}
      /\ \A c \in Codes : code[c] = None
      /\ \A r \in Requests : request[r] = Idle
  BY DEF Init
<1>2. user[Admin].status = "ACTIVE" /\ user[Admin].groups = <<Joined(Root, Full, TRUE)>>
  BY GroupsUsersAssumption DEF Init
<1>3. DOMAIN <<Joined(Root, Full, TRUE)>> = {1} /\ <<Joined(Root, Full, TRUE)>>[1].permission = Full
  BY DEF Joined
<1>4. \A u \in Users : u # Admin => user[u] = NoAccount
  BY DEF Init
<1>5. NoAccount.status = "none" /\ DOMAIN NoAccount.groups = {}
  BY IdleFields DEF NoAccount
<1>6. DOMAIN user[Admin].groups = {1} /\ user[Admin].groups[1].permission = Full
  BY <1>2, <1>3
<1>7. PermissionsOf(user[Admin]) = {Full} /\ \A u \in Users : u # Admin => PermissionsOf(user[u]) = {}
  BY <1>4, <1>5, <1>6 DEF PermissionsOf
<1>8. AccountsExact
  <2>1. \A u \in Users : \A i, j \in DOMAIN user[u].groups : i = j
    BY <1>4, <1>5, <1>6
  <2>2. \A u, v \in Users : \A p \in PermissionsOf(user[u]) : p \in PermissionsOf(user[v]) => u = v
    BY <1>7
  <2>3. \A u \in Users : PermissionsOf(user[u]) \subseteq allocated
    BY <1>1, <1>7
  <2>4. QED
    BY <1>1, <1>2, <1>4, <2>1, <2>2, <2>3 DEF AccountsExact
<1>9. PermissionsMatch(Idle)
  BY <1>1, <1>7, GroupsUsersAssumption DEF PermissionsMatch
<1>10. CodesMatch(Idle) /\ CopiesExact(Idle)
  BY <1>2, <1>4, <1>5, IdleFields DEF CodesMatch, CopiesExact, WithoutCode, Offering
<1>11. QED
  BY <1>1, <1>8, <1>9, <1>10 DEF ExactInv, Exact

\* Without overlap and mishaps, what is stored and what the request being served knows agree.
THEOREM RequestsExact == Spec => []ExactInv
<1>1. Spec => []OnceInv
  BY InitOnce, OnceNext, CopiesSound, PTL DEF Spec
<1>2. Spec => []ProjectInv
  BY InitProject, ProjectNext, CopiesSound, PTL DEF Spec
<1>3. Spec => []KnownInv
  BY <1>1, <1>2, InitKnown, KnownNext, CopiesSound, PTL DEF Spec
<1>4. QED
  BY <1>2, <1>3, InitExact, ExactNext, CopiesSound, PTL DEF Spec

\* When requests do not overlap and none is cut off, there is one permission document for each
\* membership once all are served: invite creates it before the membership and deleteUsers deletes
\* it before the membership, and in between the request alone knows of it.
THEOREM OnePermissionEach == Spec => []PermissionsExact
<1>1. ExactInv => PermissionsExact
  <2> SUFFICES ASSUME ExactInv, ~overlap, Quiet, mishaps = 0
               PROVE  /\ permission = {MembershipAt(m).permission : m \in Memberships}
                      /\ \A m, n \in Memberships :
                           MembershipAt(m).permission = MembershipAt(n).permission => m = n
    BY DEF PermissionsExact
  <2>1. AccountsExact /\ PermissionsMatch(Idle)
    BY DEF ExactInv, Unmarred, Exact
  <2>2. \A p \in permission : \E u \in Users : p \in PermissionsOf(user[u])
    BY <2>1, IdleFields DEF PermissionsMatch, Offering
  <2>3. \A u \in Users : \A p \in PermissionsOf(user[u]) : p \in permission
    BY <2>1, IdleFields DEF PermissionsMatch, Leaving
  <2>4. \A m \in Memberships : \E u \in Users : \E i \in DOMAIN user[u].groups : m = <<u, i>>
    BY DEF Memberships
  <2>5. \A u \in Users : \A i \in DOMAIN user[u].groups :
          <<u, i>> \in Memberships /\ MembershipAt(<<u, i>>).permission = user[u].groups[i].permission
    BY DEF Memberships, MembershipAt
  <2>6. ASSUME NEW p \in permission PROVE \E m \in Memberships : MembershipAt(m).permission = p
    <3>1. PICK u \in Users : p \in PermissionsOf(user[u])
      BY <2>2
    <3>2. PICK i \in DOMAIN user[u].groups : user[u].groups[i].permission = p
      BY <3>1 DEF PermissionsOf
    <3>3. QED
      BY <2>5, <3>2
  <2>7. ASSUME NEW m \in Memberships PROVE MembershipAt(m).permission \in permission
    <3>1. PICK u \in Users : \E i \in DOMAIN user[u].groups : m = <<u, i>>
      BY <2>4
    <3>2. PICK i \in DOMAIN user[u].groups : m = <<u, i>>
      BY <3>1
    <3>3. QED
      BY <2>3, <2>5, <3>2 DEF PermissionsOf
  <2>8. ASSUME NEW m \in Memberships, NEW n \in Memberships,
               MembershipAt(m).permission = MembershipAt(n).permission
        PROVE  m = n
    <3>1. PICK u \in Users : \E i \in DOMAIN user[u].groups : m = <<u, i>>
      BY <2>4
    <3>2. PICK i \in DOMAIN user[u].groups : m = <<u, i>>
      BY <3>1
    <3>3. PICK v \in Users : \E j \in DOMAIN user[v].groups : n = <<v, j>>
      BY <2>4
    <3>4. PICK j \in DOMAIN user[v].groups : n = <<v, j>>
      BY <3>3
    <3>5. user[u].groups[i].permission = user[v].groups[j].permission
      BY <2>5, <2>8, <3>2, <3>4
    <3>6. u = v
      BY <2>1, <3>5 DEF AccountsExact, PermissionsOf
    <3>7. i = j
      BY <2>1, <3>5, <3>6 DEF AccountsExact
    <3>8. QED
      BY <3>2, <3>4, <3>6, <3>7
  <2>9. QED
    BY <2>6, <2>7, <2>8
<1>2. QED
  BY <1>1, RequestsExact, PTL

\* When requests do not overlap and none is cut off, whoever is invited and has not registered has
\* a code once all are served, and nobody else: invite creates one where there is none, and a
\* registration deletes it before it makes the user active.
THEOREM CodesForTheInvited == Spec => []CodesMatchStatus
<1>1. IInv /\ ExactInv => CodesMatchStatus
  <2> SUFFICES ASSUME IInv, ExactInv, ~overlap, Quiet, mishaps = 0, NEW u \in Users
               PROVE  user[u].status = "WAITING" <=> \E c \in Codes : code[c] = u
    BY DEF CodesMatchStatus
  <2>1. AccountsExact /\ CodesMatch(Idle)
    BY DEF ExactInv, Unmarred, Exact
  <2>2. user[u].status = "WAITING" => \E c \in Codes : code[c] = u
    BY <2>1, IdleFields DEF CodesMatch, WithoutCode
  <2>3. (\E c \in Codes : code[c] = u) => user[u].status = "WAITING"
    BY <2>1, GroupsUsersAssumption DEF AccountsExact
  <2>4. QED
    BY <2>2, <2>3
<1>2. QED
  BY <1>1, CopiesSound, RequestsExact, PTL
=============================================================================
