----------------------------- MODULE EsSyncProofs -----------------------------
(***************************************************************************)
(* A completed job has copied its range, for any devices, jobs, requests   *)
(* and page sizes; and one administrator at a time leaves the MQTT clients *)
(* listening to what is enabled.                                           *)
(***************************************************************************)
EXTENDS EsSync, FiniteSetTheorems, SequenceTheorems, WellFoundedInduction, TLAPS

-----------------------------------------------------------------------------
(* The invariant.                                                          *)

\* What requests may have left to do.
Enabling ==
  {<<"check", "set", "read", "close", "open", "stamp">>, <<"set", "read", "close", "open", "stamp">>,
   <<"read", "close", "open", "stamp">>, <<"close", "open", "stamp">>, <<"open", "stamp">>, <<"stamp">>}
Deleting ==
  {<<"set", "cancel", "read", "close", "open", "erase">>, <<"cancel", "read", "close", "open", "erase">>,
   <<"read", "close", "open", "erase">>, <<"close", "open", "erase">>, <<"open", "erase">>, <<"erase">>}
Adding ==
  {<<"check", "range", "queue", "control">>, <<"range", "queue", "control">>, <<"queue", "control">>}
Past == 0..clock

Seen  == [todo : Enabling \cup Deleting \cup {<<>>}, enable : BOOLEAN, seen : BOOLEAN]
Ranged == [todo : Adding, from : Nat, to : Nat]
Queued == [todo : {<<"control">>, <<>>}, job : Jobs]

JobTyped == [state : {"none", "waiting", "active", "done", "failing", "undoing", "failed"},
             from : Nat, to : Nat, cursor : Nat, undo : Nat, asof : Past,
             stalled : BOOLEAN, disturbed : BOOLEAN]

ReaderTyped == [pc : {"none", "stopped", "done"}] \cup [pc : {"asked"}, from : Nat]
               \cup [pc : {"progress"}, from : Nat, more : BOOLEAN, last : Nat]

Typed ==
  /\ clock \in 0..MaxTime /\ history \subseteq Devices \X (1..clock)
  /\ index \subseteq history /\ writes \subseteq history
  /\ enabled \in BOOLEAN /\ live \in BOOLEAN /\ stray \in BOOLEAN
  /\ job \in [Jobs -> JobTyped]
  /\ reader \in [Jobs -> [Devices -> ReaderTyped]]
  /\ request \in [Slots -> Seen \cup Ranged \cup Queued \cup {Idle}]

\* Everything of device d that was in the range of job x when its readers started, before
\* time t, is in the index, or on its way, or lost by a failing save.
Sent(x, d, t) ==
  \A r \in history :
    r[1] = d /\ r[2] \in job[x].from..job[x].to /\ r[2] <= job[x].asof /\ r[2] < t => r \in index \cup writes \cup lost

\* How far the reader of a device is, in a job that nobody has disturbed.
Read(x, d) ==
  /\ reader[x][d].pc = "asked" => Sent(x, d, reader[x][d].from)
  /\ reader[x][d].pc = "progress" => Sent(x, d, reader[x][d].last + 1)
  /\ \/ reader[x][d].pc = "done"
     \/ reader[x][d].pc = "progress" /\ ~reader[x][d].more
     => Sent(x, d, job[x].to + 1)

Copying == \A x \in Jobs : job[x].state = "active" /\ ~job[x].disturbed => \A d \in Devices : Read(x, d)

IInv == Typed /\ Copying

\* One administrator at a time.
NoFailure == \A x \in Jobs : job[x].state \notin {"undoing", "failed"}
LiveInv ==
  /\ ~stray
  /\ \A s \in Slots :
       /\ Stage(s) = "open" => ~live
       /\ NoFailure /\ Stage(s) \in {"close", "open"} => request[s].seen = enabled
       /\ NoFailure /\ Stage(s) \notin {"cancel", "read", "close", "open"} => live = enabled

-----------------------------------------------------------------------------
(* The stages of a request.                                                *)

LEMMA EnablingTails ==
  \A t \in Enabling :
    /\ t # <<>> /\ Tail(t) \in Enabling \cup {<<>>}
    /\ Head(t) \in {"check", "set", "read", "close", "open", "stamp"}
    /\ Head(t) = "check" => Tail(t) # <<>> /\ Head(Tail(t)) = "set"
    /\ Head(t) = "set" => Tail(t) # <<>> /\ Head(Tail(t)) = "read"
    /\ Head(t) = "read" => Tail(t) # <<>> /\ Head(Tail(t)) = "close"
    /\ Head(t) = "close" => Tail(t) # <<>> /\ Head(Tail(t)) = "open"
    /\ Head(t) = "open" => Tail(t) # <<>> /\ Head(Tail(t)) = "stamp"
    /\ Head(t) = "stamp" => Tail(t) = <<>>
<1>1. /\ Tail(<<"check", "set", "read", "close", "open", "stamp">>) = <<"set", "read", "close", "open", "stamp">>
      /\ Head(<<"check", "set", "read", "close", "open", "stamp">>) = "check"
      /\ <<"check", "set", "read", "close", "open", "stamp">> # <<>>
  OBVIOUS
<1>2. /\ Tail(<<"set", "read", "close", "open", "stamp">>) = <<"read", "close", "open", "stamp">>
      /\ Head(<<"set", "read", "close", "open", "stamp">>) = "set"
      /\ <<"set", "read", "close", "open", "stamp">> # <<>>
  OBVIOUS
<1>3. /\ Tail(<<"read", "close", "open", "stamp">>) = <<"close", "open", "stamp">>
      /\ Head(<<"read", "close", "open", "stamp">>) = "read"
      /\ <<"read", "close", "open", "stamp">> # <<>>
  OBVIOUS
<1>4. /\ Tail(<<"close", "open", "stamp">>) = <<"open", "stamp">>
      /\ Head(<<"close", "open", "stamp">>) = "close"
      /\ <<"close", "open", "stamp">> # <<>>
  OBVIOUS
<1>5. /\ Tail(<<"open", "stamp">>) = <<"stamp">>
      /\ Head(<<"open", "stamp">>) = "open"
      /\ <<"open", "stamp">> # <<>>
  OBVIOUS
<1>6. /\ Tail(<<"stamp">>) = <<>>
      /\ Head(<<"stamp">>) = "stamp"
      /\ <<"stamp">> # <<>>
  OBVIOUS
<1> QED
  BY <1>1, <1>2, <1>3, <1>4, <1>5, <1>6 DEF Enabling

LEMMA DeletingTails ==
  \A t \in Deleting :
    /\ t # <<>> /\ Tail(t) \in Deleting \cup {<<>>}
    /\ Head(t) \in {"set", "cancel", "read", "close", "open", "erase"}
    /\ Head(t) = "set" => Tail(t) # <<>> /\ Head(Tail(t)) = "cancel"
    /\ Head(t) = "cancel" => Tail(t) # <<>> /\ Head(Tail(t)) = "read"
    /\ Head(t) = "read" => Tail(t) # <<>> /\ Head(Tail(t)) = "close"
    /\ Head(t) = "close" => Tail(t) # <<>> /\ Head(Tail(t)) = "open"
    /\ Head(t) = "open" => Tail(t) # <<>> /\ Head(Tail(t)) = "erase"
    /\ Head(t) = "erase" => Tail(t) = <<>>
<1>1. /\ Tail(<<"set", "cancel", "read", "close", "open", "erase">>) = <<"cancel", "read", "close", "open", "erase">>
      /\ Head(<<"set", "cancel", "read", "close", "open", "erase">>) = "set"
      /\ <<"set", "cancel", "read", "close", "open", "erase">> # <<>>
  OBVIOUS
<1>2. /\ Tail(<<"cancel", "read", "close", "open", "erase">>) = <<"read", "close", "open", "erase">>
      /\ Head(<<"cancel", "read", "close", "open", "erase">>) = "cancel"
      /\ <<"cancel", "read", "close", "open", "erase">> # <<>>
  OBVIOUS
<1>3. /\ Tail(<<"read", "close", "open", "erase">>) = <<"close", "open", "erase">>
      /\ Head(<<"read", "close", "open", "erase">>) = "read"
      /\ <<"read", "close", "open", "erase">> # <<>>
  OBVIOUS
<1>4. /\ Tail(<<"close", "open", "erase">>) = <<"open", "erase">>
      /\ Head(<<"close", "open", "erase">>) = "close"
      /\ <<"close", "open", "erase">> # <<>>
  OBVIOUS
<1>5. /\ Tail(<<"open", "erase">>) = <<"erase">>
      /\ Head(<<"open", "erase">>) = "open"
      /\ <<"open", "erase">> # <<>>
  OBVIOUS
<1>6. /\ Tail(<<"erase">>) = <<>>
      /\ Head(<<"erase">>) = "erase"
      /\ <<"erase">> # <<>>
  OBVIOUS
<1> QED
  BY <1>1, <1>2, <1>3, <1>4, <1>5, <1>6 DEF Deleting

LEMMA AddingTails ==
  \A t \in Adding :
    /\ t # <<>> /\ Head(t) \in {"check", "range", "queue"}
    /\ Head(t) = "check" => Tail(t) \in Adding /\ Head(Tail(t)) = "range"
    /\ Head(t) = "range" => Tail(t) \in Adding /\ Head(Tail(t)) = "queue"
<1>1. /\ Tail(<<"check", "range", "queue", "control">>) = <<"range", "queue", "control">>
      /\ Head(<<"check", "range", "queue", "control">>) = "check"
      /\ <<"check", "range", "queue", "control">> # <<>>
  OBVIOUS
<1>2. /\ Tail(<<"range", "queue", "control">>) = <<"queue", "control">>
      /\ Head(<<"range", "queue", "control">>) = "range"
      /\ <<"range", "queue", "control">> # <<>>
  OBVIOUS
<1>3. /\ Tail(<<"queue", "control">>) = <<"control">>
      /\ Head(<<"queue", "control">>) = "queue"
      /\ <<"queue", "control">> # <<>>
  OBVIOUS
<1> QED
  BY <1>1, <1>2, <1>3 DEF Adding

Names == {"check", "set", "cancel", "read", "close", "open", "stamp", "erase"}

LEMMA Beginnings ==
  /\ <<"check", "set">> \o Refresh \o <<"stamp">> \in Enabling
  /\ <<"set", "cancel">> \o Refresh \o <<"erase">> \in Deleting
  /\ Head(<<"check", "set">> \o Refresh \o <<"stamp">>) = "check"
  /\ Head(<<"set", "cancel">> \o Refresh \o <<"erase">>) = "set"
<1>1. Refresh \in Seq(Names)
  BY DEF Refresh, Names
<1>2. ASSUME NEW a \in Names, NEW b \in Names, NEW c \in Names
      PROVE  <<a, b>> \o Refresh \o <<c>> = <<a, b, "read", "close", "open", c>>
  <2>1. PICK s : s = <<a, b>> \o Refresh \o <<c>>
    OBVIOUS
  <2>2. PICK t : t = <<a, b, "read", "close", "open", c>>
    OBVIOUS
  <2>3. s \in Seq(Names) /\ t \in Seq(Names)
    <3>1. <<a, b>> \in Seq(Names) /\ <<c>> \in Seq(Names) /\ t \in Seq(Names)
      BY <2>2 DEF Names
    <3> QED
      BY <1>1, <2>1, <3>1, ConcatProperties
  <2>4. Len(s) = 6 /\ Len(t) = 6 /\ \A i \in 1..6 : s[i] = t[i]
    BY <2>1, <2>2 DEF Refresh
  <2> QED
    BY <2>1, <2>2, <2>3, <2>4, SeqEqual
<1>3. {"check", "set", "cancel", "stamp", "erase"} \subseteq Names
  BY DEF Names
<1>4. /\ <<"check", "set">> \o Refresh \o <<"stamp">> = <<"check", "set", "read", "close", "open", "stamp">>
      /\ <<"set", "cancel">> \o Refresh \o <<"erase">> = <<"set", "cancel", "read", "close", "open", "erase">>
  BY <1>2, <1>3
<1>5. /\ Head(<<"check", "set", "read", "close", "open", "stamp">>) = "check"
      /\ Head(<<"set", "cancel", "read", "close", "open", "erase">>) = "set"
  OBVIOUS
<1> QED
  BY <1>4, <1>5 DEF Enabling, Deleting

-----------------------------------------------------------------------------
(* Pages.                                                                  *)

LEMMA LeastIn == ASSUME NEW S, S \subseteq Nat, S # {} PROVE \E n \in S : \A m \in S : n <= m
<1>1. IsWellFoundedOn(OpToRel(<, Nat), Nat)
  BY NatLessThanWellFounded
<1>2. \E n \in S : \A m \in S : ~(<<m, n>> \in OpToRel(<, Nat))
  BY <1>1, WFMin
<1>3. ASSUME NEW m \in Nat, NEW n \in Nat, m < n PROVE <<m, n>> \in OpToRel(<, Nat)
  BY <1>3 DEF OpToRel
<1>4. PICK n \in S : \A m \in S : ~(<<m, n>> \in OpToRel(<, Nat))
  BY <1>2
<1>5. \A m \in S : ~(m < n)
  BY <1>3, <1>4
<1> QED
  BY <1>5

LEMMA LargestIn ==
  ASSUME NEW b \in Nat, NEW S, S \subseteq 0..b, S # {}
  PROVE  \E n \in S : \A m \in S : m <= n
<1> DEFINE U == {n \in Nat : \A m \in S : m <= n}
<1>1. b \in U
  OBVIOUS
<1>2. PICK n \in U : \A m \in U : n <= m
  BY <1>1, LeastIn
<1>3. n \in S
  <2> SUFFICES ASSUME n \notin S PROVE FALSE
    OBVIOUS
  <2>1. \A m \in S : m <= n - 1
    BY <1>2
  <2>2. n # 0
    <3>1. PICK m \in S : TRUE
      OBVIOUS
    <3>2. m \in 0..b
      OBVIOUS
    <3> QED
      BY <2>1, <3>2
  <2>3. n - 1 \in U
    BY <1>2, <2>1, <2>2
  <2> QED
    BY <1>2, <2>3
<1> QED
  BY <1>2, <1>3

\* The readings that a page is the first of.
Found(d, from, to) == {r \in history : r[1] = d /\ r[2] \in from..to}
Before(d, from, to, t) == {q \in Found(d, from, to) : q[2] < t}

LEMMA PageOf == \A d, from, to : Page(d, from, to) =
                  {r \in Found(d, from, to) : Cardinality(Before(d, from, to, r[2])) < PageSize}
BY DEF Page, Found, Before

\* A page holds all readings up to its last one, and all there are if it is no longer than one.
LEMMA PageIsFirst ==
  ASSUME Typed, NEW d \in Devices, NEW from \in Nat, NEW to \in Nat, NEW page, page = Page(d, from, to)
  PROVE  /\ page \subseteq Found(d, from, to)
         /\ page = {} => Found(d, from, to) = {}
         /\ page # {} => \E t \in {r[2] : r \in page} :
                           /\ \A r \in page : r[2] <= t
                           /\ \A r \in Found(d, from, to) : r[2] <= t => r \in page
                           /\ Cardinality(page) <= 1 => Found(d, from, to) \subseteq page
<1> DEFINE F == Found(d, from, to)  B(t) == Before(d, from, to, t)
<1>1. clock \in Nat /\ MaxTime \in Nat /\ PageSize \in Nat /\ PageSize > 1
  BY SyncAssumption DEF Typed
<1>2. F \subseteq {d} \X (0..clock) /\ \A r \in F : r = <<d, r[2]>> /\ r[2] \in Nat /\ r[2] <= clock
  BY <1>1 DEF Typed, Found
<1>3. IsFiniteSet(F)
  <2>1. IsFiniteSet({d}) /\ IsFiniteSet(0..clock)
    <3>1. IsFiniteSet({d})
      BY FS_Singleton
    <3>2. IsFiniteSet(0..clock)
      BY <1>1, FS_Interval
    <3> QED
      BY <3>1, <3>2
  <2>2. IsFiniteSet({d} \X (0..clock))
    BY <2>1, FS_Product
  <2> QED
    BY <1>2, <2>2, FS_Subset
<1>4. \A t : IsFiniteSet(B(t)) /\ Cardinality(B(t)) \in Nat
  BY <1>3, FS_Subset, FS_CardinalityType DEF Before
<1>5. page = {r \in F : Cardinality(B(r[2])) < PageSize}
  BY PageOf
<1>6. page \subseteq F
  BY <1>5
<1>7. ASSUME F # {} PROVE page # {}
  <2>1. {r[2] : r \in F} \subseteq Nat /\ {r[2] : r \in F} # {}
    BY <1>2, <1>7
  <2>2. \E n \in {r[2] : r \in F} : \A k \in {r[2] : r \in F} : n <= k
    BY <2>1, LeastIn
  <2>3. PICK m \in F : \A r \in F : m[2] <= r[2]
    BY <2>2
  <2>4. B(m[2]) = {}
    BY <1>2, <2>3 DEF Before
  <2>5. Cardinality(B(m[2])) = 0
    BY <2>4, FS_EmptySet
  <2> QED
    BY <1>1, <1>5, <2>5
<1>8. ASSUME page # {}
      PROVE  \E t \in {r[2] : r \in page} :
               /\ \A r \in page : r[2] <= t
               /\ \A r \in F : r[2] <= t => r \in page
               /\ Cardinality(page) <= 1 => F \subseteq page
  <2>1. {r[2] : r \in page} \subseteq 0..clock /\ {r[2] : r \in page} # {}
    BY <1>1, <1>2, <1>6, <1>8
  <2>2. \E n \in {r[2] : r \in page} : \A k \in {r[2] : r \in page} : k <= n
    BY <1>1, <2>1, LargestIn
  <2>3. PICK p \in page : \A r \in page : r[2] <= p[2]
    BY <2>2
  <2>4. ASSUME NEW r \in F, r[2] <= p[2] PROVE r \in page
    <3>1. B(r[2]) \subseteq B(p[2])
      BY <1>2, <1>6, <2>4 DEF Before
    <3>2. Cardinality(B(r[2])) <= Cardinality(B(p[2]))
      BY <1>4, <3>1, FS_Subset
    <3> QED
      BY <1>1, <1>4, <1>5, <3>2
  <2>5. ASSUME Cardinality(page) <= 1, NEW q \in F, q \notin page PROVE FALSE
    <3>1. PICK L : L = {r \in F : r[2] > p[2]}
      OBVIOUS
    <3>2. q \in L
      BY <1>2, <1>6, <2>4, <2>5, <3>1
    <3>3. {r[2] : r \in L} \subseteq Nat /\ {r[2] : r \in L} # {}
      BY <1>2, <3>1, <3>2
    <3>0. \E n \in {r[2] : r \in L} : \A k \in {r[2] : r \in L} : n <= k
      BY <3>3, LeastIn
    <3>4. PICK m \in L : \A r \in L : m[2] <= r[2]
      BY <3>0
    <3>5. B(m[2]) \subseteq page
      BY <1>2, <1>6, <2>4, <3>1, <3>4 DEF Before
    <3>6. IsFiniteSet(page)
      BY <1>3, <1>6, FS_Subset
    <3>7. Cardinality(B(m[2])) <= 1
      BY <1>4, <2>5, <3>5, <3>6, FS_Subset, FS_CardinalityType
    <3>8. m \in page
      BY <1>1, <1>4, <1>5, <3>1, <3>7
    <3> QED
      BY <1>2, <1>6, <2>3, <3>1, <3>8
  <2> QED
    BY <2>3, <2>4, <2>5
<1> QED
  BY <1>6, <1>7, <1>8

-----------------------------------------------------------------------------
(* Types.                                                                  *)

Requested == Seen \cup Ranged \cup Queued \cup {Idle}

LEMMA StageIs ==
  ASSUME Typed, NEW s \in Slots
  PROVE  /\ Stage(s) \in {"set", "cancel", "read", "close", "open", "stamp", "erase"} =>
              request[s] \in Seen /\ request[s].todo \in Enabling \cup Deleting
         /\ Stage(s) \in {"range", "queue"} => request[s] \in Ranged
         /\ Stage(s) = "control" => request[s] \in Queued /\ request[s].todo = <<"control">>
         /\ Stage(s) = "idle" <=> request[s].todo = <<>>
         /\ Stage(s) # "idle" => Stage(s) = Head(request[s].todo)
<1>1. request[s] \in Seen \cup Ranged \cup Queued \cup {Idle}
  BY DEF Typed
<1>2. CASE request[s] \in Seen
  BY <1>2, EnablingTails, DeletingTails DEF Seen, Stage
<1>3. CASE request[s] \in Ranged
  BY <1>3, AddingTails DEF Ranged, Stage
<1>4. CASE request[s] \in Queued
  BY <1>4 DEF Queued, Stage
<1>5. CASE request[s] = Idle
  BY <1>5 DEF Idle, Stage
<1> QED
  BY <1>1, <1>2, <1>3, <1>4, <1>5

LEMMA DoneTyped ==
  ASSUME Typed, NEW s \in Slots, Stage(s) \notin {"idle", "queue"}
  PROVE  [request[s] EXCEPT !.todo = Tail(@)] \in Requested
<1>1. request[s] \in Seen \cup Ranged \cup Queued \cup {Idle}
  BY DEF Typed
<1>2. request[s].todo # <<>> /\ Stage(s) = Head(request[s].todo)
  BY DEF Stage
<1>3. CASE request[s] \in Seen
  BY <1>2, <1>3, EnablingTails, DeletingTails DEF Seen, Requested
<1>4. CASE request[s] \in Ranged
  BY <1>2, <1>4, AddingTails DEF Ranged, Requested
<1>5. CASE request[s] \in Queued
  <2>1. Tail(<<"control">>) = <<>>
    OBVIOUS
  <2> QED
    BY <1>2, <1>5, <2>1 DEF Queued, Requested
<1> QED
  BY <1>1, <1>2, <1>3, <1>4, <1>5 DEF Idle

LEMMA InitTyped == Init => Typed
<1> SUFFICES ASSUME Init PROVE Typed
  OBVIOUS
<1>1. clock \in 0..MaxTime /\ history \subseteq Devices \X (1..clock) /\ clock \in Nat
  BY SyncAssumption DEF Init
<1>2. job \in [Jobs -> JobTyped]
  BY <1>1 DEF Init, NoJob, JobTyped, Past
<1>3. reader \in [Jobs -> [Devices -> ReaderTyped]]
  BY DEF Init, NoReader, ReaderTyped
<1> QED
  BY <1>1, <1>2, <1>3 DEF Init, Typed

\* Steps of requests that write neither jobs nor the index.
LEMMA ServeTyped ==
  ASSUME Typed, UNCHANGED <<clock, history, index, writes, job, reader>>,
         NEW s \in Slots, NEW q \in Requested, request' = [request EXCEPT ![s] = q],
         enabled' \in BOOLEAN, live' \in BOOLEAN, stray' \in BOOLEAN
  PROVE  Typed'
<1>1. JobTyped' = JobTyped /\ Ranged' = Ranged
  BY DEF JobTyped, Ranged, Past
<1>2. request' \in [Slots -> Seen \cup Ranged \cup Queued \cup {Idle}]
  BY DEF Typed, Requested
<1> QED
  BY <1>1, <1>2 DEF Typed

\* Steps of jobs that write at most what is on its way to the index.
LEMMA JobsTyped ==
  ASSUME Typed, UNCHANGED <<clock, history, enabled, live, stray, request>>,
         job' \in [Jobs -> JobTyped], reader' \in [Jobs -> [Devices -> ReaderTyped]],
         index' \subseteq history, writes' \subseteq history
  PROVE  Typed'
<1>1. JobTyped' = JobTyped /\ Ranged' = Ranged
  BY DEF JobTyped, Ranged, Past
<1> QED
  BY <1>1 DEF Typed

LEMMA NoJobTyped ==
  ASSUME Typed
  PROVE  /\ NoJob \in JobTyped
         /\ \A st \in {"none", "waiting", "done", "failed"} : [NoJob EXCEPT !.state = st] \in JobTyped
<1>1. 0 \in Past
  BY SyncAssumption DEF Typed, Past
<1>2. NoJob \in JobTyped
  BY <1>1 DEF NoJob, JobTyped
<1>3. \A j \in JobTyped, st \in {"none", "waiting", "done", "failed"} : [j EXCEPT !.state = st] \in JobTyped
  BY DEF JobTyped
<1> QED
  BY <1>2, <1>3

LEMMA DisturbedTyped == ASSUME Typed PROVE Disturbed \in [Jobs -> JobTyped]
<1>1. \A y \in Jobs : [job[y] EXCEPT !.disturbed = TRUE] \in JobTyped /\ job[y] \in JobTyped
  BY DEF Typed, JobTyped
<1> QED
  BY <1>1 DEF Disturbed

\* The times in the index are those of readings.
LEMMA TimesTyped ==
  ASSUME Typed, index # {}
  PROVE  Max(Times(index)) \in Past /\ Min(Times(index)) \in Past
<1>1. clock \in Nat /\ Times(index) \subseteq 0..clock /\ Times(index) # {}
  BY SyncAssumption DEF Typed, Times
<1>2. \E n \in Times(index) : \A m \in Times(index) : m <= n
  BY <1>1, LargestIn
<1>3. \E n \in Times(index) : \A m \in Times(index) : n <= m
  BY <1>1, LeastIn
<1>4. Max(Times(index)) \in Times(index)
  BY <1>1, <1>2 DEF Max
<1>5. Min(Times(index)) \in Times(index)
  BY <1>1, <1>3 DEF Min
<1> QED
  BY <1>1, <1>4, <1>5 DEF Past

LEMMA RequestTyped ==
  ASSUME Typed, NEW s \in Slots,
         \/ Check(s) \/ SetEnabled(s) \/ Cancel(s) \/ ReadEnabled(s) \/ Close(s) \/ Open(s) \/ Stamp(s)
         \/ SetRange(s) \/ SetControl(s)
  PROVE  Typed'
<1>1. /\ request \in [Slots -> Requested] /\ Idle \in Requested
      /\ enabled \in BOOLEAN /\ live \in BOOLEAN /\ stray \in BOOLEAN /\ clock \in Nat
  BY SyncAssumption DEF Typed, Requested
<1>2. UNCHANGED <<clock, history, index, writes, job, reader>>
  BY DEF Check, SetEnabled, Cancel, ReadEnabled, Close, Open, Stamp, SetRange, SetControl
<1>3. ASSUME Done(s), Stage(s) \notin {"idle", "queue"}, enabled' \in BOOLEAN, live' \in BOOLEAN, stray' \in BOOLEAN
      PROVE  Typed'
  <2>1. request' = [request EXCEPT ![s] = [request[s] EXCEPT !.todo = Tail(@)]]
    BY <1>1, <1>3 DEF Done
  <2> QED
    BY <1>2, <1>3, <2>1, DoneTyped, ServeTyped
<1>4. CASE Check(s)
  <2>1. CASE request' = [request EXCEPT ![s] = Idle]
    BY <1>1, <1>2, <1>4, <2>1, ServeTyped DEF Check
  <2> QED
    BY <1>1, <1>3, <1>4, <2>1 DEF Check
<1>5. CASE SetEnabled(s)
  <2>1. request[s].enable \in BOOLEAN
    BY <1>5, StageIs DEF SetEnabled, Seen
  <2> QED
    BY <1>1, <1>3, <1>5, <2>1 DEF SetEnabled
<1>6. CASE Cancel(s) \/ Close(s) \/ SetControl(s)
  BY <1>1, <1>3, <1>6 DEF Cancel, Close, SetControl
<1>7. CASE ReadEnabled(s)
  <2>1. PICK q : q = [request[s] EXCEPT !.todo = Tail(@), !.seen = enabled]
    OBVIOUS
  <2>2. request[s] \in Seen /\ request[s].todo \in Enabling \cup Deleting
    BY <1>7, StageIs DEF ReadEnabled
  <2>3. q \in Requested
    BY <1>1, <2>1, <2>2, EnablingTails, DeletingTails DEF Seen, Requested
  <2>4. request' = [request EXCEPT ![s] = q]
    BY <1>1, <1>7, <2>1 DEF ReadEnabled
  <2> QED
    BY <1>1, <1>2, <1>7, <2>3, <2>4, ServeTyped DEF ReadEnabled
<1>8. CASE Open(s)
  <2>1. request[s].seen \in BOOLEAN
    BY <1>8, StageIs DEF Open, Seen
  <2> QED
    BY <1>1, <1>3, <1>8, <2>1 DEF Open
<1>9. CASE Stamp(s)
  <2>1. PICK q : q = Addition(Max(Times(index)), clock)
    OBVIOUS
  <2>2. index # {} => q \in Requested
    BY <1>1, <2>1, TimesTyped DEF Requested, Ranged, Adding, Addition, Past
  <2>3. request' = [request EXCEPT ![s] = IF request[s].enable /\ index # {} THEN q ELSE Idle]
    BY <1>9, <2>1 DEF Stamp
  <2> QED
    BY <1>1, <1>2, <1>9, <2>2, <2>3, ServeTyped DEF Stamp
<1>10. CASE SetRange(s)
  <2>1. PICK q : q = [request[s] EXCEPT !.todo = Tail(@), !.to = Until]
    OBVIOUS
  <2>2. Until \in Nat
    BY <1>1, TimesTyped DEF Until, Past
  <2>3. request[s] \in Ranged /\ Head(request[s].todo) = "range"
    BY <1>10, StageIs DEF SetRange
  <2>4. q \in Requested
    BY <2>1, <2>2, <2>3, AddingTails DEF Requested, Ranged
  <2>5. Done(s) \/ request' = [request EXCEPT ![s] = Idle] \/ request' = [request EXCEPT ![s] = q]
    BY <1>1, <1>10, <2>1 DEF SetRange
  <2>6. CASE Done(s)
    BY <1>1, <1>3, <1>10, <2>6 DEF SetRange
  <2> QED
    BY <1>1, <1>2, <1>10, <2>4, <2>5, <2>6, ServeTyped DEF SetRange
<1> QED
  BY <1>4, <1>5, <1>6, <1>7, <1>8, <1>9, <1>10

LEMMA BeginTyped ==
  ASSUME Typed, NEW s \in Slots,
         \/ \E enable \in BOOLEAN : EnableElasticSearch(s, enable)
         \/ \E from \in Froms, to \in Tos : AddToElasticSearch(s, from, to)
         \/ DeleteIndex(s)
  PROVE  Typed'
<1>1. enabled \in BOOLEAN /\ live \in BOOLEAN /\ stray \in BOOLEAN /\ 0 \in Past
  BY SyncAssumption DEF Typed, Past
<1>2. ASSUME NEW q \in Requested, Begin(s, q) PROVE Typed'
  BY <1>1, <1>2, ServeTyped DEF Begin
<1>3. ASSUME NEW enable \in BOOLEAN, EnableElasticSearch(s, enable) PROVE Typed'
  <2>1. PICK q : q = [todo |-> <<"check", "set">> \o Refresh \o <<"stamp">>, enable |-> enable, seen |-> FALSE]
    OBVIOUS
  <2>2. q \in Requested
    BY <2>1, Beginnings DEF Requested, Seen
  <2> QED
    BY <1>2, <1>3, <2>1, <2>2 DEF EnableElasticSearch
<1>4. ASSUME NEW from \in Froms, NEW to \in Tos, AddToElasticSearch(s, from, to) PROVE Typed'
  <2>1. Addition(from, to) \in Requested
    BY <1>1, SyncAssumption DEF Requested, Ranged, Adding, Addition
  <2> QED
    BY <1>2, <1>4, <2>1 DEF AddToElasticSearch
<1>5. CASE DeleteIndex(s)
  <2>1. PICK q : q = [todo |-> <<"set", "cancel">> \o Refresh \o <<"erase">>, enable |-> FALSE, seen |-> FALSE]
    OBVIOUS
  <2>2. q \in Requested
    BY <2>1, Beginnings DEF Requested, Seen
  <2> QED
    BY <1>2, <1>5, <2>1, <2>2 DEF DeleteIndex
<1> QED
  BY <1>3, <1>4, <1>5

LEMMA QueueTyped == ASSUME Typed, NEW s \in Slots, Queue(s) PROVE Typed'
<1>1. PICK x \in Jobs : /\ job' = [job EXCEPT ![x] = [NoJob EXCEPT !.state = "waiting",
                              !.from = request[s].from, !.to = request[s].to, !.cursor = request[s].from]]
                        /\ request' = [request EXCEPT ![s] = [todo |-> <<"control">>, job |-> x]]
  BY DEF Queue
<1>2. request[s].from \in Nat /\ request[s].to \in Nat
  BY StageIs DEF Queue, Ranged
<1>3. PICK j : j = [NoJob EXCEPT !.state = "waiting", !.from = request[s].from, !.to = request[s].to, !.cursor = request[s].from]
  OBVIOUS
<1>4. j \in JobTyped
  BY <1>2, <1>3, NoJobTyped DEF JobTyped
<1>5. job' \in [Jobs -> JobTyped] /\ JobTyped' = JobTyped /\ Ranged' = Ranged
  BY <1>1, <1>3, <1>4 DEF Typed, Queue, JobTyped, Ranged, Past
<1>6. request' \in [Slots -> Seen \cup Ranged \cup Queued \cup {Idle}]
  BY <1>1 DEF Typed, Queued
<1> QED
  BY <1>5, <1>6 DEF Typed, Queue

LEMMA EraseTyped == ASSUME Typed, NEW s \in Slots, Erase(s) PROVE Typed'
<1>1. JobTyped' = JobTyped /\ Ranged' = Ranged
  BY DEF Erase, JobTyped, Ranged, Past
<1>2. request' = [request EXCEPT ![s] = [request[s] EXCEPT !.todo = Tail(@)]]
  BY DEF Erase, Done, Typed
<1>3. request' \in [Slots -> Seen \cup Ranged \cup Queued \cup {Idle}]
  BY <1>2, DoneTyped DEF Erase, Typed, Requested
<1> QED
  BY <1>1, <1>3, DisturbedTyped DEF Erase, Typed

LEMMA ReportTyped == ASSUME Typed, Report PROVE Typed'
<1>1. clock \in Nat /\ MaxTime \in Nat /\ clock' = clock + 1 /\ clock < MaxTime
  BY SyncAssumption DEF Typed, Report
<1>2. PICK ds \in SUBSET Devices : LET new == {<<d, clock + 1>> : d \in ds}
                                   IN  /\ history' = history \cup new
                                       /\ writes' = IF live \/ stray THEN writes \cup new ELSE writes
  BY DEF Report
<1>3. history' \subseteq Devices \X (1..clock') /\ writes' \subseteq history' /\ index \subseteq history'
  BY <1>1, <1>2 DEF Typed
<1>4. Past \subseteq Past'
  BY <1>1 DEF Past
<1>5. JobTyped \subseteq JobTyped' /\ Ranged \subseteq Ranged'
  BY <1>4 DEF JobTyped, Ranged
<1>6. UNCHANGED <<index, enabled, job, live, stray, reader, request>>
  BY DEF Report, memory
<1>7. job \in [Jobs -> JobTyped'] /\ request \in [Slots -> Seen \cup Ranged' \cup Queued \cup {Idle}]
  BY <1>5 DEF Typed
<1> QED
  BY <1>1, <1>3, <1>6, <1>7 DEF Typed

LEMMA WriteTyped == ASSUME Typed, Write \/ WriteFails PROVE Typed'
<1>1. UNCHANGED <<clock, history, enabled, job, live, stray, reader, request>>
  BY DEF Write, WriteFails, memory
<1>2. index' \subseteq history /\ writes' \subseteq history
  BY DEF Write, WriteFails, Typed
<1> QED
  BY <1>1, <1>2, JobsTyped DEF Typed

LEMMA AskingTyped == ASSUME NEW x, NEW from \in Nat PROVE Asking(x, from) \in ReaderTyped
BY DEF Asking, ReaderTyped

LEMMA JobTypedStep ==
  ASSUME Typed, NEW x \in Jobs, JobStep(x) \/ \E d \in Devices : Fail(x, d)
  PROVE  Typed'
<1>1. /\ job \in [Jobs -> JobTyped] /\ job[x] \in JobTyped /\ reader \in [Jobs -> [Devices -> ReaderTyped]]
      /\ index \subseteq history /\ writes \subseteq history
  BY DEF Typed
<1>2. ASSUME NEW j \in JobTyped, job' = [job EXCEPT ![x] = j] PROVE job' \in [Jobs -> JobTyped]
  BY <1>1, <1>2
<1>3. CASE TakeJob(x)
  <2>1. PICK j : j = [job[x] EXCEPT !.state = "active", !.disturbed = FALSE]
    OBVIOUS
  <2>2. j \in JobTyped /\ job' = [job EXCEPT ![x] = j]
    BY <1>1, <1>3, <2>1 DEF JobTyped, TakeJob
  <2>3. reader' \in [Jobs -> [Devices -> ReaderTyped]]
    BY <1>1, <1>3 DEF TakeJob, NoReader, ReaderTyped
  <2> QED
    BY <1>1, <1>2, <1>3, <2>2, <2>3, JobsTyped DEF TakeJob
<1>4. CASE StartReaders(x)
  <2>1. job[x].from \in Nat /\ clock \in Past
    BY <1>1, SyncAssumption DEF JobTyped, Typed, Past
  <2>2. PICK j : j = [job[x] EXCEPT !.cursor = job[x].from, !.asof = clock]
    OBVIOUS
  <2>3. j \in JobTyped /\ job' = [job EXCEPT ![x] = j]
    BY <1>1, <1>4, <2>1, <2>2 DEF JobTyped, StartReaders
  <2>4. reader' \in [Jobs -> [Devices -> ReaderTyped]]
    BY <1>1, <1>4, <2>1, AskingTyped DEF StartReaders
  <2> QED
    BY <1>1, <1>2, <1>4, <2>3, <2>4, JobsTyped DEF StartReaders
<1>5. ASSUME NEW d \in Devices, Answer(x, d) PROVE Typed'
  <2>1. PICK page : page = Page(d, reader[x][d].from, job[x].to)
    OBVIOUS
  <2>2. reader[x][d].from \in Nat /\ job[x].to \in Nat
    BY <1>1, <1>5 DEF JobTyped, ReaderTyped, Answer
  <2>3. page \subseteq history
    BY <2>1, <2>2, PageIsFirst DEF Found
  <2>4. PICK last : last = CHOOSE t \in {r[2] : r \in page} : \A r \in page : r[2] <= t
    OBVIOUS
  <2>5. page # {} => last \in Nat
    <3>1. page # {} => last \in {r[2] : r \in page}
      BY <2>1, <2>2, <2>4, PageIsFirst
    <3> QED
      BY <2>3, <3>1, SyncAssumption DEF Typed
  <2>6. PICK new : new = IF page = {} THEN [pc |-> "done"]
                         ELSE [pc |-> "progress", from |-> reader[x][d].from, more |-> MorePages(page), last |-> last]
    OBVIOUS
  <2>7. new \in ReaderTyped
    BY <2>2, <2>5, <2>6 DEF ReaderTyped, MorePages
  <2>8. reader' = [reader EXCEPT ![x][d] = new] /\ writes' = writes \cup page
    BY <1>5, <2>1, <2>4, <2>6 DEF Answer
  <2>9. reader' \in [Jobs -> [Devices -> ReaderTyped]]
    BY <1>1, <2>7, <2>8
  <2> QED
    BY <1>1, <1>5, <2>3, <2>8, <2>9, JobsTyped DEF Answer
<1>6. ASSUME NEW d \in Devices, Progress(x, d) PROVE Typed'
  <2>1. reader[x][d].last \in Nat
    BY <1>1, <1>6 DEF ReaderTyped, Progress
  <2>2. PICK j : j = [job[x] EXCEPT !.cursor = reader[x][d].last]
    OBVIOUS
  <2>3. j \in JobTyped /\ job' = [job EXCEPT ![x] = j]
    BY <1>1, <1>6, <2>1, <2>2 DEF JobTyped, Progress
  <2>4. [pc |-> "done"] \in ReaderTyped
    BY DEF ReaderTyped
  <2>5. reader' \in [Jobs -> [Devices -> ReaderTyped]]
    BY <1>1, <1>6, <2>1, <2>4, AskingTyped DEF Progress
  <2> QED
    BY <1>1, <1>2, <1>6, <2>3, <2>5, JobsTyped DEF Progress
<1>7. CASE Complete(x)
  <2>1. job' \in [Jobs -> JobTyped]
    BY <1>2, <1>7, NoJobTyped DEF Complete
  <2> QED
    BY <1>1, <1>7, <2>1, JobsTyped DEF Complete
<1>8. ASSUME NEW d \in Devices, Fail(x, d) PROVE Typed'
  <2>1. [job[x] EXCEPT !.state = "failing"] \in JobTyped
    BY <1>1 DEF JobTyped
  <2>2. job' \in [Jobs -> JobTyped]
    BY <1>1, <1>8, <2>1 DEF Fail
  <2>3. [pc |-> "stopped"] \in ReaderTyped
    BY DEF ReaderTyped
  <2>4. reader' \in [Jobs -> [Devices -> ReaderTyped]]
    BY <1>1, <1>8, <2>3 DEF Fail
  <2> QED
    BY <1>1, <1>8, <2>2, <2>4, JobsTyped DEF Fail
<1>9. CASE Disable(x)
  <2>1. PICK j : j = [job[x] EXCEPT !.state = "undoing", !.undo = job[x].cursor]
    OBVIOUS
  <2>2. j \in JobTyped /\ job' = [job EXCEPT ![x] = j]
    BY <1>1, <1>9, <2>1 DEF JobTyped, Disable
  <2>3. job' \in [Jobs -> JobTyped] /\ JobTyped' = JobTyped /\ Ranged' = Ranged
    BY <1>2, <1>9, <2>2 DEF Disable, JobTyped, Ranged, Past
  <2> QED
    BY <1>9, <2>3 DEF Disable, Typed
<1>10. CASE Undo(x)
  <2>1. job' \in [Jobs -> JobTyped]
    BY <1>10, DisturbedTyped, NoJobTyped DEF Undo
  <2>2. index' \subseteq history
    BY <1>1, <1>10 DEF Undo
  <2> QED
    BY <1>1, <1>10, <2>1, <2>2, JobsTyped DEF Undo, memory
<1> QED
  BY <1>3, <1>4, <1>5, <1>6, <1>7, <1>8, <1>9, <1>10 DEF JobStep

LEMMA RestartTyped == ASSUME Typed, Restart PROVE Typed'
<1>1. \A x \in Jobs : job'[x] \in JobTyped
  <2> SUFFICES ASSUME NEW x \in Jobs PROVE job'[x] \in JobTyped
    OBVIOUS
  <2>1. job[x] \in JobTyped /\ job[x].from \in Nat
    BY DEF Typed, JobTyped
  <2>2. /\ [job[x] EXCEPT !.state = "waiting", !.stalled = TRUE, !.cursor = job[x].from] \in JobTyped
        /\ [job[x] EXCEPT !.state = "failing", !.cursor = job[x].from] \in JobTyped
    BY <2>1 DEF JobTyped
  <2>3. job'[x] \in {[job[x] EXCEPT !.state = "waiting", !.stalled = TRUE, !.cursor = job[x].from],
                     [job[x] EXCEPT !.state = "failing", !.cursor = job[x].from],
                     [NoJob EXCEPT !.state = "failed"], job[x]}
    BY DEF Restart
  <2> QED
    BY <2>1, <2>2, <2>3, NoJobTyped
<1>2. job' \in [Jobs -> JobTyped] /\ JobTyped' = JobTyped /\ Ranged' = Ranged
  <2>1. job' = [x \in Jobs |-> job'[x]]
    BY DEF Restart
  <2> QED
    BY ZenonT(60), <1>1, <2>1 DEF Restart, JobTyped, Ranged, Past
<1>3. reader' \in [Jobs -> [Devices -> ReaderTyped]]
  BY DEF Restart, NoReader, ReaderTyped
<1> QED
  BY <1>2, <1>3 DEF Restart, Typed

LEMMA NextTyped == Typed /\ [Next]_vars => Typed'
<1> SUFFICES ASSUME Typed, [Next]_vars PROVE Typed'
  OBVIOUS
<1>1. CASE UNCHANGED vars
  BY <1>1 DEF vars, memory, Typed, JobTyped, Ranged, Past
<1>2. ASSUME NEW s \in Slots, Serve(s) PROVE Typed'
  BY <1>2, RequestTyped, QueueTyped, EraseTyped DEF Serve
<1> QED
  BY <1>1, <1>2, BeginTyped, JobTypedStep, ReportTyped, WriteTyped, RestartTyped DEF Next

-----------------------------------------------------------------------------
(* A completed job has copied its range.                                   *)

LEMMA ReadKept ==
  ASSUME NEW x, NEW d, Read(x, d), history' = history, index \cup writes \cup lost \subseteq index' \cup writes' \cup lost',
         reader'[x][d] = reader[x][d], job'[x].from = job[x].from, job'[x].to = job[x].to, job'[x].asof = job[x].asof
  PROVE  Read(x, d)'
BY DEF Read, Sent

LEMMA OthersKept ==
  ASSUME Copying, NEW x \in Jobs, history' = history, index \cup writes \cup lost \subseteq index' \cup writes' \cup lost',
         \A y \in Jobs : y # x => job'[y] = job[y] /\ reader'[y] = reader[y],
         job'[x].state = "active" /\ ~job'[x].disturbed => \A d \in Devices : Read(x, d)'
  PROVE  Copying'
<1>1. ASSUME NEW y \in Jobs, y # x, job'[y].state = "active", ~job'[y].disturbed, NEW d \in Devices
      PROVE  Read(y, d)'
  <2>1. Read(y, d)
    BY <1>1 DEF Copying
  <2> QED
    BY <1>1, <2>1, ReadKept
<1> QED
  BY <1>1 DEF Copying

\* No reading in a range is before its start.
LEMMA NothingBefore ==
  ASSUME Typed, NEW x \in Jobs
  PROVE  \A r \in history : ~(r[2] \in job[x].from..job[x].to /\ r[2] < job[x].from)
BY SyncAssumption DEF Typed, JobTyped

LEMMA ReportCopying == ASSUME Typed, Copying, Report PROVE Copying'
<1>1. clock \in Nat /\ MaxTime \in Nat
  BY SyncAssumption DEF Typed
<1>2. PICK ds \in SUBSET Devices : LET new == {<<d, clock + 1>> : d \in ds}
                                   IN  /\ history' = history \cup new
                                       /\ writes' = IF live \/ stray THEN writes \cup new ELSE writes
  BY DEF Report
<1>3. UNCHANGED <<index, lost, job, reader>>
  BY DEF Report, memory
<1>4. ASSUME NEW x \in Jobs, NEW d, NEW t, Sent(x, d, t) PROVE Sent(x, d, t)'
  <2>1. job[x].asof \in 0..clock
    BY DEF Typed, JobTyped, Past
  <2>2. \A r \in history' : r \in history \/ r[2] = clock + 1
    BY <1>2
  <2>3. writes \subseteq writes'
    BY <1>2
  <2>4. ASSUME NEW r \in history', r[2] <= job[x].asof PROVE r \in history
    BY <1>1, <2>1, <2>2, <2>4
  <2> QED
    BY <1>3, <1>4, <2>3, <2>4 DEF Sent
<1>5. ASSUME NEW x \in Jobs, NEW d, Read(x, d) PROVE Read(x, d)'
  BY <1>3, <1>4, <1>5 DEF Read
<1> QED
  BY <1>3, <1>5 DEF Copying

LEMMA AnswerCopying ==
  ASSUME Typed, Copying, NEW x \in Jobs, NEW d \in Devices, Answer(x, d)
  PROVE  Copying'
<1>1. PICK page : page = Page(d, reader[x][d].from, job[x].to)
  OBVIOUS
<1>2. reader[x][d].from \in Nat /\ job[x].to \in Nat /\ job[x].from \in Nat
  BY DEF Typed, JobTyped, ReaderTyped, Answer
<1>3. PICK last : last = CHOOSE t \in {r[2] : r \in page} : \A r \in page : r[2] <= t
  OBVIOUS
<1>4. PICK new : new = IF page = {} THEN [pc |-> "done"]
                       ELSE [pc |-> "progress", from |-> reader[x][d].from, more |-> MorePages(page), last |-> last]
  OBVIOUS
<1>5. reader' = [reader EXCEPT ![x][d] = new] /\ writes' = writes \cup page /\ lost' = lost \ page
  BY <1>1, <1>3, <1>4 DEF Answer
<1>6. UNCHANGED <<clock, history, index, job>> /\ reader \in [Jobs -> [Devices -> ReaderTyped]]
  BY DEF Answer, Typed
<1>7. /\ page = {} => Found(d, reader[x][d].from, job[x].to) = {}
      /\ page # {} => \E t \in {r[2] : r \in page} :
                        /\ \A r \in page : r[2] <= t
                        /\ \A r \in Found(d, reader[x][d].from, job[x].to) : r[2] <= t => r \in page
                        /\ Cardinality(page) <= 1 => Found(d, reader[x][d].from, job[x].to) \subseteq page
      /\ page \subseteq Found(d, reader[x][d].from, job[x].to)
  <2>1. PICK from, to : from = reader[x][d].from /\ to = job[x].to
    OBVIOUS
  <2>2. from \in Nat /\ to \in Nat /\ page = Page(d, from, to)
    BY <1>1, <1>2, <2>1
  <2>3. /\ page = {} => Found(d, from, to) = {}
        /\ page # {} => \E t \in {r[2] : r \in page} :
                          /\ \A r \in page : r[2] <= t
                          /\ \A r \in Found(d, from, to) : r[2] <= t => r \in page
                          /\ Cardinality(page) <= 1 => Found(d, from, to) \subseteq page
        /\ page \subseteq Found(d, from, to)
    BY <2>2, PageIsFirst
  <2> QED
    BY <2>1, <2>3
<1>8. ASSUME Read(x, d) PROVE Read(x, d)'
  <2>1. Sent(x, d, reader[x][d].from)
    BY <1>8 DEF Read, Answer
  <2>2. reader'[x][d] = new
    BY <1>5, <1>6
  <2>3. \A r \in history : r[2] \in Nat
    BY SyncAssumption DEF Typed
  <2>4. \A r \in history : r[1] = d /\ r[2] \in job[x].from..job[x].to /\ r[2] <= job[x].asof =>
           r \in index' \cup writes' \cup lost' \/ r \in Found(d, reader[x][d].from, job[x].to)
    <3> SUFFICES ASSUME NEW r \in history, r[1] = d, r[2] \in job[x].from..job[x].to, r[2] <= job[x].asof,
                        ~(r[2] < reader[x][d].from)
                 PROVE  r \in Found(d, reader[x][d].from, job[x].to)
      BY <1>5, <1>6, <2>1 DEF Sent
    <3>1. r[2] \in reader[x][d].from..job[x].to
      BY <1>2, <2>3
    <3> QED
      BY <3>1 DEF Found
  <2>5. CASE page = {}
    <3>1. Sent(x, d, job[x].to + 1)'
      BY <1>6, <1>7, <2>4, <2>5 DEF Sent
    <3>2. new.pc = "done"
      BY <1>4, <2>5
    <3> QED
      BY <1>6, <2>2, <3>1, <3>2 DEF Read
  <2>6. CASE page # {}
    <3>1. \E t \in {r[2] : r \in page} : \A r \in page : r[2] <= t
      BY <1>7, <2>6
    <3>2. last \in {r[2] : r \in page} /\ \A r \in page : r[2] <= last
      BY <1>3, <3>1
    <3>3. PICK t \in {r[2] : r \in page} :
             /\ \A r \in page : r[2] <= t
             /\ \A r \in Found(d, reader[x][d].from, job[x].to) : r[2] <= t => r \in page
             /\ Cardinality(page) <= 1 => Found(d, reader[x][d].from, job[x].to) \subseteq page
      BY <1>7, <2>6
    <3>4. t = last /\ last \in Nat
      <4>1. page \subseteq history
        BY <1>7 DEF Found
      <4> QED
        BY <2>3, <3>2, <3>3, <4>1
    <3>5. new.pc = "progress" /\ new.last = last /\ new.more = MorePages(page)
      BY <1>4, <2>6
    <3>6. Sent(x, d, last + 1)'
      BY <1>5, <1>6, <2>3, <2>4, <3>3, <3>4 DEF Sent
    <3>7. ~MorePages(page) => Sent(x, d, job[x].to + 1)'
      <4>1. ~MorePages(page) => Cardinality(page) <= 1
        <5>1. IsFiniteSet(page)
          <6>1. clock \in Nat
            BY SyncAssumption DEF Typed
          <6>2. IsFiniteSet(0..clock)
            BY <6>1, FS_Interval
          <6>5. IsFiniteSet({d})
            BY FS_Singleton
          <6>3. IsFiniteSet({d} \X (0..clock))
            BY <6>2, <6>5, FS_Product
          <6>4. page \subseteq {d} \X (0..clock)
            BY <1>7, <6>1 DEF Found, Typed
          <6> QED
            BY <6>3, <6>4, FS_Subset
        <5>2. Cardinality(page) \in Nat
          BY <5>1, FS_CardinalityType
        <5> QED
          BY <5>2 DEF MorePages
      <4> QED
        BY <1>5, <1>6, <2>4, <3>3, <4>1 DEF Sent
    <3> QED
      BY <1>6, <2>2, <3>5, <3>6, <3>7 DEF Read
  <2> QED
    BY <2>5, <2>6
<1>9. ASSUME NEW c \in Devices, c # d, Read(x, c) PROVE Read(x, c)'
  <2>1. reader'[x][c] = reader[x][c]
    BY <1>5, <1>6, <1>9
  <2> QED
    BY <1>5, <1>6, <1>9, <2>1, ReadKept
<1>10. job'[x].state = "active" /\ ~job'[x].disturbed => \A c \in Devices : Read(x, c)'
  BY <1>6, <1>8, <1>9 DEF Copying
<1>11. \A y \in Jobs : y # x => job'[y] = job[y] /\ reader'[y] = reader[y]
  BY <1>5, <1>6
<1> QED
  BY <1>5, <1>6, <1>10, <1>11, OthersKept

LEMMA ProgressCopying ==
  ASSUME Typed, Copying, NEW x \in Jobs, NEW d \in Devices, Progress(x, d)
  PROVE  Copying'
<1>1. reader[x][d].last \in Nat /\ reader \in [Jobs -> [Devices -> ReaderTyped]] /\ job \in [Jobs -> JobTyped]
  BY DEF Typed, ReaderTyped, Progress
<1>2. UNCHANGED <<history, index, writes, lost>>
  BY DEF Progress
<1>3. \A y \in Jobs : y # x => job'[y] = job[y] /\ reader'[y] = reader[y]
  BY <1>1 DEF Progress
<1>4. job'[x].from = job[x].from /\ job'[x].to = job[x].to /\ job'[x].asof = job[x].asof
      /\ job'[x].state = job[x].state /\ job'[x].disturbed = job[x].disturbed
  BY <1>1 DEF Progress, JobTyped
<1>5. reader'[x][d] = IF reader[x][d].more THEN Asking(x, reader[x][d].last) ELSE [pc |-> "done"]
  BY <1>1 DEF Progress
<1>6. ASSUME Read(x, d) PROVE Read(x, d)'
  <2>1. Sent(x, d, reader[x][d].last + 1)
    BY <1>6 DEF Read, Progress
  <2>2. \A r \in history : r[2] \in Nat
    BY SyncAssumption DEF Typed
  <2>3. Sent(x, d, reader[x][d].last)
    BY <1>1, <2>1, <2>2 DEF Sent
  <2>4. CASE reader[x][d].more
    <3>2. \/ reader'[x][d] = [pc |-> "asked", from |-> reader[x][d].last]
          \/ reader'[x][d] = [pc |-> "stopped"]
      BY <1>5, <2>4 DEF Asking
    <3>3. CASE reader'[x][d] = [pc |-> "stopped"]
      BY <3>3 DEF Read
    <3>4. CASE reader'[x][d] = [pc |-> "asked", from |-> reader[x][d].last]
      <4>1. \A r \in history' : r[1] = d /\ r[2] \in job'[x].from..job'[x].to /\ r[2] <= job'[x].asof
                                 /\ r[2] < reader'[x][d].from => r \in index' \cup writes' \cup lost'
        BY <1>2, <1>4, <2>3, <3>4 DEF Sent
      <4> QED
        BY <3>4, <4>1 DEF Read, Sent
    <3> QED
      BY <3>2, <3>3, <3>4
  <2>5. CASE ~reader[x][d].more
    <3>1. Sent(x, d, job[x].to + 1)
      BY <1>6, <2>5 DEF Read, Progress
    <3>2. reader'[x][d].pc = "done"
      BY <1>5, <2>5
    <3> QED
      BY <1>2, <1>4, <3>1, <3>2 DEF Read, Sent
  <2> QED
    BY <2>4, <2>5
<1>7. ASSUME NEW c \in Devices, c # d, Read(x, c) PROVE Read(x, c)'
  <2>1. reader'[x][c] = reader[x][c]
    BY <1>1, <1>7 DEF Progress
  <2> QED
    BY <1>2, <1>4, <1>7, <2>1, ReadKept
<1>8. job'[x].state = "active" /\ ~job'[x].disturbed => \A c \in Devices : Read(x, c)'
  BY <1>4, <1>6, <1>7 DEF Copying
<1> QED
  BY <1>2, <1>3, <1>8, OthersKept

LEMMA JobCopying ==
  ASSUME Typed, Copying, NEW x \in Jobs, JobStep(x) \/ \E d \in Devices : Fail(x, d)
  PROVE  Copying'
<1>1. reader \in [Jobs -> [Devices -> ReaderTyped]] /\ job \in [Jobs -> JobTyped]
  BY DEF Typed
<1>2. CASE TakeJob(x)
  <2>1. \A d \in Devices : Read(x, d)'
    BY <1>1, <1>2 DEF TakeJob, Read, NoReader
  <2>2. \A y \in Jobs : y # x => job'[y] = job[y] /\ reader'[y] = reader[y]
    BY <1>1, <1>2 DEF TakeJob
  <2> QED
    BY <1>2, <2>1, <2>2, OthersKept DEF TakeJob
<1>3. CASE StartReaders(x)
  <2>1. \A y \in Jobs : y # x => job'[y] = job[y] /\ reader'[y] = reader[y]
    BY <1>1, <1>3 DEF StartReaders
  <2>2. ASSUME NEW d \in Devices PROVE Read(x, d)'
    <3>1. reader'[x][d] = Asking(x, job[x].from)
      BY <1>1, <1>3 DEF StartReaders
    <3>2. job'[x].from = job[x].from /\ job'[x].to = job[x].to
      BY <1>1, <1>3 DEF StartReaders, JobTyped
    <3>3. \A r \in history : ~(r[2] \in job[x].from..job[x].to /\ r[2] < job[x].from)
      BY NothingBefore
    <3>4. CASE reader'[x][d] = [pc |-> "stopped"]
      BY <3>4 DEF Read
    <3>5. CASE reader'[x][d] = [pc |-> "asked", from |-> job[x].from]
      <4>1. \A r \in history' : ~(r[2] \in job'[x].from..job'[x].to /\ r[2] < reader'[x][d].from)
        BY <1>3, <3>2, <3>3, <3>5 DEF StartReaders
      <4> QED
        BY <3>5, <4>1 DEF Read, Sent
    <3> QED
      BY <3>1, <3>4, <3>5 DEF Asking
  <2> QED
    BY <1>3, <2>1, <2>2, OthersKept DEF StartReaders
<1>4. CASE Complete(x)
  <2>1. job'[x].state # "active"
    BY <1>1, <1>4 DEF Complete, NoJob
  <2>2. \A y \in Jobs : y # x => job'[y] = job[y] /\ reader'[y] = reader[y]
    BY <1>1, <1>4 DEF Complete
  <2> QED
    BY <1>4, <2>1, <2>2, OthersKept DEF Complete
<1>5. ASSUME NEW d \in Devices, Fail(x, d) PROVE Copying'
  <2>1. job'[x].state # "active"
    BY <1>1, <1>5 DEF Fail, JobTyped
  <2>2. \A y \in Jobs : y # x => job'[y] = job[y] /\ reader'[y] = reader[y]
    BY <1>1, <1>5 DEF Fail
  <2> QED
    BY <1>5, <2>1, <2>2, OthersKept DEF Fail
<1>6. CASE Disable(x)
  <2>1. job'[x].state # "active"
    BY <1>1, <1>6 DEF Disable, JobTyped
  <2>2. \A y \in Jobs : y # x => job'[y] = job[y] /\ reader'[y] = reader[y]
    BY <1>1, <1>6 DEF Disable
  <2> QED
    BY <1>6, <2>1, <2>2, OthersKept DEF Disable
<1>7. CASE Undo(x)
  <2>1. \A y \in Jobs : job'[y].state = "active" => job'[y].disturbed
    BY <1>1, <1>7 DEF Undo, Disturbed, NoJob, JobTyped
  <2> QED
    BY <2>1 DEF Copying
<1> QED
  BY <1>2, <1>3, <1>4, <1>5, <1>6, <1>7, AnswerCopying, ProgressCopying DEF JobStep

\* Steps that neither jobs nor the copied readings feel.
LEMMA AsideCopying ==
  ASSUME Copying, UNCHANGED <<history, job, reader>>, index \cup writes \cup lost \subseteq index' \cup writes' \cup lost'
  PROVE  Copying'
<1>1. ASSUME NEW x \in Jobs, NEW d, Read(x, d) PROVE Read(x, d)'
  BY <1>1, ReadKept
<1> QED
  BY <1>1 DEF Copying

LEMMA NextCopying == Typed /\ Copying /\ [Next]_vars => Copying'
<1> SUFFICES ASSUME Typed, Copying, [Next]_vars PROVE Copying'
  OBVIOUS
<1>1. CASE UNCHANGED vars
  BY <1>1, AsideCopying DEF vars, memory
<1>2. CASE Write \/ WriteFails
  <2>1. index \cup writes \cup lost \subseteq index' \cup writes' \cup lost' /\ UNCHANGED <<history, job, reader>>
    BY <1>2 DEF Write, WriteFails, memory
  <2> QED
    BY <2>1, AsideCopying
<1>3. CASE Restart
  <2>1. \A x \in Jobs : job'[x].state # "active"
    <3> SUFFICES ASSUME NEW x \in Jobs PROVE job'[x].state # "active"
      OBVIOUS
    <3>1. job[x] \in JobTyped
      BY DEF Typed
    <3> QED
      BY <1>3, <3>1 DEF Restart, NoJob, JobTyped
  <2> QED
    BY <2>1 DEF Copying
<1>4. ASSUME NEW s \in Slots,
             \/ \E enable \in BOOLEAN : EnableElasticSearch(s, enable)
             \/ \E from \in Froms, to \in Tos : AddToElasticSearch(s, from, to)
             \/ DeleteIndex(s)
      PROVE  Copying'
  BY <1>4, AsideCopying DEF EnableElasticSearch, AddToElasticSearch, DeleteIndex, Begin
<1>5. ASSUME NEW s \in Slots, Serve(s) PROVE Copying'
  <2>1. CASE Queue(s)
    <3>1. PICK x \in Jobs : job' = [job EXCEPT ![x] = [NoJob EXCEPT !.state = "waiting",
                              !.from = request[s].from, !.to = request[s].to, !.cursor = request[s].from]]
      BY <2>1 DEF Queue
    <3>2. job'[x].state # "active" /\ \A y \in Jobs : y # x => job'[y] = job[y]
      BY <3>1 DEF Typed, NoJob
    <3> QED
      BY <2>1, <3>2, OthersKept DEF Queue
  <2>2. CASE Erase(s)
    <3>1. \A y \in Jobs : job'[y].state = "active" => job'[y].disturbed
      BY <2>2 DEF Erase, Disturbed, Typed, JobTyped
    <3> QED
      BY <3>1 DEF Copying
  <2>3. CASE Check(s) \/ SetEnabled(s) \/ Cancel(s) \/ ReadEnabled(s) \/ Close(s) \/ Open(s) \/ Stamp(s)
             \/ SetRange(s) \/ SetControl(s)
    <3>1. UNCHANGED <<history, index, writes, lost, job, reader>>
      BY <2>3 DEF Check, SetEnabled, Cancel, ReadEnabled, Close, Open, Stamp, SetRange, SetControl
    <3> QED
      BY <3>1, AsideCopying
  <2> QED
    BY <1>5, <2>1, <2>2, <2>3 DEF Serve
<1> QED
  BY <1>1, <1>2, <1>3, <1>4, <1>5, ReportCopying, JobCopying DEF Next

LEMMA InitCopying == Init => Copying
BY DEF Init, NoJob, Copying

\* The inductive invariant: the types, and how far each reader of a running job is.
THEOREM InductiveInvariant == Spec => []IInv
<1>1. Init => IInv
  BY InitTyped, InitCopying DEF IInv
<1>2. IInv /\ [Next]_vars => IInv'
  BY NextTyped, NextCopying DEF IInv
<1> QED
  BY <1>1, <1>2, PTL DEF Spec

\* A job that completes undisturbed has copied its range, for any number of
\* devices, jobs and requests, any page size and whatever the devices report.
THEOREM HistoryIsCopied == Spec => HistoryCopied
<1> DEFINE A == \A x \in Jobs :
                  /\ job[x].state = "active" /\ job'[x].state = "done"
                  /\ \A d \in Devices : reader[x][d].pc = "done"
                  /\ ~job[x].disturbed
                  => \A r \in history :
                        r[2] \in job[x].from..job[x].to /\ r[2] <= job[x].asof => r \in index \cup writes \cup lost
<1>1. IInv => A
  <2> SUFFICES ASSUME IInv, NEW x \in Jobs, job[x].state = "active", ~job[x].disturbed,
                      \A d \in Devices : reader[x][d].pc = "done",
                      NEW r \in history, r[2] \in job[x].from..job[x].to, r[2] <= job[x].asof
               PROVE  r \in index \cup writes \cup lost
    OBVIOUS
  <2>1. r[1] \in Devices /\ r[2] \in Nat /\ job[x].to \in Nat /\ job[x].from \in Nat
    BY SyncAssumption DEF IInv, Typed, JobTyped, Past
  <2>2. Sent(x, r[1], job[x].to + 1)
    BY <2>1 DEF IInv, Copying, Read
  <2>3. r[2] < job[x].to + 1
    BY <2>1
  <2> QED
    BY <2>2, <2>3 DEF Sent
<1> QED
  BY <1>1, InductiveInvariant, PTL DEF HistoryCopied

-----------------------------------------------------------------------------
(* One administrator at a time.                                            *)

\* Where a request goes on.
LEMMA Stages ==
  ASSUME Typed, NEW s \in Slots, request'[s] = [request[s] EXCEPT !.todo = Tail(@)]
  PROVE  /\ Stage(s) = "check" => Stage(s)' \in {"set", "range"}
         /\ Stage(s) = "range" => Stage(s)' = "queue"
         /\ Stage(s) = "set" => Stage(s)' \in {"read", "cancel"}
         /\ Stage(s) = "cancel" => Stage(s)' = "read"
         /\ Stage(s) = "close" => Stage(s)' = "open" /\ request'[s].seen = request[s].seen
         /\ Stage(s) = "open" => Stage(s)' \in {"stamp", "erase"}
         /\ Stage(s) \in {"erase", "control"} => Stage(s)' = "idle"
<1>1. request[s] \in Seen \cup Ranged \cup Queued \cup {Idle}
  BY DEF Typed
<1>2. CASE Stage(s) = "idle"
  BY <1>2
<1>3. CASE Stage(s) # "idle"
  <2>1. request[s].todo # <<>> /\ Stage(s) = Head(request[s].todo)
    BY <1>3 DEF Stage
  <2>2. CASE request[s] \in Seen
    <3>1. request[s].todo \in Enabling \cup Deleting
      BY <2>1, <2>2 DEF Seen
    <3>2. request'[s].todo = Tail(request[s].todo) /\ request'[s].seen = request[s].seen
      BY <2>2 DEF Seen
    <3> QED
      BY <2>1, <3>1, <3>2, EnablingTails, DeletingTails DEF Stage
  <2>3. CASE request[s] \in Ranged
    <3>1. request'[s].todo = Tail(request[s].todo) /\ request[s].todo \in Adding
      BY <2>3 DEF Ranged
    <3>2. \A t \in Adding : t # <<>>
      BY AddingTails
    <3> QED
      BY <2>1, <3>1, <3>2, AddingTails DEF Stage
  <2>4. CASE request[s] \in Queued
    <3>1. request[s].todo = <<"control">> /\ request'[s].todo = Tail(request[s].todo)
      BY <2>1, <2>4 DEF Queued
    <3>2. Head(<<"control">>) = "control" /\ Tail(<<"control">>) = <<>>
      OBVIOUS
    <3> QED
      BY <2>1, <3>1, <3>2 DEF Stage
  <2> QED
    BY <1>1, <2>1, <2>2, <2>3, <2>4 DEF Idle
<1> QED
  BY <1>2, <1>3

\* A job that has failed stays failed.
LEMMA FailureStays == ASSUME Typed, [Next]_vars, NoFailure' PROVE NoFailure
<1>1. job \in [Jobs -> JobTyped]
  BY DEF Typed
<1>2. CASE UNCHANGED job
  BY <1>2 DEF NoFailure
<1>3. CASE Restart
  <2> SUFFICES ASSUME NEW x \in Jobs PROVE job[x].state \notin {"undoing", "failed"}
    BY DEF NoFailure
  <2>1. job'[x].state \notin {"undoing", "failed"}
    BY DEF NoFailure
  <2> QED
    BY <1>3, <2>1 DEF Restart, NoJob
<1>4. ASSUME NEW s \in Slots, Queue(s) PROVE NoFailure
  BY <1>1, <1>4 DEF Queue, NoFailure, NoJob
<1>5. ASSUME NEW s \in Slots, Erase(s) PROVE NoFailure
  BY <1>1, <1>5 DEF Erase, Disturbed, NoFailure
<1>6. ASSUME NEW x \in Jobs, TakeJob(x) \/ StartReaders(x) \/ Complete(x) \/ Disable(x) \/ Undo(x)
                             \/ \E d \in Devices : Answer(x, d) \/ Progress(x, d) \/ Fail(x, d)
      PROVE  NoFailure
  <2> SUFFICES ASSUME NEW y \in Jobs PROVE job[y].state \notin {"undoing", "failed"}
    BY DEF NoFailure
  <2>1. job'[y].state \notin {"undoing", "failed"} /\ job'[x].state \notin {"undoing", "failed"}
    BY DEF NoFailure
  <2>2. job[x] \in JobTyped /\ job[y] \in JobTyped
    BY <1>1
  <2>3. CASE TakeJob(x) \/ StartReaders(x) \/ Complete(x)
    BY <1>1, <2>1, <2>2, <2>3 DEF TakeJob, StartReaders, Complete, JobTyped
  <2>4. CASE Disable(x)
    BY <1>1, <2>1, <2>2, <2>4 DEF Disable, JobTyped
  <2>5. CASE Undo(x)
    BY <1>1, <2>1, <2>2, <2>5 DEF Undo, Disturbed, NoJob, JobTyped
  <2>6. ASSUME NEW d \in Devices, Answer(x, d) \/ Progress(x, d) \/ Fail(x, d)
        PROVE  job[y].state \notin {"undoing", "failed"}
    BY <1>1, <2>1, <2>2, <2>6 DEF Answer, Progress, Fail, JobTyped
  <2> QED
    BY <1>6, <2>3, <2>4, <2>5, <2>6
<1>7. ASSUME NEW s \in Slots,
             \/ \E enable \in BOOLEAN : EnableElasticSearch(s, enable)
             \/ \E from \in Froms, to \in Tos : AddToElasticSearch(s, from, to)
             \/ DeleteIndex(s)
      PROVE  UNCHANGED job
  BY <1>7 DEF EnableElasticSearch, AddToElasticSearch, DeleteIndex, Begin
<1>8. ASSUME NEW s \in Slots, Serve(s) PROVE NoFailure
  BY <1>2, <1>4, <1>5, <1>8 DEF Serve, Check, SetEnabled, Cancel, ReadEnabled, Close, Open, Stamp, SetRange, SetControl
<1>9. CASE Report \/ Write \/ WriteFails \/ UNCHANGED vars
  BY <1>2, <1>9 DEF Report, Write, WriteFails, vars
<1> QED
  BY <1>2, <1>3, <1>6, <1>7, <1>8, <1>9 DEF Next, JobStep

LEMMA LiveKept ==
  ASSUME Typed, LiveInv, [Next]_vars, UNCHANGED <<live, stray, request>>, enabled' = enabled \/ ~NoFailure'
  PROVE  LiveInv'
<1>1. NoFailure' => NoFailure /\ enabled' = enabled
  BY FailureStays
<1> QED
  BY <1>1 DEF LiveInv, Stage

LEMMA ServeLive ==
  ASSUME Typed, LiveInv, [Next]_vars, NEW s, Slots = {s}, Serve(s)
  PROVE  LiveInv'
<1>1. s \in Slots /\ request \in [Slots -> Requested]
  BY DEF Typed, Requested
<1>2. NoFailure' => NoFailure
  BY FailureStays
<1>3. SUFFICES /\ ~stray'
               /\ Stage(s)' = "open" => ~live'
               /\ NoFailure' /\ Stage(s)' \in {"close", "open"} => request'[s].seen = enabled'
               /\ NoFailure' /\ Stage(s)' \notin {"cancel", "read", "close", "open"} => live' = enabled'
  BY DEF LiveInv
<1>4. /\ ~stray
      /\ Stage(s) = "open" => ~live
      /\ NoFailure /\ Stage(s) \in {"close", "open"} => request[s].seen = enabled
      /\ NoFailure /\ Stage(s) \notin {"cancel", "read", "close", "open"} => live = enabled
  BY <1>1 DEF LiveInv
<1>5. ASSUME Done(s) PROVE request'[s] = [request[s] EXCEPT !.todo = Tail(@)]
  BY <1>1, <1>5 DEF Done
<1>6. ASSUME request'[s] = Idle PROVE Stage(s)' = "idle"
  BY <1>6 DEF Stage, Idle
<1>7. CASE Check(s)
  <2>1. CASE request' = [request EXCEPT ![s] = Idle]
    BY <1>1, <1>2, <1>4, <1>6, <1>7, <2>1 DEF Check
  <2>2. CASE Done(s)
    BY <1>1, <1>2, <1>4, <1>5, <1>7, <2>2, Stages DEF Check
  <2> QED
    BY <1>7, <2>1, <2>2 DEF Check
<1>8. CASE SetEnabled(s) \/ Cancel(s)
  BY <1>1, <1>2, <1>4, <1>5, <1>8, Stages DEF SetEnabled, Cancel
<1>9. CASE ReadEnabled(s)
  <2>1. request[s] \in Seen /\ request[s].todo \in Enabling \cup Deleting /\ Head(request[s].todo) = "read"
    BY <1>1, <1>9, StageIs DEF ReadEnabled
  <2>2. request'[s].todo = Tail(request[s].todo) /\ request'[s].seen = enabled
    BY <1>1, <1>9, <2>1 DEF ReadEnabled, Seen
  <2>3. Stage(s)' = "close"
    BY <2>1, <2>2, EnablingTails, DeletingTails DEF Stage
  <2> QED
    BY <1>4, <1>9, <2>2, <2>3 DEF ReadEnabled
<1>10. CASE Close(s)
  BY <1>1, <1>2, <1>4, <1>5, <1>10, Stages DEF Close
<1>11. CASE Open(s)
  BY <1>1, <1>2, <1>4, <1>5, <1>11, Stages DEF Open
<1>12. CASE Stamp(s)
  <2>1. Stage(s)' \in {"idle", "check"}
    <3>1. request'[s] = Idle \/ request'[s].todo = <<"check", "range", "queue", "control">>
      BY <1>1, <1>12 DEF Stamp, Addition
    <3> QED
      BY <1>6, <3>1 DEF Stage
  <2> QED
    BY <1>2, <1>4, <1>12, <2>1 DEF Stamp
<1>13. CASE SetRange(s)
  <2>1. Stage(s)' \in {"idle", "queue"}
    <3>1. request[s] \in Ranged /\ Head(request[s].todo) = "range"
      BY <1>1, <1>13, StageIs DEF SetRange
    <3>2. request'[s] = Idle \/ request'[s].todo = Tail(request[s].todo)
      BY <1>1, <1>5, <1>13, <3>1 DEF SetRange, Ranged
    <3>3. \A t \in Adding : t # <<>>
      BY AddingTails
    <3> QED
      BY <1>6, <3>1, <3>2, <3>3, AddingTails DEF Stage, Ranged
  <2> QED
    BY <1>2, <1>4, <1>13, <2>1 DEF SetRange
<1>14. CASE Queue(s)
  <2>1. request'[s].todo = <<"control">>
    BY <1>1, <1>14 DEF Queue
  <2>2. Stage(s)' = "control"
    BY <2>1 DEF Stage
  <2> QED
    BY <1>2, <1>4, <1>14, <2>2 DEF Queue
<1>15. CASE SetControl(s) \/ Erase(s)
  BY <1>1, <1>2, <1>4, <1>5, <1>15, Stages DEF SetControl, Erase
<1> QED
  BY <1>7, <1>8, <1>9, <1>10, <1>11, <1>12, <1>13, <1>14, <1>15 DEF Serve

LEMMA BeginLive ==
  ASSUME Typed, LiveInv, [Next]_vars, NEW s, Slots = {s},
         \/ \E enable \in BOOLEAN : EnableElasticSearch(s, enable)
         \/ \E from \in Froms, to \in Tos : AddToElasticSearch(s, from, to)
         \/ DeleteIndex(s)
  PROVE  LiveInv'
<1>1. s \in Slots /\ request \in [Slots -> Requested]
  BY DEF Typed, Requested
<1>2. Stage(s) = "idle" /\ UNCHANGED <<enabled, live, stray>>
  BY DEF EnableElasticSearch, AddToElasticSearch, DeleteIndex, Begin
<1>3. Stage(s)' \in {"check", "set"}
  <2>1. ASSUME NEW q, Begin(s, q), q.todo # <<>>, Head(q.todo) \in {"check", "set"}
        PROVE  Stage(s)' \in {"check", "set"}
    BY <1>1, <2>1 DEF Begin, Stage
  <2>2. \A t \in Enabling \cup Deleting : t # <<>>
    BY EnablingTails, DeletingTails
  <2>3. ASSUME NEW enable \in BOOLEAN, EnableElasticSearch(s, enable) PROVE Stage(s)' \in {"check", "set"}
    <3>1. PICK q : q = [todo |-> <<"check", "set">> \o Refresh \o <<"stamp">>, enable |-> enable, seen |-> FALSE]
      OBVIOUS
    <3>2. q.todo # <<>> /\ Head(q.todo) = "check"
      BY <2>2, <3>1, Beginnings
    <3> QED
      BY <2>1, <2>3, <3>1, <3>2 DEF EnableElasticSearch
  <2>4. ASSUME NEW from \in Froms, NEW to \in Tos, AddToElasticSearch(s, from, to)
        PROVE  Stage(s)' \in {"check", "set"}
    <3>1. PICK q : q = Addition(from, to)
      OBVIOUS
    <3>2. q.todo # <<>> /\ Head(q.todo) = "check"
      BY <3>1 DEF Addition
    <3> QED
      BY <2>1, <2>4, <3>1, <3>2 DEF AddToElasticSearch
  <2>5. CASE DeleteIndex(s)
    <3>1. PICK q : q = [todo |-> <<"set", "cancel">> \o Refresh \o <<"erase">>, enable |-> FALSE, seen |-> FALSE]
      OBVIOUS
    <3>2. q.todo # <<>> /\ Head(q.todo) = "set"
      BY <2>2, <3>1, Beginnings
    <3> QED
      BY <2>1, <2>5, <3>1, <3>2 DEF DeleteIndex
  <2> QED
    BY <2>3, <2>4, <2>5
<1> QED
  BY <1>1, <1>2, <1>3, FailureStays DEF LiveInv

LEMMA NextLive ==
  ASSUME Typed, LiveInv, [Next]_vars, NEW s, Slots = {s}
  PROVE  LiveInv'
<1>1. CASE UNCHANGED vars
  BY <1>1, LiveKept DEF vars, memory
<1>2. CASE Report \/ Write \/ WriteFails
  BY SMTT(30), <1>2, LiveKept DEF Report, Write, WriteFails, memory
<1>3. CASE Restart
  BY <1>3 DEF Restart, LiveInv, Stage, Idle
<1>4. ASSUME NEW x \in Jobs, JobStep(x) \/ \E d \in Devices : Fail(x, d) PROVE LiveInv'
  <2>1. CASE Disable(x)
    <3>1. job'[x].state = "undoing"
      BY <2>1 DEF Disable, Typed, JobTyped
    <3>2. ~NoFailure'
      BY <3>1 DEF NoFailure
    <3> QED
      BY <2>1, <3>2, LiveKept DEF Disable
  <2>2. CASE Undo(x)
    BY <2>2, LiveKept DEF Undo, memory
  <2>3. CASE ~Disable(x) /\ ~Undo(x)
    <3>1. UNCHANGED <<live, stray, request, enabled>>
      BY <1>4, <2>3 DEF JobStep, TakeJob, StartReaders, Complete, Answer, Progress, Fail
    <3> QED
      BY <3>1, LiveKept
  <2> QED
    BY <2>1, <2>2, <2>3
<1> QED
  BY <1>1, <1>2, <1>3, <1>4, BeginLive, ServeLive DEF Next

\* With one administrator at a time, and as long as no job fails, the MQTT clients
\* listen exactly to what is enabled whenever no request is being served.
THEOREM EnabledAreHeard == ASSUME NEW s, Slots = {s} PROVE Spec => []LiveWhenEnabled
<1>1. Init => LiveInv
  <2> SUFFICES ASSUME Init, NEW t \in Slots 
               PROVE  stray = FALSE /\ live = FALSE /\ enabled = FALSE /\ Stage(t) = "idle"
    BY DEF LiveInv
  <2>1. request[t].todo = <<>> /\ stray = FALSE /\ live = FALSE /\ enabled = FALSE
    BY DEF Init, Idle
  <2> QED
    BY <2>1 DEF Stage
<1>2. Typed /\ LiveInv /\ [Next]_vars => LiveInv'
  BY NextLive
<1>3. Typed /\ LiveInv => LiveWhenEnabled
  <2> SUFFICES ASSUME Typed, LiveInv, \A t \in Slots : Stage(t) = "idle", NoFailure PROVE (live \/ stray) = enabled
    BY DEF LiveWhenEnabled, NoFailure
  <2>1. ~stray /\ Stage(s) = "idle" /\ live = enabled
    BY DEF LiveInv
  <2>2. stray = FALSE /\ live \in BOOLEAN
    BY <2>1 DEF Typed
  <2>3. (live \/ FALSE) = live
    BY <2>2
  <2> QED
    BY <2>1, <2>2, <2>3
<1>4. IInv => Typed
  BY DEF IInv
<1> QED
  BY <1>1, <1>2, <1>3, <1>4, InductiveInvariant, PTL DEF Spec
=============================================================================
