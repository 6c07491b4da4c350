----------------------------- MODULE SignageProofs -----------------------------
(***************************************************************************)
(* Whatever requests overlap, fail or are cut short, a schedule told to    *)
(* the CMS is logged or gone, and a page is broken only by a deletion that *)
(* was logged; while requests come one at a time, no content outlives its  *)
(* template.  For any templates, drafts, changes, requests and bounds.     *)
(*                                                                         *)
(* A handler is a list of stages, so the invariants speak of the stages    *)
(* that are left: which ones, in which order, and what they carry.         *)
(***************************************************************************)
EXTENDS Signage, SequenceTheorems, FiniteSetTheorems, FunctionTheorems, WellFoundedInduction, TLAPS

\* A sequence, whatever it holds.
IsList(s) == s \in Seq({s[n] : n \in 1..Len(s)})

LEMMA ListFacts ==
  ASSUME NEW s, IsList(s)
  PROVE  Len(s) \in Nat /\ DOMAIN s = 1..Len(s)
BY DEF IsList

LEMMA FunctionList ==
  ASSUME NEW n \in Nat, NEW s, s = [i \in 1..n |-> s[i]]
  PROVE  IsList(s) /\ Len(s) = n
<1>1. s \in [1..n -> {s[i] : i \in 1..n}]
  OBVIOUS
<1>2. s \in Seq({s[i] : i \in 1..n}) /\ Len(s) = n
  BY <1>1, SeqDef
<1>3. QED
  BY <1>2 DEF IsList

LEMMA SeqList ==
  ASSUME NEW S, NEW s \in Seq(S)
  PROVE  IsList(s)
<1>1. Len(s) \in Nat /\ s \in [1..Len(s) -> S]
  BY LenProperties
<1>2. s = [i \in 1..Len(s) |-> s[i]]
  BY <1>1
<1>3. QED
  BY <1>1, <1>2, FunctionList

LEMMA ListConcat ==
  ASSUME NEW a, NEW b, IsList(a), IsList(b)
  PROVE  /\ IsList(a \o b) /\ Len(a \o b) = Len(a) + Len(b)
         /\ \A n \in 1..Len(a) : (a \o b)[n] = a[n]
         /\ \A n \in 1..Len(b) : (a \o b)[Len(a) + n] = b[n]
         /\ \A n \in 1..(Len(a) + Len(b)) : n > Len(a) => (a \o b)[n] = b[n - Len(a)] /\ n - Len(a) \in 1..Len(b)
<1> DEFINE S == {a[n] : n \in 1..Len(a)} \cup {b[n] : n \in 1..Len(b)}
<1>1. a \in Seq(S) /\ b \in Seq(S)
  BY ListFacts DEF IsList
<1>2. Len(a) \in Nat /\ Len(b) \in Nat
  BY ListFacts
<1> HIDE DEF S
<1>3. a \o b \in Seq(S) /\ Len(a \o b) = Len(a) + Len(b)
  BY <1>1
<1>4. \A n \in 1..(Len(a) + Len(b)) : (a \o b)[n] = IF n <= Len(a) THEN a[n] ELSE b[n - Len(a)]
  BY <1>1
<1>6. IsList(a \o b)
  BY <1>3, SeqList
<1>7. QED
  BY <1>2, <1>3, <1>4, <1>6

LEMMA ListTail ==
  ASSUME NEW s, IsList(s), s # <<>>
  PROVE  /\ Len(s) >= 1 /\ Head(s) = s[1]
         /\ IsList(Tail(s)) /\ Len(Tail(s)) = Len(s) - 1
         /\ \A n \in 1..(Len(s) - 1) : Tail(s)[n] = s[n + 1]
<1> DEFINE S == {s[n] : n \in 1..Len(s)}
<1>1. s \in Seq(S)
  BY DEF IsList
<1> HIDE DEF S
<1>2. Len(s) \in Nat /\ Len(s) >= 1 /\ Head(s) = s[1]
  BY <1>1
<1>3. Tail(s) \in Seq(S) /\ Len(Tail(s)) = Len(s) - 1 /\ \A n \in 1..(Len(s) - 1) : Tail(s)[n] = s[n + 1]
  BY <1>1
<1>4. IsList(Tail(s))
  BY <1>3, SeqList
<1>5. QED
  BY <1>2, <1>3, <1>4

LEMMA ListOne ==
  ASSUME NEW x
  PROVE  IsList(<<x>>) /\ Len(<<x>>) = 1 /\ <<x>>[1] = x
<1>1. <<x>> \in [1..1 -> {x}]
  OBVIOUS
<1>2. <<x>> \in Seq({x})
  BY <1>1, SeqDef
<1>3. QED
  BY <1>2, SeqList

LEMMA ListTwo ==
  ASSUME NEW x, NEW y
  PROVE  IsList(<<x, y>>) /\ Len(<<x, y>>) = 2 /\ <<x, y>>[1] = x /\ <<x, y>>[2] = y
BY FunctionList

LEMMA ListFour ==
  ASSUME NEW a, NEW b, NEW c, NEW d
  PROVE  /\ IsList(<<a, b, c, d>>) /\ Len(<<a, b, c, d>>) = 4
         /\ <<a, b, c, d>>[1] = a /\ <<a, b, c, d>>[2] = b
         /\ <<a, b, c, d>>[3] = c /\ <<a, b, c, d>>[4] = d
<1>1. <<a, b, c, d>> \in [1..4 -> {a, b, c, d}]
  OBVIOUS
<1>2. <<a, b, c, d>> \in Seq({a, b, c, d})
  BY <1>1, SeqDef
<1>3. QED
  BY <1>2, SeqList

LEMMA ListSix ==
  ASSUME NEW a, NEW b, NEW c, NEW d, NEW e, NEW f
  PROVE  LET s == <<a, b, c, d, e, f>>
         IN  /\ IsList(s) /\ Len(s) = 6
             /\ s[1] = a /\ s[2] = b /\ s[3] = c /\ s[4] = d /\ s[5] = e /\ s[6] = f
<1>1. <<a, b, c, d, e, f>> \in [1..6 -> {a, b, c, d, e, f}]
  OBVIOUS
<1>2. <<a, b, c, d, e, f>> \in Seq({a, b, c, d, e, f})
  BY <1>1, SeqDef
<1>3. QED
  BY <1>2, SeqList

LEMMA ListEmpty == IsList(<<>>) /\ Len(<<>>) = 0
<1>1. <<>> \in Seq({})
  BY EmptySeq
<1>2. QED
  BY <1>1, SeqList

-----------------------------------------------------------------------------
(* What is left of a handler: a list of stages.                            *)

\* Stages of additions, deletions, edits that add a schedule, and edits that set one.
Adding == {"createTemplate", "logTemplate", "addContents", "createContent", "createItem", "addDetail"}
Deleting == {"findTemplate", "logTemplate", "listContents", "findDetail", "deleteItems", "deleteDetail",
             "deleteContent", "deleteTemplate", "findNewest", "deleteSchedule"}
Editing == {"setTemplate", "updateContents", "setContent", "createItem", "setDetail", "logSchedule",
            "readTemplate", "readContents", "readShown", "render", "tell"}
Creating == Editing \cup {"createSchedule"}
Saving == Editing \cup {"findSchedule", "setSchedule"}

\* The stages that list the items created by the stage before.
Lists(stage) == stage.do = "addDetail" \/ (stage.do = "setDetail" /\ stage.new)

\* What a client may ask of a content.
EditedContents == [content : Nat, change : ChangedContents]

\* What a stage says of a document is what the document may hold.
Typed(stage) ==
  /\ stage.do \in {"createTemplate", "setTemplate"} => stage.type \in Types
  /\ stage.do \in {"createContent", "setContent"} => stage.rect \in Rects
  /\ stage.do \in {"createItem", "addDetail", "setDetail", "deleteItems"} => stage.kind \in Kinds
  /\ stage.do = "setDetail" => stage.new \in BOOLEAN
  /\ stage.do = "deleteItems" => stage.ids \subseteq Nat
  /\ stage.do = "addContents" => stage.drafts \in Seq(DraftContents)
  /\ stage.do = "updateContents" => stage.edits \in Seq(EditedContents)

Words(s, F) == \A n \in 1..Len(s) : s[n].do \in F
Has(s, name) == \E n \in 1..Len(s) : s[n].do = name
Before(s, n, name) == \E m \in 1..Len(s) : m < n /\ s[m].do = name

\* Items are created right before they are listed.
Paired(s) == \A n \in 2..Len(s) : Lists(s[n]) => s[n - 1].do = "createItem"

\* A list of stages named in F, typed, whose items are created right before they are listed.
Part(s, F) ==
  /\ IsList(s) /\ Words(s, F)
  /\ \A n \in 1..Len(s) : Typed(s[n])
  /\ \A n \in 1..Len(s) : Lists(s[n]) => n > 1 /\ s[n - 1].do = "createItem"

TodoOK(s) ==
  /\ IsList(s)
  /\ \E F \in {Adding, Deleting, Creating, Saving} : Words(s, F)
  /\ \A n \in 1..Len(s) : Typed(s[n])
  /\ Paired(s)

Fields == {"todo", "t", "s", "c", "made", "found", "got"}

JobOK(q) ==
  /\ q = [f \in Fields |-> q[f]]
  /\ TodoOK(q.todo)
  /\ q.t \in Nat /\ q.c \in Nat /\ q.made \subseteq Nat /\ q.found \in BOOLEAN

RequestsOK ==
  /\ request = [r \in Requests |-> request[r]]
  /\ \A r \in Requests : (request[r] # Idle) => JobOK(request[r])

DocsOK ==
  /\ template \in Seq(TemplateDocs \cup {Gone})
  /\ content \in Seq(ContentDocs \cup {Gone})
  /\ detail \in Seq(DetailDocs \cup {Gone})
  /\ item \in Seq(ItemDocs \cup {Gone})
  /\ IsList(schedule)

TypeInv == RequestsOK /\ DocsOK

-----------------------------------------------------------------------------
(* Contents and templates.                                                 *)

Orphanless == \A c \in Stored(content) : Exists(template, content[c].template)

\* A content is created for a template that exists, or will; a template is deleted when the
\* deletion of each of its contents lies ahead or behind.
ContentJob(q, tems, cons) ==
  /\ \A n \in 1..Len(q.todo) :
       q.todo[n].do \in {"addContents", "createContent"} =>
         (Exists(tems, q.t) \/ Before(q.todo, n, "createTemplate"))
  /\ \A n \in 1..Len(q.todo) :
       q.todo[n].do = "deleteTemplate" =>
         \/ Before(q.todo, n, "listContents")
         \/ \A c \in Stored(cons) : cons[c].template = q.t =>
              \E m \in 1..Len(q.todo) : m < n /\ q.todo[m].do \in {"findDetail", "deleteContent"} /\ q.todo[m].content = c

ContentsInv ==
  ~overlap =>
    /\ Orphanless
    /\ \A r, x \in Requests : request[r] # Idle /\ request[x] # Idle => r = x
    /\ \A r \in Requests : request[r] # Idle => ContentJob(request[r], template, content)

-----------------------------------------------------------------------------
(* Items and the details that list them.                                   *)

\* Here dets, cons and lg are details, contents and the logs of templates.
DeletionLogged(t, lg) == <<t, "DELETE">> \in lg
LogsDeletion(stage) == stage.do = "logTemplate" /\ stage.memo = "DELETE"

Listing(dets, i, d) == \E k \in Kinds : i \in dets[d].items[k]

\* The content of detail d is deleted, or the deletion of its template was logged.
Excused(dets, d, cons, lg) ==
  Exists(cons, dets[d].content) => DeletionLogged(cons[dets[d].content].template, lg)

\* A handler holds the items it is about to list.
Holds(q, i) == q.todo # <<>> /\ Lists(q.todo[1]) /\ i \in q.made

\* Nobody who may still be shown lists item i, and nobody will.
Doomed(i) ==
  /\ i \in DOMAIN item
  /\ \A d \in Stored(detail) : Listing(detail, i, d) => Excused(detail, d, content, log)
  /\ \A r \in Requests : ~Holds(request[r], i)

Drops(stage, i) == stage.do = "deleteItems" /\ stage.kind \in {"weather", "cam"} /\ i \in stage.ids

\* A look-up is for a content of the template whose deletion was logged.
LooksUp(stage, t, cons, lg) ==
  /\ DeletionLogged(t, lg) /\ stage.content \in DOMAIN cons
  /\ Exists(cons, stage.content) => cons[stage.content].template = t

ItemJob(q, cons, lg) ==
  /\ q.c \in 0..Len(cons)
  /\ \A n \in 1..Len(q.todo) :
       q.todo[n].do = "listContents" =>
         DeletionLogged(q.t, lg) \/ \E m \in 1..Len(q.todo) : m < n /\ LogsDeletion(q.todo[m])
  /\ \A n \in 1..Len(q.todo) : q.todo[n].do = "findDetail" => LooksUp(q.todo[n], q.t, cons, lg)

HeldAreFresh ==
  \A r \in Requests : \A i : Holds(request[r], i) =>
    /\ Exists(item, i)
    /\ \A d \in Stored(detail) : ~Listing(detail, i, d)
    /\ \A x \in Requests : Holds(request[x], i) => x = r

DetailsRefer ==
  \A d \in Stored(detail) :
    /\ detail[d].content \in 0..Len(content)
    /\ \A i : Listing(detail, i, d) => i \in DOMAIN item

ItemsInv ==
  /\ \A r \in Requests : request[r] # Idle => ItemJob(request[r], content, log)
  /\ HeldAreFresh
  /\ DetailsRefer
  /\ \A d, e \in Stored(detail) : \A i : Listing(detail, i, d) /\ Listing(detail, i, e) => d = e
  /\ \A i \in Stored(item) : item[i].kind = "media" => item[i].image \in Images
  /\ \A r \in Requests : request[r] # Idle =>
       \A n \in 1..Len(request[r].todo) : \A i : Drops(request[r].todo[n], i) => Doomed(i)
  /\ DanglingExplained

-----------------------------------------------------------------------------
(* Schedules, their logs and the CMS.                                      *)

\* Here docs and ids are the schedules and those in the schedule logs.
Settled(s, docs, ids) == s \in DOMAIN docs /\ (Exists(docs, s) => s \in ids)

ScheduleJob(q, docs, ids) ==
  /\ ~q.found => q.s \in DOMAIN docs /\ ~Exists(docs, q.s)
  /\ (Has(q.todo, "createSchedule") \/ Has(q.todo, "findNewest")) => q.found
  /\ Has(q.todo, "findSchedule") => q.s \in DOMAIN docs
  /\ \A n \in 1..Len(q.todo) :
       q.todo[n].do = "tell" =>
         \/ Settled(q.s, docs, ids) /\ ~Has(q.todo, "createSchedule")
         \/ Before(q.todo, n, "logSchedule")
  /\ \A n \in 1..Len(q.todo) :
       q.todo[n].do \in {"tell", "logSchedule"} =>
         (q.s \in DOMAIN docs \/ Before(q.todo, n, "createSchedule"))
  /\ \A n \in 1..Len(q.todo) : q.todo[n].do = "createSchedule" => ~Before(q.todo, n, "logSchedule")

SchedulesInv ==
  /\ \A r \in Requests : request[r] # Idle => ScheduleJob(request[r], schedule, logged)
  /\ \A p \in cms : Settled(p.schedule, schedule, logged)

-----------------------------------------------------------------------------
(* Lists of stages.                                                        *)

LEMMA TailOK ==
  ASSUME NEW s, TodoOK(s), s # <<>>
  PROVE  TodoOK(Tail(s))
<1>1. IsList(s)
  BY DEF TodoOK
<1>2. /\ Len(s) \in Nat /\ Len(s) >= 1 /\ IsList(Tail(s)) /\ Len(Tail(s)) = Len(s) - 1
      /\ \A n \in 1..(Len(s) - 1) : Tail(s)[n] = s[n + 1]
  BY <1>1, ListTail, ListFacts
<1>3. \A F : Words(s, F) => Words(Tail(s), F)
  BY <1>2 DEF Words
<1>4. \A n \in 1..Len(Tail(s)) : Typed(Tail(s)[n])
  BY <1>2 DEF TodoOK
<1>5. Paired(Tail(s))
  BY <1>2 DEF TodoOK, Paired
<1>6. QED
  BY <1>2, <1>3, <1>4, <1>5 DEF TodoOK

LEMMA AheadOK ==
  ASSUME NEW s, TodoOK(s), s # <<>>, s[1].do # "createItem",
         NEW a, NEW G, Part(a, G), \A F \in {Adding, Deleting, Creating, Saving} : Words(s, F) => Words(a, F)
  PROVE  TodoOK(a \o Tail(s)) /\ (a \o Tail(s) # <<>> => ~Lists((a \o Tail(s))[1]))
<1> DEFINE z == a \o Tail(s)
<1>1. IsList(s) /\ IsList(a) /\ Len(a) \in Nat
  BY ListFacts DEF TodoOK, Part
<1>2. /\ Len(s) \in Nat /\ Len(s) >= 1 /\ IsList(Tail(s)) /\ Len(Tail(s)) = Len(s) - 1
      /\ \A n \in 1..(Len(s) - 1) : Tail(s)[n] = s[n + 1]
  BY <1>1, ListTail, ListFacts
<1>3. /\ IsList(z) /\ Len(z) = Len(a) + Len(s) - 1
      /\ \A n \in 1..Len(a) : z[n] = a[n]
      /\ \A n \in 1..Len(z) : n > Len(a) => z[n] = s[n - Len(a) + 1] /\ n - Len(a) + 1 \in 2..Len(s)
  <2>1. /\ IsList(z) /\ Len(z) = Len(a) + Len(Tail(s))
        /\ \A n \in 1..Len(a) : z[n] = a[n]
        /\ \A n \in 1..(Len(a) + Len(Tail(s))) : n > Len(a) => z[n] = Tail(s)[n - Len(a)] /\ n - Len(a) \in 1..Len(Tail(s))
    BY <1>1, <1>2, ListConcat
  <2> HIDE DEF z
  <2>2. QED
    BY <1>1, <1>2, <2>1
<1> HIDE DEF z
<1>4. ASSUME NEW F, Words(s, F), Words(a, F) PROVE Words(z, F)
  <2> SUFFICES ASSUME NEW n \in 1..Len(z) PROVE z[n].do \in F
    BY DEF Words
  <2>1. CASE n <= Len(a)
    BY <1>1, <1>3, <1>4, <2>1 DEF Words
  <2>2. CASE n > Len(a)
    <3>1. z[n] = s[n - Len(a) + 1] /\ n - Len(a) + 1 \in 1..Len(s)
      BY <1>1, <1>2, <1>3, <2>2
    <3>2. QED
      BY <3>1, <1>4 DEF Words
  <2>3. QED
    BY <1>1, <1>3, <2>1, <2>2
<1>5. \A n \in 1..Len(z) : Typed(z[n])
  BY <1>1, <1>2, <1>3 DEF TodoOK, Part
<1>6. Paired(z)
  <2> SUFFICES ASSUME NEW n \in 2..Len(z), Lists(z[n]) PROVE z[n - 1].do = "createItem"
    BY DEF Paired
  <2>0. CASE n <= Len(a)
    <3>1. n \in 1..Len(a) /\ n - 1 \in 1..Len(a) /\ z[n] = a[n] /\ z[n - 1] = a[n - 1]
      BY <1>1, <1>3, <2>0
    <3>2. QED
      BY <3>1 DEF Part
  <2> SUFFICES ASSUME n > Len(a) PROVE z[n - 1].do = "createItem"
    BY <1>1, <1>3, <2>0
  <2>1. n > Len(a) /\ z[n] = s[n - Len(a) + 1] /\ n - Len(a) + 1 \in 2..Len(s)
    BY <1>1, <1>2, <1>3
  <2>2. s[n - Len(a)].do = "createItem"
    <3>1. s[(n - Len(a) + 1) - 1].do = "createItem"
      BY <2>1 DEF TodoOK, Paired
    <3>2. QED
      BY <3>1, <2>1, <1>1
  <2>3. n - Len(a) # 1
    BY <2>2
  <2>4. n - 1 > Len(a) /\ z[n - 1] = s[n - Len(a)]
    BY <1>1, <1>2, <1>3, <2>1, <2>3
  <2>5. QED
    BY <2>2, <2>4
<1>7. ASSUME z # <<>> PROVE ~Lists(z[1])
  <2>1. 1 \in 1..Len(z)
    BY <1>3, <1>7, ListTail, ListFacts
  <2>2. CASE Len(a) >= 1
    <3>1. 1 \in 1..Len(a) /\ z[1] = a[1]
      BY <1>1, <1>3, <2>2
    <3>2. QED
      BY <3>1 DEF Part
  <2>3. CASE Len(a) = 0
    <3>1. z[1] = s[2] /\ 2 \in 2..Len(s)
      BY <1>1, <1>3, <2>1, <2>3
    <3>2. Lists(s[2]) => s[2 - 1].do = "createItem"
      BY <3>1 DEF TodoOK, Paired
    <3>3. QED
      BY <3>1, <3>2
  <2>4. QED
    BY <1>1, <2>2, <2>3
<1>8. QED
  BY <1>3, <1>4, <1>5, <1>6, <1>7 DEF TodoOK, z

-----------------------------------------------------------------------------
(* Moving on.                                                              *)

Others(r) == \A x \in Requests \ {r} : request'[x] = request[x]

Same(q, p) == q.t = p.t /\ q.s = p.s /\ q.c = p.c /\ q.made = p.made /\ q.found = p.found

LEMMA WorkingJob ==
  ASSUME RequestsOK, NEW r \in Requests, request[r].todo # <<>>
  PROVE  JobOK(request[r])
BY DEF RequestsOK, Idle

LEMMA NowFields ==
  ASSUME RequestsOK, NEW r \in Requests, NEW q, q = Idle \/ JobOK(q), request' = [request EXCEPT ![r] = q]
  PROVE  RequestsOK' /\ Others(r) /\ request'[r] = q
BY DEF RequestsOK, Others

LEMMA GotoFields ==
  ASSUME RequestsOK, NEW r \in Requests, request[r].todo # <<>>, NEW todo, TodoOK(todo), Goto(r, todo)
  PROVE  /\ RequestsOK' /\ Others(r)
         /\ \/ request'[r] = Idle
            \/ JobOK(request'[r]) /\ request'[r].todo = todo /\ Same(request'[r], request[r])
<1> DEFINE q == IF todo = <<>> THEN Idle ELSE [request[r] EXCEPT !.todo = todo]
<1>1. request' = [request EXCEPT ![r] = q]
  BY DEF Goto
<1>2. JobOK(request[r])
  BY WorkingJob
<1>3. CASE todo # <<>>
  <2>1. q = [f \in Fields |-> IF f = "todo" THEN todo ELSE request[r][f]]
    BY <1>2, <1>3 DEF JobOK, Fields
  <2>2. JobOK(q) /\ q.todo = todo /\ Same(q, request[r])
    BY <1>2, <2>1 DEF JobOK, Fields, Same
  <2> HIDE DEF q
  <2>3. QED
    BY <1>1, <2>2, NowFields
<1>4. CASE todo = <<>>
  BY <1>1, <1>4, NowFields
<1>5. QED
  BY <1>3, <1>4

LEMMA ContinueFields ==
  ASSUME RequestsOK, NEW r \in Requests, request[r].todo # <<>>, Continue(r)
  PROVE  /\ RequestsOK' /\ Others(r)
         /\ \/ request'[r] = Idle
            \/ /\ JobOK(request'[r]) /\ request'[r].todo = Tail(request[r].todo)
               /\ Same(request'[r], request[r])
<1>1. TodoOK(Tail(request[r].todo))
  BY WorkingJob, TailOK DEF JobOK
<1>2. QED
  BY <1>1, GotoFields DEF Continue, Rest

LEMMA BrokenFields ==
  ASSUME RequestsOK, NEW r \in Requests, Broken(r)
  PROVE  RequestsOK' /\ Others(r) /\ request'[r] = Idle
BY NowFields DEF Broken

\* A handler moves on with one field changed.
Changed(q, todo, f, v) == [g \in Fields |-> IF g = "todo" THEN todo ELSE IF g = f THEN v ELSE q[g]]

LEMMA ChangedOK ==
  ASSUME NEW q, JobOK(q), NEW todo, TodoOK(todo), NEW f \in Fields \ {"todo"}, NEW v,
         f \in {"t", "c"} => v \in Nat, f = "made" => v \subseteq Nat, f = "found" => v \in BOOLEAN
  PROVE  JobOK(Changed(q, todo, f, v))
BY DEF JobOK, Changed, Fields

LEMMA ChangedFields ==
  ASSUME RequestsOK, NEW r \in Requests, request[r].todo # <<>>, NEW f \in Fields \ {"todo"}, NEW v,
         f \in {"t", "c"} => v \in Nat, f = "made" => v \subseteq Nat, f = "found" => v \in BOOLEAN,
         request' = [request EXCEPT ![r] = Changed(request[r], Tail(request[r].todo), f, v)]
  PROVE  /\ RequestsOK' /\ Others(r)
         /\ JobOK(request'[r])
         /\ request'[r] = Changed(request[r], Tail(request[r].todo), f, v)
<1> DEFINE q == Changed(request[r], Tail(request[r].todo), f, v)
<1>1. JobOK(q)
  BY WorkingJob, TailOK, ChangedOK DEF JobOK
<1>2. QED
  BY <1>1, NowFields

LEMMA CreateTemplateMoves ==
  ASSUME RequestsOK, DocsOK, NEW r \in Requests, CreateTemplate(r)
  PROVE  /\ RequestsOK' /\ Others(r) /\ JobOK(request'[r])
         /\ request'[r] = Changed(request[r], Tail(request[r].todo), "t", Len(template) + 1)
<1>1. request[r].todo # <<>>
  BY DEF CreateTemplate, At
<1>2. JobOK(request[r])
  BY <1>1, WorkingJob
<1>3. Len(template) + 1 \in Nat
  BY DEF DocsOK
<1>4. request' = [request EXCEPT ![r] = Changed(request[r], Tail(request[r].todo), "t", Len(template) + 1)]
  BY <1>2 DEF CreateTemplate, RequestsOK, Changed, Rest, JobOK, Fields
<1>5. QED
  BY <1>1, <1>3, <1>4, ChangedFields DEF Fields

LEMMA CreateItemMoves ==
  ASSUME RequestsOK, DocsOK, NEW r \in Requests, CreateItem(r)
  PROVE  /\ RequestsOK' /\ Others(r) /\ JobOK(request'[r])
         /\ request'[r] = Changed(request[r], Tail(request[r].todo), "made", {Len(item) + 1})
<1>1. request[r].todo # <<>>
  BY DEF CreateItem, At
<1>2. JobOK(request[r])
  BY <1>1, WorkingJob
<1> DEFINE v == {Len(item) + 1}
<1>3. v \subseteq Nat
  BY DEF DocsOK
<1> HIDE DEF v
<1>4. request' = [request EXCEPT ![r] = Changed(request[r], Tail(request[r].todo), "made", v)]
  BY <1>2 DEF CreateItem, RequestsOK, Changed, Rest, JobOK, Fields, v
<1>5. "made" \in Fields \ {"todo"}
  BY DEF Fields
<1>6. /\ RequestsOK' /\ Others(r) /\ JobOK(request'[r])
      /\ request'[r] = Changed(request[r], Tail(request[r].todo), "made", v)
  BY <1>1, <1>3, <1>4, <1>5, ChangedFields
<1>7. QED
  BY <1>6 DEF v

LEMMA FindNewestMoves ==
  ASSUME RequestsOK, NEW r \in Requests, FindNewest(r)
  PROVE  /\ RequestsOK' /\ Others(r)
         /\ \/ request'[r] = Idle
            \/ /\ JobOK(request'[r])
               /\ \E s : request'[r] = Changed(request[r], Tail(request[r].todo), "s", s)
<1>1. request[r].todo # <<>>
  BY DEF FindNewest, At
<1>2. JobOK(request[r])
  BY <1>1, WorkingJob
<1>3. CASE Broken(r)
  BY <1>3, BrokenFields
<1>4. CASE ~Broken(r)
  <2>1. request' = [request EXCEPT ![r] = Changed(request[r], Tail(request[r].todo), "s", Newest(request[r].t))]
    BY <1>2, <1>4 DEF FindNewest, RequestsOK, Changed, Rest, JobOK, Fields
  <2>2. QED
    BY <1>1, <2>1, ChangedFields DEF Fields
<1>5. QED
  BY <1>3, <1>4

LEMMA CreateScheduleMoves ==
  ASSUME RequestsOK, NEW r \in Requests, CreateSchedule(r)
  PROVE  /\ RequestsOK' /\ Others(r) /\ JobOK(request'[r])
         /\ request'[r] = Changed(request[r], Tail(request[r].todo), "s", Len(schedule) + 1)
<1>1. request[r].todo # <<>>
  BY DEF CreateSchedule, At
<1>2. JobOK(request[r])
  BY <1>1, WorkingJob
<1>4. request' = [request EXCEPT ![r] = Changed(request[r], Tail(request[r].todo), "s", Len(schedule) + 1)]
  BY <1>2 DEF CreateSchedule, RequestsOK, Changed, Rest, JobOK, Fields
<1>5. QED
  BY <1>1, <1>4, ChangedFields DEF Fields

LEMMA FindScheduleMoves ==
  ASSUME RequestsOK, NEW r \in Requests, FindSchedule(r)
  PROVE  /\ RequestsOK' /\ Others(r) /\ JobOK(request'[r])
         /\ request'[r] = Changed(request[r], Tail(request[r].todo), "found", Exists(schedule, request[r].s))
<1>1. request[r].todo # <<>>
  BY DEF FindSchedule, At
<1>2. JobOK(request[r])
  BY <1>1, WorkingJob
<1>3. Exists(schedule, request[r].s) \in BOOLEAN
  BY DEF Exists
<1>4. request' = [request EXCEPT ![r] = Changed(request[r], Tail(request[r].todo), "found", Exists(schedule, request[r].s))]
  BY <1>2 DEF FindSchedule, RequestsOK, Changed, Rest, JobOK, Fields
<1>5. QED
  BY <1>1, <1>3, <1>4, ChangedFields DEF Fields

LEMMA ReadShownMoves ==
  ASSUME RequestsOK, NEW r \in Requests, ReadShown(r)
  PROVE  /\ RequestsOK' /\ Others(r)
         /\ \/ request'[r] = Idle
            \/ /\ JobOK(request'[r])
               /\ \E got : request'[r] = Changed(request[r], Tail(request[r].todo), "got", got)
<1>1. request[r].todo # <<>>
  BY DEF ReadShown, At
<1>2. JobOK(request[r])
  BY <1>1, WorkingJob
<1>3. CASE Broken(r)
  BY <1>3, BrokenFields
<1>4. CASE ~Broken(r)
  <2>1. PICK got : request' = [request EXCEPT ![r].todo = Rest(r), ![r].got = got]
    BY <1>4 DEF ReadShown
  <2>2. request' = [request EXCEPT ![r] = Changed(request[r], Tail(request[r].todo), "got", got)]
    BY <1>2, <2>1 DEF RequestsOK, Changed, Rest, JobOK, Fields
  <2>3. QED
    BY <1>1, <2>2, ChangedFields DEF Fields
<1>5. QED
  BY <1>3, <1>4

LEMMA CreateContentMoves ==
  ASSUME RequestsOK, DocsOK, NEW r \in Requests, CreateContent(r)
  PROVE  /\ RequestsOK' /\ Others(r)
         /\ \/ request'[r] = Idle
            \/ /\ JobOK(request'[r])
               /\ request'[r] = Changed(request[r], Tail(request[r].todo), "c", Len(content) + 1)
<1>1. request[r].todo # <<>>
  BY DEF CreateContent, At
<1>2. JobOK(request[r])
  BY <1>1, WorkingJob
<1>3. Len(content) + 1 \in Nat
  BY DEF DocsOK
<1>4. CASE Rest(r) = <<>>
  BY <1>4, NowFields DEF CreateContent
<1>5. CASE Rest(r) # <<>>
  <2>1. request' = [request EXCEPT ![r] = Changed(request[r], Tail(request[r].todo), "c", Len(content) + 1)]
    BY <1>2, <1>5 DEF CreateContent, RequestsOK, Changed, Rest, JobOK, Fields
  <2>2. QED
    BY <1>1, <1>3, <2>1, ChangedFields DEF Fields
<1>6. QED
  BY <1>4, <1>5

\* List p is what follows the first stage of s, with k stages named in F before it.
Ahead(p, s, k, F) ==
  /\ Len(p) = k + Len(s) - 1
  /\ \A n \in 1..k : p[n].do \in F
  /\ \A n \in 1..Len(p) : n > k => p[n] = s[n - k + 1] /\ n - k + 1 \in 2..Len(s)

Kept == {"t", "s", "c", "made", "found"}

\* The handler of r ends, or goes on with stages named in F inserted, and changes field f at most.
Moved(r, F, f) ==
  \/ request'[r] = Idle
  \/ /\ JobOK(request'[r])
     /\ \A g \in Kept \ {f} : request'[r][g] = request[r][g]
     /\ \E k \in Nat : Ahead(request'[r].todo, request[r].todo, k, F)

LEMMA TailAhead ==
  ASSUME NEW s, IsList(s), s # <<>>, NEW F
  PROVE  Ahead(Tail(s), s, 0, F)
BY ListTail, ListFacts DEF Ahead

LEMMA InsertAhead ==
  ASSUME NEW s, IsList(s), s # <<>>, NEW a, IsList(a), NEW F, Words(a, F)
  PROVE  Len(a) \in Nat /\ Ahead(a \o Tail(s), s, Len(a), F)
<1> DEFINE z == a \o Tail(s)
<1>1. Len(a) \in Nat
  BY ListFacts
<1>2. /\ Len(s) \in Nat /\ Len(s) >= 1 /\ IsList(Tail(s)) /\ Len(Tail(s)) = Len(s) - 1
      /\ \A n \in 1..(Len(s) - 1) : Tail(s)[n] = s[n + 1]
  BY ListTail, ListFacts
<1>3. /\ IsList(z) /\ Len(z) = Len(a) + Len(Tail(s))
      /\ \A n \in 1..Len(a) : z[n] = a[n]
      /\ \A n \in 1..(Len(a) + Len(Tail(s))) : n > Len(a) => z[n] = Tail(s)[n - Len(a)] /\ n - Len(a) \in 1..Len(Tail(s))
  BY <1>2, ListConcat
<1> HIDE DEF z
<1>4. QED
  <2>1. Len(z) = Len(a) + Len(s) - 1
    BY <1>1, <1>2, <1>3
  <2>2. \A n \in 1..Len(a) : z[n].do \in F
    BY <1>3 DEF Words
  <2>3. \A n \in 1..Len(z) : n > Len(a) => z[n] = s[n - Len(a) + 1] /\ n - Len(a) + 1 \in 2..Len(s)
    BY <1>1, <1>2, <1>3
  <2>4. Ahead(z, s, Len(a), F)
    BY <2>1, <2>2, <2>3 DEF Ahead
  <2>5. QED
    BY <1>1, <2>4 DEF z

LEMMA WorkingList ==
  ASSUME RequestsOK, NEW r \in Requests, request[r].todo # <<>>
  PROVE  /\ JobOK(request[r]) /\ TodoOK(request[r].todo) /\ IsList(request[r].todo)
         /\ Len(request[r].todo) \in Nat /\ Len(request[r].todo) >= 1
         /\ Head(request[r].todo) = request[r].todo[1]
         /\ Typed(request[r].todo[1]) /\ request[r] # Idle
<1>1. JobOK(request[r]) /\ IsList(request[r].todo) /\ request[r] # Idle
  BY WorkingJob DEF JobOK, TodoOK, Idle
<1>2. Len(request[r].todo) \in Nat /\ Len(request[r].todo) >= 1 /\ Head(request[r].todo) = request[r].todo[1]
  BY <1>1, ListTail, ListFacts
<1>3. TodoOK(request[r].todo)
  BY <1>1 DEF JobOK
<1>4. 1 \in 1..Len(request[r].todo)
  BY <1>2
<1>5. Typed(request[r].todo[1])
  BY <1>3, <1>4 DEF TodoOK
<1>6. QED
  BY <1>1, <1>2, <1>3, <1>5

LEMMA ContinueMoved ==
  ASSUME RequestsOK, NEW r \in Requests, request[r].todo # <<>>, Continue(r) \/ Broken(r)
  PROVE  RequestsOK' /\ Others(r) /\ Moved(r, {}, "todo")
<1>1. CASE Broken(r)
  BY <1>1, BrokenFields DEF Moved
<1>2. CASE Continue(r)
  <2>1. Ahead(Tail(request[r].todo), request[r].todo, 0, {})
    BY WorkingList, TailAhead
  <2>2. /\ RequestsOK' /\ Others(r)
        /\ \/ request'[r] = Idle
           \/ JobOK(request'[r]) /\ request'[r].todo = Tail(request[r].todo) /\ Same(request'[r], request[r])
    BY <1>2, ContinueFields
  <2>3. ASSUME Same(request'[r], request[r]) PROVE \A g \in Kept : request'[r][g] = request[r][g]
    BY <2>3 DEF Same, Kept
  <2>4. QED
    BY <2>1, <2>2, <2>3 DEF Moved
<1>3. QED
  BY <1>1, <1>2

-----------------------------------------------------------------------------
(* Which handlers move on in which way.                                    *)

LEMMA ChangedMoved ==
  ASSUME RequestsOK, NEW r \in Requests, request[r].todo # <<>>, NEW f \in Fields, NEW v,
         f # "todo", JobOK(request'[r]), request'[r] = Changed(request[r], Tail(request[r].todo), f, v)
  PROVE  Moved(r, {}, f)
<1>1. Ahead(Tail(request[r].todo), request[r].todo, 0, {})
  BY WorkingList, TailAhead
<1>2. request'[r].todo = Tail(request[r].todo)
  BY DEF Changed, Fields
<1>3. \A g \in Kept \ {f} : request'[r][g] = request[r][g]
  BY DEF Changed, Fields, Kept
<1>4. QED
  BY <1>1, <1>2, <1>3 DEF Moved

\* Handlers that read a stage and go on, or end.
Plain(r) ==
  \/ LogTemplate(r) \/ AddDetail(r) \/ SetTemplate(r) \/ SetContent(r) \/ SetDetail(r)
  \/ FindTemplate(r) \/ DeleteItems(r) \/ DeleteDetail(r) \/ DeleteContent(r) \/ DropTemplate(r)
  \/ DropSchedule(r) \/ SetSchedule(r) \/ LogSchedule(r) \/ ReadTemplate(r) \/ Render(r) \/ Tell(r)

LEMMA PlainMoved ==
  ASSUME RequestsOK, NEW r \in Requests, Plain(r)
  PROVE  RequestsOK' /\ Others(r) /\ Moved(r, {}, "todo")
<1>1. request[r].todo # <<>> /\ (Continue(r) \/ Broken(r))
  BY DEF Plain, LogTemplate, AddDetail, SetTemplate, SetContent, SetDetail, FindTemplate, DeleteItems,
         DeleteDetail, DeleteContent, DropTemplate, DropSchedule, SetSchedule, LogSchedule, ReadTemplate,
         Render, Tell, At
<1>2. QED
  BY <1>1, ContinueMoved

-----------------------------------------------------------------------------
(* Collections.                                                            *)

LEMMA Smallest ==
  ASSUME NEW S \in SUBSET Nat, S # {}
  PROVE  \E n \in S : \A m \in S : n <= m
<1> DEFINE R == {p \in Nat \X Nat : p[1] < p[2]}
<1>1. IsWellFoundedOn(R, Nat)
  BY NatLessThanWellFounded DEF OpToRel
<1>2. \A m, n \in Nat : m < n => <<m, n>> \in R
  OBVIOUS
<1> HIDE DEF R
<1>3. PICK n \in S : \A m \in S : <<m, n>> \notin R
  BY <1>1, WFMin
<1>4. \A m \in S : ~(m < n)
  BY <1>2, <1>3
<1>5. QED
  BY <1>4

\* The members of a finite set by rank, smallest first.
ByRank(S) == [k \in 1..Cardinality(S) |-> CHOOSE c \in S : Cardinality({b \in S : b < c}) = k - 1]

LEMMA RankFacts ==
  ASSUME NEW S \in SUBSET Nat, IsFiniteSet(S)
  PROVE  /\ IsList(ByRank(S)) /\ Len(ByRank(S)) \in Nat
         /\ \A k \in 1..Len(ByRank(S)) : ByRank(S)[k] \in S
         /\ \A c \in S : \E k \in 1..Len(ByRank(S)) : ByRank(S)[k] = c
<1> DEFINE n == Cardinality(S)
           Below(c) == {b \in S : b < c}
           rank == [c \in S |-> Cardinality(Below(c))]
           At1(k) == CHOOSE c \in S : Cardinality(Below(c)) = k - 1
<1>1. n \in Nat
  BY FS_CardinalityType
<1>2. ASSUME NEW c \in S PROVE IsFiniteSet(Below(c)) /\ rank[c] = Cardinality(Below(c)) /\ rank[c] \in 0..(n - 1)
  <2>1. Below(c) \in SUBSET S /\ c \notin Below(c)
    OBVIOUS
  <2>2. /\ IsFiniteSet(Below(c)) /\ Cardinality(Below(c)) <= n
        /\ n = Cardinality(Below(c)) => S = Below(c)
    BY <2>1, FS_Subset
  <2>3. Cardinality(Below(c)) \in Nat
    BY <2>2, FS_CardinalityType
  <2> HIDE DEF Below, n
  <2>4. QED
    BY <1>1, <2>1, <2>2, <2>3
<1>3. ASSUME NEW c \in S, NEW d \in S, c < d PROVE rank[c] # rank[d]
  <2>1. Below(c) \in SUBSET Below(d) /\ c \in Below(d) /\ c \notin Below(c)
    <3>1. \A b \in S : b \in Nat
      OBVIOUS
    <3>2. \A b \in S : b < c => b < d
      BY <1>3, <3>1
    <3>3. ~(c < c)
      BY <3>1
    <3>4. QED
      BY <1>3, <3>2, <3>3
  <2>2. Cardinality(Below(d)) = Cardinality(Below(c)) => Below(d) = Below(c)
    BY <1>2, <2>1, FS_Subset
  <2> HIDE DEF Below
  <2>3. QED
    BY <2>1, <2>2
<1>4. rank \in Injection(S, 0..(n - 1))
  <2>1. rank \in [S -> 0..(n - 1)]
    BY <1>2
  <2> HIDE DEF rank
  <2>2. \A c, d \in S : rank[c] = rank[d] => c = d
    BY <1>3
  <2>3. QED
    BY <2>1, <2>2 DEF Injection, IsInjective
<1>5. IsFiniteSet(0..(n - 1)) /\ Cardinality(0..(n - 1)) = n
  <2> HIDE DEF n
  <2>1. 0 \in Int /\ n - 1 \in Int
    BY <1>1
  <2>2. Cardinality(0..(n - 1)) = IF 0 > n - 1 THEN 0 ELSE (n - 1) - 0 + 1
    BY <2>1, FS_Interval
  <2>3. QED
    BY <1>1, <2>1, <2>2, FS_Interval
<1>6. rank \in Surjection(S, 0..(n - 1))
  <2> HIDE DEF rank
  <2>1. QED
    BY <1>4, <1>5, FS_Injection
<1>7. ASSUME NEW k \in 1..n PROVE At1(k) \in S /\ Cardinality(Below(At1(k))) = k - 1
  <2>1. k - 1 \in 0..(n - 1)
    BY <1>1
  <2>2. \E c \in S : rank[c] = k - 1
    <3> HIDE DEF rank
    <3>1. QED
      BY <1>6, <2>1 DEF Surjection
  <2>3. \E c \in S : Cardinality(Below(c)) = k - 1
    BY <2>2
  <2> HIDE DEF Below
  <2>4. QED
    BY <2>3
<1>8. ByRank(S) = [k \in 1..n |-> At1(k)]
  BY DEF ByRank
<1> HIDE DEF At1, Below
<1>9. IsList(ByRank(S)) /\ Len(ByRank(S)) = n
  BY <1>1, <1>8, FunctionList
<1>10. \A k \in 1..n : ByRank(S)[k] \in S
  BY <1>7, <1>8
<1>11. ASSUME NEW c \in S PROVE \E k \in 1..n : ByRank(S)[k] = c
  <2> DEFINE k == rank[c] + 1
  <2>1. k \in 1..n /\ k - 1 = rank[c]
    BY <1>1, <1>2
  <2>2. At1(k) \in S /\ rank[At1(k)] = rank[c]
    <3> HIDE DEF k
    <3>1. At1(k) \in S /\ Cardinality(Below(At1(k))) = k - 1
      BY <1>7, <2>1
    <3>2. QED
      BY <2>1, <3>1
  <2> HIDE DEF rank
  <2>3. At1(k) = c
    BY <1>4, <2>2 DEF Injection, IsInjective
  <2> HIDE DEF k
  <2>4. QED
    BY <1>8, <2>1, <2>3
<1>12. QED
  BY <1>1, <1>9, <1>10, <1>11

LEMMA AppendFacts ==
  ASSUME NEW S, NEW s \in Seq(S), NEW v \in S
  PROVE  /\ Append(s, v) \in Seq(S) /\ Len(s) \in Nat /\ Len(Append(s, v)) = Len(s) + 1
         /\ DOMAIN s = 1..Len(s) /\ DOMAIN Append(s, v) = 1..(Len(s) + 1)
         /\ \A i \in 1..Len(s) : Append(s, v)[i] = s[i]
         /\ Append(s, v)[Len(s) + 1] = v
BY AppendProperties, LenProperties

LEMMA ReplaceFacts ==
  ASSUME NEW S, NEW s \in Seq(S), NEW z, DOMAIN z = DOMAIN s, z = [i \in DOMAIN s |-> z[i]],
         \A i \in DOMAIN s : z[i] \in S
  PROVE  z \in Seq(S) /\ Len(z) = Len(s)
<1>1. Len(s) \in Nat /\ DOMAIN s = 1..Len(s)
  BY LenProperties
<1>2. z \in [1..Len(s) -> S]
  BY <1>1
<1>3. QED
  BY <1>1, <1>2, SeqDef

-----------------------------------------------------------------------------
(* What each handler does to the collections keeps them typed.             *)

LEMMA TypedStage ==
  ASSUME RequestsOK, NEW r \in Requests, NEW name, At(r, name)
  PROVE  /\ request[r].todo # <<>> /\ Args(r) = request[r].todo[1] /\ Args(r).do = name
         /\ Typed(Args(r)) /\ JobOK(request[r])
BY WorkingList DEF At, Args

LEMMA CreateTemplateDocs ==
  ASSUME TypeInv, NEW r \in Requests, CreateTemplate(r)
  PROVE  DocsOK'
<1>1. Args(r).type \in Types
  BY TypedStage DEF TypeInv, CreateTemplate, Typed
<1>2. [type |-> Args(r).type] \in TemplateDocs \cup {Gone}
  BY <1>1 DEF TemplateDocs
<1>3. template' \in Seq(TemplateDocs \cup {Gone})
  BY <1>2, AppendFacts DEF TypeInv, DocsOK, CreateTemplate
<1>4. QED
  BY <1>3 DEF TypeInv, DocsOK, CreateTemplate

LEMMA CreateContentDocs ==
  ASSUME TypeInv, NEW r \in Requests, CreateContent(r)
  PROVE  DocsOK'
<1>1. Args(r).rect \in Rects /\ request[r].t \in Nat
  BY TypedStage DEF TypeInv, CreateContent, Typed, JobOK
<1>2. [template |-> request[r].t, rect |-> Args(r).rect] \in ContentDocs \cup {Gone}
  BY <1>1 DEF ContentDocs
<1>3. content' \in Seq(ContentDocs \cup {Gone})
  BY <1>2, AppendFacts DEF TypeInv, DocsOK, CreateContent
<1>4. QED
  BY <1>3 DEF TypeInv, DocsOK, CreateContent, Quiet

LEMMA CreateItemDocs ==
  ASSUME TypeInv, NEW r \in Requests, CreateItem(r)
  PROVE  DocsOK'
<1>1. Args(r).kind \in Kinds
  BY TypedStage DEF TypeInv, CreateItem, Typed
<1>2. PICK m \in IF Args(r).kind = "media" THEN Images ELSE {None} :
        item' = Append(item, [kind |-> Args(r).kind, image |-> m])
  BY DEF CreateItem
<1>3. [kind |-> Args(r).kind, image |-> m] \in ItemDocs \cup {Gone}
  BY <1>1 DEF ItemDocs
<1>4. item' \in Seq(ItemDocs \cup {Gone})
  BY <1>2, <1>3, AppendFacts DEF TypeInv, DocsOK
<1>5. QED
  BY <1>4 DEF TypeInv, DocsOK, CreateItem, Quiet

LEMMA AddDetailDocs ==
  ASSUME TypeInv, NEW r \in Requests, AddDetail(r)
  PROVE  DocsOK'
<1>1. request[r].c \in Nat /\ request[r].made \subseteq Nat
  BY TypedStage DEF TypeInv, AddDetail, JobOK
<1> DEFINE d == [content |-> request[r].c,
                 items |-> [k \in Kinds |-> IF k = Args(r).kind THEN request[r].made ELSE {}]]
<1>2. d \in DetailDocs \cup {Gone}
  BY <1>1 DEF DetailDocs
<1>3. detail' = Append(detail, d)
  BY DEF AddDetail
<1> HIDE DEF d
<1>4. detail' \in Seq(DetailDocs \cup {Gone})
  BY <1>2, <1>3, AppendFacts DEF TypeInv, DocsOK
<1>5. QED
  BY <1>4 DEF TypeInv, DocsOK, AddDetail, Quiet

LEMMA SetTemplateDocs ==
  ASSUME TypeInv, NEW r \in Requests, SetTemplate(r)
  PROVE  DocsOK'
<1>1. Args(r).type \in Types
  BY TypedStage DEF TypeInv, SetTemplate, Typed
<1>2. template' \in Seq(TemplateDocs \cup {Gone})
  <2>1. CASE ~Exists(template, request[r].t)
    BY <2>1 DEF SetTemplate, TypeInv, DocsOK
  <2>2. CASE Exists(template, request[r].t)
    <3> DEFINE t == request[r].t
    <3>1. t \in DOMAIN template /\ template[t] \in TemplateDocs
      BY <2>2 DEF Exists, Stored, TypeInv, DocsOK
    <3>2. template' = [template EXCEPT ![t].type = Args(r).type]
      BY <2>2 DEF SetTemplate
    <3>3. [template[t] EXCEPT !.type = Args(r).type] \in TemplateDocs
      BY <1>1, <3>1 DEF TemplateDocs
    <3> HIDE DEF t
    <3>4. QED
      BY <3>1, <3>2, <3>3 DEF TypeInv, DocsOK
  <2>3. QED
    BY <2>1, <2>2
<1>3. QED
  BY <1>2 DEF TypeInv, DocsOK, SetTemplate, Quiet

LEMMA SetContentDocs ==
  ASSUME TypeInv, NEW r \in Requests, SetContent(r)
  PROVE  DocsOK'
<1>1. Args(r).rect \in Rects
  BY TypedStage DEF TypeInv, SetContent, Typed
<1>2. content' \in Seq(ContentDocs \cup {Gone})
  <2>1. CASE ~Exists(content, Args(r).content)
    BY <2>1 DEF SetContent, TypeInv, DocsOK
  <2>2. CASE Exists(content, Args(r).content)
    <3> DEFINE t == Args(r).content
    <3>1. t \in DOMAIN content /\ content[t] \in ContentDocs
      BY <2>2 DEF Exists, Stored, TypeInv, DocsOK
    <3>2. content' = [content EXCEPT ![t].rect = Args(r).rect]
      BY <2>2 DEF SetContent
    <3>3. [content[t] EXCEPT !.rect = Args(r).rect] \in ContentDocs
      BY <1>1, <3>1 DEF ContentDocs
    <3> HIDE DEF t
    <3>4. QED
      BY <3>1, <3>2, <3>3 DEF TypeInv, DocsOK
  <2>3. QED
    BY <2>1, <2>2
<1>3. QED
  BY <1>2 DEF TypeInv, DocsOK, SetContent, Quiet

LEMMA FirstDetailFacts ==
  ASSUME DocsOK, NEW c, DetailsOf(c) # {}
  PROVE  /\ FirstDetail(c) \in Stored(detail) /\ detail[FirstDetail(c)].content = c
         /\ FirstDetail(c) \in DOMAIN detail /\ detail[FirstDetail(c)] \in DetailDocs
<1>1. DetailsOf(c) \in SUBSET Nat
  <2>1. DOMAIN detail = 1..Len(detail)
    BY LenProperties DEF DocsOK
  <2>2. QED
    BY <2>1 DEF DetailsOf, Stored
<1>2. PICK n \in DetailsOf(c) : \A m \in DetailsOf(c) : n <= m
  BY <1>1, Smallest
<1>3. FirstDetail(c) \in DetailsOf(c)
  BY <1>2 DEF FirstDetail, Min
<1>4. QED
  BY <1>3 DEF DetailsOf, Stored, DocsOK

\* What a handler lists in place of the items of one kind.
NewItems(r) == IF Args(r).new THEN request[r].made ELSE {}

LEMMA SetDetailFacts ==
  ASSUME TypeInv, NEW r \in Requests, SetDetail(r), DetailsOf(Args(r).content) # {}
  PROVE  LET d == FirstDetail(Args(r).content)
         IN  /\ detail' = [detail EXCEPT ![d] = [content |-> detail[d].content,
                               items |-> [k \in Kinds |-> IF k = Args(r).kind THEN NewItems(r) ELSE detail[d].items[k]]]]
             /\ detail'[d] \in DetailDocs
             /\ detail' \in Seq(DetailDocs \cup {Gone})
<1> DEFINE d == FirstDetail(Args(r).content)
           new == NewItems(r)
           z == [content |-> detail[d].content,
                 items |-> [k \in Kinds |-> IF k = Args(r).kind THEN new ELSE detail[d].items[k]]]
<1>1. Args(r).kind \in Kinds /\ request[r].made \subseteq Nat
  BY TypedStage DEF TypeInv, SetDetail, Typed, JobOK
<1>2. d \in DOMAIN detail /\ detail[d] \in DetailDocs
  BY FirstDetailFacts DEF TypeInv
<1>3. detail' = [detail EXCEPT ![d].items[Args(r).kind] = new]
  BY DEF SetDetail, NewItems
<1>4. new \subseteq Nat
  BY <1>1 DEF NewItems
<1> HIDE DEF d, new
<1>5. [detail[d] EXCEPT !.items[Args(r).kind] = new] = z
  BY <1>1, <1>2 DEF DetailDocs
<1>6. z \in DetailDocs
  BY <1>2, <1>4 DEF DetailDocs
<1>7. detail' = [detail EXCEPT ![d] = z]
  BY <1>3, <1>5
<1> HIDE DEF z
<1>8. detail' \in Seq(DetailDocs \cup {Gone})
  BY <1>2, <1>6, <1>7 DEF TypeInv, DocsOK
<1>9. detail'[d] = z
  BY <1>2, <1>7 DEF TypeInv, DocsOK
<1>10. QED
  BY <1>6, <1>7, <1>8, <1>9 DEF d, new, z

LEMMA SetDetailDocs ==
  ASSUME TypeInv, NEW r \in Requests, SetDetail(r)
  PROVE  DocsOK'
<1>1. detail' \in Seq(DetailDocs \cup {Gone})
  <2>1. CASE DetailsOf(Args(r).content) = {}
    BY <2>1 DEF SetDetail, TypeInv, DocsOK
  <2>2. CASE DetailsOf(Args(r).content) # {}
    BY <2>2, SetDetailFacts
  <2>3. QED
    BY <2>1, <2>2
<1>2. QED
  BY <1>1 DEF TypeInv, DocsOK, SetDetail, Quiet

LEMMA DeleteItemsDocs ==
  ASSUME TypeInv, NEW r \in Requests, DeleteItems(r)
  PROVE  DocsOK' /\ Len(item') = Len(item)
<1>1. item \in Seq(ItemDocs \cup {Gone})
  BY DEF TypeInv, DocsOK
<1>2. item' = [i \in DOMAIN item |-> IF i \in Deleted(Args(r).kind, Args(r).ids) THEN Gone ELSE item[i]]
  BY DEF DeleteItems
<1>3. \A i \in DOMAIN item : item[i] \in ItemDocs \cup {Gone}
  BY <1>1
<1>4. DOMAIN item' = DOMAIN item /\ item' = [i \in DOMAIN item |-> item'[i]]
      /\ \A i \in DOMAIN item : item'[i] \in ItemDocs \cup {Gone}
  BY <1>2, <1>3
<1>5. item' \in Seq(ItemDocs \cup {Gone}) /\ Len(item') = Len(item)
  BY <1>1, <1>4, ReplaceFacts
<1>6. QED
  BY <1>5 DEF TypeInv, DocsOK, DeleteItems, Quiet

LEMMA GoneFacts ==
  ASSUME NEW S, NEW s \in Seq(S \cup {Gone}), NEW i
  PROVE  LET z == [s EXCEPT ![i] = Gone]
         IN  /\ z \in Seq(S \cup {Gone}) /\ Len(z) = Len(s) /\ DOMAIN z = DOMAIN s
             /\ \A j \in DOMAIN s : z[j] = IF j = i THEN Gone ELSE s[j]
<1> DEFINE z == [s EXCEPT ![i] = Gone]
<1>1. \A j \in DOMAIN s : s[j] \in S \cup {Gone}
  OBVIOUS
<1>2. DOMAIN z = DOMAIN s /\ \A j \in DOMAIN s : z[j] = IF j = i THEN Gone ELSE s[j]
  OBVIOUS
<1>3. z = [j \in DOMAIN s |-> z[j]]
  OBVIOUS
<1> HIDE DEF z
<1>4. z \in Seq(S \cup {Gone}) /\ Len(z) = Len(s)
  BY <1>1, <1>2, <1>3, ReplaceFacts
<1>5. QED
  BY <1>2, <1>4 DEF z

LEMMA DeleteDetailDocs ==
  ASSUME TypeInv, NEW r \in Requests, DeleteDetail(r)
  PROVE  DocsOK'
BY GoneFacts DEF TypeInv, DocsOK, DeleteDetail, Quiet

LEMMA DeleteContentDocs ==
  ASSUME TypeInv, NEW r \in Requests, DeleteContent(r)
  PROVE  DocsOK'
BY GoneFacts DEF TypeInv, DocsOK, DeleteContent, Quiet

LEMMA DropTemplateDocs ==
  ASSUME TypeInv, NEW r \in Requests, DropTemplate(r)
  PROVE  DocsOK'
BY GoneFacts DEF TypeInv, DocsOK, DropTemplate, Quiet

\* The schedules are a list, whatever is put into it.
LEMMA ScheduleAppend ==
  ASSUME IsList(schedule), NEW v, schedule' = Append(schedule, v)
  PROVE  /\ IsList(schedule') /\ Len(schedule) \in Nat
         /\ DOMAIN schedule = 1..Len(schedule) /\ DOMAIN schedule' = 1..(Len(schedule) + 1)
         /\ \A i \in DOMAIN schedule : schedule'[i] = schedule[i]
<1> DEFINE S == {schedule[n] : n \in 1..Len(schedule)} \cup {v}
<1>1. schedule \in Seq({schedule[n] : n \in 1..Len(schedule)})
  BY DEF IsList
<1>2. schedule \in Seq(S) /\ v \in S
  BY <1>1
<1> HIDE DEF S
<1>3. /\ schedule' \in Seq(S) /\ Len(schedule) \in Nat
      /\ DOMAIN schedule = 1..Len(schedule) /\ DOMAIN schedule' = 1..(Len(schedule) + 1)
      /\ \A i \in 1..Len(schedule) : schedule'[i] = schedule[i]
  BY <1>2, AppendFacts
<1>4. IsList(schedule')
  BY <1>3, SeqList
<1>5. QED
  BY <1>3, <1>4

LEMMA ScheduleReplace ==
  ASSUME IsList(schedule), NEW i, NEW v, schedule' = [schedule EXCEPT ![i] = v]
  PROVE  /\ IsList(schedule') /\ DOMAIN schedule' = DOMAIN schedule
         /\ \A j \in DOMAIN schedule : schedule'[j] = IF j = i THEN v ELSE schedule[j]
<1>1. Len(schedule) \in Nat /\ DOMAIN schedule = 1..Len(schedule)
  BY ListFacts
<1>2. DOMAIN schedule' = DOMAIN schedule /\ \A j \in DOMAIN schedule : schedule'[j] = IF j = i THEN v ELSE schedule[j]
  OBVIOUS
<1>3. schedule' = [j \in 1..Len(schedule) |-> schedule'[j]]
  BY <1>1
<1>4. IsList(schedule')
  BY <1>1, <1>3, FunctionList
<1>5. QED
  BY <1>2, <1>4

LEMMA ScheduleDocs ==
  ASSUME TypeInv, NEW r \in Requests, DropSchedule(r) \/ CreateSchedule(r) \/ SetSchedule(r)
  PROVE  DocsOK'
<1>1. IsList(schedule)
  BY DEF TypeInv, DocsOK
<1>2. IsList(schedule')
  BY <1>1, ScheduleAppend, ScheduleReplace DEF DropSchedule, CreateSchedule, SetSchedule
<1>3. QED
  BY <1>2 DEF TypeInv, DocsOK, DropSchedule, CreateSchedule, SetSchedule, Quiet

-----------------------------------------------------------------------------
(* Handlers that put stages before those that are left.                    *)

LEMMA ContentsOfFacts ==
  ASSUME DocsOK, NEW t
  PROVE  /\ IsList(ContentsOf(t)) /\ Len(ContentsOf(t)) \in Nat /\ DOMAIN ContentsOf(t) = 1..Len(ContentsOf(t))
         /\ \A k \in 1..Len(ContentsOf(t)) :
              ContentsOf(t)[k] \in Stored(content) /\ content[ContentsOf(t)[k]].template = t
         /\ \A c \in Stored(content) : content[c].template = t =>
              \E k \in 1..Len(ContentsOf(t)) : ContentsOf(t)[k] = c
<1> DEFINE cs == {c \in Stored(content) : content[c].template = t}
<1>1. Len(content) \in Nat /\ DOMAIN content = 1..Len(content)
  BY LenProperties DEF DocsOK
<1>2. cs \in SUBSET (1..Len(content)) /\ cs \in SUBSET Nat
  BY <1>1 DEF Stored
<1>3. IsFiniteSet(cs)
  <2>1. 1 \in Int /\ Len(content) \in Int
    BY <1>1
  <2>2. IsFiniteSet(1..Len(content))
    BY <2>1, FS_Interval
  <2> HIDE DEF cs
  <2>3. QED
    BY <1>2, <2>2, FS_Subset
<1>4. ContentsOf(t) = ByRank(cs)
  BY DEF ContentsOf, ByRank
<1>5. /\ IsList(ByRank(cs)) /\ Len(ByRank(cs)) \in Nat
      /\ \A k \in 1..Len(ByRank(cs)) : ByRank(cs)[k] \in cs
      /\ \A c \in cs : \E k \in 1..Len(ByRank(cs)) : ByRank(cs)[k] = c
  <2> HIDE DEF cs
  <2>1. QED
    BY <1>2, <1>3, RankFacts
<1>6. DOMAIN ByRank(cs) = 1..Len(ByRank(cs))
  BY <1>5, ListFacts
<1>7. QED
  BY <1>4, <1>5, <1>6

\* The stages of list a come before those left.
Inserted(r, a) ==
  \/ request'[r] = Idle
  \/ JobOK(request'[r]) /\ request'[r].todo = a \o Tail(request[r].todo) /\ Same(request'[r], request[r])

LEMMA InsertFields ==
  ASSUME RequestsOK, NEW r \in Requests, request[r].todo # <<>>, request[r].todo[1].do # "createItem",
         NEW a, NEW G, Part(a, G),
         \A F \in {Adding, Deleting, Creating, Saving} : request[r].todo[1].do \in F => G \subseteq F,
         Goto(r, a \o Rest(r))
  PROVE  /\ RequestsOK' /\ Others(r) /\ Moved(r, G, "todo") /\ Inserted(r, a)
         /\ request'[r].todo # <<>> => ~Lists(request'[r].todo[1])
<1> DEFINE s == request[r].todo
<1>1. JobOK(request[r]) /\ TodoOK(s) /\ IsList(s) /\ Len(s) \in Nat /\ 1 \in 1..Len(s)
  BY WorkingList
<1>0. IsList(a) /\ Words(a, G)
  BY DEF Part
<1>2. ASSUME NEW F \in {Adding, Deleting, Creating, Saving}, Words(s, F) PROVE Words(a, F)
  <2>1. G \subseteq F
    BY <1>1, <1>2 DEF Words
  <2>2. QED
    BY <1>0, <2>1 DEF Words
<1>3. TodoOK(a \o Tail(s)) /\ (a \o Tail(s) # <<>> => ~Lists((a \o Tail(s))[1]))
  BY <1>1, <1>2, AheadOK
<1>4. \E k \in Nat : Ahead(a \o Tail(s), s, k, G)
  BY <1>0, <1>1, InsertAhead
<1>5. RequestsOK' /\ Others(r) /\ Inserted(r, a)
  BY <1>3, GotoFields DEF Rest, Inserted
<1>6. ASSUME Same(request'[r], request[r]) PROVE \A g \in Kept : request'[r][g] = request[r][g]
  BY <1>6 DEF Same, Kept
<1>7. request'[r].todo # <<>> => ~Lists(request'[r].todo[1])
  BY <1>3, <1>5 DEF Inserted, Idle
<1>8. QED
  BY <1>4, <1>5, <1>6, <1>7 DEF Moved, Inserted

\* A deletion reads the details of every content of the template.
Lookups(t) == [k \in DOMAIN ContentsOf(t) |-> [do |-> "findDetail", content |-> ContentsOf(t)[k]]]

LEMMA LookupsFacts ==
  ASSUME DocsOK, NEW t
  PROVE  /\ IsList(Lookups(t)) /\ Len(Lookups(t)) = Len(ContentsOf(t))
         /\ \A n \in 1..Len(Lookups(t)) :
              Lookups(t)[n].do = "findDetail" /\ Lookups(t)[n].content = ContentsOf(t)[n]
<1>1. Len(ContentsOf(t)) \in Nat /\ DOMAIN ContentsOf(t) = 1..Len(ContentsOf(t))
  BY ContentsOfFacts
<1>2. Lookups(t) = [n \in 1..Len(ContentsOf(t)) |-> Lookups(t)[n]]
  BY <1>1 DEF Lookups
<1>3. \A n \in 1..Len(ContentsOf(t)) : Lookups(t)[n].do = "findDetail" /\ Lookups(t)[n].content = ContentsOf(t)[n]
  BY <1>1 DEF Lookups
<1>4. QED
  BY <1>1, <1>2, <1>3, FunctionList

LEMMA ListContentsMoves ==
  ASSUME TypeInv, NEW r \in Requests, ListContents(r)
  PROVE  /\ RequestsOK' /\ Others(r) /\ Moved(r, {"findDetail"}, "todo")
         /\ Inserted(r, Lookups(request[r].t))
<1> DEFINE a == Lookups(request[r].t)
<1>1. /\ request[r].todo # <<>> /\ request[r].todo[1].do = "listContents"
      /\ Goto(r, a \o Rest(r))
  BY TypedStage DEF TypeInv, ListContents, Lookups
<1>2. IsList(a) /\ \A n \in 1..Len(a) : a[n].do = "findDetail"
  <2>1. DocsOK
    BY DEF TypeInv
  <2>2. QED
    BY <2>1, LookupsFacts
<1> HIDE DEF a
<1>3. Part(a, {"findDetail"})
  BY <1>2 DEF Part, Words, Typed, Lists
<1>4. \A F \in {Adding, Deleting, Creating, Saving} : request[r].todo[1].do \in F => {"findDetail"} \subseteq F
  BY <1>1 DEF Adding, Deleting, Creating, Saving, Editing
<1>5. request[r].todo[1].do # "createItem"
  BY <1>1
<1>6. QED
  BY <1>1, <1>2, <1>3, <1>4, <1>5, InsertFields DEF TypeInv, a

\* A publication reads what every content of the template shows.
Readings(t) ==
  [k \in DOMAIN ContentsOf(t) |-> [do |-> "readShown", content |-> ContentsOf(t)[k],
                                   rect |-> content[ContentsOf(t)[k]].rect]]

LEMMA ReadContentsMoves ==
  ASSUME TypeInv, NEW r \in Requests, ReadContents(r)
  PROVE  RequestsOK' /\ Others(r) /\ Moved(r, {"readShown"}, "todo")
<1> DEFINE t == request[r].t
           a == Readings(t)
<1>1. /\ request[r].todo # <<>> /\ request[r].todo[1].do = "readContents"
      /\ Goto(r, a \o Rest(r))
  BY TypedStage DEF TypeInv, ReadContents, Readings
<1>2. IsList(a) /\ \A n \in 1..Len(a) : a[n].do = "readShown"
  <2> HIDE DEF t
  <2>1. Len(ContentsOf(t)) \in Nat /\ DOMAIN ContentsOf(t) = 1..Len(ContentsOf(t))
    BY ContentsOfFacts DEF TypeInv
  <2>2. a = [n \in 1..Len(ContentsOf(t)) |-> a[n]]
    BY <2>1 DEF Readings
  <2>3. \A n \in 1..Len(ContentsOf(t)) : a[n].do = "readShown"
    BY <2>1 DEF Readings
  <2> HIDE DEF a
  <2>4. QED
    BY <2>1, <2>2, <2>3, FunctionList
<1> HIDE DEF a
<1>3. Part(a, {"readShown"})
  BY <1>2 DEF Part, Words, Typed, Lists
<1>4. \A F \in {Adding, Deleting, Creating, Saving} : request[r].todo[1].do \in F => {"readShown"} \subseteq F
  BY <1>1 DEF Adding, Deleting, Creating, Saving, Editing
<1>5. request[r].todo[1].do # "createItem"
  BY <1>1
<1>6. QED
  BY <1>1, <1>2, <1>3, <1>4, <1>5, InsertFields DEF TypeInv, a

\* The removal of one content, with or without a detail.
Removal(c) ==
  IF DetailsOf(c) = {} THEN <<[do |-> "deleteContent", content |-> c]>>
  ELSE DeleteContentStages(c, FirstDetail(c))

Removing == {"deleteItems", "deleteDetail", "deleteContent"}

LEMMA RemovalFacts ==
  ASSUME DocsOK, NEW c
  PROVE  /\ IsList(Removal(c)) /\ Len(Removal(c)) \in Nat /\ Words(Removal(c), Removing)
         /\ \A n \in 1..Len(Removal(c)) : Typed(Removal(c)[n]) /\ ~Lists(Removal(c)[n])
         /\ \A n \in 1..Len(Removal(c)) :
              Removal(c)[n].do = "deleteItems" =>
                /\ DetailsOf(c) # {}
                /\ Removal(c)[n].kind \in Kinds
                /\ Removal(c)[n].ids = detail[FirstDetail(c)].items[Removal(c)[n].kind]
         /\ \E n \in 1..Len(Removal(c)) : Removal(c)[n] = [do |-> "deleteContent", content |-> c]
<1>1. CASE DetailsOf(c) = {}
  <2> DEFINE x == [do |-> "deleteContent", content |-> c]
  <2>1. Removal(c) = <<x>> /\ x.do = "deleteContent"
    BY <1>1 DEF Removal
  <2> HIDE DEF x
  <2>2. IsList(Removal(c)) /\ Len(Removal(c)) = 1 /\ Removal(c)[1] = x
    BY <2>1, ListOne
  <2>3. \A n \in 1..1 : n = 1
    OBVIOUS
  <2>4. \A n \in 1..Len(Removal(c)) : Removal(c)[n].do = "deleteContent"
    BY <2>1, <2>2, <2>3
  <2>5. Words(Removal(c), Removing)
    BY <2>4 DEF Words, Removing
  <2>6. \A n \in 1..Len(Removal(c)) : Typed(Removal(c)[n]) /\ ~Lists(Removal(c)[n])
    BY <2>4 DEF Typed, Lists
  <2>7. \E n \in 1..Len(Removal(c)) : Removal(c)[n] = [do |-> "deleteContent", content |-> c]
    BY <2>2 DEF x
  <2>8. QED
    BY <2>2, <2>4, <2>5, <2>6, <2>7
<1>2. CASE DetailsOf(c) # {}
  <2> DEFINE d == FirstDetail(c)
             drop(k) == [do |-> "deleteItems", kind |-> k, ids |-> detail[d].items[k]]
             e == [do |-> "deleteDetail", detail |-> d]
             x == [do |-> "deleteContent", content |-> c]
  <2>1. Removal(c) = <<drop("weather"), drop("media"), drop("webpage"), drop("cam"), e, x>>
    BY <1>2 DEF Removal, DeleteContentStages
  <2>2. \A k \in Kinds : detail[d].items[k] \subseteq Nat
    BY <1>2, FirstDetailFacts DEF DetailDocs
  <2>3. ASSUME NEW k \in Kinds
        PROVE  drop(k).do = "deleteItems" /\ drop(k).kind = k /\ drop(k).ids = detail[d].items[k]
               /\ Typed(drop(k)) /\ ~Lists(drop(k))
    BY <2>2 DEF Typed, Lists
  <2>4. e.do = "deleteDetail" /\ Typed(e) /\ ~Lists(e) /\ x.do = "deleteContent" /\ Typed(x) /\ ~Lists(x)
    BY DEF Typed, Lists
  <2> DEFINE R == Removal(c)
             p == drop("weather")
             q == drop("media")
             u == drop("webpage")
             v == drop("cam")
  <2>5. R = <<p, q, u, v, e, x>>
    BY <2>1
  <2>6. /\ p.do = "deleteItems" /\ p.kind \in Kinds /\ p.ids = detail[d].items[p.kind] /\ Typed(p) /\ ~Lists(p)
        /\ q.do = "deleteItems" /\ q.kind \in Kinds /\ q.ids = detail[d].items[q.kind] /\ Typed(q) /\ ~Lists(q)
        /\ u.do = "deleteItems" /\ u.kind \in Kinds /\ u.ids = detail[d].items[u.kind] /\ Typed(u) /\ ~Lists(u)
        /\ v.do = "deleteItems" /\ v.kind \in Kinds /\ v.ids = detail[d].items[v.kind] /\ Typed(v) /\ ~Lists(v)
    <3>1. "weather" \in Kinds /\ "media" \in Kinds /\ "webpage" \in Kinds /\ "cam" \in Kinds
      BY DEF Kinds
    <3> HIDE DEF drop
    <3>2. QED
      BY <2>3, <3>1
  <2>7. x = [do |-> "deleteContent", content |-> c]
    OBVIOUS
  <2> HIDE DEF R, p, q, u, v, e, x, drop, d
  <2>8. IsList(R) /\ Len(R) = 6 /\ R[1] = p /\ R[2] = q /\ R[3] = u /\ R[4] = v /\ R[5] = e /\ R[6] = x
    BY <2>5, ListSix
  <2>9. \A n \in 1..6 : n = 1 \/ n = 2 \/ n = 3 \/ n = 4 \/ n = 5 \/ n = 6
    OBVIOUS
  <2>10. ASSUME NEW n \in 1..6
         PROVE  /\ R[n].do \in Removing /\ Typed(R[n]) /\ ~Lists(R[n])
                /\ R[n].do = "deleteItems" => R[n].kind \in Kinds /\ R[n].ids = detail[d].items[R[n].kind]
    BY <2>4, <2>6, <2>8, <2>9 DEF Removing
  <2>11. QED
    BY <1>2, <2>7, <2>8, <2>10 DEF R, d, Words
<1>3. QED
  BY <1>1, <1>2

LEMMA FindDetailMoves ==
  ASSUME TypeInv, NEW r \in Requests, FindDetail(r)
  PROVE  /\ RequestsOK' /\ Others(r) /\ Moved(r, Removing, "todo")
         /\ Inserted(r, Removal(Args(r).content))
<1> DEFINE a == Removal(Args(r).content)
<1>1. /\ request[r].todo # <<>> /\ request[r].todo[1].do = "findDetail"
      /\ Goto(r, a \o Rest(r))
  BY TypedStage DEF TypeInv, FindDetail, Removal
<1>2. Part(a, Removing)
  BY RemovalFacts DEF TypeInv, Part
<1> HIDE DEF a
<1>3. \A F \in {Adding, Deleting, Creating, Saving} : request[r].todo[1].do \in F => Removing \subseteq F
  BY <1>1 DEF Adding, Deleting, Creating, Saving, Editing, Removing
<1>4. request[r].todo[1].do # "createItem"
  BY <1>1
<1>5. QED
  BY <1>1, <1>2, <1>3, <1>4, InsertFields DEF TypeInv, a

-----------------------------------------------------------------------------
(* What a request starts with.                                             *)

LEMMA PartTodo ==
  ASSUME NEW F \in {Adding, Deleting, Creating, Saving}, NEW s, Part(s, F)
  PROVE  TodoOK(s)
<1>1. Paired(s)
  <2>1. Len(s) \in Nat
    BY ListFacts DEF Part
  <2>2. \A n \in 2..Len(s) : n \in 1..Len(s)
    BY <2>1
  <2>3. QED
    BY <2>2 DEF Part, Paired
<1>2. QED
  BY <1>1 DEF Part, TodoOK

LEMMA PartConcat ==
  ASSUME NEW F, NEW a, NEW b, Part(a, F), Part(b, F)
  PROVE  Part(a \o b, F)
<1> DEFINE z == a \o b
<1>1. IsList(a) /\ IsList(b) /\ Len(a) \in Nat /\ Len(b) \in Nat
  BY ListFacts DEF Part
<1>2. /\ IsList(z) /\ Len(z) = Len(a) + Len(b)
      /\ \A n \in 1..Len(a) : z[n] = a[n]
      /\ \A n \in 1..(Len(a) + Len(b)) : n > Len(a) => z[n] = b[n - Len(a)] /\ n - Len(a) \in 1..Len(b)
  BY <1>1, ListConcat
<1> HIDE DEF z
<1>3. ASSUME NEW n \in 1..Len(z)
      PROVE  z[n].do \in F /\ Typed(z[n]) /\ (Lists(z[n]) => n > 1 /\ z[n - 1].do = "createItem")
  <2>1. CASE n \in 1..Len(a)
    <3>1. z[n] = a[n] /\ (n > 1 => z[n - 1] = a[n - 1])
      BY <1>1, <1>2, <2>1
    <3>2. a[n].do \in F /\ Typed(a[n]) /\ (Lists(a[n]) => n > 1 /\ a[n - 1].do = "createItem")
      BY <2>1 DEF Part, Words
    <3>3. QED
      BY <3>1, <3>2
  <2>2. CASE n \notin 1..Len(a)
    <3> DEFINE m == n - Len(a)
    <3>1. z[n] = b[m] /\ m \in 1..Len(b) /\ (m > 1 => n > 1 /\ z[n - 1] = b[m - 1])
      BY <1>1, <1>2, <2>2
    <3> HIDE DEF m
    <3>2. b[m].do \in F /\ Typed(b[m]) /\ (Lists(b[m]) => m > 1 /\ b[m - 1].do = "createItem")
      BY <3>1 DEF Part, Words
    <3>3. QED
      BY <3>1, <3>2
  <2>3. QED
    BY <2>1, <2>2
<1>4. QED
  BY <1>2, <1>3 DEF Part, Words, z

LEMMA PartEmpty ==
  ASSUME NEW F
  PROVE  Part(<<>>, F)
BY ListEmpty DEF Part, Words

LEMMA PartOne ==
  ASSUME NEW F, NEW x, x.do \in F, Typed(x), ~Lists(x)
  PROVE  Part(<<x>>, F)
<1>1. IsList(<<x>>) /\ Len(<<x>>) = 1 /\ <<x>>[1] = x
  BY ListOne
<1>2. \A n \in 1..1 : n = 1
  OBVIOUS
<1>3. QED
  BY <1>1, <1>2 DEF Part, Words

LEMMA PartPair ==
  ASSUME NEW F, NEW x, NEW y, x.do \in F, y.do \in F, Typed(x), Typed(y), ~Lists(x),
         Lists(y) => x.do = "createItem"
  PROVE  Part(<<x, y>>, F)
<1> DEFINE s == <<x, y>>
<1>1. IsList(s) /\ Len(s) = 2 /\ s[1] = x /\ s[2] = y
  BY ListTwo
<1>2. \A n \in 1..2 : n = 1 \/ (n = 2 /\ n > 1 /\ n - 1 = 1)
  OBVIOUS
<1> HIDE DEF s
<1>3. QED
  BY <1>1, <1>2 DEF Part, Words, s

-----------------------------------------------------------------------------
(* Contents: what additions and updates do.                                *)

AddKind(draft, k) ==
  IF k \in draft.kinds
  THEN <<[do |-> "createItem", kind |-> k], [do |-> "addDetail", kind |-> k]>> ELSE <<>>

AddWords == {"addContents", "createContent", "createItem", "addDetail"}

LEMMA AddContentPart ==
  ASSUME NEW draft \in DraftContents
  PROVE  Part(AddContentStages(draft), AddWords)
<1> DEFINE first == [do |-> "createContent", rect |-> draft.rect]
           w == AddKind(draft, "weather")
           u == AddKind(draft, "cam")
           v == AddKind(draft, "webpage")
           m == AddKind(draft, "media")
<1>1. ASSUME NEW k \in Kinds PROVE Part(AddKind(draft, k), AddWords)
  <2> DEFINE x == [do |-> "createItem", kind |-> k]
             y == [do |-> "addDetail", kind |-> k]
  <2>1. AddKind(draft, k) = <<x, y>> \/ AddKind(draft, k) = <<>>
    BY DEF AddKind
  <2>2. /\ x.do = "createItem" /\ x.do \in AddWords /\ y.do \in AddWords
        /\ Typed(x) /\ Typed(y) /\ ~Lists(x)
    BY DEF AddWords, Typed, Lists
  <2> HIDE DEF x, y
  <2>3. QED
    BY <2>1, <2>2, PartPair, PartEmpty
<1>2. Part(w, AddWords) /\ Part(u, AddWords) /\ Part(v, AddWords) /\ Part(m, AddWords)
  BY <1>1 DEF Kinds
<1>3. Part(<<first>>, AddWords)
  <2>1. draft.rect \in Rects
    BY DEF DraftContents
  <2>2. first.do \in AddWords /\ Typed(first) /\ ~Lists(first)
    BY <2>1 DEF AddWords, Typed, Lists
  <2> HIDE DEF first
  <2>3. QED
    BY <2>2, PartOne
<1>4. AddContentStages(draft) = <<first>> \o (w \o u \o v \o m)
  BY DEF AddContentStages, InOrder, AddKind
<1> HIDE DEF first, w, u, v, m
<1>5. Part(w \o u \o v \o m, AddWords)
  BY <1>2, PartConcat
<1>6. QED
  BY <1>3, <1>4, <1>5, PartConcat

LEMMA JoinOnes ==
  ASSUME NEW x, NEW y
  PROVE  <<x>> \o <<y>> = <<x, y>>
<1> DEFINE a == <<x>> \o <<y>>
           b == <<x, y>>
<1>1. a \in Seq({x, y}) /\ Len(a) = 2 /\ a[1] = x /\ a[2] = y
  <2>1. <<x>> \in Seq({x, y}) /\ <<y>> \in Seq({x, y})
    BY ListOne
  <2>2. QED
    BY <2>1, ListOne, ListConcat
<1>2. b \in Seq({x, y}) /\ Len(b) = 2 /\ b[1] = x /\ b[2] = y
  OBVIOUS
<1> HIDE DEF a, b
<1>3. \A n \in 1..2 : n = 1 \/ n = 2
  OBVIOUS
<1>4. a = b
  BY <1>1, <1>2, <1>3, SeqEqual
<1>5. QED
  BY <1>4 DEF a, b

SetKind(c, k, new) == <<[do |-> "setDetail", content |-> c, kind |-> k, new |-> new]>>

UpdateKind(c, change, k) ==
  IF k \in change.kinds THEN <<[do |-> "createItem", kind |-> k]>> \o SetKind(c, k, TRUE)
  ELSE IF k \in change.clear THEN SetKind(c, k, FALSE) ELSE <<>>

UpdateWords == {"updateContents", "setContent", "createItem", "setDetail"}

LEMMA UpdateContentPart ==
  ASSUME NEW c, NEW change \in ChangedContents
  PROVE  Part(UpdateContentStages(c, change), UpdateWords)
<1> DEFINE first == [do |-> "setContent", content |-> c, rect |-> change.rect]
           w == UpdateKind(c, change, "weather")
           u == UpdateKind(c, change, "cam")
           v == UpdateKind(c, change, "webpage")
           m == UpdateKind(c, change, "media")
<1>1. ASSUME NEW k \in Kinds PROVE Part(UpdateKind(c, change, k), UpdateWords)
  <2> DEFINE x == [do |-> "createItem", kind |-> k]
             y == [do |-> "setDetail", content |-> c, kind |-> k, new |-> TRUE]
             z == [do |-> "setDetail", content |-> c, kind |-> k, new |-> FALSE]
  <2>1. <<x>> \o <<y>> = <<x, y>>
    BY JoinOnes
  <2>2. UpdateKind(c, change, k) = <<x, y>> \/ UpdateKind(c, change, k) = <<z>> \/ UpdateKind(c, change, k) = <<>>
    BY <2>1 DEF UpdateKind, SetKind
  <2>3. /\ x.do = "createItem" /\ x.do \in UpdateWords /\ y.do \in UpdateWords /\ z.do \in UpdateWords
        /\ Typed(x) /\ Typed(y) /\ Typed(z) /\ ~Lists(x) /\ ~Lists(z)
    BY DEF UpdateWords, Typed, Lists
  <2> HIDE DEF x, y, z
  <2>4. QED
    BY <2>2, <2>3, PartPair, PartOne, PartEmpty
<1>2. Part(w, UpdateWords) /\ Part(u, UpdateWords) /\ Part(v, UpdateWords) /\ Part(m, UpdateWords)
  BY <1>1 DEF Kinds
<1>3. Part(<<first>>, UpdateWords)
  <2>1. change.rect \in Rects
    BY DEF ChangedContents
  <2>2. first.do \in UpdateWords /\ Typed(first) /\ ~Lists(first)
    BY <2>1 DEF UpdateWords, Typed, Lists
  <2> HIDE DEF first
  <2>3. QED
    BY <2>2, PartOne
<1>4. UpdateContentStages(c, change) = <<first>> \o (w \o u \o v \o m)
  BY DEF UpdateContentStages, InOrder, UpdateKind, SetKind
<1> HIDE DEF first, w, u, v, m
<1>5. Part(w \o u \o v \o m, UpdateWords)
  BY <1>2, PartConcat
<1>6. QED
  BY <1>3, <1>4, <1>5, PartConcat

-----------------------------------------------------------------------------
(* The loops over the contents given.                                      *)

\* The first content, and the loop over the others.
Adds(drafts) ==
  IF drafts = <<>> THEN <<>> ELSE AddContentStages(Head(drafts)) \o <<AddContentsStage(Tail(drafts))>>

Updates(edits) ==
  IF edits = <<>> THEN <<>>
  ELSE UpdateContentStages(Head(edits).content, Head(edits).change) \o <<UpdateContentsStage(Tail(edits))>>

LEMMA AddContentsPart ==
  ASSUME NEW drafts \in Seq(DraftContents)
  PROVE  Part(<<AddContentsStage(drafts)>>, AddWords)
<1> DEFINE x == AddContentsStage(drafts)
<1>1. x.do = "addContents" /\ x.do \in AddWords /\ Typed(x) /\ ~Lists(x)
  BY DEF AddContentsStage, AddWords, Typed, Lists
<1> HIDE DEF x
<1>2. Part(<<x>>, AddWords)
  BY <1>1, PartOne
<1>3. QED
  BY <1>2 DEF x

LEMMA UpdateContentsPart ==
  ASSUME NEW edits \in Seq(EditedContents)
  PROVE  Part(<<UpdateContentsStage(edits)>>, UpdateWords)
<1> DEFINE x == UpdateContentsStage(edits)
<1>1. x.do = "updateContents" /\ x.do \in UpdateWords /\ Typed(x) /\ ~Lists(x)
  BY DEF UpdateContentsStage, UpdateWords, Typed, Lists
<1> HIDE DEF x
<1>2. Part(<<x>>, UpdateWords)
  BY <1>1, PartOne
<1>3. QED
  BY <1>2 DEF x

LEMMA AddsPart ==
  ASSUME NEW drafts \in Seq(DraftContents)
  PROVE  Part(Adds(drafts), AddWords)
<1>1. CASE drafts = <<>>
  BY <1>1, PartEmpty DEF Adds
<1>2. CASE drafts # <<>>
  <2>1. Head(drafts) \in DraftContents /\ Tail(drafts) \in Seq(DraftContents)
    BY <1>2
  <2>2. Part(AddContentStages(Head(drafts)), AddWords) /\ Part(<<AddContentsStage(Tail(drafts))>>, AddWords)
    BY <2>1, AddContentPart, AddContentsPart
  <2>3. QED
    BY <1>2, <2>2, PartConcat DEF Adds
<1>3. QED
  BY <1>1, <1>2

LEMMA UpdatesPart ==
  ASSUME NEW edits \in Seq(EditedContents)
  PROVE  Part(Updates(edits), UpdateWords)
<1>1. CASE edits = <<>>
  BY <1>1, PartEmpty DEF Updates
<1>2. CASE edits # <<>>
  <2>1. Head(edits) \in EditedContents /\ Tail(edits) \in Seq(EditedContents)
    BY <1>2
  <2>2. Head(edits).change \in ChangedContents
    BY <2>1 DEF EditedContents
  <2>3. /\ Part(UpdateContentStages(Head(edits).content, Head(edits).change), UpdateWords)
        /\ Part(<<UpdateContentsStage(Tail(edits))>>, UpdateWords)
    BY <2>1, <2>2, UpdateContentPart, UpdateContentsPart
  <2>4. QED
    BY <1>2, <2>3, PartConcat DEF Updates
<1>3. QED
  BY <1>1, <1>2

LEMMA AddContentsMoves ==
  ASSUME TypeInv, NEW r \in Requests, AddContents(r)
  PROVE  /\ RequestsOK' /\ Others(r) /\ Moved(r, AddWords, "todo")
         /\ request'[r].todo # <<>> => ~Lists(request'[r].todo[1])
<1> DEFINE drafts == Args(r).drafts
           a == Adds(drafts)
<1>1. /\ request[r].todo # <<>> /\ request[r].todo[1].do = "addContents" /\ drafts \in Seq(DraftContents)
      /\ Goto(r, a \o Rest(r))
  BY TypedStage DEF TypeInv, AddContents, Adds, Typed
<1>2. Part(a, AddWords)
  <2> HIDE DEF drafts
  <2>1. QED
    BY <1>1, AddsPart
<1> HIDE DEF a, drafts
<1>3. \A F \in {Adding, Deleting, Creating, Saving} : request[r].todo[1].do \in F => AddWords \subseteq F
  BY <1>1 DEF Adding, Deleting, Creating, Saving, Editing, AddWords
<1>4. request[r].todo[1].do # "createItem"
  BY <1>1
<1>5. QED
  BY <1>1, <1>2, <1>3, <1>4, InsertFields DEF TypeInv

LEMMA UpdateContentsMoves ==
  ASSUME TypeInv, NEW r \in Requests, UpdateContents(r)
  PROVE  /\ RequestsOK' /\ Others(r) /\ Moved(r, UpdateWords, "todo")
         /\ request'[r].todo # <<>> => ~Lists(request'[r].todo[1])
<1> DEFINE edits == Args(r).edits
           a == Updates(edits)
<1>1. /\ request[r].todo # <<>> /\ request[r].todo[1].do = "updateContents" /\ edits \in Seq(EditedContents)
      /\ Goto(r, a \o Rest(r))
  BY TypedStage DEF TypeInv, UpdateContents, Updates, Typed
<1>2. Part(a, UpdateWords)
  <2> HIDE DEF edits
  <2>1. QED
    BY <1>1, UpdatesPart
<1> HIDE DEF a, edits
<1>3. \A F \in {Adding, Deleting, Creating, Saving} : request[r].todo[1].do \in F => UpdateWords \subseteq F
  BY <1>1 DEF Adding, Deleting, Creating, Saving, Editing, UpdateWords
<1>4. request[r].todo[1].do # "createItem"
  BY <1>1
<1>5. QED
  BY <1>1, <1>2, <1>3, <1>4, InsertFields DEF TypeInv

-----------------------------------------------------------------------------
(* The order of the stages of a request.                                   *)

Ordered(s) ==
  \A n \in 1..Len(s) :
    /\ s[n].do = "tell" => Before(s, n, "logSchedule")
    /\ s[n].do \in {"tell", "logSchedule"} => Before(s, n, "createSchedule") \/ Before(s, n, "findSchedule")
    /\ s[n].do = "createSchedule" => ~Before(s, n, "logSchedule")
    /\ s[n].do \in {"addContents", "createContent"} => Before(s, n, "createTemplate")
    /\ s[n].do = "deleteTemplate" => Before(s, n, "listContents")
    /\ s[n].do = "listContents" => \E m \in 1..Len(s) : m < n /\ LogsDeletion(s[m])
    /\ s[n].do \notin {"findDetail", "deleteItems"}

LEMMA OrderedAhead ==
  ASSUME NEW a, NEW b, IsList(a), IsList(b), Words(a, UpdateWords), Ordered(b)
  PROVE  Ordered(a \o b)
<1> DEFINE z == a \o b
<1>1. Len(a) \in Nat /\ Len(b) \in Nat
  BY ListFacts
<1>2. /\ IsList(z) /\ Len(z) = Len(a) + Len(b)
      /\ \A n \in 1..Len(a) : z[n] = a[n]
      /\ \A n \in 1..Len(b) : z[Len(a) + n] = b[n]
      /\ \A n \in 1..(Len(a) + Len(b)) : n > Len(a) => z[n] = b[n - Len(a)] /\ n - Len(a) \in 1..Len(b)
  BY ListConcat
<1> HIDE DEF z
<1>3. SUFFICES ASSUME NEW n \in 1..Len(z)
               PROVE  /\ z[n].do = "tell" => Before(z, n, "logSchedule")
                      /\ z[n].do \in {"tell", "logSchedule"} => Before(z, n, "createSchedule") \/ Before(z, n, "findSchedule")
                      /\ z[n].do = "createSchedule" => ~Before(z, n, "logSchedule")
                      /\ z[n].do \in {"addContents", "createContent"} => Before(z, n, "createTemplate")
                      /\ z[n].do = "deleteTemplate" => Before(z, n, "listContents")
                      /\ z[n].do = "listContents" => \E m \in 1..Len(z) : m < n /\ LogsDeletion(z[m])
                      /\ z[n].do \notin {"findDetail", "deleteItems"}
  BY DEF Ordered, z
<1>4. CASE n \in 1..Len(a)
  <2>1. z[n].do \in UpdateWords
    BY <1>2, <1>4 DEF Words
  <2>2. QED
    BY <2>1 DEF UpdateWords
<1>5. CASE n \notin 1..Len(a)
  <2> DEFINE k == n - Len(a)
  <2>1. z[n] = b[k] /\ k \in 1..Len(b)
    BY <1>1, <1>2, <1>5
  <2>2. ASSUME NEW m \in 1..Len(b), m < k PROVE Len(a) + m \in 1..Len(z) /\ Len(a) + m < n /\ z[Len(a) + m] = b[m]
    BY <1>1, <1>2, <2>2
  <2>3. ASSUME NEW name, Before(b, k, name) PROVE Before(z, n, name)
    <3> HIDE DEF k
    <3>1. PICK m \in 1..Len(b) : m < k /\ b[m].do = name
      BY <2>3 DEF Before
    <3>2. QED
      BY <2>2, <3>1 DEF Before
  <2>4. ASSUME NEW m \in 1..Len(b), m < k, LogsDeletion(b[m]) PROVE \E j \in 1..Len(z) : j < n /\ LogsDeletion(z[j])
    <3> HIDE DEF k
    <3>1. QED
      BY <2>2, <2>4
  <2>5. ASSUME Before(z, n, "logSchedule") PROVE Before(b, k, "logSchedule")
    <3>1. PICK m \in 1..Len(z) : m < n /\ z[m].do = "logSchedule"
      BY <2>5 DEF Before
    <3>2. m \notin 1..Len(a)
      <4>1. m \in 1..Len(a) => z[m].do \in UpdateWords
        BY <1>2 DEF Words
      <4>2. QED
        BY <3>1, <4>1 DEF UpdateWords
    <3>3. z[m] = b[m - Len(a)] /\ m - Len(a) \in 1..Len(b) /\ m - Len(a) < k
      BY <1>1, <1>2, <3>1, <3>2
    <3> HIDE DEF k
    <3>4. QED
      BY <3>1, <3>3 DEF Before
  <2> HIDE DEF k
  <2>6. QED
    BY <2>1, <2>3, <2>4, <2>5 DEF Ordered
<1>6. QED
  BY <1>4, <1>5

\* No stage of these names is out of order by itself.
LEMMA OrderedAlone ==
  ASSUME NEW s, Words(s, UpdateWords \cup {"setTemplate", "deleteSchedule"})
  PROVE  Ordered(s)
BY DEF Words, Ordered, UpdateWords

-----------------------------------------------------------------------------
(* Schedules: what adding one and setting one do.                          *)

LEMMA ListThree ==
  ASSUME NEW x, NEW y, NEW z
  PROVE  IsList(<<x, y, z>>) /\ Len(<<x, y, z>>) = 3 /\ <<x, y, z>>[1] = x /\ <<x, y, z>>[2] = y /\ <<x, y, z>>[3] = z
<1>1. <<x, y, z>> \in [1..3 -> {x, y, z}]
  OBVIOUS
<1>2. <<x, y, z>> \in Seq({x, y, z})
  BY <1>1, SeqDef
<1>3. QED
  BY <1>2, SeqList

ScheduleWords == {"createSchedule", "findSchedule", "setSchedule", "logSchedule",
                  "readTemplate", "readContents", "render", "tell"}

LEMMA WordsPart ==
  ASSUME NEW s, IsList(s), NEW F, Words(s, F), F \subseteq ScheduleWords
  PROVE  Part(s, F)
<1>1. \A n \in 1..Len(s) : s[n].do \in ScheduleWords
  BY DEF Words
<1>2. \A n \in 1..Len(s) : Typed(s[n]) /\ ~Lists(s[n])
  BY <1>1 DEF ScheduleWords, Typed, Lists
<1>3. QED
  BY <1>2 DEF Part

LEMMA PublishList ==
  ASSUME NEW when
  PROVE  LET s == PublishStages(when)
         IN  /\ IsList(s) /\ Len(s) = 4
             /\ s[1].do = "readTemplate" /\ s[2].do = "readContents" /\ s[3].do = "render" /\ s[4].do = "tell"
<1> DEFINE a == Stage("readTemplate")
           b == Stage("readContents")
           c == Stage("render")
           d == [do |-> "tell", when |-> when]
<1>1. a.do = "readTemplate" /\ b.do = "readContents" /\ c.do = "render" /\ d.do = "tell"
  BY DEF Stage
<1>2. PublishStages(when) = <<a, b, c, d>>
  BY DEF PublishStages
<1> HIDE DEF a, b, c, d
<1>3. QED
  BY <1>1, <1>2, ListFour

LEMMA AddScheduleList ==
  ASSUME NEW when
  PROVE  /\ Part(AddScheduleStages(when), Creating)
         /\ Ordered(AddScheduleStages(when)) /\ ~Has(AddScheduleStages(when), "findSchedule")
<1> DEFINE a == Stage("createSchedule")
           b == Stage("logSchedule")
           p == PublishStages(when)
           s == AddScheduleStages(when)
<1>1. a.do = "createSchedule" /\ b.do = "logSchedule"
  BY DEF Stage
<1>2. s = <<a, b>> \o p
  BY DEF AddScheduleStages, NewScheduleStages
<1> HIDE DEF a, b, s
<1>3. IsList(<<a, b>>) /\ Len(<<a, b>>) = 2 /\ <<a, b>>[1] = a /\ <<a, b>>[2] = b
  BY ListTwo
<1>4. /\ IsList(p) /\ Len(p) = 4
      /\ p[1].do = "readTemplate" /\ p[2].do = "readContents" /\ p[3].do = "render" /\ p[4].do = "tell"
  BY PublishList
<1> HIDE DEF p
<1>5. /\ IsList(s) /\ Len(s) = 6 /\ s[1] = a /\ s[2] = b
      /\ \A n \in 1..4 : s[2 + n] = p[n]
  <2> DEFINE h == <<a, b>>
  <2>1. IsList(h) /\ Len(h) = 2 /\ h[1] = a /\ h[2] = b /\ s = h \o p
    BY <1>2, <1>3
  <2> HIDE DEF h
  <2>2. IsList(h) /\ IsList(p)
    BY <1>4, <2>1
  <2>3. /\ IsList(h \o p) /\ Len(h \o p) = Len(h) + Len(p)
        /\ \A n \in 1..Len(h) : (h \o p)[n] = h[n]
        /\ \A n \in 1..Len(p) : (h \o p)[Len(h) + n] = p[n]
    BY <2>2, ListConcat
  <2>4. QED
    BY <1>4, <2>1, <2>3
<1>6. s[3] = p[1] /\ s[4] = p[2] /\ s[5] = p[3] /\ s[6] = p[4]
  <2>1. s[2 + 1] = p[1] /\ s[2 + 2] = p[2] /\ s[2 + 3] = p[3] /\ s[2 + 4] = p[4]
    BY <1>5
  <2>2. QED
    BY <2>1
<1>7. /\ s[1].do = "createSchedule" /\ s[2].do = "logSchedule" /\ s[3].do = "readTemplate"
      /\ s[4].do = "readContents" /\ s[5].do = "render" /\ s[6].do = "tell"
  BY <1>1, <1>4, <1>5, <1>6
<1>8. \A n \in 1..6 : n = 1 \/ n = 2 \/ n = 3 \/ n = 4 \/ n = 5 \/ n = 6
  OBVIOUS
<1>9. Words(s, Creating \cap ScheduleWords)
  <2>1. \A n \in 1..6 : s[n].do \in {"createSchedule", "logSchedule", "readTemplate", "readContents", "render", "tell"}
    BY <1>7, <1>8
  <2>2. QED
    BY <1>5, <2>1 DEF Words, Creating, Editing, ScheduleWords
<1>10. Part(s, Creating)
  <2>1. Part(s, Creating \cap ScheduleWords)
    BY <1>5, <1>9, WordsPart
  <2>2. QED
    BY <2>1 DEF Part, Words
<1>11. Before(s, 2, "createSchedule") /\ Before(s, 6, "createSchedule") /\ Before(s, 6, "logSchedule") /\ ~Before(s, 1, "logSchedule")
  <2>1. 1 \in 1..Len(s) /\ 2 \in 1..Len(s) /\ 1 < 2 /\ 1 < 6 /\ 2 < 6
    BY <1>5
  <2>2. \A m \in 1..Len(s) : ~(m < 1)
    BY <1>5
  <2>3. QED
    BY <1>7, <2>1, <2>2 DEF Before
<1>12. Ordered(s)
  <2> SUFFICES ASSUME NEW n \in 1..Len(s)
               PROVE  /\ s[n].do = "tell" => Before(s, n, "logSchedule")
                      /\ s[n].do \in {"tell", "logSchedule"} => Before(s, n, "createSchedule") \/ Before(s, n, "findSchedule")
                      /\ s[n].do = "createSchedule" => ~Before(s, n, "logSchedule")
                      /\ s[n].do \in {"addContents", "createContent"} => Before(s, n, "createTemplate")
                      /\ s[n].do = "deleteTemplate" => Before(s, n, "listContents")
                      /\ s[n].do = "listContents" => \E m \in 1..Len(s) : m < n /\ LogsDeletion(s[m])
                      /\ s[n].do \notin {"findDetail", "deleteItems"}
    BY DEF Ordered
  <2>1. n = 1 \/ n = 2 \/ n = 3 \/ n = 4 \/ n = 5 \/ n = 6
    BY <1>5, <1>8
  <2>2. QED
    BY <1>7, <1>11, <2>1
<1>13. ~Has(s, "findSchedule")
  BY <1>5, <1>7, <1>8 DEF Has
<1>14. QED
  BY <1>10, <1>12, <1>13 DEF s

LEMMA UpdateScheduleList ==
  ASSUME NEW when
  PROVE  Part(UpdateScheduleStages(when), Saving) /\ Ordered(UpdateScheduleStages(when))
<1> DEFINE a == Stage("findSchedule")
           b == Stage("setSchedule")
           c == Stage("logSchedule")
           p == PublishStages(when)
           s == UpdateScheduleStages(when)
<1>1. a.do = "findSchedule" /\ b.do = "setSchedule" /\ c.do = "logSchedule"
  BY DEF Stage
<1>2. s = <<a, b, c>> \o p
  BY DEF UpdateScheduleStages, SaveScheduleStages
<1> HIDE DEF a, b, c, s
<1>3. IsList(<<a, b, c>>) /\ Len(<<a, b, c>>) = 3 /\ <<a, b, c>>[1] = a /\ <<a, b, c>>[2] = b /\ <<a, b, c>>[3] = c
  BY ListThree
<1>4. /\ IsList(p) /\ Len(p) = 4
      /\ p[1].do = "readTemplate" /\ p[2].do = "readContents" /\ p[3].do = "render" /\ p[4].do = "tell"
  BY PublishList
<1> HIDE DEF p
<1>5. /\ IsList(s) /\ Len(s) = 7 /\ s[1] = a /\ s[2] = b /\ s[3] = c
      /\ \A n \in 1..4 : s[3 + n] = p[n]
  <2> DEFINE h == <<a, b, c>>
  <2>1. IsList(h) /\ Len(h) = 3 /\ h[1] = a /\ h[2] = b /\ h[3] = c /\ s = h \o p
    BY <1>2, <1>3
  <2> HIDE DEF h
  <2>2. IsList(h) /\ IsList(p)
    BY <1>4, <2>1
  <2>3. /\ IsList(h \o p) /\ Len(h \o p) = Len(h) + Len(p)
        /\ \A n \in 1..Len(h) : (h \o p)[n] = h[n]
        /\ \A n \in 1..Len(p) : (h \o p)[Len(h) + n] = p[n]
    BY <2>2, ListConcat
  <2>4. QED
    BY <1>4, <2>1, <2>3
<1>6. s[4] = p[1] /\ s[5] = p[2] /\ s[6] = p[3] /\ s[7] = p[4]
  <2>1. s[3 + 1] = p[1] /\ s[3 + 2] = p[2] /\ s[3 + 3] = p[3] /\ s[3 + 4] = p[4]
    BY <1>5
  <2>2. QED
    BY <2>1
<1>7. /\ s[1].do = "findSchedule" /\ s[2].do = "setSchedule" /\ s[3].do = "logSchedule" /\ s[4].do = "readTemplate"
      /\ s[5].do = "readContents" /\ s[6].do = "render" /\ s[7].do = "tell"
  BY <1>1, <1>4, <1>5, <1>6
<1>8. \A n \in 1..7 : n = 1 \/ n = 2 \/ n = 3 \/ n = 4 \/ n = 5 \/ n = 6 \/ n = 7
  OBVIOUS
<1>9. Words(s, Saving \cap ScheduleWords)
  <2>1. \A n \in 1..7 : s[n].do \in {"findSchedule", "setSchedule", "logSchedule", "readTemplate", "readContents", "render", "tell"}
    BY <1>7, <1>8
  <2>2. QED
    BY <1>5, <2>1 DEF Words, Saving, Editing, ScheduleWords
<1>10. Part(s, Saving)
  <2>1. Part(s, Saving \cap ScheduleWords)
    BY <1>5, <1>9, WordsPart
  <2>2. QED
    BY <2>1 DEF Part, Words
<1>11. Before(s, 3, "findSchedule") /\ Before(s, 7, "findSchedule") /\ Before(s, 7, "logSchedule")
  <2>1. 1 \in 1..Len(s) /\ 3 \in 1..Len(s) /\ 1 < 3 /\ 1 < 7 /\ 3 < 7
    BY <1>5
  <2>2. QED
    BY <1>7, <2>1 DEF Before
<1>12. Ordered(s)
  <2> SUFFICES ASSUME NEW n \in 1..Len(s)
               PROVE  /\ s[n].do = "tell" => Before(s, n, "logSchedule")
                      /\ s[n].do \in {"tell", "logSchedule"} => Before(s, n, "createSchedule") \/ Before(s, n, "findSchedule")
                      /\ s[n].do = "createSchedule" => ~Before(s, n, "logSchedule")
                      /\ s[n].do \in {"addContents", "createContent"} => Before(s, n, "createTemplate")
                      /\ s[n].do = "deleteTemplate" => Before(s, n, "listContents")
                      /\ s[n].do = "listContents" => \E m \in 1..Len(s) : m < n /\ LogsDeletion(s[m])
                      /\ s[n].do \notin {"findDetail", "deleteItems"}
    BY DEF Ordered
  <2>1. n = 1 \/ n = 2 \/ n = 3 \/ n = 4 \/ n = 5 \/ n = 6 \/ n = 7
    BY <1>5, <1>8
  <2>2. QED
    BY <1>7, <1>11, <2>1
<1>13. QED
  BY <1>10, <1>12 DEF s

-----------------------------------------------------------------------------
(* Requests that arrive.                                                   *)

ArrivalOK(t, s, todo) ==
  /\ TodoOK(todo) /\ Ordered(todo) /\ t \in Nat
  /\ Has(todo, "findSchedule") => s \in DOMAIN schedule

Arriving(r) == \E t, s, todo : ArrivalOK(t, s, todo) /\ Free(r) /\ Arrive(r, t, s, todo)

LEMMA CollectionIds ==
  ASSUME DocsOK
  PROVE  DOMAIN template \subseteq Nat /\ DOMAIN content \subseteq Nat
BY LenProperties DEF DocsOK

LEMMA AddTemplateArrives ==
  ASSUME NEW r \in Requests, AddTemplate(r)
  PROVE  Arriving(r)
<1> DEFINE x(type) == [do |-> "createTemplate", type |-> type]
<1>1. PICK type \in Types, drafts \in Drafts :
        Free(r) /\ Arrive(r, 0, 0, <<x(type), LogAddition, AddContentsStage(drafts)>>)
  BY DEF AddTemplate
<1> DEFINE u == x(type)
           v == LogAddition
           w == AddContentsStage(drafts)
           z == <<u, v, w>>
<1>2. drafts \in Seq(DraftContents)
  BY SignageAssumption
<1>3. /\ u.do = "createTemplate" /\ Typed(u) /\ ~Lists(u)
      /\ v.do = "logTemplate" /\ Typed(v) /\ ~Lists(v)
      /\ w.do = "addContents" /\ Typed(w) /\ ~Lists(w)
  BY <1>2 DEF LogAddition, AddContentsStage, Typed, Lists
<1>4. Arrive(r, 0, 0, z)
  BY <1>1
<1> HIDE DEF u, v, w
<1>5. IsList(z) /\ Len(z) = 3 /\ z[1] = u /\ z[2] = v /\ z[3] = w
  BY ListThree
<1> HIDE DEF z
<1>6. \A n \in 1..3 : n = 1 \/ n = 2 \/ n = 3
  OBVIOUS
<1>7. ASSUME NEW n \in 1..Len(z)
      PROVE  /\ z[n].do \in {"createTemplate", "logTemplate", "addContents"} /\ Typed(z[n]) /\ ~Lists(z[n])
             /\ z[n].do = "addContents" => n > 1
  BY <1>3, <1>5, <1>6
<1>8. Part(z, Adding)
  BY <1>5, <1>7 DEF Part, Words, Adding
<1>9. \A n \in 1..Len(z) : n > 1 => Before(z, n, "createTemplate")
  <2>1. 1 \in 1..Len(z)
    BY <1>5
  <2>2. QED
    BY <1>3, <1>5, <2>1 DEF Before
<1>10. Ordered(z)
  BY <1>7, <1>9 DEF Ordered
<1>11. ~Has(z, "findSchedule")
  BY <1>7 DEF Has
<1>12. ArrivalOK(0, 0, z)
  BY <1>8, <1>10, <1>11, PartTodo DEF ArrivalOK
<1>13. QED
  BY <1>1, <1>4, <1>12 DEF Arriving

LEMMA DeleteTemplateArrives ==
  ASSUME DocsOK, NEW r \in Requests, DeleteTemplate(r)
  PROVE  Arriving(r)
<1> DEFINE a == Stage("findTemplate")
           b == LogDeletion
           c == Stage("listContents")
           d == Stage("deleteTemplate")
           e == Stage("findNewest")
           f == Stage("deleteSchedule")
           z == <<a, b, c, d, e, f>>
<1>1. PICK t \in DOMAIN template : Free(r) /\ Arrive(r, t, 0, z)
  BY DEF DeleteTemplate
<1>2. /\ a.do = "findTemplate" /\ b.do = "logTemplate" /\ b.memo = "DELETE" /\ c.do = "listContents"
      /\ d.do = "deleteTemplate" /\ e.do = "findNewest" /\ f.do = "deleteSchedule"
  BY DEF Stage, LogDeletion
<1> HIDE DEF a, b, c, d, e, f
<1>3. IsList(z) /\ Len(z) = 6 /\ z[1] = a /\ z[2] = b /\ z[3] = c /\ z[4] = d /\ z[5] = e /\ z[6] = f
  BY ListSix
<1> HIDE DEF z
<1>4. \A n \in 1..6 : n = 1 \/ n = 2 \/ n = 3 \/ n = 4 \/ n = 5 \/ n = 6
  OBVIOUS
<1>5. /\ z[1].do = "findTemplate" /\ z[2].do = "logTemplate" /\ LogsDeletion(z[2]) /\ z[3].do = "listContents"
      /\ z[4].do = "deleteTemplate" /\ z[5].do = "findNewest" /\ z[6].do = "deleteSchedule"
  BY <1>2, <1>3 DEF LogsDeletion
<1>6. \A n \in 1..6 : z[n].do \in {"findTemplate", "logTemplate", "listContents", "deleteTemplate", "findNewest", "deleteSchedule"}
  BY <1>4, <1>5
<1>7. Part(z, Deleting)
  <2>1. \A n \in 1..6 : z[n].do \in Deleting /\ Typed(z[n]) /\ ~Lists(z[n])
    BY <1>6 DEF Deleting, Typed, Lists
  <2>2. QED
    BY <1>3, <2>1 DEF Part, Words
<1>8. 2 \in 1..Len(z) /\ 3 \in 1..Len(z) /\ 2 < 3 /\ 3 < 4
  BY <1>3
<1>9. Ordered(z)
  <2> SUFFICES ASSUME NEW n \in 1..Len(z)
               PROVE  /\ z[n].do = "tell" => Before(z, n, "logSchedule")
                      /\ z[n].do \in {"tell", "logSchedule"} => Before(z, n, "createSchedule") \/ Before(z, n, "findSchedule")
                      /\ z[n].do = "createSchedule" => ~Before(z, n, "logSchedule")
                      /\ z[n].do \in {"addContents", "createContent"} => Before(z, n, "createTemplate")
                      /\ z[n].do = "deleteTemplate" => Before(z, n, "listContents")
                      /\ z[n].do = "listContents" => \E m \in 1..Len(z) : m < n /\ LogsDeletion(z[m])
                      /\ z[n].do \notin {"findDetail", "deleteItems"}
    BY DEF Ordered
  <2>1. n = 1 \/ n = 2 \/ n = 3 \/ n = 4 \/ n = 5 \/ n = 6
    BY <1>3, <1>4
  <2>2. z[n].do = "deleteTemplate" => n = 4
    BY <1>5, <2>1
  <2>3. z[n].do = "listContents" => n = 3
    BY <1>5, <2>1
  <2>4. Before(z, 4, "listContents")
    BY <1>5, <1>8 DEF Before
  <2>5. z[n].do \in {"findTemplate", "logTemplate", "listContents", "deleteTemplate", "findNewest", "deleteSchedule"}
    BY <1>3, <1>6
  <2>6. QED
    BY <1>5, <1>8, <2>2, <2>3, <2>4, <2>5
<1>10. ~Has(z, "findSchedule")
  BY <1>3, <1>6 DEF Has
<1>11. TodoOK(z)
  BY <1>7, PartTodo
<1>12. ArrivalOK(t, 0, z)
  BY <1>9, <1>10, <1>11, CollectionIds DEF ArrivalOK
<1>13. QED
  BY <1>1, <1>12 DEF Arriving

LEMMA OneStageArrives ==
  ASSUME DocsOK, NEW r \in Requests, UpdateTemplate(r) \/ DeleteTemplateSchedule(r)
  PROVE  Arriving(r)
<1>1. ASSUME NEW x, NEW F \in {Deleting, Creating}, x.do \in {"setTemplate", "deleteSchedule"}, x.do \in F, Typed(x), ~Lists(x),
             NEW t \in Nat, NEW s, Free(r), Arrive(r, t, s, <<x>>)
      PROVE  Arriving(r)
  <2> DEFINE z == <<x>>
  <2>1. IsList(z) /\ Len(z) = 1 /\ z[1] = x
    BY ListOne
  <2>2. TodoOK(z)
    BY <1>1, PartOne, PartTodo
  <2> HIDE DEF z
  <2>3. \A n \in 1..1 : n = 1
    OBVIOUS
  <2>4. \A n \in 1..Len(z) : z[n].do \in {"setTemplate", "deleteSchedule"}
    BY <1>1, <2>1, <2>3
  <2>5. Ordered(z)
    BY <2>4, OrderedAlone DEF Words
  <2>6. ~Has(z, "findSchedule")
    BY <2>4 DEF Has
  <2>7. ArrivalOK(t, s, z)
    BY <2>2, <2>5, <2>6 DEF ArrivalOK
  <2>8. QED
    BY <1>1, <2>7 DEF Arriving, z
<1>2. CASE UpdateTemplate(r)
  <2>1. PICK t \in DOMAIN template, type \in Types : Free(r) /\ Arrive(r, t, 0, <<[do |-> "setTemplate", type |-> type]>>)
    BY <1>2 DEF UpdateTemplate
  <2> DEFINE x == [do |-> "setTemplate", type |-> type]
  <2>2. x.do = "setTemplate" /\ x.do \in Creating /\ Typed(x) /\ ~Lists(x)
    BY DEF Creating, Editing, Typed, Lists
  <2>3. t \in Nat
    BY CollectionIds
  <2> HIDE DEF x
  <2>4. Arrive(r, t, 0, <<x>>)
    BY <2>1 DEF x
  <2>5. QED
    BY <1>1, <2>1, <2>2, <2>3, <2>4
<1>3. CASE DeleteTemplateSchedule(r)
  <2> DEFINE x == Stage("deleteSchedule")
  <2>1. PICK s \in DOMAIN schedule : Free(r) /\ Arrive(r, 0, s, <<x>>)
    BY <1>3 DEF DeleteTemplateSchedule
  <2>2. x.do = "deleteSchedule" /\ x.do \in Deleting /\ Typed(x) /\ ~Lists(x)
    BY DEF Stage, Deleting, Typed, Lists
  <2> HIDE DEF x
  <2>3. QED
    BY <1>1, <2>1, <2>2
<1>4. QED
  BY <1>2, <1>3

LEMMA EditsList ==
  ASSUME DocsOK, NEW edits \in Edits
  PROVE  edits \in Seq(EditedContents)
<1>0. PICK changes \in Changes : \E cs \in [DOMAIN changes -> DOMAIN content] :
        edits = [k \in DOMAIN changes |-> [content |-> cs[k], change |-> changes[k]]]
  BY DEF Edits
<1>1. PICK cs \in [DOMAIN changes -> DOMAIN content] :
        edits = [k \in DOMAIN changes |-> [content |-> cs[k], change |-> changes[k]]]
  BY <1>0
<1>2. changes \in Seq(ChangedContents)
  BY SignageAssumption
<1>3. Len(changes) \in Nat /\ DOMAIN changes = 1..Len(changes) /\ \A k \in 1..Len(changes) : changes[k] \in ChangedContents
  BY <1>2
<1>4. \A k \in 1..Len(changes) : cs[k] \in Nat
  BY <1>1, <1>3, CollectionIds
<1>5. edits \in [1..Len(changes) -> EditedContents]
  BY <1>1, <1>3, <1>4 DEF EditedContents
<1>6. QED
  BY <1>3, <1>5, SeqDef

LEMMA UpdateContentArrives ==
  ASSUME DocsOK, NEW r \in Requests, UpdateTemplateContent(r)
  PROVE  Arriving(r)
<1>1. PICK edits \in Edits : Free(r) /\ Arrive(r, 0, 0, <<UpdateContentsStage(edits)>>)
  BY DEF UpdateTemplateContent
<1> DEFINE z == <<UpdateContentsStage(edits)>>
<1>2. Part(z, UpdateWords)
  BY EditsList, UpdateContentsPart
<1> HIDE DEF z
<1>3. TodoOK(z)
  <2>1. Part(z, Creating)
    BY <1>2 DEF Part, Words, UpdateWords, Creating, Editing
  <2>2. QED
    BY <2>1, PartTodo
<1>4. Ordered(z)
  BY <1>2, OrderedAlone DEF Part, Words
<1>5. ~Has(z, "findSchedule")
  BY <1>2 DEF Part, Words, Has, UpdateWords
<1>6. ArrivalOK(0, 0, z)
  BY <1>3, <1>4, <1>5 DEF ArrivalOK
<1>7. QED
  BY <1>1, <1>6 DEF Arriving, z

LEMMA ScheduleArrives ==
  ASSUME DocsOK, NEW r \in Requests, AddTemplateSchedule(r) \/ UpdateTemplateSchedule(r)
  PROVE  Arriving(r)
<1>1. CASE AddTemplateSchedule(r)
  <2>1. PICK t \in DOMAIN template, when \in Calendars : Free(r) /\ Arrive(r, t, 0, AddScheduleStages(when))
    BY <1>1 DEF AddTemplateSchedule
  <2> DEFINE z == AddScheduleStages(when)
  <2>2. Part(z, Creating) /\ Ordered(z) /\ ~Has(z, "findSchedule")
    BY AddScheduleList
  <2> HIDE DEF z
  <2>3. ArrivalOK(t, 0, z)
    BY <2>2, PartTodo, CollectionIds DEF ArrivalOK
  <2>4. QED
    BY <2>1, <2>3 DEF Arriving, z
<1>2. CASE UpdateTemplateSchedule(r)
  <2>1. PICK s \in DOMAIN schedule, t \in DOMAIN template, when \in Calendars :
          Free(r) /\ Arrive(r, t, s, UpdateScheduleStages(when))
    BY <1>2 DEF UpdateTemplateSchedule
  <2> DEFINE z == UpdateScheduleStages(when)
  <2>2. Part(z, Saving) /\ Ordered(z)
    BY UpdateScheduleList
  <2> HIDE DEF z
  <2>3. ArrivalOK(t, s, z)
    BY <2>2, PartTodo, CollectionIds DEF ArrivalOK
  <2>4. QED
    BY <2>1, <2>3 DEF Arriving, z
<1>3. QED
  BY <1>1, <1>2

LEMMA ContentAndSchedule ==
  ASSUME DocsOK, NEW edits \in Edits, NEW F \in {Creating, Saving}, NEW b, Part(b, F), Ordered(b)
  PROVE  /\ TodoOK(<<UpdateContentsStage(edits)>> \o b) /\ Ordered(<<UpdateContentsStage(edits)>> \o b)
         /\ ~Has(b, "findSchedule") => ~Has(<<UpdateContentsStage(edits)>> \o b, "findSchedule")
<1> DEFINE a == <<UpdateContentsStage(edits)>>
<1>1. Part(a, UpdateWords)
  BY EditsList, UpdateContentsPart
<1> HIDE DEF a
<1>2. Part(a, F)
  BY <1>1 DEF Part, Words, UpdateWords, Creating, Saving, Editing
<1>3. TodoOK(a \o b)
  BY <1>2, PartConcat, PartTodo
<1>4. IsList(a) /\ IsList(b) /\ Words(a, UpdateWords) /\ Len(a) \in Nat /\ Len(b) \in Nat
  BY <1>1, ListFacts DEF Part
<1>5. Ordered(a \o b)
  BY <1>4, OrderedAhead
<1>6. ASSUME ~Has(b, "findSchedule") PROVE ~Has(a \o b, "findSchedule")
  <2> SUFFICES ASSUME NEW n \in 1..Len(a \o b) PROVE (a \o b)[n].do # "findSchedule"
    BY DEF Has
  <2>1. /\ Len(a \o b) = Len(a) + Len(b)
        /\ \A m \in 1..Len(a) : (a \o b)[m] = a[m]
        /\ \A m \in 1..(Len(a) + Len(b)) : m > Len(a) => (a \o b)[m] = b[m - Len(a)] /\ m - Len(a) \in 1..Len(b)
    BY <1>4, ListConcat
  <2>2. CASE n \in 1..Len(a)
    BY <1>4, <2>1, <2>2 DEF Words, UpdateWords
  <2>3. CASE n \notin 1..Len(a)
    <3>1. (a \o b)[n] = b[n - Len(a)] /\ n - Len(a) \in 1..Len(b)
      BY <1>4, <2>1, <2>3
    <3>2. QED
      BY <1>6, <3>1 DEF Has
  <2>4. QED
    BY <2>2, <2>3
<1>7. QED
  BY <1>3, <1>5, <1>6 DEF a

LEMMA ContentAndScheduleArrive ==
  ASSUME DocsOK, NEW r \in Requests,
         UpdateTemplateContentAndAddSchedule(r) \/ UpdateTemplateContentAndUpdateSchedule(r)
  PROVE  Arriving(r)
<1>1. CASE UpdateTemplateContentAndAddSchedule(r)
  <2>1. PICK t \in DOMAIN template, edits \in Edits, when \in Calendars :
          Free(r) /\ Arrive(r, t, 0, <<UpdateContentsStage(edits)>> \o AddScheduleStages(when))
    BY <1>1 DEF UpdateTemplateContentAndAddSchedule
  <2> DEFINE z == <<UpdateContentsStage(edits)>> \o AddScheduleStages(when)
  <2>2. TodoOK(z) /\ Ordered(z) /\ ~Has(z, "findSchedule")
    BY AddScheduleList, ContentAndSchedule
  <2> HIDE DEF z
  <2>3. ArrivalOK(t, 0, z)
    BY <2>2, CollectionIds DEF ArrivalOK
  <2>4. QED
    BY <2>1, <2>3 DEF Arriving, z
<1>2. CASE UpdateTemplateContentAndUpdateSchedule(r)
  <2>1. PICK s \in DOMAIN schedule, t \in DOMAIN template, edits \in Edits, when \in Calendars :
          Free(r) /\ Arrive(r, t, s, <<UpdateContentsStage(edits)>> \o UpdateScheduleStages(when))
    BY <1>2 DEF UpdateTemplateContentAndUpdateSchedule
  <2> DEFINE z == <<UpdateContentsStage(edits)>> \o UpdateScheduleStages(when)
  <2>2. TodoOK(z) /\ Ordered(z)
    BY UpdateScheduleList, ContentAndSchedule
  <2> HIDE DEF z
  <2>3. ArrivalOK(t, s, z)
    BY <2>2, CollectionIds DEF ArrivalOK
  <2>4. QED
    BY <2>1, <2>3 DEF Arriving, z
<1>3. QED
  BY <1>1, <1>2

\* Every request that arrives.
Request(r) ==
  \/ AddTemplate(r) \/ DeleteTemplate(r) \/ UpdateTemplate(r) \/ UpdateTemplateContent(r)
  \/ AddTemplateSchedule(r) \/ UpdateTemplateSchedule(r) \/ DeleteTemplateSchedule(r)
  \/ UpdateTemplateContentAndAddSchedule(r) \/ UpdateTemplateContentAndUpdateSchedule(r)

LEMMA RequestArrives ==
  ASSUME DocsOK, NEW r \in Requests, Request(r)
  PROVE  Arriving(r)
BY AddTemplateArrives, DeleteTemplateArrives, OneStageArrives, UpdateContentArrives, ScheduleArrives,
   ContentAndScheduleArrive DEF Request

\* The handler of a request that arrives.
Started(r) == 
  LET q == request'[r]
  IN  /\ Others(r) /\ JobOK(q) /\ Ordered(q.todo)
      /\ q.c = 0 /\ q.made = {} /\ q.found = TRUE
      /\ Has(q.todo, "findSchedule") => q.s \in DOMAIN schedule
      /\ overlap \/ \A x \in Requests : request[x] = Idle

LEMMA ArrivalStarts ==
  ASSUME TypeInv, NEW r \in Requests, Request(r)
  PROVE  /\ TypeInv' /\ Started(r)
         /\ DocsUnchanged /\ UNCHANGED <<group, image, log, logged, page, writing, cms, overlap>>
<1>1. PICK t, s, todo : ArrivalOK(t, s, todo) /\ Free(r) /\ Arrive(r, t, s, todo)
  BY RequestArrives DEF TypeInv, Arriving
<1> DEFINE q == [todo |-> todo, t |-> t, s |-> s, c |-> 0, made |-> {}, found |-> TRUE, got |-> {}]
<1>2. request' = [request EXCEPT ![r] = q]
  BY <1>1 DEF Arrive
<1>3. /\ q.todo = todo /\ q.t = t /\ q.s = s /\ q.c = 0 /\ q.made = {} /\ q.found = TRUE
      /\ q = [f \in Fields |-> q[f]]
  BY DEF Fields
<1> HIDE DEF q
<1>4. JobOK(q)
  <2>1. TodoOK(q.todo) /\ q.t \in Nat
    BY <1>1, <1>3 DEF ArrivalOK
  <2>2. q.c \in Nat /\ q.made \subseteq Nat
    BY <1>3
  <2>3. q.found \in BOOLEAN
    BY <1>3
  <2>4. QED
    BY <1>3, <2>1, <2>2, <2>3 DEF JobOK
<1>5. RequestsOK' /\ Others(r) /\ request'[r] = q
  BY <1>2, <1>4, NowFields DEF TypeInv
<1>6. DocsOK' /\ DocsUnchanged /\ UNCHANGED <<group, image, log, logged, page, writing, cms, overlap>>
  BY <1>1 DEF Arrive, DocsUnchanged, TypeInv, DocsOK
<1>7. Started(r)
  BY <1>1, <1>3, <1>4, <1>5 DEF Started, ArrivalOK, Free
<1>8. QED
  BY <1>5, <1>6, <1>7 DEF TypeInv

-----------------------------------------------------------------------------
(* Steps keep requests and collections typed.                              *)

LEMMA HandlerType ==
  ASSUME TypeInv, NEW r \in Requests, Handle(r)
  PROVE  TypeInv' /\ Others(r) /\ request[r].todo # <<>>
<1>1. RequestsOK
  BY DEF TypeInv
<1>2. CASE CreateTemplate(r)
  BY <1>1, <1>2, CreateTemplateMoves, CreateTemplateDocs DEF TypeInv, CreateTemplate, At
<1>3. CASE CreateContent(r)
  BY <1>1, <1>3, CreateContentMoves, CreateContentDocs DEF TypeInv, CreateContent, At
<1>4. CASE CreateItem(r)
  BY <1>1, <1>4, CreateItemMoves, CreateItemDocs DEF TypeInv, CreateItem, At
<1>5. CASE Plain(r)
  <2>1. RequestsOK' /\ Others(r)
    BY <1>1, <1>5, PlainMoved
  <2>2. DocsOK'
    <3>1. CASE DocsUnchanged
      BY <3>1 DEF DocsUnchanged, TypeInv, DocsOK
    <3>2. CASE AddDetail(r) \/ SetTemplate(r) \/ SetContent(r) \/ SetDetail(r)
      BY <3>2, AddDetailDocs, SetTemplateDocs, SetContentDocs, SetDetailDocs
    <3>3. CASE DeleteItems(r) \/ DeleteDetail(r) \/ DeleteContent(r) \/ DropTemplate(r)
      BY <3>3, DeleteItemsDocs, DeleteDetailDocs, DeleteContentDocs, DropTemplateDocs
    <3>4. CASE DropSchedule(r) \/ SetSchedule(r)
      BY <3>4, ScheduleDocs
    <3>5. CASE LogTemplate(r) \/ FindTemplate(r) \/ LogSchedule(r) \/ ReadTemplate(r) \/ Render(r) \/ Tell(r)
      BY <3>1, <3>5 DEF LogTemplate, FindTemplate, LogSchedule, ReadTemplate, Render, Tell
    <3>6. QED
      BY <1>5, <3>2, <3>3, <3>4, <3>5 DEF Plain
  <2>3. request[r].todo # <<>>
    BY <1>5 DEF Plain, LogTemplate, AddDetail, SetTemplate, SetContent, SetDetail, FindTemplate, DeleteItems,
           DeleteDetail, DeleteContent, DropTemplate, DropSchedule, SetSchedule, LogSchedule, ReadTemplate,
           Render, Tell, At
  <2>4. QED
    BY <2>1, <2>2, <2>3 DEF TypeInv
<1>6. CASE CreateSchedule(r)
  BY <1>1, <1>6, CreateScheduleMoves, ScheduleDocs DEF TypeInv, CreateSchedule, At
<1>7. CASE FindNewest(r) \/ FindSchedule(r) \/ ReadShown(r)
  <2>1. RequestsOK' /\ Others(r)
    BY <1>1, <1>7, FindNewestMoves, FindScheduleMoves, ReadShownMoves
  <2>2. DocsUnchanged /\ request[r].todo # <<>>
    BY <1>7 DEF FindNewest, FindSchedule, ReadShown, At
  <2>3. QED
    BY <2>1, <2>2 DEF DocsUnchanged, TypeInv, DocsOK
<1>8. CASE ListContents(r) \/ FindDetail(r) \/ ReadContents(r) \/ AddContents(r) \/ UpdateContents(r)
  <2>1. RequestsOK' /\ Others(r)
    BY <1>8, ListContentsMoves, FindDetailMoves, ReadContentsMoves, AddContentsMoves, UpdateContentsMoves
  <2>2. DocsUnchanged /\ request[r].todo # <<>>
    BY <1>8 DEF ListContents, FindDetail, ReadContents, AddContents, UpdateContents, At
  <2>3. QED
    BY <2>1, <2>2 DEF DocsUnchanged, TypeInv, DocsOK
<1>9. QED
  BY <1>2, <1>3, <1>4, <1>5, <1>6, <1>7, <1>8 DEF Handle, Plain

\* A page is written, or an image or the group deleted.
Outside ==
  \/ \E w \in writing : Written(w)
  \/ \E m \in Images : DeleteImage(m)
  \/ DeleteGroup

LEMMA OutsideFrame ==
  ASSUME Outside
  PROVE  DocsUnchanged /\ UNCHANGED <<log, logged, cms, request, overlap>>
BY DEF Outside, Written, DeleteImage, DeleteGroup

LEMMA RestartFrame ==
  ASSUME Restart
  PROVE  /\ DocsUnchanged /\ UNCHANGED <<log, logged, cms, overlap>>
         /\ request' = [r \in Requests |-> Idle]
BY DEF Restart

LEMMA Steps ==
  ASSUME Next
  PROVE  Outside \/ Restart \/ \E r \in Requests : Request(r) \/ Handle(r)
BY DEF Next, Outside, Request

LEMMA InitType == ASSUME Init PROVE TypeInv
<1>1. RequestsOK
  BY DEF Init, RequestsOK
<1>2. IsList(<<>>)
  BY ListEmpty
<1>3. QED
  BY <1>1, <1>2 DEF Init, TypeInv, DocsOK

LEMMA NextType ==
  ASSUME TypeInv, [Next]_vars
  PROVE  TypeInv'
<1>1. CASE Outside
  BY <1>1, OutsideFrame DEF TypeInv, RequestsOK, DocsOK, DocsUnchanged
<1>2. CASE Restart
  BY <1>2, RestartFrame DEF TypeInv, RequestsOK, DocsOK, DocsUnchanged
<1>3. CASE \E r \in Requests : Request(r)
  BY <1>3, ArrivalStarts
<1>4. CASE \E r \in Requests : Handle(r)
  BY <1>4, HandlerType
<1>5. CASE UNCHANGED vars
  BY <1>5 DEF vars, TypeInv, RequestsOK, DocsOK
<1>6. QED
  BY <1>1, <1>2, <1>3, <1>4, <1>5, Steps

-----------------------------------------------------------------------------
(* Where the stages of a list are found in what it becomes.                *)

LEMMA AheadBack ==
  ASSUME NEW s, IsList(s), s # <<>>, NEW p, NEW k \in Nat, NEW F, Ahead(p, s, k, F), NEW n \in 1..Len(p), p[n].do \notin F
  PROVE  n > k /\ n - k + 1 \in 2..Len(s) /\ n - k + 1 \in 1..Len(s) /\ p[n] = s[n - k + 1]
<1>1. Len(s) \in Nat /\ Len(s) >= 1 /\ Len(p) = k + Len(s) - 1
  BY ListTail, ListFacts DEF Ahead
<1>2. n > k
  BY <1>1 DEF Ahead
<1>3. p[n] = s[n - k + 1] /\ n - k + 1 \in 2..Len(s)
  BY <1>2 DEF Ahead
<1>4. QED
  BY <1>1, <1>2, <1>3

LEMMA AheadOn ==
  ASSUME NEW s, IsList(s), s # <<>>, NEW p, NEW k \in Nat, NEW F, Ahead(p, s, k, F), NEW m \in 2..Len(s)
  PROVE  m + k - 1 \in 1..Len(p) /\ m + k - 1 > k /\ p[m + k - 1] = s[m]
<1>1. Len(s) \in Nat /\ Len(s) >= 1 /\ Len(p) = k + Len(s) - 1
  BY ListTail, ListFacts DEF Ahead
<1>2. m + k - 1 \in 1..Len(p) /\ m + k - 1 > k /\ (m + k - 1) - k + 1 = m
  BY <1>1
<1>3. p[m + k - 1] = s[(m + k - 1) - k + 1]
  BY <1>2 DEF Ahead
<1>4. QED
  BY <1>2, <1>3

LEMMA AheadHas ==
  ASSUME NEW s, IsList(s), s # <<>>, NEW p, NEW k \in Nat, NEW F, Ahead(p, s, k, F),
         NEW name, name \notin F, Has(p, name)
  PROVE  Has(s, name)
<1>1. PICK n \in 1..Len(p) : p[n].do = name
  BY DEF Has
<1>2. n - k + 1 \in 1..Len(s) /\ p[n] = s[n - k + 1]
  BY <1>1, AheadBack
<1>3. QED
  BY <1>1, <1>2 DEF Has

\* What comes before a stage still does, unless it was the stage just done.
LEMMA AheadBefore ==
  ASSUME NEW s, IsList(s), s # <<>>, NEW p, NEW k \in Nat, NEW F, Ahead(p, s, k, F),
         NEW n \in 1..Len(p), n > k, NEW name, Before(s, n - k + 1, name), s[1].do # name
  PROVE  Before(p, n, name)
<1>1. PICK m \in 1..Len(s) : m < n - k + 1 /\ s[m].do = name
  BY DEF Before
<1>2. Len(s) \in Nat /\ Len(s) >= 1 /\ Len(p) = k + Len(s) - 1
  BY ListTail, ListFacts DEF Ahead
<1>3. m \in 2..Len(s) /\ m + k - 1 < n
  <2>1. m # 1
    BY <1>1
  <2>2. QED
    BY <1>1, <1>2, <2>1
<1>4. m + k - 1 \in 1..Len(p) /\ p[m + k - 1] = s[m]
  BY <1>3, AheadOn
<1>5. QED
  BY <1>1, <1>3, <1>4 DEF Before

LEMMA AheadBeforeBack ==
  ASSUME NEW s, IsList(s), s # <<>>, NEW p, NEW k \in Nat, NEW F, Ahead(p, s, k, F),
         NEW n \in 1..Len(p), n > k, NEW name, name \notin F, Before(p, n, name)
  PROVE  Before(s, n - k + 1, name)
<1>1. PICK m \in 1..Len(p) : m < n /\ p[m].do = name
  BY DEF Before
<1>2. m - k + 1 \in 1..Len(s) /\ p[m] = s[m - k + 1]
  BY <1>1, AheadBack
<1>3. Len(s) \in Nat /\ Len(s) >= 1 /\ Len(p) = k + Len(s) - 1
  BY ListTail, ListFacts DEF Ahead
<1>4. m - k + 1 < n - k + 1
  BY <1>1, <1>3
<1>5. QED
  BY <1>1, <1>2, <1>4 DEF Before

InsertedNames == {"findDetail", "readShown"} \cup Removing \cup AddWords \cup UpdateWords

\* Which fields a handler changes, and which stages it puts before those left.
LEMMA HandlerMoves ==
  ASSUME TypeInv, NEW r \in Requests, Handle(r)
  PROVE  \E F \in SUBSET InsertedNames, f \in Fields :
           /\ Moved(r, F, f)
           /\ f = "t" => CreateTemplate(r)
           /\ f = "c" => CreateContent(r)
           /\ f = "made" => CreateItem(r)
           /\ f \in {"s", "found"} => CreateSchedule(r) \/ FindNewest(r) \/ FindSchedule(r)
           /\ \/ F = {} \/ F = {"readShown"}
              \/ F = AddWords /\ AddContents(r)
              \/ F = UpdateWords /\ UpdateContents(r)
              \/ F = {"findDetail"} /\ ListContents(r)
              \/ F = Removing /\ FindDetail(r)
<1>1. RequestsOK /\ request[r].todo # <<>>
  BY HandlerType DEF TypeInv
<1>2. "todo" \in Fields /\ "t" \in Fields /\ "c" \in Fields /\ "made" \in Fields /\ "s" \in Fields /\ "found" \in Fields
      /\ "got" \in Fields
  BY DEF Fields
<1>3. CASE Plain(r)
  <2>1. Moved(r, {}, "todo")
    BY <1>1, <1>3, PlainMoved
  <2>2. QED
    BY <1>2, <2>1
<1>4. CASE ListContents(r)
  <2>1. Moved(r, {"findDetail"}, "todo") /\ {"findDetail"} \in SUBSET InsertedNames
    BY <1>4, ListContentsMoves DEF InsertedNames
  <2>2. QED
    BY <1>2, <1>4, <2>1
<1>5. CASE FindDetail(r)
  <2>1. Moved(r, Removing, "todo") /\ Removing \in SUBSET InsertedNames
    BY <1>5, FindDetailMoves DEF InsertedNames
  <2>2. QED
    BY <1>2, <1>5, <2>1
<1>6. CASE ReadContents(r)
  <2>1. Moved(r, {"readShown"}, "todo") /\ {"readShown"} \in SUBSET InsertedNames
    BY <1>6, ReadContentsMoves DEF InsertedNames
  <2>2. QED
    BY <1>2, <2>1
<1>7. ASSUME NEW f \in Fields, f # "todo", NEW v,
             request'[r] = Idle \/ (JobOK(request'[r]) /\ request'[r] = Changed(request[r], Tail(request[r].todo), f, v))
      PROVE  Moved(r, {}, f)
  <2>1. CASE request'[r] = Idle
    BY <2>1 DEF Moved
  <2>2. CASE request'[r] # Idle
    BY <1>1, <1>7, <2>2, ChangedMoved
  <2>3. QED
    BY <2>1, <2>2
<1>8. CASE CreateTemplate(r)
  <2>1. Moved(r, {}, "t")
    BY <1>2, <1>7, <1>8, CreateTemplateMoves DEF TypeInv
  <2>2. QED
    BY <1>2, <1>8, <2>1
<1>9. CASE CreateContent(r)
  <2>1. Moved(r, {}, "c")
    BY <1>2, <1>7, <1>9, CreateContentMoves DEF TypeInv
  <2>2. QED
    BY <1>2, <1>9, <2>1
<1>10. CASE CreateItem(r)
  <2>1. Moved(r, {}, "made")
    BY <1>2, <1>7, <1>10, CreateItemMoves DEF TypeInv
  <2>2. QED
    BY <1>2, <1>10, <2>1
<1>11. CASE CreateSchedule(r)
  <2>1. Moved(r, {}, "s")
    BY <1>1, <1>2, <1>7, <1>11, CreateScheduleMoves
  <2>2. QED
    BY <1>2, <1>11, <2>1
<1>12. CASE FindNewest(r)
  <2>1. Moved(r, {}, "s")
    BY <1>1, <1>2, <1>7, <1>12, FindNewestMoves
  <2>2. QED
    BY <1>2, <1>12, <2>1
<1>13. CASE FindSchedule(r)
  <2>1. Moved(r, {}, "found")
    BY <1>1, <1>2, <1>7, <1>13, FindScheduleMoves
  <2>2. QED
    BY <1>2, <1>13, <2>1
<1>14. CASE ReadShown(r)
  <2>1. Moved(r, {}, "got")
    BY <1>1, <1>2, <1>7, <1>14, ReadShownMoves
  <2>2. QED
    BY <1>2, <2>1
<1>15. CASE AddContents(r)
  <2>1. Moved(r, AddWords, "todo") /\ AddWords \in SUBSET InsertedNames
    BY <1>15, AddContentsMoves DEF InsertedNames
  <2>2. QED
    BY <1>2, <1>15, <2>1
<1>16. CASE UpdateContents(r)
  <2>1. Moved(r, UpdateWords, "todo") /\ UpdateWords \in SUBSET InsertedNames
    BY <1>16, UpdateContentsMoves DEF InsertedNames
  <2>2. QED
    BY <1>2, <1>16, <2>1
<1>17. QED
  BY <1>3, <1>4, <1>5, <1>6, <1>8, <1>9, <1>10, <1>11, <1>12, <1>13, <1>14, <1>15, <1>16 DEF Handle, Plain

-----------------------------------------------------------------------------
(* PublishedAreLogged.                                                     *)

\* Schedules are never taken back after a deletion, nor are their logs.
Grow(docs, ids, docs2, ids2) ==
  /\ DOMAIN docs \subseteq DOMAIN docs2
  /\ \A s \in DOMAIN docs : Exists(docs2, s) => Exists(docs, s)
  /\ ids \subseteq ids2

SchedulesGrow == Grow(schedule, logged, schedule', logged')

LEMMA ScheduleJobStays ==
  ASSUME NEW docs, NEW ids, NEW docs2, NEW ids2, Grow(docs, ids, docs2, ids2),
         NEW q, ScheduleJob(q, docs, ids)
  PROVE  ScheduleJob(q, docs2, ids2)
<1>1. ~q.found => q.s \in DOMAIN docs2 /\ ~Exists(docs2, q.s)
  BY DEF Grow, ScheduleJob
<1>2. Has(q.todo, "findSchedule") => q.s \in DOMAIN docs2
  BY DEF Grow, ScheduleJob
<1>3. Settled(q.s, docs, ids) => Settled(q.s, docs2, ids2)
  BY DEF Grow, Settled
<1>4. \A n \in 1..Len(q.todo) :
        q.todo[n].do = "tell" =>
          \/ Settled(q.s, docs2, ids2) /\ ~Has(q.todo, "createSchedule")
          \/ Before(q.todo, n, "logSchedule")
  BY <1>3 DEF ScheduleJob
<1>5. \A n \in 1..Len(q.todo) :
        q.todo[n].do \in {"tell", "logSchedule"} =>
          (q.s \in DOMAIN docs2 \/ Before(q.todo, n, "createSchedule"))
  BY DEF Grow, ScheduleJob
<1>6. QED
  BY <1>1, <1>2, <1>4, <1>5 DEF ScheduleJob

ScheduleNames == {"createSchedule", "findNewest", "findSchedule", "tell", "logSchedule"}

\* Going on with a stage that is not about schedules.
LEMMA ScheduleJobMoves ==
  ASSUME NEW docs, NEW ids, NEW q, IsList(q.todo), q.todo # <<>>, ScheduleJob(q, docs, ids),
         NEW p, p.s = q.s, p.found = q.found,
         NEW k \in Nat, NEW F, Ahead(p.todo, q.todo, k, F), F \cap ScheduleNames = {},
         q.todo[1].do \notin {"createSchedule", "logSchedule"}
  PROVE  ScheduleJob(p, docs, ids)
<1> DEFINE s == q.todo
           z == p.todo
<1>1. \A name \in ScheduleNames : name \notin F
  OBVIOUS
<1> HIDE DEF s, z
<1>2. IsList(s) /\ s # <<>> /\ Ahead(z, s, k, F) /\ s[1].do # "createSchedule" /\ s[1].do # "logSchedule"
  BY DEF s, z
<1>3. ASSUME NEW name \in ScheduleNames, Has(z, name) PROVE Has(s, name)
  BY <1>1, <1>2, <1>3, AheadHas
<1>4. ASSUME NEW n \in 1..Len(z), z[n].do \in ScheduleNames
      PROVE  /\ n > k /\ n - k + 1 \in 1..Len(s) /\ z[n] = s[n - k + 1]
             /\ \A name \in {"createSchedule", "logSchedule"} : Before(z, n, name) <=> Before(s, n - k + 1, name)
  <2>1. n > k /\ n - k + 1 \in 1..Len(s) /\ z[n] = s[n - k + 1]
    BY <1>1, <1>2, <1>4, AheadBack
  <2>2. ASSUME NEW name \in {"createSchedule", "logSchedule"}, Before(s, n - k + 1, name) PROVE Before(z, n, name)
    BY <1>2, <2>1, <2>2, AheadBefore
  <2>3. ASSUME NEW name \in {"createSchedule", "logSchedule"}, Before(z, n, name) PROVE Before(s, n - k + 1, name)
    <3>1. name \notin F
      BY <1>1 DEF ScheduleNames
    <3>2. QED
      BY <1>2, <2>1, <2>3, <3>1, AheadBeforeBack
  <2>4. QED
    BY <2>1, <2>2, <2>3
<1>5. /\ "createSchedule" \in ScheduleNames /\ "findNewest" \in ScheduleNames /\ "findSchedule" \in ScheduleNames
      /\ "tell" \in ScheduleNames /\ "logSchedule" \in ScheduleNames
  BY DEF ScheduleNames
<1>6. (Has(z, "createSchedule") \/ Has(z, "findNewest")) => q.found
  BY <1>3, <1>5 DEF ScheduleJob, s
<1>7. Has(z, "findSchedule") => q.s \in DOMAIN docs
  BY <1>3, <1>5 DEF ScheduleJob, s
<1>8. ASSUME NEW n \in 1..Len(z), z[n].do = "tell"
      PROVE  (Settled(q.s, docs, ids) /\ ~Has(z, "createSchedule")) \/ Before(z, n, "logSchedule")
  <2>1. (Settled(q.s, docs, ids) /\ ~Has(s, "createSchedule")) \/ Before(s, n - k + 1, "logSchedule")
    BY <1>4, <1>5, <1>8 DEF ScheduleJob, s
  <2>2. QED
    BY <1>3, <1>4, <1>5, <1>8, <2>1
<1>9. ASSUME NEW n \in 1..Len(z), z[n].do \in {"tell", "logSchedule"}
      PROVE  q.s \in DOMAIN docs \/ Before(z, n, "createSchedule")
  <2>1. q.s \in DOMAIN docs \/ Before(s, n - k + 1, "createSchedule")
    BY <1>4, <1>5, <1>9 DEF ScheduleJob, s
  <2>2. QED
    BY <1>4, <1>5, <1>9, <2>1
<1>10. ASSUME NEW n \in 1..Len(z), z[n].do = "createSchedule" PROVE ~Before(z, n, "logSchedule")
  <2>1. ~Before(s, n - k + 1, "logSchedule")
    BY <1>4, <1>5, <1>10 DEF ScheduleJob, s
  <2>2. QED
    BY <1>4, <1>5, <1>10, <2>1
<1>11. ~q.found => q.s \in DOMAIN docs /\ ~Exists(docs, q.s)
  BY DEF ScheduleJob
<1>12. QED
  BY <1>6, <1>7, <1>8, <1>9, <1>10, <1>11 DEF ScheduleJob, z

\* The requests that a step leaves alone, and what the CMS was told.
LEMMA SchedulesFrame ==
  ASSUME SchedulesInv, SchedulesGrow, NEW r \in Requests, Others(r),
         request'[r] # Idle => ScheduleJob(request'[r], schedule', logged'),
         \A p \in cms' : p \in cms \/ Settled(p.schedule, schedule', logged')
  PROVE  SchedulesInv'
<1>1. ASSUME NEW x \in Requests, request'[x] # Idle PROVE ScheduleJob(request'[x], schedule', logged')
  <2>1. CASE x = r
    BY <1>1, <2>1
  <2>2. CASE x # r
    <3>1. request'[x] = request[x] /\ ScheduleJob(request[x], schedule, logged)
      BY <1>1, <2>2 DEF Others, SchedulesInv
    <3>2. QED
      BY <3>1, ScheduleJobStays DEF SchedulesGrow
  <2>3. QED
    BY <2>1, <2>2
<1>2. \A p \in cms : Settled(p.schedule, schedule', logged')
  BY DEF SchedulesInv, SchedulesGrow, Grow, Settled
<1>3. QED
  BY <1>1, <1>2 DEF SchedulesInv

LEMMA SchedulesMoved ==
  ASSUME RequestsOK, SchedulesInv, NEW r \in Requests, request[r].todo # <<>>, Others(r),
         NEW F, F \cap ScheduleNames = {}, NEW f \in Fields \ {"s", "found"}, Moved(r, F, f),
         request[r].todo[1].do \notin {"createSchedule", "logSchedule"},
         SchedulesGrow, \A p \in cms' : p \in cms \/ Settled(p.schedule, schedule', logged')
  PROVE  SchedulesInv'
<1>1. ASSUME request'[r] # Idle PROVE ScheduleJob(request'[r], schedule', logged')
  <2>1. IsList(request[r].todo) /\ request[r] # Idle
    BY WorkingList
  <2>2. ScheduleJob(request[r], schedule, logged)
    BY <2>1 DEF SchedulesInv
  <2>3. request'[r].s = request[r].s /\ request'[r].found = request[r].found
    BY <1>1 DEF Moved, Kept
  <2>4. PICK k \in Nat : Ahead(request'[r].todo, request[r].todo, k, F)
    BY <1>1 DEF Moved
  <2>5. ScheduleJob(request'[r], schedule, logged)
    BY <2>1, <2>2, <2>3, <2>4, ScheduleJobMoves
  <2>6. QED
    BY <2>5, ScheduleJobStays DEF SchedulesGrow
<1>2. QED
  BY <1>1, SchedulesFrame

LEMMA GrowSame ==
  ASSUME UNCHANGED <<schedule, logged>>
  PROVE  SchedulesGrow
BY DEF SchedulesGrow, Grow

LEMMA DropScheduleGrows ==
  ASSUME TypeInv, NEW r \in Requests, DropSchedule(r)
  PROVE  SchedulesGrow /\ cms' = cms
<1>1. schedule' = [schedule EXCEPT ![request[r].s] = Gone] /\ logged' = logged /\ cms' = cms
  BY DEF DropSchedule, Quiet
<1>2. DOMAIN schedule' = DOMAIN schedule /\ \A j \in DOMAIN schedule : schedule'[j] = IF j = request[r].s THEN Gone ELSE schedule[j]
  BY <1>1
<1>3. QED
  BY <1>1, <1>2 DEF SchedulesGrow, Grow, Exists, Stored

LEMMA SetScheduleGrows ==
  ASSUME TypeInv, NEW r \in Requests, SetSchedule(r)
  PROVE  SchedulesGrow /\ cms' = cms
<1>1. logged' = logged /\ cms' = cms
  BY DEF SetSchedule, Quiet
<1>2. CASE schedule' = schedule
  BY <1>1, <1>2 DEF SchedulesGrow, Grow
<1>3. CASE schedule' # schedule
  <2> DEFINE s == request[r].s
             v == [template |-> request[r].t, at |-> Now]
  <2>1. Exists(schedule, s) /\ schedule' = [schedule EXCEPT ![s] = v]
    BY <1>3 DEF SetSchedule
  <2> HIDE DEF s, v
  <2>2. DOMAIN schedule' = DOMAIN schedule /\ \A j \in DOMAIN schedule : schedule'[j] = IF j = s THEN v ELSE schedule[j]
    BY <2>1
  <2>3. QED
    BY <1>1, <2>1, <2>2 DEF SchedulesGrow, Grow, Exists, Stored
<1>4. QED
  BY <1>2, <1>3

\* The handlers that are not about schedules.
LEMMA SchedulesElsewhere ==
  ASSUME TypeInv, SchedulesInv, NEW r \in Requests,
         \/ CreateTemplate(r) \/ CreateContent(r) \/ CreateItem(r) \/ ListContents(r) \/ FindDetail(r)
         \/ ReadContents(r) \/ ReadShown(r) \/ AddContents(r) \/ UpdateContents(r)
         \/ Plain(r) /\ ~LogSchedule(r) /\ ~Tell(r)
  PROVE  SchedulesInv'
<1>1. RequestsOK
  BY DEF TypeInv
<1>2. Others(r) /\ request[r].todo # <<>>
  BY HandlerType DEF Handle, Plain
<1>3. Head(request[r].todo) = request[r].todo[1]
  BY <1>1, <1>2, WorkingList
<1>4. request[r].todo[1].do \notin {"createSchedule", "logSchedule"}
  BY <1>3 DEF Plain, CreateTemplate, CreateContent, CreateItem, ListContents, FindDetail, ReadContents, ReadShown, AddContents, UpdateContents,
      LogTemplate, AddDetail, SetTemplate, SetContent, SetDetail, FindTemplate, DeleteItems, DeleteDetail,
      DeleteContent, DropTemplate, DropSchedule, SetSchedule, ReadTemplate, Render, At
<1>5. SchedulesGrow /\ cms' = cms
  <2>1. CASE DropSchedule(r) \/ SetSchedule(r)
    BY <2>1, DropScheduleGrows, SetScheduleGrows
  <2>2. CASE ~(DropSchedule(r) \/ SetSchedule(r))
    <3>1. UNCHANGED <<schedule, logged, cms>>
      BY <2>2 DEF Plain, CreateTemplate, CreateContent, CreateItem, ListContents, FindDetail, ReadContents, ReadShown, AddContents, UpdateContents,
         LogTemplate, AddDetail, SetTemplate, SetContent, SetDetail, FindTemplate, DeleteItems, DeleteDetail,
         DeleteContent, DropTemplate, ReadTemplate, Render, DocsUnchanged, Quiet
    <3>2. QED
      BY <3>1, GrowSame
  <2>3. QED
    BY <2>1, <2>2
<1>6. \E F, f : /\ F \cap ScheduleNames = {} /\ f \in Fields \ {"s", "found"} /\ Moved(r, F, f)
  <2>1. PICK F \in SUBSET InsertedNames, f \in Fields :
          Moved(r, F, f) /\ (f \in {"s", "found"} => CreateSchedule(r) \/ FindNewest(r) \/ FindSchedule(r))
    BY HandlerMoves DEF Handle, Plain
  <2>2. ~(CreateSchedule(r) \/ FindNewest(r) \/ FindSchedule(r))
    BY <1>3 DEF Plain, CreateTemplate, CreateContent, CreateItem, ListContents, FindDetail, ReadContents, ReadShown, AddContents, UpdateContents,
      LogTemplate, AddDetail, SetTemplate, SetContent, SetDetail, FindTemplate, DeleteItems, DeleteDetail,
      DeleteContent, DropTemplate, DropSchedule, SetSchedule, ReadTemplate, Render, At,
      CreateSchedule, FindNewest, FindSchedule
  <2>3. F \cap ScheduleNames = {}
    BY DEF InsertedNames, Removing, AddWords, UpdateWords, ScheduleNames
  <2>4. QED
    BY <2>1, <2>2, <2>3
<1>7. QED
  BY <1>1, <1>2, <1>4, <1>5, <1>6, SchedulesMoved

\* No request deletes and adds, or adds and sets a schedule.
LEMMA Families ==
  ASSUME NEW s, TodoOK(s)
  PROVE  /\ Has(s, "findSchedule") => ~Has(s, "createSchedule") /\ ~Has(s, "findNewest")
         /\ Has(s, "findNewest") => ~Has(s, "tell") /\ ~Has(s, "logSchedule") /\ ~Has(s, "createSchedule")
<1>1. PICK F \in {Adding, Deleting, Creating, Saving} : Words(s, F)
  BY DEF TodoOK
<1>2. \A name : Has(s, name) => name \in F
  BY <1>1 DEF Has, Words
<1>3. /\ "findSchedule" \in F => F = Saving
      /\ "findNewest" \in F => F = Deleting
  BY DEF Adding, Deleting, Creating, Saving, Editing
<1>4. "createSchedule" \notin Saving /\ "findNewest" \notin Saving
      /\ "tell" \notin Deleting /\ "logSchedule" \notin Deleting /\ "createSchedule" \notin Deleting
  BY DEF Deleting, Saving, Editing
<1>5. QED
  BY <1>2, <1>3, <1>4

\* What a handler at a stage about schedules has.
LEMMA ScheduleStage ==
  ASSUME TypeInv, SchedulesInv, NEW r \in Requests, NEW name, At(r, name)
  PROVE  LET q == request[r]
         IN  /\ IsList(q.todo) /\ q.todo # <<>> /\ q.todo[1].do = name /\ 1 \in 1..Len(q.todo)
             /\ JobOK(q) /\ ScheduleJob(q, schedule, logged) /\ Has(q.todo, name)
             /\ Ahead(Tail(q.todo), q.todo, 0, {}) /\ ~Before(q.todo, 1, "createSchedule") /\ ~Before(q.todo, 1, "logSchedule")
<1> DEFINE q == request[r]
<1>1. /\ q.todo # <<>> /\ q.todo[1].do = name /\ JobOK(q) /\ q # Idle
      /\ IsList(q.todo) /\ Len(q.todo) \in Nat /\ Len(q.todo) >= 1
  BY TypedStage, WorkingList DEF TypeInv
<1>2. 1 \in 1..Len(q.todo)
  BY <1>1
<1>3. \A x : ~Before(q.todo, 1, x)
  BY <1>1 DEF Before
<1>4. Ahead(Tail(q.todo), q.todo, 0, {})
  BY <1>1, TailAhead
<1>5. Has(q.todo, name)
  BY <1>1, <1>2 DEF Has
<1>6. ScheduleJob(q, schedule, logged)
  BY <1>1 DEF SchedulesInv
<1>7. QED
  BY <1>1, <1>2, <1>3, <1>4, <1>5, <1>6

\* A stage that is left was there, and comes after what came before it.
LEMMA TailStage ==
  ASSUME NEW s, IsList(s), s # <<>>, NEW n \in 1..Len(Tail(s))
  PROVE  /\ n + 1 \in 1..Len(s) /\ Tail(s)[n] = s[n + 1]
         /\ \A name : s[1].do # name /\ Before(s, n + 1, name) => Before(Tail(s), n, name)
         /\ \A name : Before(Tail(s), n, name) => Before(s, n + 1, name)
<1>1. Ahead(Tail(s), s, 0, {})
  BY TailAhead
<1>2. /\ Len(s) \in Nat /\ Len(s) >= 1 /\ IsList(Tail(s)) /\ Len(Tail(s)) = Len(s) - 1
      /\ \A m \in 1..(Len(s) - 1) : Tail(s)[m] = s[m + 1]
  BY ListTail, ListFacts
<1>3. n > 0 /\ n - 0 + 1 = n + 1 /\ n \in Nat
  BY <1>2
<1>4. ASSUME NEW name, s[1].do # name, Before(s, n + 1, name) PROVE Before(Tail(s), n, name)
  BY <1>1, <1>3, <1>4, AheadBefore
<1>5. ASSUME NEW name, Before(Tail(s), n, name) PROVE Before(s, n + 1, name)
  <2>1. PICK m \in 1..Len(Tail(s)) : m < n /\ Tail(s)[m].do = name
    BY <1>5 DEF Before
  <2>2. m + 1 \in 1..Len(s) /\ m + 1 < n + 1 /\ s[m + 1].do = name
    BY <1>2, <2>1
  <2>3. QED
    BY <2>2 DEF Before
<1>6. QED
  BY <1>2, <1>4, <1>5

LEMMA TailHas ==
  ASSUME NEW s, IsList(s), s # <<>>, NEW name, Has(Tail(s), name)
  PROVE  Has(s, name)
BY TailStage DEF Has

LEMMA CreateScheduleKeeps ==
  ASSUME TypeInv, SchedulesInv, NEW r \in Requests, CreateSchedule(r)
  PROVE  SchedulesInv'
<1> DEFINE q == request[r]
           p == request'[r]
<1>1. /\ IsList(q.todo) /\ q.todo # <<>> /\ q.todo[1].do = "createSchedule" /\ JobOK(q) /\ Has(q.todo, "createSchedule")
      /\ ScheduleJob(q, schedule, logged)
  BY ScheduleStage DEF CreateSchedule
<1>2. Others(r) /\ p = Changed(q, Tail(q.todo), "s", Len(schedule) + 1)
  BY CreateScheduleMoves DEF TypeInv
<1>3. p.todo = Tail(q.todo) /\ p.s = Len(schedule) + 1 /\ p.found = q.found
  BY <1>2 DEF Changed, Fields
<1>4. /\ Len(schedule) \in Nat /\ DOMAIN schedule = 1..Len(schedule) /\ DOMAIN schedule' = 1..(Len(schedule) + 1)
      /\ \A i \in DOMAIN schedule : schedule'[i] = schedule[i]
  BY ScheduleAppend DEF CreateSchedule, TypeInv, DocsOK
<1>5. UNCHANGED <<logged, cms>>
  BY DEF CreateSchedule, Quiet
<1>6. SchedulesGrow
  BY <1>4, <1>5 DEF SchedulesGrow, Grow, Exists, Stored
<1>7. p.s \in DOMAIN schedule'
  BY <1>3, <1>4
<1>8. q.found
  BY <1>1 DEF ScheduleJob
<1> HIDE DEF q, p
<1>9. ASSUME NEW n \in 1..Len(p.todo), p.todo[n].do = "tell" PROVE Before(p.todo, n, "logSchedule")
  <2>1. n + 1 \in 1..Len(q.todo) /\ q.todo[n + 1].do = "tell"
    BY <1>1, <1>3, <1>9, TailStage
  <2>2. Before(q.todo, n + 1, "logSchedule")
    BY <1>1, <2>1 DEF ScheduleJob
  <2>3. QED
    BY <1>1, <1>3, <2>2, TailStage
<1>10. ASSUME NEW n \in 1..Len(p.todo), p.todo[n].do = "createSchedule" PROVE ~Before(p.todo, n, "logSchedule")
  <2>1. n + 1 \in 1..Len(q.todo) /\ q.todo[n + 1].do = "createSchedule"
    BY <1>1, <1>3, <1>10, TailStage
  <2>2. ~Before(q.todo, n + 1, "logSchedule")
    BY <1>1, <2>1 DEF ScheduleJob
  <2>3. QED
    BY <1>1, <1>3, <2>2, TailStage
<1>11. ScheduleJob(p, schedule', logged')
  BY <1>3, <1>7, <1>8, <1>9, <1>10 DEF ScheduleJob
<1>12. QED
  BY <1>2, <1>5, <1>6, <1>11, SchedulesFrame DEF p

LEMMA FindScheduleKeeps ==
  ASSUME TypeInv, SchedulesInv, NEW r \in Requests, FindSchedule(r)
  PROVE  SchedulesInv'
<1> DEFINE q == request[r]
           p == request'[r]
<1>1. /\ IsList(q.todo) /\ q.todo # <<>> /\ q.todo[1].do = "findSchedule" /\ JobOK(q) /\ Has(q.todo, "findSchedule")
      /\ ScheduleJob(q, schedule, logged)
  BY ScheduleStage DEF FindSchedule
<1>2. Others(r) /\ p = Changed(q, Tail(q.todo), "found", Exists(schedule, q.s))
  BY FindScheduleMoves DEF TypeInv
<1>3. p.todo = Tail(q.todo) /\ p.s = q.s /\ p.found = Exists(schedule, q.s)
  BY <1>2 DEF Changed, Fields
<1>4. UNCHANGED <<schedule, logged, cms>>
  BY DEF FindSchedule, Quiet, DocsUnchanged
<1>5. q.s \in DOMAIN schedule
  BY <1>1 DEF ScheduleJob
<1>6. ~Has(q.todo, "createSchedule") /\ ~Has(q.todo, "findNewest")
  BY <1>1, Families DEF JobOK
<1> HIDE DEF q, p
<1>7. ~Has(p.todo, "createSchedule") /\ ~Has(p.todo, "findNewest")
  BY <1>1, <1>3, <1>6, TailHas
<1>8. ASSUME NEW n \in 1..Len(p.todo), p.todo[n].do = "tell"
      PROVE  Settled(p.s, schedule, logged) \/ Before(p.todo, n, "logSchedule")
  <2>1. n + 1 \in 1..Len(q.todo) /\ q.todo[n + 1].do = "tell"
    BY <1>1, <1>3, <1>8, TailStage
  <2>2. Settled(q.s, schedule, logged) \/ Before(q.todo, n + 1, "logSchedule")
    BY <1>1, <2>1 DEF ScheduleJob
  <2>3. QED
    BY <1>1, <1>3, <2>2, TailStage
<1>9. ~p.found => p.s \in DOMAIN schedule /\ ~Exists(schedule, p.s)
  BY <1>3, <1>5
<1>10. \A n \in 1..Len(p.todo) : p.todo[n].do # "createSchedule"
  BY <1>7 DEF Has
<1>11. p.s \in DOMAIN schedule
  BY <1>3, <1>5
<1>12. ScheduleJob(p, schedule, logged)
  BY <1>7, <1>8, <1>9, <1>10, <1>11 DEF ScheduleJob
<1>13. SchedulesGrow
  BY <1>4, GrowSame
<1>14. QED
  BY <1>2, <1>4, <1>12, <1>13, SchedulesFrame DEF p

LEMMA FindNewestKeeps ==
  ASSUME TypeInv, SchedulesInv, NEW r \in Requests, FindNewest(r)
  PROVE  SchedulesInv'
<1> DEFINE q == request[r]
           p == request'[r]
<1>1. /\ IsList(q.todo) /\ q.todo # <<>> /\ q.todo[1].do = "findNewest" /\ JobOK(q) /\ Has(q.todo, "findNewest")
      /\ ScheduleJob(q, schedule, logged)
  BY ScheduleStage DEF FindNewest
<1>2. UNCHANGED <<schedule, logged, cms>>
  BY DEF FindNewest, Quiet, DocsUnchanged
<1>3. Others(r)
  BY FindNewestMoves DEF TypeInv
<1>4. ASSUME p # Idle PROVE ScheduleJob(p, schedule, logged)
  <2>1. PICK s : p = Changed(q, Tail(q.todo), "s", s)
    BY <1>4, FindNewestMoves DEF TypeInv
  <2>2. p.todo = Tail(q.todo) /\ p.found = q.found
    BY <2>1 DEF Changed, Fields
  <2>3. q.found
    BY <1>1 DEF ScheduleJob
  <2>4. /\ ~Has(q.todo, "tell") /\ ~Has(q.todo, "logSchedule") /\ ~Has(q.todo, "createSchedule")
        /\ ~Has(q.todo, "findSchedule")
    BY <1>1, Families DEF JobOK
  <2> HIDE DEF q, p
  <2>5. ~Has(p.todo, "tell") /\ ~Has(p.todo, "logSchedule") /\ ~Has(p.todo, "createSchedule") /\ ~Has(p.todo, "findSchedule")
    BY <1>1, <2>2, <2>4, TailHas
  <2>6. QED
    BY <2>2, <2>3, <2>5 DEF ScheduleJob, Has
<1>5. SchedulesGrow
  BY <1>2, GrowSame
<1>6. QED
  BY <1>2, <1>3, <1>4, <1>5, SchedulesFrame

LEMMA LogScheduleKeeps ==
  ASSUME TypeInv, SchedulesInv, NEW r \in Requests, LogSchedule(r)
  PROVE  SchedulesInv'
<1> DEFINE q == request[r]
           p == request'[r]
<1>1. /\ IsList(q.todo) /\ q.todo # <<>> /\ q.todo[1].do = "logSchedule" /\ JobOK(q) /\ 1 \in 1..Len(q.todo)
      /\ ScheduleJob(q, schedule, logged) /\ ~Before(q.todo, 1, "createSchedule")
  BY ScheduleStage DEF LogSchedule
<1>2. UNCHANGED <<schedule, cms>> /\ logged \subseteq logged'
  BY DEF LogSchedule, Quiet, DocsUnchanged
<1>3. SchedulesGrow
  BY <1>2 DEF SchedulesGrow, Grow
<1>4. Others(r)
  BY PlainMoved DEF TypeInv, Plain
<1>5. q.s \in DOMAIN schedule
  BY <1>1 DEF ScheduleJob
<1>6. ASSUME p # Idle PROVE ScheduleJob(p, schedule', logged')
  <2>1. Continue(r) /\ logged' = IF q.found THEN logged \cup {q.s} ELSE logged
    BY <1>6, BrokenFields DEF LogSchedule, TypeInv
  <2>2. p.todo = Tail(q.todo) /\ p.s = q.s /\ p.found = q.found
    BY <1>1, <1>6, <2>1, ContinueFields DEF TypeInv, Same
  <2>3. Settled(q.s, schedule', logged')
    <3>1. CASE q.found
      BY <1>2, <1>5, <2>1, <3>1 DEF Settled
    <3>2. CASE ~q.found
      BY <1>1, <1>2, <1>5, <3>2 DEF ScheduleJob, Settled
    <3>3. QED
      BY <3>1, <3>2
  <2> HIDE DEF q, p
  <2>4. ASSUME NEW n \in 1..Len(p.todo) PROVE p.todo[n].do # "createSchedule"
    <3>1. n + 1 \in 1..Len(q.todo) /\ p.todo[n] = q.todo[n + 1]
      BY <1>1, <2>2, TailStage
    <3>2. Before(q.todo, n + 1, "logSchedule")
      <4>1. 1 < n + 1
        BY <1>1, <2>2, ListTail
      <4>2. QED
        BY <1>1, <4>1 DEF Before
    <3>3. QED
      BY <1>1, <3>1, <3>2 DEF ScheduleJob
  <2>5. ~Has(p.todo, "createSchedule")
    BY <2>4 DEF Has
  <2>6. Has(p.todo, "findNewest") => q.found
    BY <1>1, <2>2, TailHas DEF ScheduleJob
  <2>7. ~q.found => q.s \in DOMAIN schedule' /\ ~Exists(schedule', q.s)
    BY <1>1, <1>2 DEF ScheduleJob
  <2>8. q.s \in DOMAIN schedule'
    BY <1>2, <1>5
  <2>9. QED
    BY <2>2, <2>3, <2>4, <2>5, <2>6, <2>7, <2>8 DEF ScheduleJob
<1>7. QED
  BY <1>2, <1>3, <1>4, <1>6, SchedulesFrame

LEMMA TellKeeps ==
  ASSUME TypeInv, SchedulesInv, NEW r \in Requests, Tell(r)
  PROVE  SchedulesInv'
<1> DEFINE q == request[r]
<1>1. /\ q.todo # <<>> /\ q.todo[1].do = "tell" /\ 1 \in 1..Len(q.todo)
      /\ ScheduleJob(q, schedule, logged) /\ ~Before(q.todo, 1, "logSchedule")
  BY ScheduleStage DEF Tell
<1>2. UNCHANGED <<schedule, logged>>
  BY DEF Tell, DocsUnchanged
<1>3. Settled(q.s, schedule, logged)
  BY <1>1 DEF ScheduleJob
<1>4. \A p \in cms' : p \in cms \/ p.schedule = q.s
  BY DEF Tell
<1>5. \A p \in cms' : p \in cms \/ Settled(p.schedule, schedule', logged')
  BY <1>2, <1>3, <1>4
<1>6. Others(r) /\ Moved(r, {}, "todo")
  BY PlainMoved DEF TypeInv, Plain
<1>7. SchedulesGrow
  BY <1>2, GrowSame
<1>8. "todo" \in Fields \ {"s", "found"} /\ {} \cap ScheduleNames = {}
  BY DEF Fields
<1>9. QED
  BY <1>1, <1>5, <1>6, <1>7, <1>8, SchedulesMoved DEF TypeInv

LEMMA RequestSchedules ==
  ASSUME TypeInv, SchedulesInv, NEW r \in Requests, Request(r)
  PROVE  SchedulesInv'
<1> DEFINE q == request'[r]
<1>1. Started(r) /\ UNCHANGED <<schedule, logged, cms>>
  BY ArrivalStarts DEF DocsUnchanged
<1>2. Ordered(q.todo) /\ q.found = TRUE /\ (Has(q.todo, "findSchedule") => q.s \in DOMAIN schedule) /\ Others(r) /\ JobOK(q)
  BY <1>1 DEF Started
<1> HIDE DEF q
<1>3. ASSUME NEW n \in 1..Len(q.todo), q.todo[n].do \in {"tell", "logSchedule"}
      PROVE  q.s \in DOMAIN schedule \/ Before(q.todo, n, "createSchedule")
  <2>1. Before(q.todo, n, "findSchedule") => Has(q.todo, "findSchedule")
    BY DEF Before, Has
  <2>2. QED
    BY <1>2, <1>3, <2>1 DEF Ordered
<1>4. ScheduleJob(q, schedule, logged)
  BY <1>2, <1>3 DEF Ordered, ScheduleJob
<1>5. QED
  BY <1>1, <1>2, <1>4, GrowSame, SchedulesFrame DEF q

LEMMA SchedulesStep ==
  ASSUME TypeInv, SchedulesInv, [Next]_vars
  PROVE  SchedulesInv'
<1>1. CASE Outside
  BY <1>1, OutsideFrame DEF SchedulesInv, DocsUnchanged
<1>2. CASE Restart
  BY <1>2, RestartFrame DEF SchedulesInv, DocsUnchanged
<1>3. CASE \E r \in Requests : Request(r)
  BY <1>3, RequestSchedules
<1>4. CASE \E r \in Requests : Handle(r)
  BY <1>4, SchedulesElsewhere, CreateScheduleKeeps, FindScheduleKeeps, FindNewestKeeps, LogScheduleKeeps, TellKeeps
     DEF Handle, Plain
<1>5. CASE UNCHANGED vars
  BY <1>5 DEF vars, SchedulesInv
<1>6. QED
  BY <1>1, <1>2, <1>3, <1>4, <1>5, Steps

-----------------------------------------------------------------------------
(* ContentsHaveTemplate.                                                   *)

\* The contents stored are among those of before, of the same templates.
Fewer(cons, cons2) ==
  /\ Stored(cons2) \subseteq Stored(cons)
  /\ \A c \in Stored(cons2) : cons2[c].template = cons[c].template

Removes(stage, c) == stage.do \in {"findDetail", "deleteContent"} /\ stage.content = c

\* The contents that a stage removes, and that are stored, are removed by the first k of list z.
Replaced(stage, z, k, cons) ==
  \A c \in Stored(cons) : Removes(stage, c) => \E m \in 1..k : Removes(z[m], c)

LEMMA ContentJobMoves ==
  ASSUME NEW tems, NEW cons, NEW tems2, NEW cons2, Fewer(cons, cons2),
         NEW q, IsList(q.todo), q.todo # <<>>, ContentJob(q, tems, cons),
         NEW p, p.t = q.t, NEW k \in Nat, NEW F, Ahead(p.todo, q.todo, k, F), F \cap {"addContents", "createContent", "deleteTemplate"} = {},
         Has(q.todo, "addContents") \/ Has(q.todo, "createContent") => Stored(tems) \subseteq Stored(tems2),
         q.todo[1].do \notin {"createTemplate", "listContents"},
         Replaced(q.todo[1], p.todo, k, cons2)
  PROVE  ContentJob(p, tems2, cons2)
<1> DEFINE s == q.todo
           z == p.todo
<1> HIDE DEF s, z
<1>1. IsList(s) /\ s # <<>> /\ Ahead(z, s, k, F) /\ s[1].do # "createTemplate" /\ s[1].do # "listContents"
  BY DEF s, z
<1>2. Len(s) \in Nat /\ Len(s) >= 1 /\ Len(z) = k + Len(s) - 1
  BY <1>1, ListTail, ListFacts DEF Ahead
<1>3. ASSUME NEW n \in 1..Len(z), z[n].do \in {"addContents", "createContent", "deleteTemplate"}
      PROVE  n > k /\ n - k + 1 \in 1..Len(s) /\ z[n] = s[n - k + 1]
  BY <1>1, <1>3, AheadBack
<1>4. ASSUME NEW n \in 1..Len(z), z[n].do \in {"addContents", "createContent"}
      PROVE  Exists(tems2, p.t) \/ Before(z, n, "createTemplate")
  <2>1. n > k /\ n - k + 1 \in 1..Len(s) /\ z[n] = s[n - k + 1]
    BY <1>3, <1>4
  <2>2. Exists(tems, q.t) \/ Before(s, n - k + 1, "createTemplate")
    BY <1>4, <2>1 DEF ContentJob, s
  <2>3. CASE Exists(tems, q.t)
    <3>1. Has(s, "addContents") \/ Has(s, "createContent")
      BY <1>4, <2>1 DEF Has
    <3>2. QED
      BY <2>3, <3>1 DEF Exists, s
  <2>4. CASE Before(s, n - k + 1, "createTemplate")
    BY <1>1, <2>1, <2>4, AheadBefore
  <2>5. QED
    BY <2>2, <2>3, <2>4
<1>5. ASSUME NEW n \in 1..Len(z), z[n].do = "deleteTemplate"
      PROVE  \/ Before(z, n, "listContents")
             \/ \A c \in Stored(cons2) : cons2[c].template = p.t => \E m \in 1..Len(z) : m < n /\ Removes(z[m], c)
  <2>1. n > k /\ n - k + 1 \in 1..Len(s) /\ z[n] = s[n - k + 1]
    BY <1>3, <1>5
  <2>2. \/ Before(s, n - k + 1, "listContents")
        \/ \A c \in Stored(cons) : cons[c].template = q.t => \E m \in 1..Len(s) : m < n - k + 1 /\ Removes(s[m], c)
    BY <1>5, <2>1 DEF ContentJob, Removes, s
  <2>3. CASE Before(s, n - k + 1, "listContents")
    BY <1>1, <2>1, <2>3, AheadBefore
  <2>4. CASE \A c \in Stored(cons) : cons[c].template = q.t => \E m \in 1..Len(s) : m < n - k + 1 /\ Removes(s[m], c)
    <3> SUFFICES ASSUME NEW c \in Stored(cons2), cons2[c].template = p.t
                 PROVE  \E m \in 1..Len(z) : m < n /\ Removes(z[m], c)
      OBVIOUS
    <3>1. c \in Stored(cons) /\ cons[c].template = q.t
      BY DEF Fewer
    <3>2. PICK m \in 1..Len(s) : m < n - k + 1 /\ Removes(s[m], c)
      BY <2>4, <3>1
    <3>3. CASE m = 1
      <4>1. PICK j \in 1..k : Removes(z[j], c)
        BY <3>2, <3>3 DEF s, z, Replaced
      <4>2. j \in 1..Len(z) /\ j < n
        BY <1>2, <2>1
      <4>3. QED
        BY <4>1, <4>2
    <3>4. CASE m # 1
      <4>1. m \in 2..Len(s) /\ m + k - 1 < n
        BY <1>2, <2>1, <3>2, <3>4
      <4>2. m + k - 1 \in 1..Len(z) /\ z[m + k - 1] = s[m]
        BY <1>1, <4>1, AheadOn
      <4>3. QED
        BY <3>2, <4>1, <4>2
    <3>5. QED
      BY <3>3, <3>4
  <2>5. QED
    BY <2>2, <2>3, <2>4
<1>6. QED
  BY <1>4, <1>5 DEF ContentJob, Removes, z

\* Only one request is in progress.
LEMMA ContentsFrame ==
  ASSUME TypeInv, ContentsInv, NEW r \in Requests, Others(r), request[r].todo # <<>>, overlap' = overlap,
         ~overlap => /\ \A c \in Stored(content') : Exists(template', content'[c].template)
                     /\ request'[r] # Idle => ContentJob(request'[r], template', content')
  PROVE  ContentsInv'
<1> SUFFICES ASSUME ~overlap PROVE ContentsInv'
  BY DEF ContentsInv
<1>1. request[r] # Idle
  BY WorkingList DEF TypeInv
<1>2. ASSUME NEW x \in Requests, request'[x] # Idle PROVE x = r
  BY <1>1, <1>2 DEF ContentsInv, Others
<1>3. Orphanless'
  BY DEF Orphanless
<1>4. QED
  BY <1>2, <1>3 DEF ContentsInv

LEMMA ContentsMoved ==
  ASSUME TypeInv, ContentsInv, NEW r \in Requests, Others(r), request[r].todo # <<>>, overlap' = overlap,
         NEW F, F \cap {"addContents", "createContent", "deleteTemplate"} = {}, NEW f \in Fields \ {"t"}, Moved(r, F, f),
         request[r].todo[1].do \notin {"createTemplate", "listContents", "findDetail", "deleteContent"},
         Fewer(content, content'), Stored(template') = Stored(template)
  PROVE  ContentsInv'
<1> SUFFICES ASSUME ~overlap
             PROVE  /\ \A c \in Stored(content') : Exists(template', content'[c].template)
                    /\ request'[r] # Idle => ContentJob(request'[r], template', content')
  BY ContentsFrame
<1>1. IsList(request[r].todo) /\ request[r] # Idle
  BY WorkingList DEF TypeInv
<1>2. \A c \in Stored(content') : Exists(template', content'[c].template)
  BY DEF ContentsInv, Orphanless, Fewer, Exists
<1>3. ASSUME request'[r] # Idle PROVE ContentJob(request'[r], template', content')
  <2>1. ContentJob(request[r], template, content)
    BY <1>1 DEF ContentsInv
  <2>2. request'[r].t = request[r].t
    BY <1>3 DEF Moved, Kept
  <2>3. PICK k \in Nat : Ahead(request'[r].todo, request[r].todo, k, F)
    BY <1>3 DEF Moved
  <2>4. Replaced(request[r].todo[1], request'[r].todo, k, content')
    BY DEF Replaced, Removes
  <2>5. QED
    BY <1>1, <2>1, <2>2, <2>3, <2>4, ContentJobMoves
<1>4. QED
  BY <1>2, <1>3

LEMMA SetTemplateKeeps ==
  ASSUME TypeInv, NEW r \in Requests, SetTemplate(r)
  PROVE  Stored(template') = Stored(template)
<1>1. CASE ~Exists(template, request[r].t)
  BY <1>1 DEF SetTemplate
<1>2. CASE Exists(template, request[r].t)
  <2> DEFINE t == request[r].t
             type == Args(r).type
  <2>1. t \in DOMAIN template /\ template[t] \in TemplateDocs
    BY <1>2 DEF Exists, Stored, TypeInv, DocsOK
  <2>2. type \in Types
    BY TypedStage DEF SetTemplate, TypeInv, Typed
  <2>3. template' = [template EXCEPT ![t].type = type]
    BY <1>2 DEF SetTemplate
  <2> HIDE DEF t, type
  <2>4. DOMAIN template' = DOMAIN template /\ \A j \in DOMAIN template : j # t => template'[j] = template[j]
    BY <2>3
  <2>5. template'[t] = [template[t] EXCEPT !.type = type]
    BY <2>1, <2>3
  <2>6. template'[t] \in TemplateDocs
    BY <2>1, <2>2, <2>5 DEF TemplateDocs
  <2>7. template'[t] # Gone /\ template[t] # Gone
    BY <2>1, <2>6, SignageAssumption
  <2>8. QED
    BY <2>4, <2>7 DEF Stored
<1>3. QED
  BY <1>1, <1>2

LEMMA SetContentFewer ==
  ASSUME TypeInv, NEW r \in Requests, SetContent(r)
  PROVE  Fewer(content, content')
<1> DEFINE c == Args(r).content
           rect == Args(r).rect
<1>1. CASE ~Exists(content, c)
  BY <1>1 DEF SetContent, Fewer
<1>2. CASE Exists(content, c)
  <2>1. c \in DOMAIN content /\ content[c] \in ContentDocs /\ c \in Stored(content)
    BY <1>2 DEF Exists, Stored, TypeInv, DocsOK
  <2>2. content' = [content EXCEPT ![c].rect = rect]
    BY <1>2 DEF SetContent
  <2> HIDE DEF c, rect
  <2>3. DOMAIN content' = DOMAIN content /\ \A j \in DOMAIN content : j # c => content'[j] = content[j]
    BY <2>2
  <2>4. content'[c].template = content[c].template
    BY <2>1, <2>2 DEF ContentDocs
  <2>5. QED
    BY <2>1, <2>3, <2>4 DEF Fewer, Stored
<1>3. QED
  BY <1>1, <1>2

\* The handlers that are about neither templates nor contents.
LEMMA ContentsElsewhere ==
  ASSUME TypeInv, ContentsInv, NEW r \in Requests, Handle(r),
         ~CreateTemplate(r), ~AddContents(r), ~CreateContent(r), ~ListContents(r), ~FindDetail(r), ~DeleteContent(r), ~DropTemplate(r)
  PROVE  ContentsInv'
<1>1. Others(r) /\ request[r].todo # <<>> /\ Head(request[r].todo) = request[r].todo[1]
  BY HandlerType, WorkingList DEF TypeInv
<1>2. request[r].todo[1].do \notin {"createTemplate", "listContents", "findDetail", "deleteContent"}
  BY <1>1 DEF Handle, UpdateContents, CreateItem, ReadContents, ReadShown, FindNewest, CreateSchedule, FindSchedule, LogSchedule, Tell,
      LogTemplate, AddDetail, SetTemplate, SetContent, SetDetail, FindTemplate, DeleteItems, DeleteDetail,
      DropSchedule, SetSchedule, ReadTemplate, Render, At
<1>3. overlap' = overlap
  BY DEF Handle, UpdateContents, CreateItem, ReadContents, ReadShown, FindNewest, CreateSchedule, FindSchedule, LogSchedule, Tell,
      LogTemplate, AddDetail, SetTemplate, SetContent, SetDetail, FindTemplate, DeleteItems, DeleteDetail,
      DropSchedule, SetSchedule, ReadTemplate, Render, Quiet
<1>4. SetTemplate(r) \/ template' = template
  BY DEF Handle, UpdateContents, CreateItem, ReadContents, ReadShown, FindNewest, CreateSchedule, FindSchedule, LogSchedule, Tell,
      LogTemplate, AddDetail, SetContent, SetDetail, FindTemplate, DeleteItems, DeleteDetail,
      DropSchedule, SetSchedule, ReadTemplate, Render, DocsUnchanged
<1>5. SetContent(r) \/ content' = content
  BY DEF Handle, UpdateContents, CreateItem, ReadContents, ReadShown, FindNewest, CreateSchedule, FindSchedule, LogSchedule, Tell,
      LogTemplate, AddDetail, SetTemplate, SetDetail, FindTemplate, DeleteItems, DeleteDetail,
      DropSchedule, SetSchedule, ReadTemplate, Render, DocsUnchanged
<1>6. Stored(template') = Stored(template) /\ Fewer(content, content')
  <2>1. content' = content => Fewer(content, content')
    BY DEF Fewer
  <2>2. QED
    BY <1>4, <1>5, <2>1, SetTemplateKeeps, SetContentFewer
<1>7. PICK F \in SUBSET InsertedNames, f \in Fields :
        /\ Moved(r, F, f)
        /\ f = "t" => CreateTemplate(r)
        /\ F = {} \/ F = {"readShown"} \/ F = UpdateWords
  BY HandlerMoves
<1>8. F \cap {"addContents", "createContent", "deleteTemplate"} = {} /\ f \in Fields \ {"t"}
  BY <1>7 DEF UpdateWords
<1>9. QED
  BY <1>1, <1>2, <1>3, <1>6, <1>7, <1>8, ContentsMoved

\* No request adds contents and deletes templates.
LEMMA ContentFamilies ==
  ASSUME NEW s, TodoOK(s), Has(s, "createTemplate") \/ Has(s, "addContents") \/ Has(s, "createContent")
  PROVE  ~Has(s, "deleteTemplate")
<1>1. PICK F \in {Adding, Deleting, Creating, Saving} : Words(s, F)
  BY DEF TodoOK
<1>2. \A name : Has(s, name) => name \in F
  BY <1>1 DEF Has, Words
<1>3. "createTemplate" \in F \/ "addContents" \in F \/ "createContent" \in F => "deleteTemplate" \notin F
  BY DEF Adding, Deleting, Creating, Saving, Editing
<1>4. QED
  BY <1>2, <1>3

\* What a handler at a stage about contents has.
LEMMA ContentStage ==
  ASSUME TypeInv, NEW r \in Requests, NEW name, At(r, name)
  PROVE  LET q == request[r]
         IN  /\ IsList(q.todo) /\ q.todo # <<>> /\ q.todo[1].do = name /\ 1 \in 1..Len(q.todo) /\ q # Idle
             /\ JobOK(q) /\ Has(q.todo, name) /\ Args(r) = q.todo[1]
             /\ \A x : ~Before(q.todo, 1, x)
<1> DEFINE q == request[r]
<1>1. /\ q.todo # <<>> /\ q.todo[1].do = name /\ JobOK(q) /\ q # Idle /\ Args(r) = q.todo[1]
      /\ IsList(q.todo) /\ Len(q.todo) \in Nat /\ Len(q.todo) >= 1
  BY TypedStage, WorkingList DEF TypeInv
<1>2. 1 \in 1..Len(q.todo)
  BY <1>1
<1>3. \A x : ~Before(q.todo, 1, x)
  BY <1>1 DEF Before
<1>4. Has(q.todo, name)
  BY <1>1, <1>2 DEF Has
<1>5. QED
  BY <1>1, <1>2, <1>3, <1>4

LEMMA AddedTemplate ==
  ASSUME TypeInv, NEW r \in Requests, CreateTemplate(r)
  PROVE  Stored(template) \subseteq Stored(template') /\ Exists(template', Len(template) + 1)
<1> DEFINE v == [type |-> Args(r).type]
<1>1. v \in TemplateDocs
  BY TypedStage DEF CreateTemplate, TypeInv, Typed, TemplateDocs
<1>2. v # Gone /\ template' = Append(template, v)
  BY <1>1, SignageAssumption DEF CreateTemplate
<1>3. template \in Seq(TemplateDocs \cup {Gone})
  BY DEF TypeInv, DocsOK
<1> HIDE DEF v
<1>4. /\ Len(template) \in Nat /\ DOMAIN template = 1..Len(template) /\ DOMAIN template' = 1..(Len(template) + 1)
      /\ \A i \in 1..Len(template) : template'[i] = template[i]
      /\ template'[Len(template) + 1] = v
  BY <1>1, <1>2, <1>3, AppendFacts
<1>5. QED
  BY <1>2, <1>4 DEF Stored, Exists

LEMMA CreateTemplateContents ==
  ASSUME TypeInv, ContentsInv, NEW r \in Requests, CreateTemplate(r)
  PROVE  ContentsInv'
<1> DEFINE q == request[r]
           p == request'[r]
<1>1. IsList(q.todo) /\ q.todo # <<>> /\ JobOK(q) /\ Has(q.todo, "createTemplate") /\ q # Idle
  BY ContentStage DEF CreateTemplate
<1>2. Others(r) /\ p = Changed(q, Tail(q.todo), "t", Len(template) + 1)
  BY CreateTemplateMoves DEF TypeInv
<1>3. p.todo = Tail(q.todo) /\ p.t = Len(template) + 1
  BY <1>2 DEF Changed, Fields
<1>4. content' = content /\ overlap' = overlap
  BY DEF CreateTemplate
<1>5. ~Has(p.todo, "deleteTemplate")
  BY <1>1, <1>3, TailHas, ContentFamilies DEF JobOK
<1>6. ContentJob(p, template', content')
  BY <1>3, <1>5, AddedTemplate DEF ContentJob, Has
<1>7. ~overlap => \A c \in Stored(content') : Exists(template', content'[c].template)
  BY <1>4, AddedTemplate DEF ContentsInv, Orphanless, Exists
<1>8. QED
  BY <1>1, <1>2, <1>4, <1>6, <1>7, ContentsFrame

LEMMA AddContentsContents ==
  ASSUME TypeInv, ContentsInv, NEW r \in Requests, AddContents(r)
  PROVE  ContentsInv'
<1> DEFINE q == request[r]
           p == request'[r]
<1>1. /\ IsList(q.todo) /\ q.todo # <<>> /\ JobOK(q) /\ Has(q.todo, "addContents") /\ q # Idle
      /\ 1 \in 1..Len(q.todo) /\ q.todo[1].do = "addContents" /\ ~Before(q.todo, 1, "createTemplate")
  BY ContentStage DEF AddContents
<1>2. Others(r) /\ Moved(r, AddWords, "todo")
  BY AddContentsMoves
<1>3. UNCHANGED <<template, content, overlap>>
  BY DEF AddContents, Quiet, DocsUnchanged
<1> SUFFICES ASSUME ~overlap, p # Idle PROVE ContentJob(p, template', content')
  BY <1>1, <1>2, <1>3, ContentsFrame DEF ContentsInv, Orphanless
<1>4. Exists(template, q.t)
  BY <1>1 DEF ContentsInv, ContentJob
<1>5. p.t = q.t /\ \E k \in Nat : Ahead(p.todo, q.todo, k, AddWords)
  BY <1>2 DEF Moved, Kept
<1>6. ~Has(q.todo, "deleteTemplate")
  BY <1>1, ContentFamilies DEF JobOK
<1> HIDE DEF q, p
<1>7. PICK k \in Nat : Ahead(p.todo, q.todo, k, AddWords)
  BY <1>5
<1>8. "deleteTemplate" \notin AddWords
  BY DEF AddWords
<1>9. ~Has(p.todo, "deleteTemplate")
  BY <1>1, <1>6, <1>7, <1>8, AheadHas
<1>10. QED
  BY <1>3, <1>4, <1>5, <1>9 DEF ContentJob, Has

LEMMA CreateContentContents ==
  ASSUME TypeInv, ContentsInv, NEW r \in Requests, CreateContent(r)
  PROVE  ContentsInv'
<1> DEFINE q == request[r]
           p == request'[r]
<1>1. /\ IsList(q.todo) /\ q.todo # <<>> /\ JobOK(q) /\ Has(q.todo, "createContent") /\ q # Idle
      /\ 1 \in 1..Len(q.todo) /\ q.todo[1].do = "createContent" /\ ~Before(q.todo, 1, "createTemplate")
  BY ContentStage DEF CreateContent
<1>2. Others(r) /\ overlap' = overlap /\ template' = template
  BY CreateContentMoves DEF TypeInv, CreateContent, Quiet
<1> SUFFICES ASSUME ~overlap PROVE ContentsInv'
  BY <1>2 DEF ContentsInv
<1>3. Exists(template, q.t)
  BY <1>1 DEF ContentsInv, ContentJob
<1>4. ASSUME p # Idle PROVE ContentJob(p, template', content')
  <2>1. p = Changed(q, Tail(q.todo), "c", Len(content) + 1)
    BY <1>4, CreateContentMoves DEF TypeInv
  <2>2. p.todo = Tail(q.todo) /\ p.t = q.t
    BY <2>1 DEF Changed, Fields
  <2>3. ~Has(p.todo, "deleteTemplate")
    BY <1>1, <2>2, TailHas, ContentFamilies DEF JobOK
  <2>4. QED
    BY <1>2, <1>3, <2>2, <2>3 DEF ContentJob, Has
<1>5. \A c \in Stored(content') : Exists(template', content'[c].template)
  <2> DEFINE v == [template |-> q.t, rect |-> Args(r).rect]
  <2>1. v \in ContentDocs /\ v.template = q.t
    BY TypedStage DEF CreateContent, TypeInv, Typed, ContentDocs, JobOK
  <2>2. content' = Append(content, v)
    BY DEF CreateContent
  <2>3. content \in Seq(ContentDocs \cup {Gone})
    BY DEF TypeInv, DocsOK
  <2> HIDE DEF v
  <2>4. /\ Len(content) \in Nat /\ DOMAIN content = 1..Len(content) /\ DOMAIN content' = 1..(Len(content) + 1)
        /\ \A i \in 1..Len(content) : content'[i] = content[i]
        /\ content'[Len(content) + 1] = v
    BY <2>1, <2>2, <2>3, AppendFacts
  <2>5. \A c \in Stored(content') : c \in Stored(content) \/ c = Len(content) + 1
    BY <2>4 DEF Stored
  <2>6. \A c \in Stored(content) : content'[c] = content[c]
    BY <2>4 DEF Stored
  <2>7. QED
    BY <1>2, <1>3, <2>1, <2>4, <2>5, <2>6 DEF ContentsInv, Orphanless
<1>6. QED
  BY <1>1, <1>2, <1>4, <1>5, ContentsFrame

LEMMA ListContentsContents ==
  ASSUME TypeInv, ContentsInv, NEW r \in Requests, ListContents(r)
  PROVE  ContentsInv'
<1> DEFINE q == request[r]
           p == request'[r]
           a == Lookups(q.t)
<1>1. /\ IsList(q.todo) /\ q.todo # <<>> /\ q # Idle /\ JobOK(q)
      /\ 1 \in 1..Len(q.todo) /\ q.todo[1].do = "listContents"
  BY ContentStage DEF ListContents
<1>2. Others(r) /\ Inserted(r, a)
  BY ListContentsMoves
<1>3. UNCHANGED <<template, content, overlap>>
  BY DEF ListContents, Quiet, DocsUnchanged
<1> SUFFICES ASSUME ~overlap, p # Idle PROVE ContentJob(p, template', content')
  BY <1>1, <1>2, <1>3, ContentsFrame DEF ContentsInv, Orphanless
<1>4. p.todo = a \o Tail(q.todo) /\ p.t = q.t
  BY <1>2 DEF Inserted, Same
<1>5. DocsOK
  BY DEF TypeInv
<1>6. /\ IsList(a) /\ Words(a, {"findDetail"}) /\ Len(a) \in Nat
      /\ \A c \in Stored(content) : content[c].template = q.t => \E m \in 1..Len(a) : Removes(a[m], c)
  <2> DEFINE t == q.t
  <2> HIDE DEF t
  <2>1. /\ IsList(Lookups(t)) /\ Len(Lookups(t)) = Len(ContentsOf(t)) /\ Len(ContentsOf(t)) \in Nat
        /\ \A n \in 1..Len(Lookups(t)) :
              Lookups(t)[n].do = "findDetail" /\ Lookups(t)[n].content = ContentsOf(t)[n]
        /\ \A c \in Stored(content) : content[c].template = t =>
              \E k \in 1..Len(ContentsOf(t)) : ContentsOf(t)[k] = c
    BY <1>5, LookupsFacts, ContentsOfFacts
  <2>2. QED
    BY <2>1 DEF Words, Removes, t
<1> HIDE DEF a, q, p
<1>7. /\ IsList(p.todo)
      /\ Ahead(p.todo, q.todo, Len(a), {"findDetail"})
      /\ \A m \in 1..Len(a) : p.todo[m] = a[m]
  BY <1>1, <1>4, <1>6, InsertAhead, ListTail, ListConcat
<1>8. ASSUME NEW n \in 1..Len(p.todo), p.todo[n].do \in {"addContents", "createContent", "deleteTemplate"}
      PROVE  n > Len(a) /\ n - Len(a) + 1 \in 1..Len(q.todo) /\ p.todo[n] = q.todo[n - Len(a) + 1]
  <2>1. p.todo[n].do \notin {"findDetail"}
    BY <1>8
  <2>2. QED
    BY <1>1, <1>6, <1>7, <2>1, AheadBack
<1>9. ASSUME NEW n \in 1..Len(p.todo) PROVE p.todo[n].do \notin {"addContents", "createContent"}
  <2> SUFFICES ASSUME p.todo[n].do \in {"addContents", "createContent"} PROVE FALSE
    OBVIOUS
  <2>1. (Has(q.todo, "addContents") \/ Has(q.todo, "createContent")) /\ Has(q.todo, "listContents")
    BY <1>1, <1>8 DEF Has
  <2>2. PICK F \in {Adding, Deleting, Creating, Saving} : Words(q.todo, F)
    BY <1>1 DEF JobOK, TodoOK
  <2>3. ("addContents" \in F \/ "createContent" \in F) /\ "listContents" \in F
    BY <2>1, <2>2 DEF Has, Words
  <2>4. QED
    BY <2>3 DEF Adding, Deleting, Creating, Saving, Editing
<1>10. ASSUME NEW n \in 1..Len(p.todo), p.todo[n].do = "deleteTemplate",
              NEW c \in Stored(content'), content'[c].template = p.t
       PROVE  \E m \in 1..Len(p.todo) : m < n /\ Removes(p.todo[m], c)
  <2>1. PICK m \in 1..Len(a) : Removes(a[m], c)
    BY <1>3, <1>4, <1>6, <1>10
  <2>2. n > Len(a) /\ Len(p.todo) \in Nat
    BY <1>7, <1>8, <1>10, ListFacts
  <2>3. m \in 1..Len(p.todo) /\ m < n
    BY <1>6, <2>2
  <2>4. QED
    BY <1>7, <2>1, <2>3
<1>11. QED
  BY <1>9, <1>10 DEF ContentJob, Removes

LEMMA FindDetailContents ==
  ASSUME TypeInv, ContentsInv, NEW r \in Requests, FindDetail(r)
  PROVE  ContentsInv'
<1> DEFINE q == request[r]
           p == request'[r]
           c == Args(r).content
           a == Removal(c)
<1>1. /\ IsList(q.todo) /\ q.todo # <<>> /\ q # Idle /\ JobOK(q)
      /\ 1 \in 1..Len(q.todo) /\ q.todo[1].do = "findDetail" /\ c = q.todo[1].content
  BY ContentStage DEF FindDetail
<1>2. Others(r) /\ Inserted(r, a)
  BY FindDetailMoves
<1>3. UNCHANGED <<template, content, overlap>>
  BY DEF FindDetail, Quiet, DocsUnchanged
<1> SUFFICES ASSUME ~overlap, p # Idle PROVE ContentJob(p, template', content')
  BY <1>1, <1>2, <1>3, ContentsFrame DEF ContentsInv, Orphanless
<1>4. p.todo = a \o Tail(q.todo) /\ p.t = q.t
  BY <1>2 DEF Inserted, Same
<1>5. /\ IsList(a) /\ Words(a, Removing) /\ Len(a) \in Nat
      /\ \E m \in 1..Len(a) : a[m] = [do |-> "deleteContent", content |-> c]
  BY RemovalFacts DEF TypeInv
<1>6. ContentJob(q, template, content)
  BY <1>1 DEF ContentsInv
<1> HIDE DEF a, q, p, c
<1>7. /\ Ahead(p.todo, q.todo, Len(a), Removing)
      /\ \A m \in 1..Len(a) : p.todo[m] = a[m]
  BY <1>1, <1>4, <1>5, InsertAhead, ListTail, ListConcat
<1>8. \E m \in 1..Len(a) : Removes(p.todo[m], c)
  BY <1>5, <1>7 DEF Removes
<1>9. Fewer(content, content')
  BY <1>3 DEF Fewer
<1>10. Removing \cap {"addContents", "createContent", "deleteTemplate"} = {}
  BY DEF Removing
<1>11. Replaced(q.todo[1], p.todo, Len(a), content')
  BY <1>1, <1>8 DEF Replaced, Removes
<1>12. q.todo[1].do \notin {"createTemplate", "listContents"}
  BY <1>1
<1>13. Has(q.todo, "addContents") \/ Has(q.todo, "createContent") => Stored(template) \subseteq Stored(template')
  BY <1>3
<1>14. IsList(q.todo) /\ q.todo # <<>> /\ p.t = q.t /\ Len(a) \in Nat /\ Ahead(p.todo, q.todo, Len(a), Removing)
  BY <1>1, <1>4, <1>5, <1>7
<1>15. QED
  BY <1>6, <1>9, <1>10, <1>11, <1>12, <1>13, <1>14, ContentJobMoves

\* A content is deleted.
LEMMA GoneContent ==
  ASSUME TypeInv, NEW r \in Requests, DeleteContent(r)
  PROVE  /\ Stored(content') = Stored(content) \ {Args(r).content}
         /\ \A c \in Stored(content') : content'[c] = content[c]
<1>1. content \in Seq(ContentDocs \cup {Gone}) /\ content' = [content EXCEPT ![Args(r).content] = Gone]
  BY DEF TypeInv, DocsOK, DeleteContent
<1>2. /\ DOMAIN content' = DOMAIN content
      /\ \A j \in DOMAIN content : content'[j] = IF j = Args(r).content THEN Gone ELSE content[j]
  BY <1>1, GoneFacts
<1>3. QED
  BY <1>2 DEF Stored

LEMMA DeleteContentContents ==
  ASSUME TypeInv, ContentsInv, NEW r \in Requests, DeleteContent(r)
  PROVE  ContentsInv'
<1> DEFINE q == request[r]
           p == request'[r]
<1>1. /\ IsList(q.todo) /\ q.todo # <<>> /\ q # Idle /\ JobOK(q)
      /\ 1 \in 1..Len(q.todo) /\ q.todo[1].do = "deleteContent" /\ Args(r).content = q.todo[1].content
  BY ContentStage DEF DeleteContent
<1>2. Others(r) /\ Moved(r, {}, "todo")
  BY PlainMoved DEF TypeInv, Plain
<1>3. UNCHANGED <<template, overlap>>
  BY DEF DeleteContent, Quiet
<1>4. Fewer(content, content')
  BY GoneContent DEF Fewer
<1>5. ~overlap => \A c \in Stored(content') : Exists(template', content'[c].template)
  BY <1>3, <1>4 DEF Fewer, ContentsInv, Orphanless
<1> SUFFICES ASSUME ~overlap, p # Idle PROVE ContentJob(p, template', content')
  BY <1>1, <1>2, <1>3, <1>5, ContentsFrame
<1>6. ContentJob(q, template, content)
  BY <1>1 DEF ContentsInv
<1>7. p.t = q.t /\ \E k \in Nat : Ahead(p.todo, q.todo, k, {})
  BY <1>2 DEF Moved, Kept
<1>8. \A x \in Stored(content') : ~Removes(q.todo[1], x)
  BY <1>1, GoneContent DEF Removes
<1>9. q.todo[1].do \notin {"createTemplate", "listContents"}
  BY <1>1
<1>10. Has(q.todo, "addContents") \/ Has(q.todo, "createContent") => Stored(template) \subseteq Stored(template')
  BY <1>3
<1> HIDE DEF q, p
<1>11. IsList(q.todo) /\ q.todo # <<>>
  BY <1>1
<1>12. PICK k \in Nat : Ahead(p.todo, q.todo, k, {})
  BY <1>7
<1>13. Replaced(q.todo[1], p.todo, k, content')
  BY <1>8 DEF Replaced
<1>14. {} \cap {"addContents", "createContent", "deleteTemplate"} = {}
  OBVIOUS
<1>15. QED
  BY <1>4, <1>6, <1>7, <1>9, <1>10, <1>11, <1>12, <1>13, <1>14, ContentJobMoves

LEMMA DropTemplateContents ==
  ASSUME TypeInv, ContentsInv, NEW r \in Requests, DropTemplate(r)
  PROVE  ContentsInv'
<1> DEFINE q == request[r]
           p == request'[r]
<1>1. /\ IsList(q.todo) /\ q.todo # <<>> /\ q # Idle /\ JobOK(q) /\ Has(q.todo, "deleteTemplate")
      /\ 1 \in 1..Len(q.todo) /\ q.todo[1].do = "deleteTemplate" /\ \A x : ~Before(q.todo, 1, x)
  BY ContentStage DEF DropTemplate
<1>2. Others(r) /\ Moved(r, {}, "todo")
  BY PlainMoved DEF TypeInv, Plain
<1>3. UNCHANGED <<content, overlap>>
  BY DEF DropTemplate, Quiet
<1> SUFFICES ASSUME ~overlap PROVE ContentsInv'
  BY <1>3 DEF ContentsInv
<1>4. ContentJob(q, template, content)
  BY <1>1 DEF ContentsInv
<1>5. \A c \in Stored(content) : content[c].template # q.t
  <2> SUFFICES ASSUME NEW c \in Stored(content), content[c].template = q.t PROVE FALSE
    OBVIOUS
  <2> HIDE DEF q
  <2>1. \E m \in 1..Len(q.todo) : m < 1
    BY <1>1, <1>4 DEF ContentJob
  <2>2. QED
    BY <1>1, <2>1, ListFacts
<1>6. /\ DOMAIN template' = DOMAIN template
      /\ \A j \in DOMAIN template : template'[j] = IF j = q.t THEN Gone ELSE template[j]
  <2>1. template \in Seq(TemplateDocs \cup {Gone}) /\ template' = [template EXCEPT ![q.t] = Gone]
    BY DEF TypeInv, DocsOK, DropTemplate
  <2>2. QED
    BY <2>1, GoneFacts
<1>7. \A c \in Stored(content') : Exists(template', content'[c].template)
  BY <1>3, <1>5, <1>6 DEF ContentsInv, Orphanless, Exists, Stored
<1>8. ASSUME p # Idle PROVE ContentJob(p, template', content')
  <2>1. p.t = q.t /\ \E k \in Nat : Ahead(p.todo, q.todo, k, {})
    BY <1>2, <1>8 DEF Moved, Kept
  <2>2. ~Has(q.todo, "addContents") /\ ~Has(q.todo, "createContent")
    BY <1>1, ContentFamilies DEF JobOK
  <2> HIDE DEF q, p
  <2>3. PICK k \in Nat : Ahead(p.todo, q.todo, k, {})
    BY <2>1
  <2>4. ~Has(p.todo, "addContents") /\ ~Has(p.todo, "createContent")
    <3>1. ASSUME NEW name, Has(p.todo, name) PROVE Has(q.todo, name)
      <4>1. name \notin {}
        OBVIOUS
      <4>2. QED
        BY <1>1, <2>3, <3>1, <4>1, AheadHas
    <3>2. QED
      BY <2>2, <3>1
  <2>5. \A c \in Stored(content') : content'[c].template # p.t
    BY <1>3, <1>5, <2>1
  <2>6. QED
    BY <2>4, <2>5 DEF ContentJob, Has
<1>9. QED
  BY <1>1, <1>2, <1>3, <1>7, <1>8, ContentsFrame

LEMMA RequestContents ==
  ASSUME TypeInv, ContentsInv, NEW r \in Requests, Request(r)
  PROVE  ContentsInv'
<1> DEFINE q == request'[r]
<1>1. Started(r) /\ UNCHANGED <<template, content, overlap>>
  BY ArrivalStarts DEF DocsUnchanged
<1> SUFFICES ASSUME ~overlap PROVE ContentsInv'
  BY <1>1 DEF ContentsInv
<1>2. Ordered(q.todo) /\ Others(r) /\ \A x \in Requests : request[x] = Idle
  BY <1>1 DEF Started
<1>3. \A x \in Requests : request'[x] # Idle => x = r
  BY <1>2 DEF Others
<1>4. ContentJob(q, template', content')
  BY <1>2 DEF Ordered, ContentJob
<1>5. Orphanless'
  BY <1>1 DEF ContentsInv, Orphanless
<1>6. QED
  BY <1>3, <1>4, <1>5 DEF ContentsInv

LEMMA ContentsStep ==
  ASSUME TypeInv, ContentsInv, [Next]_vars
  PROVE  ContentsInv'
<1>1. CASE Outside
  BY <1>1, OutsideFrame DEF ContentsInv, Orphanless, DocsUnchanged
<1>2. CASE Restart
  BY <1>2, RestartFrame DEF ContentsInv, Orphanless, DocsUnchanged
<1>3. CASE \E r \in Requests : Request(r)
  BY <1>3, RequestContents
<1>4. CASE \E r \in Requests : Handle(r)
  BY <1>4, ContentsElsewhere, AddContentsContents, CreateTemplateContents, CreateContentContents, ListContentsContents,
     FindDetailContents, DeleteContentContents, DropTemplateContents
<1>5. CASE UNCHANGED vars
  BY <1>5 DEF vars, ContentsInv, Orphanless
<1>6. QED
  BY <1>1, <1>2, <1>3, <1>4, <1>5, Steps

-----------------------------------------------------------------------------
(* DanglingExplained.                                                      *)

\* Deletions are not taken back, contents keep their templates, and logs are kept.
Later(cons, lg, cons2, lg2) ==
  /\ Len(cons) \in Nat /\ DOMAIN cons = 1..Len(cons) /\ Len(cons2) \in Nat /\ DOMAIN cons2 = 1..Len(cons2)
  /\ Len(cons) <= Len(cons2)
  /\ \A c \in Stored(cons2) : c <= Len(cons) => c \in Stored(cons) /\ cons2[c].template = cons[c].template
  /\ lg \subseteq lg2

LEMMA ExcusedStays ==
  ASSUME NEW cons, NEW lg, NEW cons2, NEW lg2, Later(cons, lg, cons2, lg2),
         NEW dets, NEW dets2, NEW d, dets2[d].content = dets[d].content, dets[d].content \in 0..Len(cons),
         Excused(dets, d, cons, lg)
  PROVE  Excused(dets2, d, cons2, lg2)
<1> DEFINE c == dets[d].content
<1> SUFFICES ASSUME c \in Stored(cons2) PROVE DeletionLogged(cons2[c].template, lg2)
  BY DEF Excused, Exists
<1>1. c <= Len(cons)
  BY DEF Later
<1>2. c \in Stored(cons) /\ cons2[c].template = cons[c].template
  BY <1>1 DEF Later
<1>3. DeletionLogged(cons[c].template, lg)
  BY <1>2 DEF Excused, Exists
<1>4. QED
  BY <1>2, <1>3 DEF DeletionLogged, Later

LEMMA LooksUpStays ==
  ASSUME NEW cons, NEW lg, NEW cons2, NEW lg2, Later(cons, lg, cons2, lg2),
         NEW stage, NEW t, LooksUp(stage, t, cons, lg)
  PROVE  LooksUp(stage, t, cons2, lg2)
<1> DEFINE c == stage.content
<1>1. c \in 1..Len(cons) /\ DeletionLogged(t, lg) /\ (Exists(cons, c) => cons[c].template = t)
  BY DEF LooksUp, Later
<1>2. c \in DOMAIN cons2 /\ c <= Len(cons)
  BY <1>1 DEF Later
<1>3. Exists(cons2, c) => cons2[c].template = t
  BY <1>1, <1>2 DEF Later, Exists
<1>4. QED
  BY <1>1, <1>2, <1>3 DEF LooksUp, Later, DeletionLogged

LEMMA ItemJobStays ==
  ASSUME NEW cons, NEW lg, NEW cons2, NEW lg2, Later(cons, lg, cons2, lg2), NEW q, ItemJob(q, cons, lg)
  PROVE  ItemJob(q, cons2, lg2)
<1>1. q.c \in 0..Len(cons2)
  BY DEF Later, ItemJob
<1>2. DeletionLogged(q.t, lg) => DeletionLogged(q.t, lg2)
  BY DEF Later, DeletionLogged
<1>3. QED
  BY <1>1, <1>2, LooksUpStays DEF ItemJob

\* The look-ups among the first k stages of z are for contents of template t.
LookUpsAhead(z, k, t, cons, lg) ==
  \A n \in 1..k : z[n].do = "findDetail" => LooksUp(z[n], t, cons, lg)

LEMMA ItemJobMoves ==
  ASSUME NEW cons, NEW lg, NEW cons2, NEW lg2, Later(cons, lg, cons2, lg2),
         NEW q, IsList(q.todo), q.todo # <<>>, ItemJob(q, cons, lg),
         LogsDeletion(q.todo[1]) => DeletionLogged(q.t, lg2),
         NEW p, p.t = q.t, p.c \in 0..Len(cons2),
         NEW k \in Nat, NEW F, Ahead(p.todo, q.todo, k, F), "listContents" \notin F,
         LookUpsAhead(p.todo, k, p.t, cons2, lg2)
  PROVE  ItemJob(p, cons2, lg2)
<1> DEFINE s == q.todo
           z == p.todo
<1> HIDE DEF s, z
<1>1. IsList(s) /\ s # <<>> /\ Ahead(z, s, k, F) /\ Len(s) \in Nat /\ Len(s) >= 1 /\ Len(z) = k + Len(s) - 1
  BY ListTail, ListFacts DEF s, z, Ahead
<1>2. ASSUME NEW n \in 1..Len(z), z[n].do = "listContents"
      PROVE  DeletionLogged(p.t, lg2) \/ \E m \in 1..Len(z) : m < n /\ LogsDeletion(z[m])
  <2>1. n > k /\ n - k + 1 \in 1..Len(s) /\ z[n] = s[n - k + 1]
    BY <1>1, <1>2, AheadBack
  <2>2. CASE DeletionLogged(q.t, lg)
    BY <2>2 DEF Later, DeletionLogged
  <2>3. ASSUME NEW m \in 1..Len(s), m < n - k + 1, LogsDeletion(s[m])
        PROVE  DeletionLogged(p.t, lg2) \/ \E j \in 1..Len(z) : j < n /\ LogsDeletion(z[j])
    <3>1. CASE m = 1
      BY <2>3, <3>1 DEF s
    <3>2. CASE m # 1
      <4>1. m \in 2..Len(s) /\ m + k - 1 < n
        BY <1>1, <2>1, <2>3, <3>2
      <4>2. m + k - 1 \in 1..Len(z) /\ z[m + k - 1] = s[m]
        BY <1>1, <4>1, AheadOn
      <4>3. QED
        BY <2>3, <4>1, <4>2
    <3>3. QED
      BY <3>1, <3>2
  <2>4. DeletionLogged(q.t, lg) \/ \E m \in 1..Len(s) : m < n - k + 1 /\ LogsDeletion(s[m])
    BY <1>2, <2>1 DEF ItemJob, s
  <2>5. QED
    BY <2>2, <2>3, <2>4
<1>3. ASSUME NEW n \in 1..Len(z), z[n].do = "findDetail"
      PROVE  LooksUp(z[n], p.t, cons2, lg2)
  <2>1. CASE n <= k
    <3>1. n \in 1..k
      BY <1>1, <2>1
    <3>2. QED
      BY <1>3, <3>1 DEF z, LookUpsAhead
  <2>2. CASE n > k
    <3>1. z[n] = s[n - k + 1] /\ n - k + 1 \in 2..Len(s)
      BY <1>1, <2>2 DEF Ahead
    <3>2. n - k + 1 \in 1..Len(s)
      BY <1>1, <3>1
    <3>3. LooksUp(z[n], p.t, cons, lg)
      BY <1>3, <3>1, <3>2 DEF ItemJob, s
    <3>4. QED
      BY <3>3, LooksUpStays
  <2>3. QED
    BY <1>1, <2>1, <2>2
<1>4. QED
  BY <1>2, <1>3 DEF ItemJob, z

\* What a handler, or a request that arrives, does to items and details.
ItemsLater ==
  /\ DOMAIN item \subseteq DOMAIN item'
  /\ \A i \in Stored(item) : i \in Stored(item') \/ Doomed(i)
  /\ \A i \in Stored(item') : item'[i].kind = "media" => item'[i].image \in Images

DetailsLater(r) ==
  \E D : \A d \in Stored(detail') :
    /\ detail'[d].content \in 0..Len(content)
    /\ \A i : Listing(detail', i, d) =>
         \/ d \in Stored(detail) /\ Listing(detail, i, d) /\ detail'[d].content = detail[d].content
         \/ Holds(request[r], i) /\ d = D

HeldLater(r) == \A i : Holds(request'[r], i) => i \notin DOMAIN item /\ Exists(item', i)

LEMMA HeldBack ==
  ASSUME NEW r \in Requests, Others(r), HeldLater(r), NEW x \in Requests, NEW i, Holds(request'[x], i)
  PROVE  \/ x # r /\ Holds(request[x], i)
         \/ x = r /\ i \notin DOMAIN item /\ Exists(item', i)
BY DEF Others, HeldLater

LEMMA DoomedStays ==
  ASSUME ItemsInv, NEW r \in Requests, Others(r), Later(content, log, content', log'),
         ItemsLater, DetailsLater(r), HeldLater(r), NEW i, Doomed(i)
  PROVE  Doomed(i)'
<1>1. i \in DOMAIN item'
  BY DEF Doomed, ItemsLater
<1>2. ASSUME NEW d \in Stored(detail'), Listing(detail', i, d) PROVE Excused(detail', d, content', log')
  <2>1. ~Holds(request[r], i)
    BY DEF Doomed
  <2>2. d \in Stored(detail) /\ Listing(detail, i, d) /\ detail'[d].content = detail[d].content
    BY <1>2, <2>1 DEF DetailsLater
  <2>3. Excused(detail, d, content, log) /\ detail[d].content \in 0..Len(content)
    BY <2>2 DEF Doomed, ItemsInv, DetailsRefer
  <2>4. QED
    BY <2>2, <2>3, ExcusedStays
<1>3. \A x \in Requests : ~Holds(request'[x], i)
  BY HeldBack DEF Doomed
<1>4. QED
  BY <1>1, <1>2, <1>3 DEF Doomed

LEMMA ItemsFrame ==
  ASSUME TypeInv, TypeInv', ItemsInv, NEW r \in Requests, Others(r),
         Later(content, log, content', log'), ItemsLater, DetailsLater(r), HeldLater(r),
         request'[r] # Idle => ItemJob(request'[r], content', log'),
         request'[r] # Idle =>
           \A n \in 1..Len(request'[r].todo) : \A i : Drops(request'[r].todo[n], i) => Doomed(i)
  PROVE  ItemsInv'
<1>1. ASSUME NEW x \in Requests, request'[x] # Idle PROVE ItemJob(request'[x], content', log')
  <2>1. CASE x = r
    BY <1>1, <2>1
  <2>2. CASE x # r
    <3>1. request'[x] = request[x] /\ ItemJob(request[x], content, log)
      BY <1>1, <2>2 DEF Others, ItemsInv
    <3>2. QED
      BY <3>1, ItemJobStays
  <2>3. QED
    BY <2>1, <2>2
<1>2. PICK D : \A d \in Stored(detail') :
        /\ detail'[d].content \in 0..Len(content)
        /\ \A i : Listing(detail', i, d) =>
             \/ d \in Stored(detail) /\ Listing(detail, i, d) /\ detail'[d].content = detail[d].content
             \/ Holds(request[r], i) /\ d = D
  BY DEF DetailsLater
<1>3. \A x \in Requests : \A i : Holds(request[x], i) => i \in DOMAIN item /\ Exists(item, i) /\ Exists(item', i)
  BY DEF ItemsInv, HeldAreFresh, ItemsLater, Exists, Stored, Doomed
<1>4. \A d \in Stored(detail') : \A i : Listing(detail', i, d) => i \in DOMAIN item
  BY <1>2, <1>3 DEF ItemsInv, DetailsRefer
<1>5. HeldAreFresh'
  <2> SUFFICES ASSUME NEW x \in Requests, NEW i, Holds(request'[x], i)
               PROVE  /\ Exists(item', i)
                      /\ \A d \in Stored(detail') : ~Listing(detail', i, d)
                      /\ \A y \in Requests : Holds(request'[y], i) => y = x
    BY DEF HeldAreFresh
  <2>1. CASE x # r /\ Holds(request[x], i)
    <3>1. i \in DOMAIN item /\ Exists(item', i)
      BY <1>3, <2>1
    <3>2. \A y \in Requests : Holds(request[y], i) => y = x
      BY <2>1 DEF ItemsInv, HeldAreFresh
    <3>3. \A d \in Stored(detail') : ~Listing(detail', i, d)
      BY <1>2, <2>1, <3>2 DEF ItemsInv, HeldAreFresh
    <3>4. \A y \in Requests : Holds(request'[y], i) => y = x
      BY <3>1, <3>2, HeldBack
    <3>5. QED
      BY <3>1, <3>3, <3>4
  <2>2. CASE x = r /\ i \notin DOMAIN item /\ Exists(item', i)
    <3>1. \A d \in Stored(detail') : ~Listing(detail', i, d)
      BY <1>4, <2>2
    <3>2. \A y \in Requests : Holds(request'[y], i) => y = x
      BY <1>3, <2>2, HeldBack
    <3>3. QED
      BY <2>2, <3>1, <3>2
  <2>3. QED
    BY <2>1, <2>2, HeldBack
<1>6. DetailsRefer'
  <2>1. \A d \in Stored(detail') : detail'[d].content \in 0..Len(content')
    BY <1>2 DEF Later
  <2>2. \A d \in Stored(detail') : \A i : Listing(detail', i, d) => i \in DOMAIN item'
    BY <1>4 DEF ItemsLater
  <2>3. QED
    BY <2>1, <2>2 DEF DetailsRefer
<1>7. ASSUME NEW d \in Stored(detail'), NEW e \in Stored(detail'), NEW i, Listing(detail', i, d), Listing(detail', i, e)
      PROVE  d = e
  <2>1. CASE Holds(request[r], i)
    <3>1. \A y \in Stored(detail) : ~Listing(detail, i, y)
      BY <2>1 DEF ItemsInv, HeldAreFresh
    <3>2. d = D /\ e = D
      BY <1>2, <1>7, <3>1
    <3>3. QED
      BY <3>2
  <2>2. CASE ~Holds(request[r], i)
    <3>1. d \in Stored(detail) /\ e \in Stored(detail) /\ Listing(detail, i, d) /\ Listing(detail, i, e)
      BY <1>2, <1>7, <2>2
    <3>2. QED
      BY <3>1 DEF ItemsInv
  <2>3. QED
    BY <2>1, <2>2
<1>8. ASSUME NEW x \in Requests, request'[x] # Idle, NEW n \in 1..Len(request'[x].todo), NEW i,
             Drops(request'[x].todo[n], i)
      PROVE  Doomed(i)'
  <2>1. Doomed(i)
    <3>1. CASE x = r
      BY <1>8, <3>1
    <3>2. CASE x # r
      <4>1. request'[x] = request[x]
        BY <3>2 DEF Others
      <4>2. QED
        BY <1>8, <4>1 DEF ItemsInv
    <3>3. QED
      BY <3>1, <3>2
  <2>2. QED
    BY <2>1, DoomedStays
<1>9. DanglingExplained'
  <2> SUFFICES ASSUME NEW d \in Stored(detail'), Exists(content', detail'[d].content),
                      NEW k \in Kinds, NEW i \in detail'[d].items[k]
               PROVE  Exists(item', i) \/ <<content'[detail'[d].content].template, "DELETE">> \in log'
    BY DEF DanglingExplained
  <2> DEFINE c == detail'[d].content
  <2>1. Listing(detail', i, d)
    BY DEF Listing
  <2>2. CASE Holds(request[r], i)
    BY <1>3, <2>2
  <2>3. CASE d \in Stored(detail) /\ Listing(detail, i, d) /\ c = detail[d].content
    <3>1. Excused(detail, d, content, log) => Excused(detail', d, content', log')
      BY <2>3, ExcusedStays DEF ItemsInv, DetailsRefer
    <3>2. Excused(detail', d, content', log') => DeletionLogged(content'[c].template, log')
      BY DEF Excused
    <3>3. CASE Excused(detail, d, content, log)
      BY <3>1, <3>2, <3>3 DEF DeletionLogged
    <3>4. CASE ~Excused(detail, d, content, log)
      <4>1. Exists(content, c) /\ ~DeletionLogged(content[c].template, log)
        BY <2>3, <3>4 DEF Excused
      <4>2. PICK j \in Kinds : i \in detail[d].items[j]
        BY <2>3 DEF Listing
      <4>3. Exists(item, i) \/ <<content[detail[d].content].template, "DELETE">> \in log
        BY <2>3, <4>1, <4>2 DEF ItemsInv, DanglingExplained
      <4>4. Exists(item, i)
        BY <2>3, <4>1, <4>3 DEF DeletionLogged
      <4>5. ~Doomed(i)
        BY <2>3, <3>4 DEF Doomed
      <4>6. QED
        BY <4>4, <4>5 DEF ItemsLater, Exists
    <3>5. QED
      BY <3>3, <3>4
  <2>4. QED
    BY <1>2, <2>1, <2>2, <2>3
<1>10. \A i \in Stored(item') : item'[i].kind = "media" => item'[i].image \in Images
  BY DEF ItemsLater
<1>11. QED
  BY <1>1, <1>5, <1>6, <1>7, <1>8, <1>9, <1>10 DEF ItemsInv

\* Nothing but a request changes.
LEMMA SameLater ==
  ASSUME TypeInv, ItemsInv, UNCHANGED <<content, log>>
  PROVE  Later(content, log, content', log')
<1>1. Len(content) \in Nat /\ DOMAIN content = 1..Len(content)
  BY LenProperties DEF TypeInv, DocsOK
<1>2. QED
  BY <1>1 DEF Later

LEMMA SameItems ==
  ASSUME ItemsInv, item' = item
  PROVE  ItemsLater
BY DEF ItemsInv, ItemsLater

LEMMA SameDetails ==
  ASSUME ItemsInv, NEW r \in Requests, detail' = detail
  PROVE  DetailsLater(r)
BY DEF ItemsInv, DetailsRefer, DetailsLater

LEMMA RequestItems ==
  ASSUME TypeInv, ItemsInv, NEW r \in Requests, Request(r)
  PROVE  ItemsInv'
<1> DEFINE q == request'[r]
<1>1. TypeInv' /\ Started(r) /\ UNCHANGED <<content, log, item, detail>>
  BY ArrivalStarts DEF DocsUnchanged
<1>2. Others(r) /\ Ordered(q.todo) /\ q.c = 0 /\ q.made = {}
  BY <1>1 DEF Started
<1>3. Later(content, log, content', log') /\ ItemsLater /\ DetailsLater(r)
  BY <1>1, SameLater, SameItems, SameDetails
<1>4. HeldLater(r)
  BY <1>2 DEF HeldLater, Holds
<1>5. ItemJob(q, content', log')
  BY <1>2, <1>3 DEF Ordered, ItemJob, Later
<1>6. \A n \in 1..Len(q.todo) : \A i : ~Drops(q.todo[n], i)
  BY <1>2 DEF Ordered, Drops
<1>7. QED
  BY <1>1, <1>2, <1>3, <1>4, <1>5, <1>6, ItemsFrame

LEMMA SameLength == ASSUME NEW a \in Nat, NEW b \in Nat, 1..a = 1..b PROVE a = b
<1>1. \A n \in 1..a : n \in 1..b
  OBVIOUS
<1>2. \A n \in 1..b : n \in 1..a
  OBVIOUS
<1>3. a = 0 \/ a \in 1..a
  OBVIOUS
<1>4. b = 0 \/ b \in 1..b
  OBVIOUS
<1>5. (a = 0 \/ a \in 1..b) /\ (b = 0 \/ b \in 1..a)
  BY <1>1, <1>2, <1>3, <1>4
<1>6. QED
  BY <1>5

LEMMA HandlerLater ==
  ASSUME TypeInv, NEW r \in Requests, Handle(r)
  PROVE  Later(content, log, content', log')
<1>1. TypeInv' /\ content \in Seq(ContentDocs \cup {Gone}) /\ content' \in Seq(ContentDocs \cup {Gone})
  BY HandlerType DEF TypeInv, DocsOK
<1>2. Len(content) \in Nat /\ DOMAIN content = 1..Len(content) /\ Len(content') \in Nat /\ DOMAIN content' = 1..Len(content')
  BY <1>1, LenProperties
<1>3. log \subseteq log'
  BY DEF Handle, AddContents, UpdateContents, CreateTemplate, CreateContent, ListContents, FindDetail, DeleteContent, DropTemplate,
      CreateItem, ReadContents, ReadShown, FindNewest, CreateSchedule, FindSchedule, LogSchedule, Tell,
      LogTemplate, AddDetail, SetTemplate, SetContent, SetDetail, FindTemplate, DeleteItems, DeleteDetail,
      DropSchedule, SetSchedule, ReadTemplate, Render
<1>4. CASE CreateContent(r)
  <2> DEFINE v == [template |-> request[r].t, rect |-> Args(r).rect]
  <2>1. v \in ContentDocs
    BY <1>4, TypedStage DEF CreateContent, TypeInv, Typed, ContentDocs, JobOK
  <2>2. content' = Append(content, v)
    BY <1>4 DEF CreateContent
  <2> HIDE DEF v
  <2>3. /\ Len(content') = Len(content) + 1
        /\ \A i \in 1..Len(content) : content'[i] = content[i]
    BY <1>1, <2>1, <2>2, AppendFacts
  <2>4. \A c \in Stored(content') : c <= Len(content) => c \in Stored(content) /\ content'[c].template = content[c].template
    BY <1>2, <2>3 DEF Stored
  <2>5. QED
    BY <1>2, <1>3, <2>3, <2>4 DEF Later
<1>5. CASE ~CreateContent(r)
  <2>1. Fewer(content, content') /\ DOMAIN content' = DOMAIN content
    <3>1. CASE SetContent(r)
      BY <3>1, SetContentFewer DEF SetContent
    <3>2. CASE DeleteContent(r)
      BY <3>2, GoneContent DEF DeleteContent, Fewer
    <3>3. CASE ~SetContent(r) /\ ~DeleteContent(r)
      <4>1. content' = content
        BY <1>5, <3>3 DEF Handle, AddContents, UpdateContents, CreateTemplate, ListContents, FindDetail, DropTemplate,
      CreateItem, ReadContents, ReadShown, FindNewest, CreateSchedule, FindSchedule, LogSchedule, Tell,
      LogTemplate, AddDetail, SetTemplate, SetDetail, FindTemplate, DeleteItems, DeleteDetail,
      DropSchedule, SetSchedule, ReadTemplate, Render, DocsUnchanged
      <4>2. QED
        BY <4>1 DEF Fewer
    <3>4. QED
      BY <3>1, <3>2, <3>3
  <2>2. Len(content') = Len(content)
    BY <1>2, <2>1, SameLength
  <2>3. QED
    BY <1>2, <1>3, <2>1, <2>2 DEF Later, Fewer
<1>6. QED
  BY <1>4, <1>5

LEMMA HandlerItems ==
  ASSUME TypeInv, ItemsInv, NEW r \in Requests, Handle(r)
  PROVE  ItemsLater
<1>1. CASE CreateItem(r)
  <2>1. Args(r).kind \in Kinds
    BY <1>1, TypedStage DEF CreateItem, TypeInv, Typed
  <2>2. PICK m \in IF Args(r).kind = "media" THEN Images ELSE {None} :
          item' = Append(item, [kind |-> Args(r).kind, image |-> m])
    BY <1>1 DEF CreateItem
  <2> DEFINE v == [kind |-> Args(r).kind, image |-> m]
  <2>3. v \in ItemDocs /\ (v.kind = "media" => v.image \in Images)
    BY <2>1, <2>2 DEF ItemDocs
  <2>4. item' = Append(item, v) /\ item \in Seq(ItemDocs \cup {Gone})
    BY <2>2 DEF TypeInv, DocsOK
  <2> HIDE DEF v
  <2>5. /\ Len(item) \in Nat /\ DOMAIN item = 1..Len(item) /\ DOMAIN item' = 1..(Len(item) + 1)
        /\ \A i \in 1..Len(item) : item'[i] = item[i]
        /\ item'[Len(item) + 1] = v
    BY <2>3, <2>4, AppendFacts
  <2>6. \A i \in Stored(item') : i \in Stored(item) \/ i = Len(item) + 1
    BY <2>5 DEF Stored
  <2>7. \A i \in Stored(item) : i \in Stored(item') /\ item'[i] = item[i]
    BY <2>5 DEF Stored
  <2>8. \A i \in Stored(item') : item'[i].kind = "media" => item'[i].image \in Images
    BY <2>3, <2>5, <2>6, <2>7 DEF ItemsInv
  <2>9. DOMAIN item \subseteq DOMAIN item'
    BY <2>5
  <2>10. QED
    BY <2>7, <2>8, <2>9 DEF ItemsLater
<1>2. CASE DeleteItems(r)
  <2> DEFINE kind == Args(r).kind
             ids == Args(r).ids
  <2>1. /\ request[r] # Idle /\ 1 \in 1..Len(request[r].todo) /\ Args(r) = request[r].todo[1] /\ Args(r).do = "deleteItems"
        /\ ids \subseteq Nat
    BY <1>2, ContentStage, TypedStage DEF DeleteItems, TypeInv, Typed
  <2>2. item' = [i \in DOMAIN item |-> IF i \in Deleted(kind, ids) THEN Gone ELSE item[i]]
    BY <1>2 DEF DeleteItems
  <2>3. ASSUME NEW i \in Stored(item), i \in Deleted(kind, ids) PROVE Doomed(i)
    <3>1. CASE kind \in {"weather", "cam"}
      <4>1. Drops(request[r].todo[1], i)
        BY <2>1, <2>3, <3>1 DEF Drops, Deleted
      <4>2. QED
        BY <2>1, <4>1 DEF ItemsInv
    <3>2. CASE kind \notin {"weather", "cam"}
      <4>1. item[i].kind = "media" /\ item[i].image \in ids
        BY <2>3, <3>2 DEF Deleted
      <4>2. item[i].image \in Images /\ item[i].image \in Nat
        BY <2>1, <4>1 DEF ItemsInv
      <4>3. QED
        BY <4>2, SignageAssumption
    <3>3. QED
      BY <3>1, <3>2
  <2> HIDE DEF kind, ids
  <2>4. DOMAIN item' = DOMAIN item
    BY <2>2
  <2>5. \A i \in DOMAIN item : item'[i] = IF i \in Deleted(kind, ids) THEN Gone ELSE item[i]
    BY <2>2
  <2>6. \A i \in Stored(item') : i \in Stored(item) /\ item'[i] = item[i]
    BY <2>4, <2>5 DEF Stored
  <2>7. \A i \in Stored(item) : i \in Stored(item') \/ Doomed(i)
    BY <2>3, <2>4, <2>5 DEF Stored
  <2>8. QED
    BY <2>4, <2>6, <2>7 DEF ItemsLater, ItemsInv
<1>3. CASE ~CreateItem(r) /\ ~DeleteItems(r)
  <2>1. item' = item
    BY <1>3 DEF Handle, AddContents, UpdateContents, CreateTemplate, CreateContent, ListContents, FindDetail, DeleteContent, DropTemplate,
      ReadContents, ReadShown, FindNewest, CreateSchedule, FindSchedule, LogSchedule, Tell,
      LogTemplate, AddDetail, SetTemplate, SetContent, SetDetail, FindTemplate, DeleteDetail,
      DropSchedule, SetSchedule, ReadTemplate, Render, DocsUnchanged
  <2>2. QED
    BY <2>1, SameItems
<1>4. QED
  BY <1>1, <1>2, <1>3

LEMMA HandlerDetails ==
  ASSUME TypeInv, ItemsInv, NEW r \in Requests, Handle(r)
  PROVE  DetailsLater(r)
<1> DEFINE q == request[r]
<1>1. detail \in Seq(DetailDocs \cup {Gone}) /\ \A d \in Stored(detail) : detail[d].content \in 0..Len(content)
  BY DEF TypeInv, DocsOK, ItemsInv, DetailsRefer
<1>2. CASE AddDetail(r)
  <2>1. q # Idle /\ q.todo # <<>> /\ q.todo[1].do = "addDetail" /\ JobOK(q) /\ q.c \in 0..Len(content)
    BY <1>2, ContentStage DEF AddDetail, ItemsInv, ItemJob
  <2> DEFINE v == [content |-> q.c,
                   items |-> [k \in Kinds |-> IF k = Args(r).kind THEN q.made ELSE {}]]
  <2>2. v \in DetailDocs /\ v.content = q.c /\ \A k \in Kinds : v.items[k] \subseteq q.made
    BY <2>1 DEF DetailDocs, JobOK
  <2>3. detail' = Append(detail, v)
    BY <1>2 DEF AddDetail
  <2> HIDE DEF v, q
  <2> DEFINE D == Len(detail) + 1
  <2>4. /\ Len(detail) \in Nat /\ DOMAIN detail = 1..Len(detail) /\ DOMAIN detail' = 1..D
        /\ \A i \in 1..Len(detail) : detail'[i] = detail[i]
        /\ detail'[D] = v
    BY <1>1, <2>2, <2>3, AppendFacts
  <2>5. ASSUME NEW d \in Stored(detail'), d # D PROVE d \in Stored(detail) /\ detail'[d] = detail[d]
    BY <2>4, <2>5 DEF Stored
  <2>6. \A i : Listing(detail', i, D) => Holds(q, i)
    BY <2>1, <2>2, <2>4 DEF Listing, Holds, Lists
  <2>7. detail'[D].content \in 0..Len(content)
    BY <2>1, <2>2, <2>4
  <2> HIDE DEF D
  <2>8. ASSUME NEW d \in Stored(detail')
        PROVE  /\ detail'[d].content \in 0..Len(content)
               /\ \A i : Listing(detail', i, d) =>
                    \/ d \in Stored(detail) /\ Listing(detail, i, d) /\ detail'[d].content = detail[d].content
                    \/ Holds(q, i) /\ d = D
    <3>1. CASE d = D
      BY <2>6, <2>7, <3>1
    <3>2. CASE d # D
      <4>1. d \in Stored(detail) /\ detail'[d] = detail[d]
        BY <2>5, <3>2
      <4>2. QED
        BY <1>1, <4>1 DEF Listing
    <3>3. QED
      BY <3>1, <3>2
  <2>9. QED
    BY <2>8 DEF DetailsLater, q
<1>3. CASE SetDetail(r) /\ DetailsOf(Args(r).content) # {}
  <2> DEFINE D == FirstDetail(Args(r).content)
             kind == Args(r).kind
             v == [content |-> detail[D].content,
                   items |-> [k \in Kinds |-> IF k = kind THEN NewItems(r) ELSE detail[D].items[k]]]
  <2>1. q.todo # <<>> /\ Args(r) = q.todo[1] /\ Args(r).do = "setDetail"
    BY <1>3, ContentStage DEF SetDetail
  <2>2. detail' = [detail EXCEPT ![D] = v] /\ D \in Stored(detail)
    BY <1>3, SetDetailFacts, FirstDetailFacts DEF TypeInv
  <2>3. \A i \in NewItems(r) : Holds(q, i)
    BY <2>1 DEF NewItems, Holds, Lists
  <2>4. v.content = detail[D].content /\ \A k \in Kinds : v.items[k] = IF k = kind THEN NewItems(r) ELSE detail[D].items[k]
    OBVIOUS
  <2> HIDE DEF D, v, q, kind
  <2>5. DOMAIN detail' = DOMAIN detail /\ \A d \in DOMAIN detail : detail'[d] = IF d = D THEN v ELSE detail[d]
    BY <2>2
  <2>6. \A d \in Stored(detail') : d \in Stored(detail)
    BY <2>2, <2>5 DEF Stored
  <2>7. \A d \in Stored(detail') : detail'[d].content = detail[d].content
    BY <2>4, <2>5 DEF Stored
  <2>8. ASSUME NEW d \in Stored(detail'), NEW i, Listing(detail', i, d)
        PROVE  Listing(detail, i, d) \/ (Holds(q, i) /\ d = D)
    <3>1. PICK k \in Kinds : i \in detail'[d].items[k]
      BY <2>8 DEF Listing
    <3>2. CASE d = D
      <4>1. detail'[d] = v
        BY <2>5, <3>2 DEF Stored
      <4>2. QED
        BY <2>3, <2>4, <3>1, <3>2, <4>1 DEF Listing
    <3>3. CASE d # D
      <4>1. detail'[d] = detail[d]
        BY <2>5, <3>3 DEF Stored
      <4>2. QED
        BY <3>1, <4>1 DEF Listing
    <3>4. QED
      BY <3>2, <3>3
  <2>9. QED
    BY <1>1, <2>6, <2>7, <2>8 DEF DetailsLater, q
<1>4. CASE DeleteDetail(r)
  <2>1. detail' = [detail EXCEPT ![Args(r).detail] = Gone]
    BY <1>4 DEF DeleteDetail
  <2>2. /\ DOMAIN detail' = DOMAIN detail
        /\ \A j \in DOMAIN detail : detail'[j] = IF j = Args(r).detail THEN Gone ELSE detail[j]
    BY <1>1, <2>1, GoneFacts
  <2>3. \A d \in Stored(detail') : d \in Stored(detail) /\ detail'[d] = detail[d]
    BY <2>2 DEF Stored
  <2>4. QED
    BY <1>1, <2>3 DEF DetailsLater, Listing
<1>5. CASE ~AddDetail(r) /\ ~(SetDetail(r) /\ DetailsOf(Args(r).content) # {}) /\ ~DeleteDetail(r)
  <2>1. detail' = detail
    BY <1>5 DEF Handle, AddContents, UpdateContents, CreateTemplate, CreateContent, ListContents, FindDetail, DeleteContent, DropTemplate,
      ReadContents, ReadShown, FindNewest, CreateSchedule, FindSchedule, LogSchedule, Tell,
      LogTemplate, CreateItem, SetTemplate, SetContent, SetDetail, FindTemplate, DeleteItems,
      DropSchedule, SetSchedule, ReadTemplate, Render, DocsUnchanged
  <2>2. QED
    BY <2>1, SameDetails
<1>6. QED
  BY <1>2, <1>3, <1>4, <1>5

\* Only a handler that has just created items holds any.
LEMMA HandlerHolds ==
  ASSUME TypeInv, NEW r \in Requests, Handle(r)
  PROVE  HeldLater(r)
<1> DEFINE s == request[r].todo
           z == request'[r].todo
<1> SUFFICES ASSUME NEW i, Holds(request'[r], i) PROVE i \notin DOMAIN item /\ Exists(item', i)
  BY DEF HeldLater
<1>1. /\ request[r].todo # <<>> /\ IsList(s) /\ s # <<>> /\ Len(s) \in Nat /\ TodoOK(s) /\ Head(s) = s[1]
  BY HandlerType, WorkingList DEF TypeInv
<1>2. request'[r] # Idle /\ z # <<>> /\ Lists(z[1]) /\ i \in request'[r].made
  BY DEF Holds, Idle
<1>3. CreateItem(r)
  <2>1. PICK F \in SUBSET InsertedNames, f \in Fields :
          /\ Moved(r, F, f)
          /\ \/ F = {} \/ F = {"readShown"} \/ AddContents(r) \/ UpdateContents(r)
             \/ F = {"findDetail"} \/ F = Removing
    BY HandlerMoves
  <2>2. JobOK(request'[r]) /\ \E k \in Nat : Ahead(z, s, k, F)
    BY <1>2, <2>1 DEF Moved
  <2> HIDE DEF s, z
  <2>3. PICK k \in Nat : Ahead(z, s, k, F)
    BY <2>2
  <2>4. IsList(z) /\ 1 \in 1..Len(z)
    <3>1. IsList(z)
      BY <2>2 DEF JobOK, TodoOK, z
    <3>2. QED
      BY <1>2, <3>1, ListTail, ListFacts
  <2>5. z[1].do \in {"addDetail", "setDetail"}
    BY <1>2 DEF Lists
  <2>6. z[1].do \notin F
    <3>1. ~AddContents(r) /\ ~UpdateContents(r)
      BY <1>2, AddContentsMoves, UpdateContentsMoves DEF z
    <3>2. QED
      BY <2>1, <2>5, <3>1 DEF Removing
  <2>7. 1 - k + 1 \in 2..Len(s) /\ z[1] = s[1 - k + 1]
    <3>1. PICK n \in 1..Len(z) : n = 1
      BY <2>4
    <3>2. z[n].do \notin F
      BY <2>6, <3>1
    <3>3. n - k + 1 \in 2..Len(s) /\ z[n] = s[n - k + 1]
      BY <1>1, <2>3, <3>2, AheadBack
    <3>4. QED
      BY <3>1, <3>3
  <2>8. k = 0 /\ 1 - k + 1 = 2
    BY <2>7
  <2>9. s[2 - 1].do = "createItem" /\ 2 - 1 = 1
    BY <1>1, <1>2, <2>7, <2>8 DEF TodoOK, Paired
  <2>10. Head(request[r].todo).do = "createItem"
    BY <1>1, <2>9 DEF s
  <2>11. QED
    BY <2>10 DEF Handle, AddContents, UpdateContents, CreateTemplate, CreateContent, ListContents, FindDetail, DeleteContent, DropTemplate,
      ReadContents, ReadShown, FindNewest, CreateSchedule, FindSchedule, LogSchedule, Tell,
      LogTemplate, AddDetail, SetTemplate, SetContent, SetDetail, FindTemplate, DeleteItems, DeleteDetail,
      DropSchedule, SetSchedule, ReadTemplate, Render, At
<1>4. i = Len(item) + 1
  <2>1. request'[r] = Changed(request[r], Tail(request[r].todo), "made", {Len(item) + 1})
    BY <1>3, CreateItemMoves DEF TypeInv
  <2>2. request'[r].made = {Len(item) + 1}
    BY <2>1 DEF Changed, Fields
  <2>3. QED
    BY <1>2, <2>2
<1>5. Args(r).kind \in Kinds
  BY <1>3, TypedStage DEF CreateItem, TypeInv, Typed
<1>6. PICK m \in IF Args(r).kind = "media" THEN Images ELSE {None} :
        item' = Append(item, [kind |-> Args(r).kind, image |-> m])
  BY <1>3 DEF CreateItem
<1> DEFINE v == [kind |-> Args(r).kind, image |-> m]
<1>7. v \in ItemDocs
  BY <1>5, <1>6 DEF ItemDocs
<1>8. item' = Append(item, v) /\ item \in Seq(ItemDocs \cup {Gone}) /\ v # Gone
  BY <1>6, <1>7, SignageAssumption DEF TypeInv, DocsOK
<1> HIDE DEF v
<1>9. /\ Len(item) \in Nat /\ DOMAIN item = 1..Len(item) /\ DOMAIN item' = 1..(Len(item) + 1)
      /\ item'[Len(item) + 1] = v
  BY <1>7, <1>8, AppendFacts
<1>10. QED
  BY <1>4, <1>8, <1>9 DEF Exists, Stored

\* A request that lists contents deletes a template.
LEMMA ItemFamilies ==
  ASSUME NEW s, TodoOK(s), Has(s, "createTemplate")
  PROVE  ~Has(s, "listContents") /\ ~Has(s, "findDetail")
<1>1. PICK F \in {Adding, Deleting, Creating, Saving} : Words(s, F)
  BY DEF TodoOK
<1>2. \A name : Has(s, name) => name \in F
  BY <1>1 DEF Has, Words
<1>3. "createTemplate" \in F => "listContents" \notin F /\ "findDetail" \notin F
  BY DEF Adding, Deleting, Creating, Saving, Editing
<1>4. QED
  BY <1>2, <1>3

\* A deletion that was to be logged is, once the stage that logs it is done.
LEMMA HandlerLogs ==
  ASSUME TypeInv, NEW r \in Requests, Handle(r), LogsDeletion(request[r].todo[1])
  PROVE  DeletionLogged(request[r].t, log')
<1>1. request[r].todo # <<>> /\ Head(request[r].todo) = request[r].todo[1] /\ request[r].todo[1].do = "logTemplate"
      /\ request[r].todo[1].memo = "DELETE"
  BY HandlerType, WorkingList DEF TypeInv, LogsDeletion
<1>2. LogTemplate(r)
  BY <1>1 DEF Handle, AddContents, UpdateContents, CreateTemplate, CreateContent, ListContents, FindDetail, DeleteContent, DropTemplate, CreateItem,
      ReadContents, ReadShown, FindNewest, CreateSchedule, FindSchedule, LogSchedule, Tell,
      AddDetail, SetTemplate, SetContent, SetDetail, FindTemplate, DeleteItems, DeleteDetail,
      DropSchedule, SetSchedule, ReadTemplate, Render, At
<1>3. log' = log \cup {<<request[r].t, "DELETE">>}
  BY <1>1, <1>2 DEF LogTemplate, Args
<1>4. QED
  BY <1>3 DEF DeletionLogged

LEMMA HandlerJob ==
  ASSUME TypeInv, ItemsInv, NEW r \in Requests, Handle(r), request'[r] # Idle
  PROVE  ItemJob(request'[r], content', log')
<1> DEFINE q == request[r]
           p == request'[r]
<1>1. q.todo # <<>> /\ IsList(q.todo) /\ q # Idle /\ JobOK(q) /\ Head(q.todo) = q.todo[1]
  BY HandlerType, WorkingList DEF TypeInv
<1>2. ItemJob(q, content, log)
  BY <1>1 DEF ItemsInv
<1>3. Later(content, log, content', log')
  BY HandlerLater
<1>4. LogsDeletion(q.todo[1]) => DeletionLogged(q.t, log')
  BY HandlerLogs
<1>5. p.c \in 0..Len(content')
  <2>1. CASE CreateContent(r)
    <3>1. p = Changed(q, Tail(q.todo), "c", Len(content) + 1)
      BY <2>1, CreateContentMoves DEF TypeInv
    <3>2. p.c = Len(content) + 1
      BY <3>1 DEF Changed, Fields
    <3>3. Len(content') = Len(content) + 1
      BY <2>1 DEF CreateContent, TypeInv, DocsOK
    <3>4. QED
      BY <1>3, <3>2, <3>3 DEF Later
  <2>2. CASE ~CreateContent(r)
    <3>1. PICK F \in SUBSET InsertedNames, f \in Fields : Moved(r, F, f) /\ (f = "c" => CreateContent(r))
      BY HandlerMoves
    <3>2. p.c = q.c
      BY <2>2, <3>1 DEF Moved, Kept
    <3>3. QED
      BY <1>2, <1>3, <3>2 DEF ItemJob, Later
  <2>3. QED
    BY <2>1, <2>2
<1>6. CASE CreateTemplate(r)
  <2>1. Has(q.todo, "createTemplate")
    BY <1>6, ContentStage DEF CreateTemplate
  <2>2. p.todo = Tail(q.todo)
    BY <1>6, CreateTemplateMoves DEF TypeInv, Changed, Fields
  <2> HIDE DEF q, p
  <2>3. ~Has(p.todo, "listContents") /\ ~Has(p.todo, "findDetail")
    BY <1>1, <2>1, <2>2, ItemFamilies, TailHas DEF JobOK
  <2>4. QED
    BY <1>5, <2>3 DEF ItemJob, Has, p
<1>7. ASSUME NEW F, NEW f \in Fields \ {"t"}, Moved(r, F, f), F \cap {"listContents", "findDetail"} = {}
      PROVE  ItemJob(p, content', log')
  <2>1. p.t = q.t /\ \E k \in Nat : Ahead(p.todo, q.todo, k, F)
    BY <1>7 DEF Moved, Kept
  <2> HIDE DEF q, p
  <2>2. PICK k \in Nat : Ahead(p.todo, q.todo, k, F)
    BY <2>1
  <2>3. LookUpsAhead(p.todo, k, p.t, content', log')
    BY <1>7, <2>2 DEF Ahead, LookUpsAhead
  <2>4. "listContents" \notin F
    BY <1>7
  <2>5. QED
    BY <1>1, <1>2, <1>3, <1>4, <1>5, <2>1, <2>2, <2>3, <2>4, ItemJobMoves
<1>8. CASE FindDetail(r)
  <2>1. Moved(r, Removing, "todo")
    BY <1>8, FindDetailMoves
  <2>2. "todo" \in Fields \ {"t"} /\ Removing \cap {"listContents", "findDetail"} = {}
    BY DEF Fields, Removing
  <2>3. QED
    BY <1>7, <2>1, <2>2
<1>9. CASE ListContents(r)
  <2> DEFINE a == Lookups(q.t)
             G == {"findDetail"}
  <2>1. Inserted(r, a) /\ UNCHANGED <<content, log>>
    BY <1>9, ListContentsMoves DEF ListContents, DocsUnchanged
  <2>2. p.todo = a \o Tail(q.todo) /\ p.t = q.t
    BY <2>1 DEF Inserted, Same
  <2>3. /\ 1 \in 1..Len(q.todo) /\ q.todo[1].do = "listContents"
    BY <1>9, ContentStage DEF ListContents
  <2>4. DeletionLogged(q.t, log)
    <3>1. DeletionLogged(q.t, log) \/ \E m \in 1..Len(q.todo) : m < 1 /\ LogsDeletion(q.todo[m])
      BY <1>2, <2>3 DEF ItemJob
    <3>2. \A m \in 1..Len(q.todo) : ~(m < 1)
      BY <1>1, ListFacts
    <3>3. QED
      BY <3>1, <3>2
  <2>5. /\ IsList(a) /\ Len(a) \in Nat /\ Words(a, G)
        /\ \A n \in 1..Len(a) : LooksUp(a[n], q.t, content, log)
    <3> DEFINE t == q.t
    <3> HIDE DEF t
    <3>1. /\ IsList(Lookups(t)) /\ Len(Lookups(t)) = Len(ContentsOf(t)) /\ Len(ContentsOf(t)) \in Nat
          /\ \A n \in 1..Len(Lookups(t)) :
                Lookups(t)[n].do = "findDetail" /\ Lookups(t)[n].content = ContentsOf(t)[n]
          /\ \A n \in 1..Len(ContentsOf(t)) :
                ContentsOf(t)[n] \in Stored(content) /\ content[ContentsOf(t)[n]].template = t
      BY LookupsFacts, ContentsOfFacts DEF TypeInv
    <3>2. \A n \in 1..Len(Lookups(t)) : LooksUp(Lookups(t)[n], t, content, log)
      BY <2>4, <3>1 DEF LooksUp, Stored, t
    <3>3. QED
      BY <3>1, <3>2 DEF Words, t
  <2>8. "listContents" \notin G
    OBVIOUS
  <2> HIDE DEF a, q, p, G
  <2>6. /\ Ahead(p.todo, q.todo, Len(a), G)
        /\ \A m \in 1..Len(a) : p.todo[m] = a[m]
    BY <1>1, <2>2, <2>5, InsertAhead, ListTail, ListConcat
  <2>7. LookUpsAhead(p.todo, Len(a), p.t, content', log')
    BY <2>1, <2>2, <2>5, <2>6 DEF LookUpsAhead
  <2>9. QED
    BY <1>1, <1>2, <1>3, <1>4, <1>5, <2>2, <2>5, <2>6, <2>7, <2>8, ItemJobMoves DEF p
<1>10. CASE ~CreateTemplate(r) /\ ~FindDetail(r) /\ ~ListContents(r)
  <2>1. PICK F \in SUBSET InsertedNames, f \in Fields :
          /\ Moved(r, F, f)
          /\ f = "t" => CreateTemplate(r)
          /\ F = {} \/ F = {"readShown"} \/ F = AddWords \/ F = UpdateWords \/ ListContents(r) \/ FindDetail(r)
    BY HandlerMoves
  <2>2. f \in Fields \ {"t"} /\ F \cap {"listContents", "findDetail"} = {}
    BY <1>10, <2>1 DEF AddWords, UpdateWords
  <2>3. QED
    BY <1>7, <2>1, <2>2
<1>11. QED
  BY <1>6, <1>8, <1>9, <1>10

\* What a removal deletes is listed by the detail of a content whose template goes, only.
LEMMA RemovalDooms ==
  ASSUME TypeInv, ItemsInv, NEW c, NEW t, LooksUp([content |-> c], t, content, log),
         NEW n \in 1..Len(Removal(c)), NEW i, Drops(Removal(c)[n], i)
  PROVE  Doomed(i)
<1> DEFINE e == FirstDetail(c)
           k == Removal(c)[n].kind
<1>1. DetailsOf(c) # {} /\ k \in Kinds /\ i \in detail[e].items[k]
  BY RemovalFacts DEF TypeInv, Drops
<1>2. e \in Stored(detail) /\ detail[e].content = c
  BY <1>1, FirstDetailFacts DEF TypeInv
<1> HIDE DEF k, e
<1>3. Listing(detail, i, e)
  BY <1>1 DEF Listing
<1>4. DeletionLogged(t, log) /\ (Exists(content, c) => content[c].template = t)
  BY DEF LooksUp
<1>5. ASSUME NEW d \in Stored(detail), Listing(detail, i, d) PROVE Excused(detail, d, content, log)
  <2>1. d = e
    BY <1>2, <1>3, <1>5 DEF ItemsInv
  <2>2. QED
    BY <1>2, <1>4, <2>1 DEF Excused
<1>6. i \in DOMAIN item
  BY <1>2, <1>3 DEF ItemsInv, DetailsRefer
<1>7. \A r \in Requests : ~Holds(request[r], i)
  BY <1>2, <1>3 DEF ItemsInv, HeldAreFresh
<1>8. QED
  BY <1>5, <1>6, <1>7 DEF Doomed

LEMMA HandlerDooms ==
  ASSUME TypeInv, ItemsInv, NEW r \in Requests, Handle(r), request'[r] # Idle,
         NEW n \in 1..Len(request'[r].todo), NEW i, Drops(request'[r].todo[n], i)
  PROVE  Doomed(i)
<1> DEFINE q == request[r]
           p == request'[r]
<1>1. q.todo # <<>> /\ IsList(q.todo) /\ q # Idle /\ JobOK(q)
  BY HandlerType, WorkingList DEF TypeInv
<1>2. \A m \in 1..Len(q.todo) : Drops(q.todo[m], i) => Doomed(i)
  BY <1>1 DEF ItemsInv
<1>3. p.todo[n].do = "deleteItems"
  BY DEF Drops
<1>4. CASE ~FindDetail(r)
  <2>1. PICK F \in SUBSET InsertedNames, f \in Fields :
          /\ Moved(r, F, f)
          /\ F = {} \/ F = {"readShown"} \/ F = AddWords \/ F = UpdateWords \/ ListContents(r) \/ FindDetail(r)
    BY HandlerMoves
  <2>2. \E G : "deleteItems" \notin G /\ \E g : Moved(r, G, g)
    <3>1. CASE ListContents(r)
      <4>1. Moved(r, {"findDetail"}, "todo") /\ "deleteItems" \notin {"findDetail"}
        BY <3>1, ListContentsMoves
      <4>2. QED
        BY <4>1
    <3>2. CASE ~ListContents(r)
      <4>1. "deleteItems" \notin F
        BY <1>4, <2>1, <3>2 DEF AddWords, UpdateWords
      <4>2. QED
        BY <2>1, <4>1
    <3>3. QED
      BY <3>1, <3>2
  <2>3. PICK G : "deleteItems" \notin G /\ \E k \in Nat : Ahead(p.todo, q.todo, k, G)
    BY <2>2 DEF Moved
  <2> HIDE DEF q, p
  <2>4. PICK k \in Nat : Ahead(p.todo, q.todo, k, G)
    BY <2>3
  <2>5. n \in 1..Len(p.todo) /\ Drops(p.todo[n], i)
    BY DEF p
  <2>6. p.todo[n].do \notin G
    BY <2>3, <2>5 DEF Drops
  <2>7. n - k + 1 \in 1..Len(q.todo) /\ p.todo[n] = q.todo[n - k + 1]
    BY <1>1, <2>4, <2>5, <2>6, AheadBack
  <2>8. QED
    BY <1>2, <2>5, <2>7
<1>5. CASE FindDetail(r)
  <2> DEFINE c == Args(r).content
             a == Removal(c)
  <2>1. Inserted(r, a)
    BY <1>5, FindDetailMoves
  <2>2. 1 \in 1..Len(q.todo) /\ q.todo[1].do = "findDetail" /\ c = q.todo[1].content
    BY <1>5, ContentStage DEF FindDetail
  <2>3. LooksUp(q.todo[1], q.t, content, log)
    BY <1>1, <2>2 DEF ItemsInv, ItemJob
  <2>4. LooksUp([content |-> c], q.t, content, log)
    BY <2>2, <2>3 DEF LooksUp
  <2>5. p.todo = a \o Tail(q.todo)
    BY <2>1 DEF Inserted
  <2>6. IsList(a) /\ Len(a) \in Nat /\ Words(a, Removing)
    BY RemovalFacts DEF TypeInv
  <2>7. n \in 1..Len(p.todo) /\ Drops(p.todo[n], i)
    OBVIOUS
  <2>8. \A m \in 1..Len(a) : Drops(a[m], i) => Doomed(i)
    BY <2>4, RemovalDooms
  <2> HIDE DEF a, c, q, p
  <2>9. /\ Ahead(p.todo, q.todo, Len(a), Removing) /\ Len(q.todo) \in Nat /\ Len(q.todo) >= 1
        /\ \A m \in 1..Len(a) : p.todo[m] = a[m]
    BY <1>1, <2>5, <2>6, InsertAhead, ListTail, ListConcat, ListFacts
  <2>10. CASE n <= Len(a)
    <3>1. n \in 1..Len(a) /\ p.todo[n] = a[n]
      BY <2>6, <2>7, <2>9, <2>10
    <3>2. QED
      BY <2>7, <2>8, <3>1
  <2>11. CASE n > Len(a)
    <3>1. p.todo[n] = q.todo[n - Len(a) + 1] /\ n - Len(a) + 1 \in 2..Len(q.todo)
      BY <2>7, <2>9, <2>11 DEF Ahead
    <3>2. n - Len(a) + 1 \in 1..Len(q.todo)
      BY <2>9, <3>1
    <3>3. QED
      BY <1>2, <2>7, <3>1, <3>2
  <2>12. QED
    BY <2>6, <2>7, <2>10, <2>11
<1>6. QED
  BY <1>4, <1>5

LEMMA ItemsStep ==
  ASSUME TypeInv, ItemsInv, [Next]_vars
  PROVE  ItemsInv'
<1>1. CASE Outside
  BY <1>1, OutsideFrame
     DEF DocsUnchanged, ItemsInv, HeldAreFresh, DetailsRefer, Doomed, DanglingExplained
<1>2. CASE Restart
  <2>1. DocsUnchanged /\ log' = log /\ \A r \in Requests : request'[r] = Idle
    BY <1>2, RestartFrame
  <2>2. \A q, i : q = Idle => ~Holds(q, i)
    BY DEF Holds, Idle
  <2>3. QED
    BY <2>1, <2>2 DEF DocsUnchanged, ItemsInv, HeldAreFresh, DetailsRefer, DanglingExplained
<1>3. CASE \E r \in Requests : Request(r)
  BY <1>3, RequestItems
<1>4. ASSUME NEW r \in Requests, Handle(r) PROVE ItemsInv'
  <2>1. TypeInv' /\ Others(r)
    BY <1>4, HandlerType
  <2>2. Later(content, log, content', log') /\ ItemsLater /\ DetailsLater(r) /\ HeldLater(r)
    BY <1>4, HandlerLater, HandlerItems, HandlerDetails, HandlerHolds
  <2>3. request'[r] # Idle => ItemJob(request'[r], content', log')
    BY <1>4, HandlerJob
  <2>4. request'[r] # Idle =>
          \A n \in 1..Len(request'[r].todo) : \A i : Drops(request'[r].todo[n], i) => Doomed(i)
    BY <1>4, HandlerDooms
  <2>5. QED
    BY <2>1, <2>2, <2>3, <2>4, ItemsFrame
<1>5. CASE UNCHANGED vars
  BY <1>5 DEF vars, ItemsInv, HeldAreFresh, DetailsRefer, Doomed, DanglingExplained
<1>6. QED
  BY <1>1, <1>2, <1>3, <1>4, <1>5, Steps

-----------------------------------------------------------------------------
(* The properties.                                                         *)

\* The collections of esignage hold documents of their schemas, and every handler of
\* eSignageCM.service.ts has a list of stages that fit together, whatever overlaps.
THEOREM TypeCorrect == Spec => []TypeInv
<1>1. Init => TypeInv
  BY InitType
<1>2. TypeInv /\ [Next]_vars => TypeInv'
  BY NextType
<1>3. QED
  BY <1>1, <1>2, PTL DEF Spec

LEMMA InitSchedules == ASSUME Init PROVE SchedulesInv
BY DEF Init, SchedulesInv

\* PublishedAreLogged: publishScheduleWithTemplateAndAddSchedule and ...AndUpdateSchedule tell
\* the CMS of a schedule only once it is in the schedule logs, or was deleted meanwhile.
THEOREM PublishedSchedulesAreLogged == Spec => []PublishedAreLogged
<1>1. Init => TypeInv /\ SchedulesInv
  BY InitType, InitSchedules
<1>2. TypeInv /\ SchedulesInv /\ [Next]_vars => TypeInv' /\ SchedulesInv'
  BY NextType, SchedulesStep
<1>3. SchedulesInv => PublishedAreLogged
  BY DEF SchedulesInv, Settled, PublishedAreLogged
<1>4. QED
  BY <1>1, <1>2, <1>3, PTL DEF Spec

LEMMA InitContents == ASSUME Init PROVE ContentsInv
BY DEF Init, ContentsInv, Orphanless, Stored

\* ContentsHaveTemplate: while requests come one at a time, a content belongs to a template that
\* exists, wherever deleteTemplate is cut short, because the template goes after its contents.
THEOREM ContentsKeepTemplates == Spec => []ContentsHaveTemplate
<1>1. Init => TypeInv /\ ContentsInv
  BY InitType, InitContents
<1>2. TypeInv /\ ContentsInv /\ [Next]_vars => TypeInv' /\ ContentsInv'
  BY NextType, ContentsStep
<1>3. ContentsInv => ContentsHaveTemplate
  BY DEF ContentsInv, Orphanless, ContentsHaveTemplate
<1>4. QED
  BY <1>1, <1>2, <1>3, PTL DEF Spec

LEMMA InitItems == ASSUME Init PROVE ItemsInv
<1>1. \A r \in Requests : request[r] = Idle
  BY DEF Init
<1>2. \A q, i : q = Idle => ~Holds(q, i)
  BY DEF Holds, Idle
<1>3. Stored(detail) = {} /\ Stored(item) = {}
  BY DEF Init, Stored
<1>4. QED
  BY <1>1, <1>2, <1>3 DEF ItemsInv, HeldAreFresh, DetailsRefer, DanglingExplained

\* DanglingExplained: an item listed by a content that exists is there, unless the deletion of
\* the content's template was logged, whatever deleteTemplate and the updates of contents overlap with.
THEOREM DanglingItemsAreExplained == Spec => []DanglingExplained
<1>1. Init => TypeInv /\ ItemsInv
  BY InitType, InitItems
<1>2. TypeInv /\ ItemsInv /\ [Next]_vars => TypeInv' /\ ItemsInv'
  BY NextType, ItemsStep
<1>3. ItemsInv => DanglingExplained
  BY DEF ItemsInv
<1>4. QED
  BY <1>1, <1>2, <1>3, PTL DEF Spec
===============================================================================
