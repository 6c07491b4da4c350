-------------------------------- MODULE Paging --------------------------------
(***************************************************************************)
(* The searches that give their answer page by page.  Each service has its *)
(* own copy of one scheme: a query of size + 1 documents beyond the cursor, *)
(* trimmed to size, and a second query the other way, for the flags of     *)
(* PageInfo.  The copies differ in how they treat equal sort values, in    *)
(* what a cursor is and in which queries they ask.                         *)
(*                                                                         *)
(* A client walks through the answers while documents are inserted,        *)
(* changed and deleted between any two awaits of a search.  A document is  *)
(* its _id, its sort value (a tuple, for the effective date and time of a  *)
(* rule) and whether it passes the filter of the search.                   *)
(***************************************************************************)
EXTENDS Integers, Sequences, FiniteSets, SequencesExt

CONSTANTS
  Docs,       \* _ids documents can have
  Keys,       \* sort values: tuples of one length
  Cases,      \* searches and the fields they sort by: pairs
  MaxSize,    \* bound: size of a page
  MaxChanges  \* bound: documents inserted, changed or deleted after the start

ASSUME DocsAssumption == Docs \subseteq Nat \ {0} /\ IsFiniteSet(Docs)
ASSUME SizeAssumption == MaxSize \in Nat
ASSUME KeysAssumption == \A k, l \in Keys : k \in Seq(Nat) /\ Len(k) = Len(l)

VARIABLES
  search, field, order, size,  \* what the client asks for; field "id" is the _id, the rule or the camera
  rows,     \* documents stored: [key, listed]
  gone,     \* _ids of deleted documents
  req,      \* the search in progress
  view,     \* the page the client shows
  changes,  \* number of changes
  calm,     \* nothing has changed since the last search began
  forward,  \* the walk has only gone forward
  start,    \* documents listed when the walk began
  touched,  \* documents changed or deleted since then
  still,    \* no document was inserted, changed or deleted since then
  stale,    \* a document that had changed served as a cursor
  seen      \* how often each document was shown

asked == <<search, field, order, size>>
collection == <<rows, gone, changes>>
walk == <<forward, start, touched, still, stale, seen>>
pagingVars == <<asked, collection, req, view, walk, calm>>

NoDoc == 0

Listed == {d \in DOMAIN rows : rows[d].listed}

Key(d) == rows[d].key

Opposite(ord) == IF ord = "ASCENDING" THEN "DESCENDING" ELSE "ASCENDING"

Less(k, l) ==
  \E i \in DOMAIN k : /\ k[i] < l[i]
                      /\ \A j \in 1..(i - 1) : k[j] = l[j]

Beyond(ord, k, l) == IF ord = "ASCENDING" THEN Less(k, l) ELSE Less(l, k)

FirstOf(n, s) == SubSeq(s, 1, IF n < Len(s) THEN n ELSE Len(s))

\* The documents D in order: as many come before one as R puts ahead of it.
InOrder(D, R) ==
  [k \in 1..Cardinality(D) |-> CHOOSE d \in D : Cardinality({e \in D : <<e, d>> \in R}) = k - 1]

\* The first n of the documents D by sort value, those of one value by _id.
Top(D, ord, idsDown, n) ==
  LET Sorted(d, e) == \/ Beyond(ord, Key(d), Key(e))
                      \/ Key(d) = Key(e) /\ IF idsDown THEN d > e ELSE d < e
  IN  FirstOf(n, InOrder(D, {p \in D \X D : Sorted(p[1], p[2])}))

IdBeyond(reversed, d, last) == IF reversed THEN d < last.id ELSE d > last.id

\* Mutation: without the tie condition.
NoTieMutation(ord, reversed, last) == {d \in Listed : last.id = NoDoc \/ Beyond(ord, last.key, Key(d))}

\* The pageCondition: documents beyond the last one, whose sort value was looked up.
PageCondition(ord, reversed, last) ==
  {d \in Listed : \/ last.id = NoDoc
                  \/ Beyond(ord, last.key, Key(d))
                  \/ Key(d) = last.key /\ IdBeyond(reversed, d, last)}

Direction(reversed) == IF reversed THEN Opposite(order) ELSE order
-----------------------------------------------------------------------------
(* The queries.                                                            *)

\* Devices by maintenance status: these searches have no case for it, neither in the condition
\* nor in the sorting, so that the first documents come in the order stored, here that of the _id.
Unsorted == field = "maintain" /\ search \in {"devices", "buildingDevices", "staffDevices"}

FirstStored(n) == FirstOf(n, InOrder(Listed, {p \in Listed \X Listed : p[1] < p[2]}))

MongoQueryForDevices(reversed, last) ==
  IF Unsorted
  THEN FirstStored(size + 1)
  ELSE Top(PageCondition(Direction(reversed), reversed, last), Direction(reversed), FALSE, size + 1)

IdAhead(ord, d, e) == IF ord = "ASCENDING" THEN d < e ELSE d > e

\* By ID alone there are no ties.
RuleCondition(ord, reversed, last) ==
  IF field = "id"
  THEN {d \in Listed : last.id = NoDoc \/ IdAhead(ord, last.id, d)}
  ELSE PageCondition(ord, reversed, last)

MongoQueryForRules(reversed, last) ==
  LET ord == Direction(reversed)
      beyond == RuleCondition(ord, reversed, last)
  IN  IF field = "id"
      THEN FirstOf(size + 1, InOrder(beyond, {p \in beyond \X beyond : IdAhead(ord, p[1], p[2])}))
      ELSE Top(beyond, ord, FALSE, size + 1)

\* By NAME, subscriptions of rules of one name are compared by a name that subscriptions do not have.
SubscriptionCondition(ord, reversed, last) ==
  PageCondition(ord, reversed, last) \
    (IF field = "name" THEN {d \in Listed : last.id # NoDoc /\ Key(d) = last.key} ELSE {})

MongoQueryForSubscriptions(reversed, last) ==
  Top(SubscriptionCondition(Direction(reversed), reversed, last), Direction(reversed), reversed, size + 1)

AuditLogCondition(ord, reversed, last) == PageCondition(ord, reversed, last)

\* Mutation: ties in the order of the _id, backwards too.
UpwardTiesMutation(reversed, last) ==
  Top(PageCondition(Direction(reversed), reversed, last), Direction(reversed), FALSE, size + 1)

MongoQueryForAuditLogs(reversed, last) ==
  Top(AuditLogCondition(Direction(reversed), reversed, last), Direction(reversed), reversed, size + 1)

MongoQueryForUsers(reversed, last) ==
  Top(PageCondition(Direction(reversed), reversed, last), Direction(reversed), FALSE, size + 1)

\* search_after takes the sort values of the cursor.
ElasticsearchQueryForCameraEvents(reversed, last) ==
  Top(PageCondition(Direction(reversed), reversed, last), Direction(reversed), reversed, size + 1)

\* Malfunctioning devices and the devices of a staff member: forward only.
MalDevicesBeyond(last) == PageCondition(order, FALSE, last)

StaffDevicesBeyond(last) == IF Unsorted THEN Listed ELSE PageCondition(order, FALSE, last)

StaffDevices(last) ==
  IF Unsorted THEN FirstStored(size) ELSE Top(StaffDevicesBeyond(last), order, FALSE, size)
-----------------------------------------------------------------------------
(* What the client does.                                                   *)

Nobody == [id |-> NoDoc, key |-> <<>>]
Idle == [pc |-> "idle", reversed |-> FALSE, cursor |-> Nobody, last |-> Nobody, skip |-> 0,
         found |-> <<>>, count |-> 0, page |-> <<>>, own |-> FALSE, end |-> Nobody, before |-> Nobody]
NoView == [shown |-> FALSE, page |-> <<>>, hasNext |-> FALSE, hasPrevious |-> FALSE,
          end |-> Nobody, before |-> Nobody, reversed |-> FALSE, cursor |-> Nobody, skip |-> 0]

LooksUp == search \notin {"cameraEvents", "abnormalDevices"}

\* A cursor is looked up, unless it holds the sort values.
Ask(cursor, back, skip) ==
  /\ req' = [Idle EXCEPT !.pc = IF cursor.id # NoDoc /\ LooksUp THEN "lookUp" ELSE "find",
                         !.cursor = cursor, !.last = cursor, !.reversed = back, !.skip = skip]
  /\ calm' = TRUE

FirstPage ==
  /\ req.pc = "idle"
  /\ Ask(Nobody, FALSE, 0)
  /\ view' = NoView
  /\ forward' = TRUE /\ start' = Listed /\ touched' = {} /\ still' = TRUE /\ stale' = FALSE
  /\ seen' = [d \in Docs |-> 0]
  /\ UNCHANGED <<asked, collection>>

NextPage ==
  /\ req.pc = "idle" /\ view.hasNext
  /\ view.skip <= Cardinality(Docs)  \* bound: pages asked for by number
  /\ IF search = "abnormalDevices" THEN Ask(Nobody, FALSE, view.skip + 1) ELSE Ask(view.end, FALSE, 0)
  /\ UNCHANGED <<asked, collection, view, walk>>

PreviousPage ==
  /\ req.pc = "idle" /\ view.hasPrevious
  /\ Ask(view.before, TRUE, 0)
  /\ forward' = FALSE /\ start' = {} /\ touched' = {} /\ seen' = [d \in Docs |-> 0]
  /\ UNCHANGED <<asked, collection, view, still, stale>>
-----------------------------------------------------------------------------
(* The steps of a search.                                                  *)

Proceed(r) == req' = r /\ UNCHANGED <<asked, collection, view, walk, calm>>

Fail ==
  /\ req' = Idle /\ view' = NoView
  /\ forward' = FALSE /\ start' = {} /\ touched' = {} /\ seen' = [d \in Docs |-> 0]
  /\ UNCHANGED <<asked, collection, still, stale, calm>>

\* findOne of the cursor's document: its fields are read from null when it is gone, if any is.
LookUp ==
  /\ req.pc = "lookUp"
  /\ \/ /\ req.cursor.id \in DOMAIN rows
        /\ req' = [req EXCEPT !.pc = "find", !.last.key = Key(req.cursor.id)]
        /\ stale' = (stale \/ req.cursor.id \in touched)
        /\ UNCHANGED <<asked, collection, view, forward, start, touched, still, seen, calm>>
     \/ req.cursor.id \notin DOMAIN rows /\ IF Unsorted THEN Proceed([req EXCEPT !.pc = "find"]) ELSE Fail

LookUpMore ==
  /\ req.pc = "lookUpMore"
  /\ \/ req.last.id \in DOMAIN rows /\ Proceed([req EXCEPT !.pc = "more", !.last.key = Key(req.last.id)])
     \/ req.last.id \notin DOMAIN rows /\ IF Unsorted THEN Proceed([req EXCEPT !.pc = "more"]) ELSE Fail

\* The client shows the answer: own is the flag of the direction asked for.
Answer(r, own, other) ==
  /\ view' = [shown |-> TRUE, page |-> r.page, end |-> r.end, before |-> r.before,
              hasNext |-> IF r.reversed THEN other ELSE own, hasPrevious |-> IF r.reversed THEN own ELSE other,
              reversed |-> r.reversed, cursor |-> r.cursor, skip |-> r.skip]
  /\ req' = Idle
  /\ seen' = [d \in Docs |-> IF forward /\ d \in ToSet(r.page) /\ seen[d] < 2 THEN seen[d] + 1 ELSE seen[d]]
  /\ UNCHANGED <<asked, collection, forward, start, touched, still, stale, calm>>

\* Sorting by the camera is left out of the encoding: the cursor is empty.
EncodeAsCursor(d) == IF field = "id" THEN Nobody ELSE [id |-> d, key |-> Key(d)]

CursorOf(d) == IF search = "cameraEvents" THEN EncodeAsCursor(d) ELSE [id |-> d, key |-> <<>>]

Trimmed(edges) == FirstOf(size, edges)

Paged(page) ==
  [req EXCEPT !.page = page, !.end = IF page = <<>> THEN Nobody ELSE CursorOf(Last(page)),
              !.before = IF page = <<>> THEN Nobody ELSE CursorOf(Head(page)), !.found = <<>>]

\* Mutation: the second query starts from the wrong end of the page.
WrongEndMutation(edges) ==
  LET r == Paged(IF req.reversed THEN Reverse(Trimmed(edges)) ELSE Trimmed(edges))
      from == IF req.reversed THEN r.before ELSE r.end
      own == Len(edges) = size + 1
  IN  IF from = Nobody
      THEN Answer(r, own, FALSE)
      ELSE Proceed([r EXCEPT !.own = own, !.last = from, !.pc = IF LooksUp THEN "lookUpMore" ELSE "more"])

\* The page is made; the other flag takes a query from its other end, if that has a cursor.
Take(edges) ==
  LET r == Paged(IF req.reversed THEN Reverse(Trimmed(edges)) ELSE Trimmed(edges))
      from == IF req.reversed THEN r.end ELSE r.before
      own == Len(edges) = size + 1
  IN  IF from = Nobody
      THEN Answer(r, own, FALSE)
      ELSE Proceed([r EXCEPT !.own = own, !.last = from, !.pc = IF LooksUp THEN "lookUpMore" ELSE "more"])

Pages(Query(_, _)) ==
  \/ req.pc = "find" /\ Take(Query(req.reversed, req.last))
  \/ req.pc = "more" /\ Answer(req, req.own, Query(~req.reversed, req.last) # <<>>)

\* An aggregation, whose documents are then read again one by one: a deleted one is null.
PagesReadBack(Query(_, _)) ==
  \/ req.pc = "find" /\ Proceed([req EXCEPT !.pc = "readBack", !.found = Query(req.reversed, req.last)])
  \/ req.pc = "readBack" /\ IF ToSet(req.found) \subseteq DOMAIN rows THEN Take(req.found) ELSE Fail
  \/ req.pc = "more" /\ Proceed([req EXCEPT !.pc = "readMore", !.found = Query(~req.reversed, req.last)])
  \/ req.pc = "readMore" /\ IF ToSet(req.found) \subseteq DOMAIN rows THEN Answer(req, req.own, req.found # <<>>) ELSE Fail

SearchDevices == search = "devices" /\ Pages(MongoQueryForDevices)

SearchDevicesForBuildingFilter == search = "buildingDevices" /\ Pages(MongoQueryForDevices)

SearchRules == search = "rules" /\ Pages(MongoQueryForRules)

SearchSubscriptions == search = "subscriptions" /\ PagesReadBack(MongoQueryForSubscriptions)

SearchAuditLogs == search = "auditLogs" /\ PagesReadBack(MongoQueryForAuditLogs)

SearchUsers == search = "users" /\ Pages(MongoQueryForUsers)

CameraEventHistory == search = "cameraEvents" /\ Pages(ElasticsearchQueryForCameraEvents)

\* The query is asked twice, for a page and for one document more.
GetMalDevices ==
  /\ search = "malDevices"
  /\ \/ req.pc = "find" /\ Proceed([Paged(Top(MalDevicesBeyond(req.last), order, FALSE, size)) EXCEPT !.pc = "more"])
     \/ /\ req.pc = "more"
        /\ LET more == Top(MalDevicesBeyond(req.last), order, FALSE, size + 1)
           IN  Answer(req, Len(req.page) = size /\ Len(more) > Len(req.page), FALSE)

\* The documents are counted, then queried.
SearchDevicesByStaff ==
  /\ search = "staffDevices"
  /\ \/ req.pc = "find" /\ Proceed([req EXCEPT !.pc = "more", !.count = Cardinality(StaffDevicesBeyond(req.last))])
     \/ /\ req.pc = "more"
        /\ LET r == Paged(StaffDevices(req.last))
           IN  Answer(r, req.count > Len(r.page), FALSE)

\* Pages by number; the count is that of all pages.
SearchAbnormalDevices ==
  /\ search = "abnormalDevices"
  /\ \/ req.pc = "find" /\ Proceed([req EXCEPT !.pc = "more", !.count = Cardinality(Listed)])
     \/ /\ req.pc = "more"
        /\ LET all == Top(Listed, order, FALSE, Cardinality(Listed))
               r == Paged(Trimmed(SubSeq(all, req.skip * size + 1, Len(all))))
           IN  Answer(r, req.count > Len(r.page), FALSE)
-----------------------------------------------------------------------------
(* What others do meanwhile.                                               *)

Meanwhile(d) ==
  /\ changes < MaxChanges /\ changes' = changes + 1
  /\ calm' = FALSE /\ still' = FALSE
  /\ UNCHANGED <<asked, req, view, forward, start, stale, seen>>

\* Identifiers come in any order: those of Elasticsearch are random.
Insert(d, k) ==
  /\ d \notin DOMAIN rows \cup gone
  /\ rows' = [e \in DOMAIN rows \cup {d} |-> IF e = d THEN [key |-> k, listed |-> TRUE] ELSE rows[e]]
  /\ Meanwhile(d)
  /\ UNCHANGED <<gone, touched>>

\* The sort value changes, or the document leaves the group or fails the filter; events do not change.
Change(d, k, listed) ==
  /\ d \in DOMAIN rows /\ search # "cameraEvents"
  /\ rows[d] # [key |-> k, listed |-> listed]
  /\ rows' = [rows EXCEPT ![d] = [key |-> k, listed |-> listed]]
  /\ touched' = touched \cup {d}
  /\ Meanwhile(d)
  /\ UNCHANGED gone

Delete(d) ==
  /\ d \in DOMAIN rows
  /\ rows' = [e \in DOMAIN rows \ {d} |-> rows[e]]
  /\ gone' = gone \cup {d} /\ touched' = touched \cup {d}
  /\ Meanwhile(d)

PagingInit ==
  /\ \E c \in Cases : search = c[1] /\ field = c[2]
  /\ order \in {"ASCENDING", "DESCENDING"} /\ size \in 1..MaxSize
  /\ \E D \in SUBSET Docs : rows \in [D -> [key : Keys, listed : {TRUE}]]
  /\ gone = {} /\ changes = 0
  /\ req = Idle /\ view = NoView
  /\ calm = TRUE /\ still = TRUE /\ stale = FALSE /\ forward = FALSE /\ start = {} /\ touched = {}
  /\ seen = [d \in Docs |-> 0]

PagingNext ==
  \/ FirstPage \/ NextPage \/ PreviousPage
  \/ LookUp \/ LookUpMore
  \/ SearchDevices \/ SearchDevicesForBuildingFilter \/ SearchRules \/ SearchSubscriptions \/ SearchAuditLogs
  \/ SearchUsers \/ CameraEventHistory \/ GetMalDevices \/ SearchDevicesByStaff \/ SearchAbnormalDevices
  \/ \E d \in Docs, k \in Keys : Insert(d, k)
  \/ \E d \in Docs, k \in Keys, listed \in BOOLEAN : Change(d, k, listed)
  \/ \E d \in Docs : Delete(d)

PagingSpec == PagingInit /\ [][PagingNext]_pagingVars
-----------------------------------------------------------------------------
(* What a walk promises.                                                   *)

\* The order the documents are shown in.
Ahead(d, e) ==
  IF search = "rules" /\ field = "id"
  THEN IdAhead(order, d, e)
  ELSE Beyond(order, Key(d), Key(e)) \/ (Key(d) = Key(e) /\ d < e)

\* Searches whose answer takes two queries of the same documents, or goes by the number of the page.
TwoQueries == {"malDevices", "staffDevices", "abnormalDevices"}

\* Defects stated in the README: a cursor of these is not one to continue from.
Continues == ~Unsorted /\ <<search, field>> \notin {<<"subscriptions", "name">>, <<"cameraEvents", "id">>}

\* These go back over documents of one sort value in the order of the _id, not its reverse.
Reversible ==
  \/ search \notin {"devices", "buildingDevices", "rules", "users"}
  \/ search = "rules" /\ field = "id"
  \/ \A d, e \in Listed : Key(d) = Key(e) => d = e

\* A client that goes forward sees every document that stays as it was exactly
\* once, whatever is inserted, changed or deleted meanwhile, as long as no
\* document it continues from had changed; where an answer takes two queries or
\* counts pages, as long as nothing changes at all.
WalkOnce ==
  forward /\ Continues /\ (IF search \in TwoQueries THEN still ELSE ~stale) =>
    \A d \in start \ touched :
      /\ seen[d] <= 1
      /\ req.pc = "idle" /\ view.shown /\ ~view.hasNext => seen[d] = 1

\* The documents listed beyond the cursor of the page shown, or before it; the
\* cursor of an event places it even when the event is gone.
Beside ==
  LET c == view.cursor
      Sorted(d, k) == IF view.reversed THEN Beyond(order, Key(d), k) ELSE Beyond(order, k, Key(d))
      IsBeside(d) ==
        IF search = "cameraEvents"
        THEN Sorted(d, c.key) \/ (Key(d) = c.key /\ IdBeyond(view.reversed, d, c))
        ELSE IF view.reversed THEN Ahead(d, c.id) ELSE Ahead(c.id, d)
  IN  {d \in Listed : c = Nobody \/ IsBeside(d)}

\* The page shown is the answer of the last search, and nothing has changed since that began.
Fresh == req.pc = "idle" /\ view.shown /\ calm

NextTo(s) ==
  LET n == IF size < Len(s) THEN size ELSE Len(s)
  IN  IF view.reversed THEN SubSeq(s, Len(s) - n + 1, Len(s)) ELSE SubSeq(s, 1, n)

\* While nothing changes, the page shown holds the documents next to the
\* cursor, in order, whether it was reached forward or backward.
PageAdjoins ==
  Fresh /\ Continues /\ Reversible /\ search # "abnormalDevices" =>
    view.page = NextTo(InOrder(Beside, {p \in Beside \X Beside : Ahead(p[1], p[2])}))

\* While nothing changes, PageInfo tells the truth about the page shown:
\* "are there more items?" either way (pageInfo.graphql).  The searches that
\* only go forward never tell of earlier pages, and the pages of abnormal
\* devices may promise one page too many.
PageInfoTrue ==
  Fresh /\ Continues /\ Reversible /\ view.page # <<>> =>
    LET after == \E d \in Listed : Ahead(Last(view.page), d)
        before == \E d \in Listed : Ahead(d, Head(view.page))
    IN  /\ search # "abnormalDevices" => view.hasNext = after
        /\ after => view.hasNext
        /\ search \notin TwoQueries => view.hasPrevious = before
===============================================================================
