------------------------------- MODULE Signage -------------------------------
(***************************************************************************)
(* Digital signage: templates, their contents, details and items, their    *)
(* schedules, and the page published to the CMS                            *)
(* (modules/eSignageCM/eSignageCM.service.ts and .repository.ts).          *)
(*                                                                         *)
(* A collection is a sequence: the id of a document is its position, which *)
(* is the order MongoDB returns documents in; a deleted document leaves    *)
(* Gone, and ids are not used again.  A handler in progress is a list of   *)
(* stages, each the code from one await to the next.                       *)
(***************************************************************************)
EXTENDS Naturals, FiniteSets, FiniteSetsExt, Sequences

CONSTANTS
  Requests,      \* handlers that may be in progress at once
  Images,        \* uploaded images, referred to by the media of templates
  Types,         \* template types in use, out of DOMAIN Layout
  Drafts,        \* lists of contents that may be given when a template is added
  Changes,       \* lists of contents that may be given when contents are updated
  Calendars,     \* [months, days] a monthly schedule may be repeated on
  MaxDocs,       \* bound: documents ever created in each collection
  MaxEvents,     \* bound: requests, deletions of images or groups, restarts
  Gone           \* a document that was deleted

VARIABLES
  group,         \* whether the group of the templates exists
  image,         \* images whose file exists
  template, content, detail, item, schedule,   \* the collections
  log,           \* esignage_template_logs: <<template, memo>>
  logged,        \* schedules in the schedule logs
  page,          \* the file of each template, None before the first
  writing,       \* fs.writeFile calls not yet through
  cms,           \* what the CMS was told
  request,       \* handlers in progress
  overlap,       \* chosen at the start: may two requests be in progress?
  events

vars == <<group, image, template, content, detail, item, schedule, log,
          logged, page, writing, cms, request, overlap, events>>

Kinds  == {"weather", "cam", "webpage", "media"}
Rects  == {"rect1", "rect2", "rect3", "rect4", "rect5"}
None   == "none"

TemplateDocs == [type : Types]
ContentDocs  == [template : Nat, rect : Rects]
DetailDocs   == [content : Nat, items : [Kinds -> SUBSET Nat]]
ItemDocs     == [kind : Kinds, image : Images \cup {None}]

\* What a client gives of a content.
DraftContents   == [rect : Rects, kinds : SUBSET Kinds]
ChangedContents == [rect : Rects, kinds : SUBSET Kinds, clear : SUBSET Kinds]

\* No document is taken for a deleted one, and the ids of images are not those of items.
ASSUME SignageAssumption ==
  /\ Drafts \subseteq Seq(DraftContents)
  /\ Changes \subseteq Seq(ChangedContents)
  /\ Gone \notin TemplateDocs \cup ContentDocs \cup DetailDocs \cup ItemDocs
  /\ \A m \in Images : m \notin Nat

Idle   == [todo |-> <<>>]

(***************************************************************************)
(* Where the pages of each template type show what the contents hold: the  *)
(* regions with a size (shows), and the region that collects the media and *)
(* the cameras of a content, by the rectangle of the content.  Weather and *)
(* web pages are collected from every content.                             *)
(***************************************************************************)
Nowhere    == [r \in {} |-> None]
OneSlider  == [rect2 |-> "slider"]
Sliders    == [rect2 |-> "slider", rect3 |-> "slider2"]
AnyRectCam == [r \in Rects |-> "cam"]

LayoutA == [shows |-> {"weather", "slider", "slider2", "web"}, media |-> Sliders, cam |-> Nowhere]
LayoutB == [shows |-> {"weather", "slider", "web"}, media |-> OneSlider, cam |-> Nowhere]
LayoutC == [shows |-> {"weather", "slider", "web"}, media |-> OneSlider, cam |-> Nowhere]
LayoutD == [shows |-> {"weather", "slider", "slider2", "web", "cam"}, media |-> Sliders, cam |-> AnyRectCam]
LayoutE == [shows |-> {"weather", "slider", "web", "cam"}, media |-> Sliders, cam |-> AnyRectCam]
LayoutF == [shows |-> {"weather", "slider", "web", "cam", "cam2"}, media |-> Sliders,
            cam |-> [rect4 |-> "cam", rect5 |-> "cam2"]]
LayoutG == [shows |-> {"weather", "web"}, media |-> Nowhere, cam |-> Nowhere]
LayoutH == [shows |-> {"weather", "web"}, media |-> Nowhere, cam |-> Nowhere]
LayoutI == [shows |-> {"slider", "web"}, media |-> OneSlider, cam |-> Nowhere]
LayoutJ == [shows |-> {"weather", "web", "cam"}, media |-> Sliders, cam |-> AnyRectCam]
LayoutK == [shows |-> {"weather", "slider2", "cam"}, media |-> Sliders, cam |-> AnyRectCam]
LayoutL == [shows |-> {"slider", "web", "cam"}, media |-> Sliders, cam |-> AnyRectCam]

Layout == [A |-> LayoutA, B |-> LayoutB, C |-> LayoutC, D |-> LayoutD, E |-> LayoutE, F |-> LayoutF,
           G |-> LayoutG, H |-> LayoutH, I |-> LayoutI, J |-> LayoutJ, K |-> LayoutK, L |-> LayoutL]

Collectors(type) ==
  [weather |-> [r \in Rects |-> "weather"], webpage |-> [r \in Rects |-> "web"],
   media |-> Layout[type].media, cam |-> Layout[type].cam]

\* What a page of that type holds of the items collected, and in which region;
\* a region without a size is left out.
Shown(type, got) ==
  {<<g.item, Collectors(type)[g.kind][g.rect]>> :
     g \in {h \in got : /\ h.rect \in DOMAIN Collectors(type)[h.kind]
                       /\ Collectors(type)[h.kind][h.rect] \in Layout[type].shows}}

\* The images whose files are read for a page of that type.
ImagesRead(type, got) ==
  {g.image : g \in {h \in got : h.kind = "media" /\ h.rect \in DOMAIN Layout[type].media}}

(***************************************************************************)
(* Reading.  A query without a sort order returns the oldest first.        *)
(***************************************************************************)
Stored(docs) == {i \in DOMAIN docs : docs[i] # Gone}
Exists(docs, i) == i \in Stored(docs)

\* The contents of a template, oldest first.
ContentsOf(t) ==
  LET cs == {c \in Stored(content) : content[c].template = t}
  IN  [k \in 1..Cardinality(cs) |-> CHOOSE c \in cs : Cardinality({b \in cs : b < c}) = k - 1]

\* The details of a content; all handlers look at the first one only.
DetailsOf(c) == {d \in Stored(detail) : detail[d].content = c}
FirstDetail(c) == Min(DetailsOf(c))

\* The schedule of a template that was updated last.
SchedulesOf(t) == {s \in Stored(schedule) : schedule[s].template = t}
Newest(t) == CHOOSE s \in SchedulesOf(t) : \A o \in SchedulesOf(t) : schedule[o].at <= schedule[s].at
Now == Max({schedule[s].at : s \in Stored(schedule)} \cup {0}) + 1

(***************************************************************************)
(* Stages.                                                                 *)
(***************************************************************************)
Stage(name) == [do |-> name]
LogAddition == [do |-> "logTemplate", memo |-> "ADD"]
LogDeletion == [do |-> "logTemplate", memo |-> "DELETE"]
At(r, name) == request[r].todo # <<>> /\ Head(request[r].todo).do = name
Args(r) == Head(request[r].todo)
Rest(r) == Tail(request[r].todo)
Goto(r, todo) == request' = [request EXCEPT ![r] = IF todo = <<>> THEN Idle ELSE [@ EXCEPT !.todo = todo]]
Continue(r) == Goto(r, Rest(r))
Broken(r) == request' = [request EXCEPT ![r] = Idle]   \* an exception ends the handler

PublishStages(when) ==
  <<Stage("readTemplate"), Stage("readContents"), Stage("render"), [do |-> "tell", when |-> when]>>
\* addSchedule and updateTemplateSchedule, and the same followed by publishedToCMS.
NewScheduleStages  == <<Stage("createSchedule"), Stage("logSchedule")>>
SaveScheduleStages == <<Stage("findSchedule"), Stage("setSchedule"), Stage("logSchedule")>>

\* The schedule is published before it is logged.
LoggedLateMutation(when) ==
  <<Stage("createSchedule")>> \o PublishStages(when) \o <<Stage("logSchedule")>>
AddScheduleStages(when)    == NewScheduleStages \o PublishStages(when)
UpdateScheduleStages(when) == SaveScheduleStages \o PublishStages(when)

\* The stages for each kind, in the order in which additions and updates take them.
InOrder(stages(_)) == stages("weather") \o stages("cam") \o stages("webpage") \o stages("media")

\* addTemplate, for one content: each kind that it holds gets items and a detail of its own.
AddContentStages(draft) ==
  LET ofKind(k) == IF k \in draft.kinds
                   THEN <<[do |-> "createItem", kind |-> k], [do |-> "addDetail", kind |-> k]>> ELSE <<>>
  IN  <<[do |-> "createContent", rect |-> draft.rect]>> \o InOrder(ofKind)

\* updateTemplateContent, for one content: each kind given replaces that kind in the first
\* detail; a kind given as the sentinel is emptied, and no item is created.
UpdateContentStages(c, change) ==
  LET set(k, new) == <<[do |-> "setDetail", content |-> c, kind |-> k, new |-> new]>>
      ofKind(k) == IF k \in change.kinds THEN <<[do |-> "createItem", kind |-> k]>> \o set(k, TRUE)
                   ELSE IF k \in change.clear THEN set(k, FALSE) ELSE <<>>
  IN  <<[do |-> "setContent", content |-> c, rect |-> change.rect]>> \o InOrder(ofKind)

\* deleteTemplate, for one content: what its first detail d lists, the detail, the content.
DeleteContentStages(c, d) ==
  LET drop(k) == [do |-> "deleteItems", kind |-> k, ids |-> detail[d].items[k]]
  IN  <<drop("weather"), drop("media"), drop("webpage"), drop("cam"),
        [do |-> "deleteDetail", detail |-> d], [do |-> "deleteContent", content |-> c]>>

\* The loops over the contents given, and the contents still to come.
AddContentsStage(drafts)   == [do |-> "addContents", drafts |-> drafts]
UpdateContentsStage(edits) == [do |-> "updateContents", edits |-> edits]

------------------------------------------------------------------------------
Init ==
  /\ group = TRUE /\ image = Images
  /\ template = <<>> /\ content = <<>> /\ detail = <<>> /\ item = <<>> /\ schedule = <<>>
  /\ log = {} /\ logged = {} /\ page = <<>> /\ writing = {} /\ cms = {}
  /\ request = [r \in Requests |-> Idle]
  /\ overlap \in BOOLEAN
  /\ events = 0

DocsUnchanged == UNCHANGED <<template, content, detail, item, schedule>>
Quiet == UNCHANGED <<group, image, page, writing, cms, overlap, events>>

\* Room for one more request.
Free(r) ==
  /\ events < MaxEvents
  /\ request[r] = Idle
  /\ overlap \/ \A q \in Requests : request[q] = Idle

\* A request arrives, about template t and schedule s where it names them.
Arrive(r, t, s, todo) ==
  /\ events' = events + 1
  /\ request' = [request EXCEPT ![r] = [todo |-> todo, t |-> t, s |-> s, c |-> 0, made |-> {},
                                        found |-> TRUE, got |-> {}]]
  /\ DocsUnchanged
  /\ UNCHANGED <<group, image, log, logged, page, writing, cms, overlap>>

\* What updateTemplateContent may be given: any contents, changed in any of these ways.
Edits == UNION {{[k \in DOMAIN changes |-> [content |-> cs[k], change |-> changes[k]]] :
                   cs \in [DOMAIN changes -> DOMAIN content]} : changes \in Changes}

AddTemplate(r) == Free(r) /\ \E type \in Types, drafts \in Drafts :
  Arrive(r, 0, 0, <<[do |-> "createTemplate", type |-> type], LogAddition, AddContentsStage(drafts)>>)
\* The template goes before its contents.
TemplateFirstMutation(r) == Free(r) /\ \E t \in DOMAIN template :
  Arrive(r, t, 0, <<Stage("findTemplate"), LogDeletion, Stage("deleteTemplate"),
                    Stage("listContents"), Stage("findNewest"), Stage("deleteSchedule")>>)
\* The deletion is logged once it is done.
DeletionLoggedLastMutation(r) == Free(r) /\ \E t \in DOMAIN template :
  Arrive(r, t, 0, <<Stage("findTemplate"), Stage("listContents"), Stage("deleteTemplate"),
                    LogDeletion, Stage("findNewest"), Stage("deleteSchedule")>>)
DeleteTemplate(r) == Free(r) /\ \E t \in DOMAIN template :
  Arrive(r, t, 0, <<Stage("findTemplate"), LogDeletion, Stage("listContents"),
                    Stage("deleteTemplate"), Stage("findNewest"), Stage("deleteSchedule")>>)
UpdateTemplate(r) == Free(r) /\ \E t \in DOMAIN template, type \in Types :
  Arrive(r, t, 0, <<[do |-> "setTemplate", type |-> type]>>)
UpdateTemplateContent(r) == Free(r) /\ \E edits \in Edits :
  Arrive(r, 0, 0, <<UpdateContentsStage(edits)>>)
AddTemplateSchedule(r) == Free(r) /\ \E t \in DOMAIN template, when \in Calendars :
  Arrive(r, t, 0, AddScheduleStages(when))
UpdateTemplateSchedule(r) == Free(r) /\ \E s \in DOMAIN schedule, t \in DOMAIN template, when \in Calendars :
  Arrive(r, t, s, UpdateScheduleStages(when))
DeleteTemplateSchedule(r) == Free(r) /\ \E s \in DOMAIN schedule : Arrive(r, 0, s, <<Stage("deleteSchedule")>>)
UpdateTemplateContentAndAddSchedule(r) == Free(r) /\
  \E t \in DOMAIN template, edits \in Edits, when \in Calendars :
    Arrive(r, t, 0, <<UpdateContentsStage(edits)>> \o AddScheduleStages(when))
UpdateTemplateContentAndUpdateSchedule(r) == Free(r) /\
  \E s \in DOMAIN schedule, t \in DOMAIN template, edits \in Edits, when \in Calendars :
    Arrive(r, t, s, <<UpdateContentsStage(edits)>> \o UpdateScheduleStages(when))

(***************************************************************************)
(* addTemplate and updateTemplate, updateTemplateContent.                  *)
(***************************************************************************)
CreateTemplate(r) ==
  /\ At(r, "createTemplate") /\ Len(template) < MaxDocs
  /\ template' = Append(template, [type |-> Args(r).type])
  /\ page' = Append(page, None)
  /\ request' = [request EXCEPT ![r].todo = Rest(r), ![r].t = Len(template) + 1]
  /\ UNCHANGED <<group, image, content, detail, item, schedule, log, logged, writing, cms, overlap, events>>

LogTemplate(r) ==
  /\ At(r, "logTemplate")
  /\ log' = log \cup {<<request[r].t, Args(r).memo>>}
  /\ Continue(r) /\ DocsUnchanged /\ Quiet /\ UNCHANGED logged

\* One content after the other.
AddContents(r) ==
  /\ At(r, "addContents")
  /\ LET drafts == Args(r).drafts
     IN  Goto(r, (IF drafts = <<>> THEN <<>>
                  ELSE AddContentStages(Head(drafts)) \o <<AddContentsStage(Tail(drafts))>>) \o Rest(r))
  /\ DocsUnchanged /\ Quiet /\ UNCHANGED <<log, logged>>

UpdateContents(r) ==
  /\ At(r, "updateContents")
  /\ LET edits == Args(r).edits
     IN  Goto(r, (IF edits = <<>> THEN <<>>
                  ELSE UpdateContentStages(Head(edits).content, Head(edits).change)
                       \o <<UpdateContentsStage(Tail(edits))>>) \o Rest(r))
  /\ DocsUnchanged /\ Quiet /\ UNCHANGED <<log, logged>>

CreateContent(r) ==
  /\ At(r, "createContent") /\ Len(content) < MaxDocs
  /\ content' = Append(content, [template |-> request[r].t, rect |-> Args(r).rect])
  /\ request' = [request EXCEPT ![r] = IF Rest(r) = <<>> THEN Idle
                                       ELSE [@ EXCEPT !.todo = Rest(r), !.c = Len(content) + 1]]
  /\ Quiet /\ UNCHANGED <<template, detail, item, schedule, log, logged>>

\* createWeather, createIpCam, createWebPage, createMedia: the items of one kind, which
\* nobody knows of before they are listed, are created in one step.
CreateItem(r) ==
  /\ At(r, "createItem") /\ Len(item) < MaxDocs
  /\ \E m \in IF Args(r).kind = "media" THEN Images ELSE {None} :
       item' = Append(item, [kind |-> Args(r).kind, image |-> m])
  /\ request' = [request EXCEPT ![r].todo = Rest(r), ![r].made = {Len(item) + 1}]
  /\ Quiet /\ UNCHANGED <<template, content, detail, schedule, log, logged>>

AddDetail(r) ==
  /\ At(r, "addDetail") /\ Len(detail) < MaxDocs
  /\ detail' = Append(detail, [content |-> request[r].c,
                               items |-> [k \in Kinds |-> IF k = Args(r).kind THEN request[r].made ELSE {}]])
  /\ Continue(r) /\ Quiet /\ UNCHANGED <<template, content, item, schedule, log, logged>>

\* findByIdAndUpdate and findOneAndUpdate insert nothing: an absent document stays absent.
SetTemplate(r) ==
  /\ At(r, "setTemplate")
  /\ template' = IF Exists(template, request[r].t)
                 THEN [template EXCEPT ![request[r].t].type = Args(r).type] ELSE template
  /\ Continue(r) /\ Quiet /\ UNCHANGED <<content, detail, item, schedule, log, logged>>

SetContent(r) ==
  /\ At(r, "setContent")
  /\ content' = IF Exists(content, Args(r).content)
                THEN [content EXCEPT ![Args(r).content].rect = Args(r).rect] ELSE content
  /\ Continue(r) /\ Quiet /\ UNCHANGED <<template, detail, item, schedule, log, logged>>

SetDetail(r) ==
  /\ At(r, "setDetail")
  /\ LET c == Args(r).content new == IF Args(r).new THEN request[r].made ELSE {}
     IN  detail' = IF DetailsOf(c) = {} THEN detail
                   ELSE [detail EXCEPT ![FirstDetail(c)].items[Args(r).kind] = new]
  /\ Continue(r) /\ Quiet /\ UNCHANGED <<template, content, item, schedule, log, logged>>

(***************************************************************************)
(* deleteTemplate.                                                         *)
(***************************************************************************)
FindTemplate(r) ==
  /\ At(r, "findTemplate")
  /\ IF Exists(template, request[r].t) THEN Continue(r) ELSE Broken(r)
  /\ DocsUnchanged /\ Quiet /\ UNCHANGED <<log, logged>>

ListContents(r) ==
  /\ At(r, "listContents")
  /\ LET cs == ContentsOf(request[r].t)
     IN  Goto(r, [k \in DOMAIN cs |-> [do |-> "findDetail", content |-> cs[k]]] \o Rest(r))
  /\ DocsUnchanged /\ Quiet /\ UNCHANGED <<log, logged>>

FindDetail(r) ==
  /\ At(r, "findDetail")
  /\ LET c == Args(r).content
     IN  Goto(r, (IF DetailsOf(c) = {} THEN <<[do |-> "deleteContent", content |-> c]>>
                  ELSE DeleteContentStages(c, FirstDetail(c))) \o Rest(r))
  /\ DocsUnchanged /\ Quiet /\ UNCHANGED <<log, logged>>

\* What deleteWeather, deleteIpCam and deleteMedia remove, given the ids listed.  Media
\* and web pages both go to deleteMedia, which looks for media showing an image of that id.
Deleted(kind, ids) ==
  IF kind \in {"weather", "cam"} THEN ids
  ELSE {i \in Stored(item) : item[i].kind = "media" /\ item[i].image \in ids}

DeleteItems(r) ==
  /\ At(r, "deleteItems")
  /\ item' = [i \in DOMAIN item |-> IF i \in Deleted(Args(r).kind, Args(r).ids) THEN Gone ELSE item[i]]
  /\ Continue(r) /\ Quiet /\ UNCHANGED <<template, content, detail, schedule, log, logged>>

DeleteDetail(r) ==
  /\ At(r, "deleteDetail")
  /\ detail' = [detail EXCEPT ![Args(r).detail] = Gone]
  /\ Continue(r) /\ Quiet /\ UNCHANGED <<template, content, item, schedule, log, logged>>

DeleteContent(r) ==
  /\ At(r, "deleteContent")
  /\ content' = [content EXCEPT ![Args(r).content] = Gone]
  /\ Continue(r) /\ Quiet /\ UNCHANGED <<template, detail, item, schedule, log, logged>>

DropTemplate(r) ==
  /\ At(r, "deleteTemplate")
  /\ template' = [template EXCEPT ![request[r].t] = Gone]
  /\ Continue(r) /\ Quiet /\ UNCHANGED <<content, detail, item, schedule, log, logged>>

\* One schedule goes with the template: the one updated last.
FindNewest(r) ==
  /\ At(r, "findNewest")
  /\ IF SchedulesOf(request[r].t) = {} THEN Broken(r)
     ELSE request' = [request EXCEPT ![r].todo = Rest(r), ![r].s = Newest(request[r].t)]
  /\ DocsUnchanged /\ Quiet /\ UNCHANGED <<log, logged>>

DropSchedule(r) ==
  /\ At(r, "deleteSchedule")
  /\ schedule' = [schedule EXCEPT ![request[r].s] = Gone]
  /\ Continue(r) /\ Quiet /\ UNCHANGED <<template, content, detail, item, log, logged>>

(***************************************************************************)
(* Schedules.                                                              *)
(***************************************************************************)
CreateSchedule(r) ==
  /\ At(r, "createSchedule") /\ Len(schedule) < MaxDocs
  /\ schedule' = Append(schedule, [template |-> request[r].t, at |-> Now])
  /\ request' = [request EXCEPT ![r].todo = Rest(r), ![r].s = Len(schedule) + 1]
  /\ Quiet /\ UNCHANGED <<template, content, detail, item, log, logged>>

\* The look-up that decides whether the update is logged; the update itself comes later.
FindSchedule(r) ==
  /\ At(r, "findSchedule")
  /\ request' = [request EXCEPT ![r].todo = Rest(r), ![r].found = Exists(schedule, request[r].s)]
  /\ DocsUnchanged /\ Quiet /\ UNCHANGED <<log, logged>>

SetSchedule(r) ==
  /\ At(r, "setSchedule")
  /\ schedule' = IF request[r].found /\ Exists(schedule, request[r].s)
                 THEN [schedule EXCEPT ![request[r].s] = [template |-> request[r].t, at |-> Now]] ELSE schedule
  /\ Continue(r) /\ Quiet /\ UNCHANGED <<template, content, detail, item, log, logged>>

\* getTemplateLog throws for a template without a log; then the players and the schedule
\* are logged.
LogSchedule(r) ==
  /\ At(r, "logSchedule")
  /\ IF \E e \in log : e[1] = request[r].t
     THEN Continue(r) /\ logged' = IF request[r].found THEN logged \cup {request[r].s} ELSE logged
     ELSE Broken(r) /\ UNCHANGED logged
  /\ DocsUnchanged /\ Quiet /\ UNCHANGED log

(***************************************************************************)
(* publishedToCMS: collect what the contents show, write the page, tell.   *)
(***************************************************************************)
ReadTemplate(r) ==
  /\ At(r, "readTemplate")
  /\ IF Exists(template, request[r].t) THEN Continue(r) ELSE Broken(r)
  /\ DocsUnchanged /\ Quiet /\ UNCHANGED <<log, logged>>

ReadContents(r) ==
  /\ At(r, "readContents")
  /\ LET cs == ContentsOf(request[r].t)
     IN  Goto(r, [k \in DOMAIN cs |-> [do |-> "readShown", content |-> cs[k], rect |-> content[cs[k]].rect]]
                 \o Rest(r))
  /\ DocsUnchanged /\ Quiet /\ UNCHANGED <<log, logged>>

\* The first detail of a content and the items it lists; a document that is missing throws.
ReadShown(r) ==
  /\ At(r, "readShown")
  /\ LET c == Args(r).content
         listed == UNION {{[item |-> i, kind |-> k, rect |-> Args(r).rect, image |-> item[i].image] :
                             i \in detail[FirstDetail(c)].items[k] \cap Stored(item)} : k \in Kinds}
     IN  IF \/ DetailsOf(c) = {}
            \/ \E k \in Kinds : ~(detail[FirstDetail(c)].items[k] \subseteq Stored(item))
         THEN Broken(r)
         ELSE request' = [request EXCEPT ![r].todo = Rest(r), ![r].got = @ \cup listed]
  /\ DocsUnchanged /\ Quiet /\ UNCHANGED <<log, logged>>

\* setContent and storeInHtml: the type is read anew, the images' files are read, and the
\* page is given to fs.writeFile, which is not waited for.
Render(r) ==
  /\ At(r, "render")
  /\ IF /\ Exists(template, request[r].t)
        /\ ImagesRead(template[request[r].t].type, request[r].got) \subseteq image
     THEN /\ Continue(r)
          /\ writing' = writing \cup {[template |-> request[r].t,
                                       page |-> Shown(template[request[r].t].type, request[r].got)]}
     ELSE Broken(r) /\ UNCHANGED writing
  /\ DocsUnchanged /\ UNCHANGED <<group, image, page, cms, overlap, events, log, logged>>

\* The resolution of a template comes from a query that joins its group, and finds nothing
\* when the group is gone.  The CMS is asked then, and may refuse or not answer.
Resolved(t) == Exists(template, t) /\ group
ToCms(when) == [months |-> when.days, days |-> {m + 1 : m \in when.months}]
Tell(r) ==
  /\ At(r, "tell")
  /\ \/ /\ Resolved(request[r].t)
        /\ cms' = cms \cup {[schedule |-> request[r].s, template |-> request[r].t,
                             given |-> Args(r).when, told |-> ToCms(Args(r).when)]}
        /\ Continue(r)
     \/ Broken(r) /\ UNCHANGED cms
  /\ DocsUnchanged /\ UNCHANGED <<group, image, page, writing, overlap, events, log, logged>>

\* A write of a page ends; several may end in any order.
Written(w) ==
  /\ w \in writing
  /\ page' = [page EXCEPT ![w.template] = w.page]
  /\ writing' = writing \ {w}
  /\ DocsUnchanged /\ UNCHANGED <<group, image, cms, request, overlap, events, log, logged>>

(***************************************************************************)
(* An image or the group is deleted; the server stops and starts again.    *)
(***************************************************************************)
Event == events < MaxEvents /\ events' = events + 1
DeleteImage(m) ==
  /\ Event /\ m \in image /\ image' = image \ {m}
  /\ DocsUnchanged /\ UNCHANGED <<group, log, logged, page, writing, cms, request, overlap>>
DeleteGroup ==
  /\ Event /\ group /\ group' = FALSE
  /\ DocsUnchanged /\ UNCHANGED <<image, log, logged, page, writing, cms, request, overlap>>
Restart ==
  /\ Event /\ \E r \in Requests : request[r] # Idle
  /\ request' = [r \in Requests |-> Idle] /\ writing' = {}
  /\ DocsUnchanged /\ UNCHANGED <<group, image, log, logged, page, cms, overlap>>

Handle(r) ==
  \/ CreateTemplate(r) \/ LogTemplate(r) \/ CreateContent(r) \/ CreateItem(r) \/ AddDetail(r)
  \/ AddContents(r) \/ UpdateContents(r) \/ SetTemplate(r) \/ SetContent(r) \/ SetDetail(r)
  \/ FindTemplate(r) \/ ListContents(r) \/ FindDetail(r) \/ DeleteItems(r) \/ DeleteDetail(r)
  \/ DeleteContent(r) \/ DropTemplate(r) \/ FindNewest(r) \/ DropSchedule(r)
  \/ CreateSchedule(r) \/ FindSchedule(r) \/ SetSchedule(r) \/ LogSchedule(r)
  \/ ReadTemplate(r) \/ ReadContents(r) \/ ReadShown(r) \/ Render(r) \/ Tell(r)

Next ==
  \/ \E r \in Requests :
       \/ AddTemplate(r) \/ DeleteTemplate(r) \/ UpdateTemplate(r) \/ UpdateTemplateContent(r)
       \/ AddTemplateSchedule(r) \/ UpdateTemplateSchedule(r) \/ DeleteTemplateSchedule(r)
       \/ UpdateTemplateContentAndAddSchedule(r) \/ UpdateTemplateContentAndUpdateSchedule(r)
       \/ Handle(r)
  \/ \E w \in writing : Written(w)
  \/ \E m \in Images : DeleteImage(m)
  \/ DeleteGroup
  \/ Restart

Spec == Init /\ [][Next]_vars

------------------------------------------------------------------------------

\* A content never outlives its template: while requests do not overlap, whatever stops a
\* deletion half-way leaves the template to delete again (deleteTemplate deletes it last).
ContentsHaveTemplate ==
  ~overlap => \A c \in Stored(content) : Exists(template, content[c].template)

\* A content that lists an item which is gone belongs to a template whose deletion was
\* logged: neither edits, nor publications, nor other deletions break a template's page.
DanglingExplained ==
  \A d \in Stored(detail) : Exists(content, detail[d].content) =>
    \A k \in Kinds : \A i \in detail[d].items[k] :
      Exists(item, i) \/ <<content[detail[d].content].template, "DELETE">> \in log

\* A schedule that the CMS was told of and that is still stored is in the schedule logs,
\* whatever failed or was deleted between the schedule, its log and the publication.
PublishedAreLogged ==
  \A p \in cms : Exists(schedule, p.schedule) => p.schedule \in logged
==============================================================================
