----------------------------- MODULE WearEventView -----------------------------
(***************************************************************************)
(* The page of what was really worn: a form for one wear event, the list   *)
(* of events, the confirmation of similar events of the same day, and a    *)
(* plan the page may be opened with (components/wear-event,                *)
(* lib/wear-event, hooks/wear-event).  The page awaits one request at a    *)
(* time, besides the plan it was opened with; requests may be carried out  *)
(* although their reply is lost, or after the page has given them up, and  *)
(* the same account works elsewhere too.  One plan stands for the owner's  *)
(* plans; time zone, completeness and summary of an event are left out,    *)
(* and "changed_plan" stands for "different_outfit" too.                   *)
(***************************************************************************)
EXTENDS Naturals, FiniteSets, Functions

CONSTANTS Garments,     \* the owner's items
          FirstPage,    \* those on the first page of the wardrobe list
          InLaundry,    \* those that are not wearable at first
          Washable,     \* those the owner may mark for the laundry
          MaxSelected,  \* items an event may have (20 in the code)
          None,         \* no plan, nothing edited, asked or awaited
          Dates, Today, \* day numbers, and the one it is
          Recorded,     \* why the event on record may have been worn
          WithPlan,     \* whether the page may be opened with a plan
          MaxChanges,   \* bound on changes of the form
          MaxEvents,    \* bound on event ids generated
          MaxRequests,  \* bound on the requests the page sends
          Disturbances  \* bound on changes made elsewhere and replies lost

ASSUME PageAssumption == 
  FirstPage \union InLaundry \union Washable \subseteq Garments
ASSUME DateAssumption == Dates \subseteq Nat /\ Today \in Dates
ASSUME OpenAssumption == WithPlan \subseteq BOOLEAN /\ WithPlan # {}
ASSUME NoneAssumption == None \notin Nat
ASSUME BoundAssumption ==
  {MaxSelected, MaxChanges, MaxEvents, MaxRequests, Disturbances} \subseteq Nat

VARIABLES form,      \* the form, not ready until it has a time zone
          editing,   \* the event row being corrected
          duplicate, \* similar events reported, and for which content
          createID,  \* createID.current
          list,      \* the event rows shown, None while they cannot be read
          shown,     \* the garment rows loaded
          plansShown,\* the plan row in the list of plans
          linked,    \* linkedPlan: the plan row the page was opened with
          prefill,   \* the page was opened with no plan, or is reading it, or has
          op,        \* the request awaited
          late,      \* requests given up that may still arrive
          tried,     \* event ids used for the draft in the form
          wardrobe,  \* server: garment rows
          plan,      \* server: the plan row, None once deleted
          planned,   \* the items every revision of the plan had
          events,    \* server: event rows
          deleted,   \* server: tombstones of events
          nextID,    \* the next id crypto.randomUUID will return
          changes,   \* changes of the form made
          requests,  \* requests sent
          budget     \* disturbances left

draft  == <<form, editing, duplicate, createID, tried>>
loaded == <<list, shown, plansShown>>
opened == <<linked, prefill>>
server == <<wardrobe, plan, planned, events, deleted>>
bounds == <<changes, requests, budget>>
vars   == <<draft, loaded, opened, op, late, server, nextID, bounds>>

pending == op # None

Sources == {"unplanned", "followed_plan", "changed_plan"}

ASSUME RecordAssumption == Recorded \subseteq Sources

Openings == {"none", "reading", "done"}

-----------------------------------------------------------------------------
(* lib/wear-event *)

\* A form remembers the row it was filled from, for the properties only.
emptyWearForm ==
  [ready |-> TRUE, date |-> Today, source |-> "unplanned", plan |-> None,
   items |-> <<>>, confirmed |-> {}, laundry |-> {}, from |-> None]

BlankForm == [emptyWearForm EXCEPT !.ready = FALSE]

wearFormFromResponse(row) ==
  [emptyWearForm EXCEPT !.date = row.date, !.source = row.source, !.plan = row.plan,
                        !.items = row.items, !.from = row]

Selected(f)   == DOMAIN f.items
Wearable(row) == row.availability = "wearable"

wearFormError(f) ==
  \/ ~f.ready \/ f.date > Today
  \/ Selected(f) = {} \/ Cardinality(Selected(f)) > MaxSelected
  \/ (f.source = "unplanned") # (f.plan = None)

\* The plan that planItems holds, the linked one when the list lacks it.
planItem == IF plansShown # None THEN plansShown ELSE linked

followedPlanErrorNever(f, row) == FALSE   \* mutant: the garments are not compared

followedPlanError(f, row) ==
  /\ f.source = "followed_plan" /\ row # None
  /\ row.redacted \/ DOMAIN row.items # Selected(f)

\* wearRequestFields, and saveEvent's filter on the confirmations.  Whether there
\* was a plan to compare the garments with is kept for the properties only.
Fields(f, confirmations) ==
  [date |-> f.date, source |-> f.source, plan |-> f.plan, items |-> f.items,
   confirmed |-> {g \in f.confirmed : g \in DOMAIN shown => ~Wearable(shown[g])},
   laundry |-> f.laundry, duplicates |-> confirmations,
   from |-> f.from, compared |-> planItem # None]

\* What the owner recorded, without what the server asks to confirm.
Content(fields) == <<fields.date, fields.source, fields.plan, fields.items>>

-----------------------------------------------------------------------------
(* The server, as far as the page relies on it *)

\* duplicateWearEvents: the events of the day that share four fifths of the items.
Similar(id, fields) ==
  {<<e, events[e].revision>> : e \in
     {e \in DOMAIN events \ {id} :
        LET mine == DOMAIN fields.items  theirs == DOMAIN events[e].items
        IN  /\ events[e].date = fields.date
            /\ 5 * Cardinality(mine \intersect theirs)
                 >= 4 * Cardinality(mine \union theirs)}}

\* validateWearSourcePlan: the plan as it is now, unless an edit keeps its link.
PlanAccepted(old, fields) ==
  fields.plan # None =>
    /\ plan # None
    /\ plan.revision = fields.plan \/ (old # None /\ old.plan = fields.plan)
    /\ plan.status \in {"active", "completed"}

\* wardrobeListQuery: what is archived is not listed.
Offered == {g \in DOMAIN wardrobe : wardrobe[g].availability # "archived"}

\* snapshotWearItems: what was worn is the wardrobe as it is now, and the
\* confirmations name exactly the items that are not wearable.
ItemsAccepted(fields) ==
  /\ fields.confirmed \union fields.laundry \subseteq DOMAIN fields.items
  /\ \A g \in DOMAIN fields.items :
       /\ g \in Offered
       /\ wardrobe[g].revision = fields.items[g]
       /\ ~Wearable(wardrobe[g]) <=> g \in fields.confirmed

Fingerprint(fields) ==
  <<Content(fields), fields.confirmed, fields.laundry, fields.duplicates>>

\* A create under an id that is taken is the same create, or refused.
Repeated(o) == o.kind = "create" /\ o.id \in DOMAIN events

WritesOver(o) ==   \* mutant: the last writer wins
  \/ o.kind = "create" /\ o.id \notin DOMAIN events \union deleted
  \/ o.kind = "update" /\ o.id \in DOMAIN events

\* Past the checks on id and revision: writeWearEvent is reached.
Writes(o) ==
  \/ o.kind = "create" /\ o.id \notin DOMAIN events \union deleted
  \/ o.kind = "update" /\ o.id \in DOMAIN events /\ events[o.id].revision = o.base.revision

OldRow(o) == IF o.kind = "update" THEN events[o.id] ELSE None

Accepted(o) ==
  \/ Repeated(o) /\ events[o.id].print = Fingerprint(o.fields)
  \/ /\ Writes(o)
     /\ Similar(o.id, o.fields) = o.fields.duplicates
     /\ PlanAccepted(OldRow(o), o.fields)
     /\ ItemsAccepted(o.fields)
  \/ /\ o.kind = "delete" /\ o.id \in DOMAIN events
     /\ events[o.id].revision = o.base.revision
  \/ o.kind = "reload" /\ o.id \in DOMAIN events

\* The similar events a refusal carries, {} when it carries none.
Candidates(o) ==
  IF Writes(o) /\ Similar(o.id, o.fields) # o.fields.duplicates
  THEN Similar(o.id, o.fields) ELSE {}

NewEvent(fields) ==
  [date |-> fields.date, source |-> fields.source, plan |-> fields.plan,
   items |-> fields.items, redacted |-> FALSE, print |-> Fingerprint(fields), revision |-> 1,
   compared |-> fields.compared]

\* The row a create or an update leaves; the fingerprint is the create's.
Written(o) ==
  IF o.kind = "create" THEN NewEvent(o.fields)
  ELSE [NewEvent(o.fields) EXCEPT !.print = events[o.id].print,
                                  !.revision = events[o.id].revision + 1]

\* applyLaundrySelection: a garment newly marked gets a new revision.
Marked(laundry) ==
  [g \in DOMAIN wardrobe |->
     IF g \in laundry /\ wardrobe[g].availability # "laundry"
     THEN [revision |-> wardrobe[g].revision + 1, availability |-> "laundry"]
     ELSE wardrobe[g]]

RecomputedOnce(row, rows) ==   \* mutant: a completed plan stays completed
  IF row = None \/ row.status # "active" \/ \A id \in DOMAIN rows : rows[id].plan = None
  THEN row ELSE [row EXCEPT !.status = "completed", !.revision = @ + 1]

\* recomputeOutfitPlanStatus: completed while an event links to the plan.
Recomputed(row, rows) ==
  LET desired == IF \E id \in DOMAIN rows : rows[id].plan # None
                 THEN "completed" ELSE "active"
  IN  IF row = None \/ row.status = "cancelled" \/ row.status = desired THEN row
      ELSE [row EXCEPT !.status = desired, !.revision = @ + 1]

Remembered(row) ==
  planned' = planned \union
    (IF row = None THEN {} ELSE {<<row.revision, DOMAIN row.items>>})

CarryOut(o) ==
  /\ IF o.kind \in {"create", "update"} /\ ~Repeated(o)
     THEN /\ events' = [id \in DOMAIN events \union {o.id} |->
                          IF id = o.id THEN Written(o) ELSE events[id]]
          /\ wardrobe' = Marked(o.fields.laundry)
          /\ plan' = IF o.fields.plan # None \/ (o.kind = "update" /\ events[o.id].plan # None)
                     THEN Recomputed(plan, events') ELSE plan
     ELSE IF o.kind = "delete"
     THEN /\ events' = Restrict(events, DOMAIN events \ {o.id})
          /\ plan' = IF events[o.id].plan # None THEN Recomputed(plan, events') ELSE plan
          /\ UNCHANGED wardrobe
     ELSE UNCHANGED <<events, wardrobe, plan>>
  /\ deleted' = IF o.kind = "delete" THEN deleted \union {o.id} ELSE deleted
  /\ Remembered(plan')

-----------------------------------------------------------------------------
(* The same account elsewhere *)

\* "archived" stands for a row with archived_at, whatever its availability.
EditGarmentElsewhere(g) ==
  /\ \E availability \in {"wearable", "laundry", "archived"} :
       wardrobe' = [wardrobe EXCEPT ![g] =
         [revision |-> @.revision + 1, availability |-> availability]]
  /\ UNCHANGED <<plan, planned, events, deleted>>

Without(items, g) == Restrict(items, DOMAIN items \ {g})

\* A row without the garment it held.
Cleared(row, g) ==
  IF row = None \/ g \notin DOMAIN row.items THEN row
  ELSE [row EXCEPT !.items = Without(@, g), !.redacted = TRUE, !.revision = @ + 1]

RedactSnapshots(g) ==
  /\ plan' = Cleared(plan, g)
  /\ events' = [id \in DOMAIN events |-> Cleared(events[id], g)]
  /\ UNCHANGED deleted

\* The events and the plan that hold the garment go.  A plan that stays is
\* recomputed; an event that stays keeps its link to a plan that goes.
DeleteAffectedHistory(g) ==
  LET affected == {id \in DOMAIN events : g \in DOMAIN events[id].items}
  IN  /\ events' = Restrict(events, DOMAIN events \ affected)
      /\ deleted' = deleted \union affected
      /\ plan' = IF plan # None /\ g \in DOMAIN plan.items THEN None
                 ELSE IF \E id \in affected : events[id].plan # None
                 THEN Recomputed(plan, events') ELSE plan

\* By either policy for what the garment was planned or worn in.
DeleteGarmentElsewhere(g) ==
  /\ wardrobe' = Without(wardrobe, g)
  /\ RedactSnapshots(g) \/ DeleteAffectedHistory(g)
  /\ Remembered(plan')

EditPlanElsewhere ==
  /\ plan # None /\ plan.status = "active"
  /\ \/ \E worn \in SUBSET DOMAIN wardrobe \ {{}} :
          plan' = [plan EXCEPT !.items = [g \in worn |-> wardrobe[g].revision],
                               !.revision = @ + 1]
     \/ plan' = [plan EXCEPT !.status = "cancelled", !.revision = @ + 1]
  /\ Remembered(plan')
  /\ UNCHANGED <<wardrobe, events, deleted>>

\* Deleting a plan makes its events unplanned.
DeletePlanElsewhere ==
  /\ plan # None
  /\ plan' = None
  /\ events' = [id \in DOMAIN events |->
       IF events[id].plan = None THEN events[id]
       ELSE [events[id] EXCEPT !.plan = None, !.source = "unplanned", !.revision = @ + 1]]
  /\ UNCHANGED <<wardrobe, planned, deleted>>

\* Its summary, say.
ChangeEventElsewhere(id) ==
  /\ events' = [events EXCEPT ![id].revision = @ + 1]
  /\ UNCHANGED <<wardrobe, plan, planned, deleted>>

Disturbed == budget > 0 /\ budget' = budget - 1

Elsewhere ==
  /\ Disturbed
  /\ \/ \E g \in DOMAIN wardrobe : EditGarmentElsewhere(g) \/ DeleteGarmentElsewhere(g)
     \/ \E id \in DOMAIN events : ChangeEventElsewhere(id)
     \/ EditPlanElsewhere \/ DeletePlanElsewhere
  /\ UNCHANGED <<draft, loaded, opened, op, late, nextID, changes, requests>>

-----------------------------------------------------------------------------
(* The form *)

\* The page opens with an empty form, or blank until its plan has been read.
\* The event on record may follow the plan, which the list may not reach.
Init ==
  /\ \E opensWithPlan \in WithPlan :
       /\ prefill = IF opensWithPlan THEN "reading" ELSE "none"
       /\ form = IF opensWithPlan THEN BlankForm ELSE emptyWearForm
  /\ editing = None /\ duplicate = None /\ createID = None /\ tried = {}
  /\ linked = None /\ op = None /\ late = {} /\ deleted = {}
  /\ wardrobe = [g \in Garments |-> [revision |-> 1,
       availability |-> IF g \in InLaundry THEN "laundry" ELSE "wearable"]]
  /\ shown = Restrict(wardrobe, FirstPage)
  /\ \E source \in Recorded, date \in Dates :
       LET items == [g \in FirstPage |-> 1]
           first == [id \in {1} |-> NewEvent(
             [date |-> date, source |-> source, items |-> items, compared |-> TRUE,
              plan |-> IF source = "unplanned" THEN None ELSE 1,
              confirmed |-> {}, laundry |-> {}, duplicates |-> {}])]
       IN  /\ events = first
           /\ plan = Recomputed([items |-> items, status |-> "active",
                                 redacted |-> FALSE, revision |-> 1], first)
  /\ planned = {<<r, FirstPage>> : r \in 1 .. plan.revision}
  /\ plansShown \in {None, plan}
  /\ list = events /\ nextID = 2
  /\ changes = 0 /\ requests = 0 /\ budget = Disturbances

\* What the page was opened with, and the form the answer leaves behind.
Prefill ==
  /\ prefill = "reading" /\ plan # None
  /\ prefill' = "done"
  /\ linked' = plan
  /\ form' = [emptyWearForm EXCEPT !.source = "followed_plan", !.plan = plan.revision,
                                   !.items = plan.items]
  /\ UNCHANGED <<editing, duplicate, createID, tried, loaded, op, late, server,
                 nextID, bounds>>

\* The plan cannot be read: a disturbance, unless it is gone.
PrefillFails ==
  /\ prefill = "reading"
  /\ IF plan = None THEN UNCHANGED budget ELSE Disturbed
  /\ prefill' = "done"
  /\ form' = emptyWearForm
  /\ UNCHANGED <<editing, duplicate, createID, tried, loaded, linked, op, late, server,
                 nextID, changes, requests>>

ChangeFormUnderBanner(new) ==   \* mutant: what was reported stays up
  /\ ~pending /\ form.ready
  /\ changes < MaxChanges /\ changes' = changes + 1
  /\ form' = new
  /\ UNCHANGED <<editing, duplicate, createID, tried, loaded, opened, op, late, server,
                 nextID, requests, budget>>

\* changeForm, by a field that is disabled while a request is awaited and
\* while there is no time zone: what was reported for the old content is gone.
ChangeForm(new) ==
  /\ ~pending /\ form.ready
  /\ changes < MaxChanges /\ changes' = changes + 1
  /\ form' = new
  /\ duplicate' = None
  /\ UNCHANGED <<editing, createID, tried, loaded, opened, op, late, server,
                 nextID, requests, budget>>

ChangeDate == \E date \in Dates \ {form.date} : ChangeForm([form EXCEPT !.date = date])

ChangeSource ==
  \E source \in Sources \ {form.source} :
    ChangeForm([form EXCEPT !.source = source,
                            !.plan = IF source = "unplanned" THEN None ELSE @])

\* selectPlan: following a plan brings its garments as the wardrobe has them now.
PlanItems(row) ==
  [g \in DOMAIN row.items |-> IF g \in DOMAIN shown THEN shown[g].revision
                              ELSE row.items[g]]

Selectable ==
  /\ form.source # "unplanned"
  /\ planItem # None
  /\ planItem.status \in {"active", "completed"} \/ form.plan # None

SelectPlan ==
  /\ Selectable
  /\ ChangeForm([form EXCEPT !.plan = planItem.revision,
                             !.items = IF form.source = "followed_plan"
                                       THEN PlanItems(planItem) ELSE @,
                             !.confirmed = {}, !.laundry = {}])

\* toggleItem: up to the limit, and a garment taken out takes its marks along.
ToggleItem(g) ==
  /\ g \in DOMAIN shown
  /\ g \in Selected(form) \/ Cardinality(Selected(form)) < MaxSelected
  /\ ChangeForm([form EXCEPT
       !.items = IF g \in DOMAIN @ THEN Without(@, g)
                 ELSE [h \in DOMAIN @ \union {g} |->
                         IF h = g THEN shown[g].revision ELSE form.items[h]],
       !.confirmed = @ \ {g}, !.laundry = @ \ {g}])

Toggled(set, g) == IF g \in set THEN set \ {g} ELSE set \union {g}

ConfirmUnavailable(g) ==
  /\ g \in Selected(form) \intersect DOMAIN shown /\ ~Wearable(shown[g])
  /\ ChangeForm([form EXCEPT !.confirmed = Toggled(@, g)])

MarkForLaundry(g) ==
  /\ g \in Washable \intersect Selected(form) \intersect DOMAIN shown
  /\ ChangeForm([form EXCEPT !.laundry = Toggled(@, g)])

\* A selection that is not loaded can only be removed; its marks stay.
RemoveMissing(g) ==
  /\ g \in Selected(form) \ DOMAIN shown
  /\ ChangeForm([form EXCEPT !.items = Without(@, g)])

\* The lists of the form are loaded further, or read again as far as they were,
\* after a change by the page (changed) or a reconnect.  The plan may be beyond
\* the pages loaded, and what is made elsewhere pushes loaded rows off the last.
PushesOff ==
  \/ plansShown # None /\ plan # None /\ plansShown' = None
  \/ ~(DOMAIN shown \intersect Offered \subseteq DOMAIN shown')

Refetch ==
  /\ plansShown' \in {plan, None}
  /\ \E reached \in SUBSET Offered :
       /\ reached \subseteq DOMAIN shown \/ (~pending /\ form.ready)
       /\ shown' = Restrict(wardrobe, reached)
  /\ IF PushesOff THEN Disturbed ELSE UNCHANGED budget
  /\ UNCHANGED <<draft, list, opened, op, late, server, nextID, changes, requests>>

-----------------------------------------------------------------------------
(* Choosing an event *)

Listed == IF list = None THEN {} ELSE DOMAIN list

\* The row shown, with its id: what a handler captures.
Row(id) == [id |-> id, row |-> list[id]]

\* selectEdit, by a button that cleared snapshots disable: createID stays.
SelectEdit(id) ==
  /\ ~pending /\ ~list[id].redacted
  /\ editing' = Row(id)
  /\ form' = wearFormFromResponse(list[id])
  /\ duplicate' = None
  /\ UNCHANGED <<createID, tried, loaded, opened, op, late, server, nextID, bounds>>

CloseEditor ==
  /\ editing' = None
  /\ form' = emptyWearForm
  /\ duplicate' = None
  /\ createID' = None /\ tried' = {}

CancelEdit ==
  /\ editing # None /\ ~pending /\ form.ready
  /\ CloseEditor
  /\ UNCHANGED <<loaded, opened, op, late, server, nextID, bounds>>

ReturnToForm ==
  /\ duplicate # None /\ ~pending
  /\ duplicate' = None
  /\ UNCHANGED <<form, editing, createID, tried, loaded, opened, op, late, server,
                 nextID, bounds>>

-----------------------------------------------------------------------------
(* Requests *)

Ask(kind, id, base, fields) ==
  /\ requests < MaxRequests
  /\ requests' = requests + 1
  /\ op' = [kind |-> kind, id |-> id, base |-> base, fields |-> fields,
            fate |-> "sent", reply |-> None]

\* saveEvent's own checks: the form, then every garment as it is loaded, then
\* the plan it follows.
Valid ==
  /\ ~wearFormError(form)
  /\ \A g \in Selected(form) :
       /\ g \in DOMAIN shown
       /\ shown[g].revision = form.items[g]
       /\ Wearable(shown[g]) \/ g \in form.confirmed
  /\ form.source # "unplanned" /\ editing = None => planItem # None
  /\ ~followedPlanError(form, planItem)

Confirmations == {{}} \union (IF duplicate = None THEN {} ELSE {duplicate.candidates})

DraftIDFresh == nextID   \* mutant: every save makes an id of its own

\* createID.current ??= crypto.randomUUID()
DraftID == IF createID = None THEN nextID ELSE createID

\* submit confirms nothing; the banner's button confirms what it shows.
SaveUpdate(confirmations) ==
  /\ ~pending /\ editing # None
  /\ Valid
  /\ Ask("update", editing.id, editing.row, Fields(form, confirmations))
  /\ duplicate' = None
  /\ UNCHANGED <<form, editing, createID, tried, loaded, opened, late, server,
                 nextID, changes, budget>>

SaveCreate(confirmations) ==
  LET id == DraftID
  IN  /\ ~pending /\ editing = None
      /\ Valid
      /\ id <= MaxEvents
      /\ createID' = id
      /\ tried' = tried \union {id}
      /\ nextID' = IF id = nextID THEN nextID + 1 ELSE nextID
      /\ Ask("create", id, None, Fields(form, confirmations))
      /\ duplicate' = None
      /\ UNCHANGED <<form, editing, loaded, opened, late, server, changes, budget>>

\* The dialog is modal and keeps the row it asks about.
RemoveEvent(id) ==
  /\ ~pending
  /\ Ask("delete", id, list[id], None)
  /\ UNCHANGED <<draft, loaded, opened, late, server, nextID, changes, budget>>

ReloadEditing ==
  /\ ~pending /\ editing # None /\ form.ready
  /\ Ask("reload", editing.id, editing.row, None)
  /\ duplicate' = None
  /\ UNCHANGED <<form, editing, createID, tried, loaded, opened, late, server,
                 nextID, changes, budget>>

\* The server handles the request awaited.
Handle ==
  /\ pending /\ op.fate = "sent"
  /\ IF Accepted(op)
     THEN /\ CarryOut(op)
          /\ op' = [op EXCEPT !.fate = "done",
               !.reply = IF op.id \in DOMAIN events' THEN events'[op.id] ELSE None]
     ELSE /\ op' = [op EXCEPT !.fate = "refused", !.reply = Candidates(op)]
          /\ UNCHANGED server
  /\ UNCHANGED <<draft, loaded, opened, late, nextID, bounds>>

\* finally
Release == op' = None

\* invalidateQueries or refetch: the list is read again, or cannot be.
Refreshed == list' \in {events, None}

\* What is gone from the list is no longer edited.
Closes(o) == o.kind = "delete" /\ editing # None /\ editing.id = o.id

\* The reply arrives and the handler runs on.
ReplyShown ==
  /\ pending /\ op.fate = "done"
  /\ Release
  /\ Refreshed
  /\ \/ /\ op.kind \in {"update", "reload"}
        /\ editing' = [id |-> op.id, row |-> op.reply]
        /\ form' = wearFormFromResponse(op.reply)
        /\ UNCHANGED <<duplicate, createID, tried>>
     \/ /\ op.kind = "create"
        /\ createID' = None /\ tried' = {}
        /\ form' = emptyWearForm
        /\ UNCHANGED <<editing, duplicate>>
     \/ Closes(op) /\ CloseEditor
     \/ op.kind = "delete" /\ ~Closes(op) /\ UNCHANGED draft
  /\ UNCHANGED <<shown, plansShown, opened, late, server, nextID, bounds>>

\* showError: the candidates are put up for confirmation, and anything else
\* takes the confirmation down. The form stays; a failed deletion reads the list.
ReplyFails ==
  /\ pending
  /\ \/ op.fate = "refused" /\ UNCHANGED budget
     \/ op.fate # "refused" /\ Disturbed
  /\ Release
  /\ late' = IF op.fate = "sent" /\ op.kind # "reload" THEN late \union {op} ELSE late
  /\ duplicate' = IF op.fate = "refused" /\ op.reply # {}
                  THEN [candidates |-> op.reply, for |-> Content(op.fields)] ELSE None
  /\ IF op.kind = "delete" THEN Refreshed ELSE UNCHANGED list
  /\ UNCHANGED <<form, editing, createID, tried, shown, plansShown, opened, server,
                 nextID, changes, requests>>

Arrive(o) ==
  /\ o \in late
  /\ late' = late \ {o}
  /\ IF Accepted(o) THEN CarryOut(o) ELSE UNCHANGED server
  /\ UNCHANGED <<draft, loaded, opened, op, nextID, bounds>>

RetryList ==
  /\ list = None
  /\ list' = events
  /\ UNCHANGED <<draft, shown, plansShown, opened, op, late, server, nextID, bounds>>

-----------------------------------------------------------------------------
Next ==
  \/ Prefill \/ PrefillFails
  \/ ChangeDate \/ ChangeSource \/ SelectPlan \/ Refetch
  \/ \E g \in Garments : \/ ToggleItem(g) \/ RemoveMissing(g)
                         \/ ConfirmUnavailable(g) \/ MarkForLaundry(g)
  \/ \E id \in Listed : SelectEdit(id) \/ RemoveEvent(id)
  \/ CancelEdit \/ ReturnToForm \/ ReloadEditing
  \/ \E confirmations \in Confirmations :
       SaveUpdate(confirmations) \/ SaveCreate(confirmations)
  \/ Handle \/ ReplyShown \/ ReplyFails \/ RetryList
  \/ \E o \in late : Arrive(o)
  \/ Elsewhere

Spec == Init /\ [][Next]_vars

-----------------------------------------------------------------------------
(* Correctness *)

IsEvent(row) ==
  /\ row.date \in Dates /\ row.source \in Sources
  /\ row.plan # None => row.plan \in Nat
  /\ DOMAIN row.items \subseteq Garments
  /\ row.revision \in Nat \ {0} /\ row.redacted \in BOOLEAN

\* Types of the state.
TypeOK ==
  /\ form.date \in Dates /\ form.source \in Sources
  /\ Selected(form) \union form.confirmed \union form.laundry \subseteq Garments
  /\ editing # None => IsEvent(editing.row)
  /\ createID # None => createID \in 1 .. nextID - 1
  /\ list # None => \A id \in DOMAIN list : IsEvent(list[id])
  /\ \A rows \in {shown, wardrobe} : DOMAIN rows \subseteq Garments
  /\ pending => op.fate \in {"sent", "done", "refused"}
  /\ tried \subseteq 1 .. nextID - 1 /\ prefill \in Openings
  /\ \A id \in DOMAIN events : id < nextID /\ IsEvent(events[id])

\* One draft is one event, however often it is saved again after a lost reply
\* and whenever the first attempt arrives: retrying never counts twice
\* (createID in saveEvent and cancelEdit, the fingerprint of CreateWearEvent).
OneEventPerDraft == Cardinality(tried \intersect (DOMAIN events \union deleted)) <= 1

\* A save that confirms similar events confirms them for the content they were
\* reported for: the form cannot change under the banner (changeForm and
\* selectEdit take it down; a plan that is still being read does not).
Confirms(o) == o.kind \in {"create", "update"} /\ o.fields.duplicates # {}

ConfirmsWhatWasReported ==
  [][ ~pending /\ pending' /\ linked = None /\ Confirms(op')
        => duplicate.for = Content(op'.fields) ]_vars

FollowsThePlan(row) ==
  row.source = "followed_plan" /\ ~row.redacted
    => <<row.plan, DOMAIN row.items>> \in planned

\* An event recorded as worn by the plan holds the garments of the very plan
\* revision it names: the page compares the garments with the row it has loaded
\* and the server compares revisions only (followedPlanError, PlanAccepted).
FollowedIsThePlan == \A id \in DOMAIN events : FollowsThePlan(events[id])

\* The same of every event that was last saved while its plan was in the list, on
\* a page that was not opened with a plan.  An event may be corrected while its
\* plan is not loaded, and then nobody compares (FollowedIsThePlan fails).
FollowedIsTheListedPlan ==
  linked = None =>
    \A id \in DOMAIN events : events[id].compared => FollowsThePlan(events[id])

\* The plan an event is linked to exists (DeleteOutfitPlan unlinks its events).
LinkLeadsToThePlan == \A id \in DOMAIN events : events[id].plan # None => plan # None

\* A plan is completed exactly while an event that counts is linked to it,
\* whatever is saved, corrected, deleted or carried out late.
PlanFollowsEvents ==
  plan # None /\ plan.status # "cancelled"
    => (plan.status = "completed" <=> \E id \in DOMAIN events : events[id].plan # None)

\* A correction goes out from a form that was filled from the row it corrects.
CorrectsItsRow(o) == o.kind = "update" => o.fields.from = o.base

CorrectionsAreOfTheirRow == \A o \in late \union {op} : o # None => CorrectsItsRow(o)

\* A change of an event is one made elsewhere, or one the page asked for on the
\* sight of the very row it replaces.
EveryChangeIsSeen ==
  \A id \in DOMAIN events :
    \/ budget' # budget /\ op' = op
    \/ id \in DOMAIN events' /\ events'[id] = events[id]
    \/ \E o \in late \union {op} :
         /\ o # None /\ o.id = id /\ o.base = events[id]
         /\ prefill = "none" => CorrectsItsRow(o)

\* Whatever the page changes or deletes, it changes from the row the owner had
\* before their eyes; and on a page that was not opened with a plan, a correction
\* replaces the very row its form was filled from (expected_revision in saveEvent
\* and remove).  A plan read for the form replaces it under a correction that was
\* begun meanwhile: there CorrectionsAreOfTheirRow fails.
NothingIsOverwrittenUnseen == [][EveryChangeIsSeen]_vars

\* A draft that was recorded although the reply was lost is acknowledged when
\* it is saved again unchanged ("the same operation under the same mutation ID
\* returns the same result", docs/requirement/04, section 6).
RetryIsAcknowledged ==
  pending /\ op.kind = "create" /\ op.fate = "refused" /\ op.id \in DOMAIN events
    => <<events[op.id].print[1], events[op.id].print[2], events[op.id].print[3]>>
         # <<Content(op.fields), op.fields.confirmed, op.fields.laundry>>

=============================================================================
