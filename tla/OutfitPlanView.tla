---------------------------- MODULE OutfitPlanView ----------------------------
(***************************************************************************)
(* The plan page: a flat-lay editor for one outfit, the list of plans and  *)
(* their confirmed actions (components/outfit-plan, lib/outfit-plan,       *)
(* hooks/outfit-plan).  The view has one form and awaits one request at a  *)
(* time; the same account may change plans and garments elsewhere          *)
(* meanwhile, and a request may be carried out although its reply is lost, *)
(* or after the view has given it up.  Time zone and note of a plan are    *)
(* left out; a date is a day number.  Plans with wear events linked to     *)
(* them, which the page may not cancel, are in WearEventView.              *)
(***************************************************************************)
EXTENDS Naturals, FiniteSets, Functions

CONSTANTS Garments,     \* the owner's items
          CategoryOf,   \* the category of each
          FirstPage,    \* those on the first page of the wardrobe list
          InLaundry,    \* those that are not wearable at first
          MaxSelected,  \* items a plan may have (20 in the code)
          None,         \* nothing edited, asked or awaited
          Dates, Today, \* day numbers, and the one it is
          MaxPlans,     \* bound on plan ids generated
          MaxRequests,  \* bound on the requests the page sends
          Disturbances  \* bound on changes made elsewhere and replies lost

Categories == {"top", "bottom", "one_piece", "shoes", "outerwear", "bag", "accessory"}

\* The items of a plan, with their revisions, and the plans of given items.
Items == UNION {[worn -> Nat] : worn \in SUBSET Garments}
PlansOf(items) ==
  [date : Dates, items : items, confirmed : SUBSET Garments, redacted : BOOLEAN,
   status : {"active", "cancelled", "not_worn"}, revision : Nat \ {0}]

ASSUME CategoryAssumption == CategoryOf \in [Garments -> Categories]
ASSUME PageAssumption == FirstPage \subseteq Garments /\ InLaundry \subseteq Garments
ASSUME DateAssumption == Dates \subseteq Nat /\ Today \in Dates
ASSUME NoneAssumption == None \notin Nat \union [id : Nat, plan : PlansOf(Items)]
ASSUME BoundAssumption == 
  {MaxSelected, MaxPlans, MaxRequests, Disturbances} \subseteq Nat

VARIABLES form,      \* date, selections with their revisions, confirmations
          editing,   \* the plan row being edited
          createID,  \* createID.current
          list,      \* the plan rows shown, None while they cannot be read
          shown,     \* the garment rows loaded
          op,        \* the request awaited
          late,      \* requests given up that may still arrive
          tried,     \* plan ids used for the draft in the form
          wardrobe,  \* server: garment rows
          plans,     \* server: plan rows
          deleted,   \* server: tombstones
          nextID,    \* the next id crypto.randomUUID will return
          requests,  \* requests sent
          budget     \* disturbances left

view   == <<form, editing, createID, list, shown, tried, nextID>>
server == <<wardrobe, plans, deleted>>
bounds == <<requests, budget>>
vars   == <<view, op, late, server, bounds>>

pending == op # None

-----------------------------------------------------------------------------
(* lib/outfit-plan *)

\* A form remembers the row it was filled from and the selections that dropped out
\* of the loaded list although the owner still has them, for the properties only.
EmptyForm ==
  [date |-> Today, items |-> <<>>, confirmed |-> {}, from |-> None, away |-> {}]
FormOf(plan) ==
  [date |-> plan.date, items |-> plan.items, confirmed |-> {}, from |-> plan, away |-> {}]
Selected(f)   == DOMAIN f.items
Wearable(row) == row.availability = "wearable"

DateError(f, original) == f.date < Today /\ f.date # original

ItemsError(f) == Selected(f) = {} \/ Cardinality(Selected(f)) > MaxSelected

\* save's own checks: every selection is loaded, what is not wearable confirmed.
MissingError(f)     == ~(Selected(f) \subseteq DOMAIN shown)
UnconfirmedError(f) ==
  \E g \in Selected(f) : ~Wearable(shown[g]) /\ g \notin f.confirmed

Valid(f, original) ==
  ~DateError(f, original) /\ ~ItemsError(f) /\ ~MissingError(f) /\ ~UnconfirmedError(f)

\* planRequestFields, and save's filter on the confirmations.
Fields(f) ==
  [date |-> f.date, items |-> f.items,
   confirmed |-> {g \in f.confirmed : g \in DOMAIN shown => ~Wearable(shown[g])},
   from |-> f.from, away |-> f.away]

\* The categories a garment replaces.
ConflictsAlone(category) == {category}   \* mutant: a one-piece goes with separates

Conflicts(category) ==
  {category} \union
  (CASE category = "one_piece" -> {"top", "bottom"}
     [] category \in {"top", "bottom"} -> {"one_piece"}
     [] OTHER -> {})

\* replaceGarment: a selection that is not loaded has no category and stays.
ReplaceGarment(items, g) ==
  LET kept == {h \in DOMAIN items :
                 h \notin DOMAIN shown \/ CategoryOf[h] \notin Conflicts(CategoryOf[g])}
  IN  [h \in kept \union {g} |-> IF h = g THEN shown[g].revision ELSE items[h]]

-----------------------------------------------------------------------------
(* The server, as far as the view relies on it *)

\* wardrobeListQuery: what is archived is not listed.
Offered == {g \in DOMAIN wardrobe : wardrobe[g].availability # "archived"}

\* snapshotOutfitItems: what is planned is the wardrobe as it is now, and the
\* confirmations name exactly the items that are not wearable.
ItemsAccepted(fields) ==
  /\ fields.confirmed \subseteq DOMAIN fields.items
  /\ \A g \in DOMAIN fields.items :
       /\ g \in Offered
       /\ wardrobe[g].revision = fields.items[g]
       /\ ~Wearable(wardrobe[g]) <=> g \in fields.confirmed

NewPlan(fields) ==
  [date |-> fields.date, items |-> fields.items, confirmed |-> fields.confirmed,
   redacted |-> FALSE, status |-> "active", revision |-> 1]

SameContent(plan, fields) ==
  /\ plan.status = "active" /\ ~plan.redacted
  /\ <<plan.date, plan.items, plan.confirmed>> = <<fields.date, fields.items, fields.confirmed>>

CreateAccepted(o) ==
  IF o.id \in DOMAIN plans THEN SameContent(plans[o.id], o.fields)
  ELSE o.id \notin deleted /\ ItemsAccepted(o.fields)

Changed(id, plan) == [plans EXCEPT ![id] = plan]

RevisionAny(o) == TRUE   \* mutant: the last writer wins

RevisionMatches(o) == plans[o.id].revision = o.base.revision

\* When a request is carried out.
Accepted(o) ==
  \/ o.kind = "create" /\ CreateAccepted(o)
  \/ /\ o.kind # "create" /\ o.id \in DOMAIN plans
     /\ o.kind # "reload" => RevisionMatches(o)
     /\ \/ o.kind = "update" /\ plans[o.id].status = "active" /\ ItemsAccepted(o.fields)
        \/ o.kind \in {"cancel", "not_worn"} /\ plans[o.id].status = "active"
        \/ o.kind = "restore" /\ plans[o.id].status = "not_worn"
        \/ o.kind \in {"delete", "reload"}

StatusAfter == [cancel |-> "cancelled", not_worn |-> "not_worn", restore |-> "active"]

CarryOut(o) ==
  /\ plans' =
       CASE o.kind = "create" ->
              IF o.id \in DOMAIN plans THEN plans
              ELSE [id \in DOMAIN plans \union {o.id} |->
                      IF id = o.id THEN NewPlan(o.fields) ELSE plans[id]]
         [] o.kind = "update" ->
              Changed(o.id, [NewPlan(o.fields) EXCEPT !.revision = plans[o.id].revision + 1])
         [] o.kind \in DOMAIN StatusAfter ->
              Changed(o.id, [plans[o.id] EXCEPT !.status = StatusAfter[o.kind],
                                                !.revision = @ + 1])
         [] o.kind = "delete" -> Restrict(plans, DOMAIN plans \ {o.id})
         [] OTHER -> plans
  /\ deleted' = IF o.kind = "delete" THEN deleted \union {o.id} ELSE deleted
  /\ UNCHANGED wardrobe

\* Changes made elsewhere: a plan is rescheduled, a garment edited, archived
\* (which stands for a row with archived_at, whatever its availability) or deleted
\* together with its snapshots or with the plans that have one.
ChangePlanElsewhere(id) ==
  /\ plans[id].status = "active"
  /\ \E date \in {d \in Dates : d >= Today} :
       plans' = Changed(id, [plans[id] EXCEPT !.date = date, !.revision = @ + 1])
  /\ UNCHANGED <<wardrobe, deleted>>

EditGarmentElsewhere(g) ==
  /\ \E availability \in {"wearable", "laundry", "archived"} :
       wardrobe' = [wardrobe EXCEPT ![g] =
         [revision |-> @.revision + 1, availability |-> availability]]
  /\ UNCHANGED <<plans, deleted>>

Without(items, g) == Restrict(items, DOMAIN items \ {g})

RedactSnapshots(g) ==
  /\ plans' = [id \in DOMAIN plans |->
       IF g \in DOMAIN plans[id].items
       THEN [plans[id] EXCEPT !.items = Without(@, g), !.confirmed = @ \ {g},
                              !.redacted = TRUE, !.revision = @ + 1]
       ELSE plans[id]]
  /\ UNCHANGED deleted

DeleteAffectedHistory(g) ==
  LET affected == {id \in DOMAIN plans : g \in DOMAIN plans[id].items}
  IN  /\ plans' = Restrict(plans, DOMAIN plans \ affected)
      /\ deleted' = deleted \union affected

DeleteGarmentElsewhere(g) ==
  /\ wardrobe' = Without(wardrobe, g)
  /\ RedactSnapshots(g) \/ DeleteAffectedHistory(g)

Disturbed == budget > 0 /\ budget' = budget - 1

Elsewhere ==
  /\ Disturbed
  /\ \/ \E id \in DOMAIN plans : ChangePlanElsewhere(id)
     \/ \E g \in DOMAIN wardrobe : EditGarmentElsewhere(g) \/ DeleteGarmentElsewhere(g)
  /\ UNCHANGED <<view, op, late, requests>>

-----------------------------------------------------------------------------
(* The form *)

Init ==
  /\ form = EmptyForm
  /\ editing = None /\ createID = None /\ tried = {}
  /\ op = None /\ late = {} /\ deleted = {}
  /\ wardrobe = [g \in Garments |-> [revision |-> 1,
       availability |-> IF g \in InLaundry THEN "laundry" ELSE "wearable"]]
  /\ shown = Restrict(wardrobe, FirstPage)
  /\ \E worn \in SUBSET (Garments \ InLaundry) \ {{}}, date \in Dates :
       plans = [id \in {1} |-> NewPlan([date |-> date, items |-> [g \in worn |-> 1],
                                       confirmed |-> {}])]
  /\ list = plans /\ nextID = 2
  /\ requests = 0 /\ budget = Disturbances

\* The fields are disabled while a request is awaited.
ChangeForm(new) ==
  /\ ~pending
  /\ form' = new
  /\ UNCHANGED <<editing, createID, list, shown, op, late, tried, server,
                 nextID, bounds>>

ChangeDate == \E date \in Dates : ChangeForm([form EXCEPT !.date = date])

Confirm(g) ==
  /\ g \in Selected(form) \intersect DOMAIN shown /\ ~Wearable(shown[g])
  /\ ChangeForm([form EXCEPT !.confirmed =
       IF g \in form.confirmed THEN @ \ {g} ELSE @ \union {g}])

\* A candidate of the flat-lay editor: at the limit only what replaces another.
MayChoose(g) ==
  /\ g \in DOMAIN shown
  /\ \/ g \in Selected(form)
     \/ Cardinality(Selected(form)) < MaxSelected
     \/ \E h \in Selected(form) \intersect DOMAIN shown : CategoryOf[h] = CategoryOf[g]

Choose(g) ==
  /\ MayChoose(g)
  /\ LET items == ReplaceGarment(form.items, g)
     IN  ChangeForm([form EXCEPT !.items = items,
                                 !.confirmed = @ \intersect DOMAIN items,
                                 !.away = (@ \intersect DOMAIN items) \ {g}])

Remove(g) ==
  /\ g \in Selected(form) \intersect DOMAIN shown
  /\ ChangeForm([form EXCEPT !.items = Without(@, g), !.confirmed = @ \ {g},
                             !.away = @ \ {g}])

\* A selection that is not loaded can only be removed; a confirmation it has stays.
RemoveMissing(g) ==
  /\ g \in Selected(form) \ DOMAIN shown
  /\ ChangeForm([form EXCEPT !.items = Without(@, g), !.away = @ \ {g}])

LoadMoreItems ==
  /\ ~pending
  /\ Offered \ DOMAIN shown # {}
  /\ shown' = [g \in DOMAIN shown \union Offered |->
                 IF g \in DOMAIN shown THEN shown[g] ELSE wardrobe[g]]
  /\ UNCHANGED <<form, editing, createID, list, op, late, tried, server,
                 nextID, bounds>>

\* The query reads the loaded pages again, as after a reconnect.  What is added
\* elsewhere pushes garments off the last of them, a disturbance, and what is gone
\* elsewhere pulls others up.
RefetchItems ==
  /\ \E reached \in SUBSET Offered :
       /\ shown' = Restrict(wardrobe, reached)
       /\ IF DOMAIN shown \intersect Offered \subseteq reached THEN UNCHANGED budget
          ELSE Disturbed
       /\ form' = [form EXCEPT !.away = @ \union
                     ((Selected(form) \intersect DOMAIN wardrobe) \ reached)]
  /\ UNCHANGED <<editing, createID, list, op, late, tried, server, nextID, requests>>

-----------------------------------------------------------------------------
(* Choosing what to edit or to act on *)

Listed == IF list = None THEN {} ELSE DOMAIN list

CanEdit(plan) == ~pending /\ plan.status = "active" /\ ~plan.redacted

\* The row shown, with its id: what a handler captures.
Row(id) == [id |-> id, plan |-> list[id]]

SelectEdit(id) ==
  /\ CanEdit(list[id])
  /\ editing' = Row(id)
  /\ form' = FormOf(list[id])
  /\ UNCHANGED <<createID, list, shown, op, late, tried, server, nextID, bounds>>

CloseEditor ==
  /\ editing' = None
  /\ form' = EmptyForm
  /\ createID' = None /\ tried' = {}

Edited(id) == editing # None /\ editing.id = id

CancelEdit ==
  /\ editing # None /\ ~pending
  /\ CloseEditor
  /\ UNCHANGED <<list, shown, op, late, server, nextID, bounds>>

Dialogs == {"cancel", "not_worn", "delete"}

\* The buttons of a listed plan that open the dialog.
MayRun(plan, action) ==
  /\ ~pending
  /\ CASE action = "cancel" -> plan.status = "active"
       [] action = "not_worn" -> plan.status = "active" /\ plan.date <= Today
       [] OTHER -> TRUE

-----------------------------------------------------------------------------
(* Requests *)

Ask(kind, id, base, fields) ==
  /\ requests < MaxRequests
  /\ requests' = requests + 1
  /\ op' = [kind |-> kind, id |-> id, base |-> base, fields |-> fields,
            fate |-> "sent", reply |-> None]

DraftIDFresh == nextID   \* mutant: every save makes an id of its own

\* createID.current ??= crypto.randomUUID()
DraftID == IF createID = None THEN nextID ELSE createID

\* save: update with the revision being edited, or create under the kept id.
SaveUpdate ==
  /\ ~pending /\ editing # None
  /\ Valid(form, editing.plan.date)
  /\ Ask("update", editing.id, editing.plan, Fields(form))
  /\ UNCHANGED <<view, late, server, budget>>

SaveCreate ==
  LET id == DraftID
  IN  /\ ~pending /\ editing = None
      /\ Valid(form, None)
      /\ id <= MaxPlans
      /\ createID' = id
      /\ tried' = tried \union {id}
      /\ nextID' = IF id = nextID THEN nextID + 1 ELSE nextID
      /\ Ask("create", id, None, Fields(form))
      /\ UNCHANGED <<form, editing, list, shown, late, server, budget>>

\* The dialog is modal and keeps the row it asks about; once confirmed,
\* runAction acts on that row.
RunAction(id, action) ==
  /\ MayRun(list[id], action)
  /\ Ask(action, id, list[id], None)
  /\ UNCHANGED <<view, late, server, budget>>

RestorePlan(id) ==
  /\ ~pending /\ list[id].status = "not_worn"
  /\ Ask("restore", id, list[id], None)
  /\ UNCHANGED <<view, late, server, budget>>

ReloadEditing ==
  /\ ~pending /\ editing # None
  /\ Ask("reload", editing.id, editing.plan, None)
  /\ UNCHANGED <<view, late, server, budget>>

\* The server handles the request awaited.
Handle ==
  /\ pending /\ op.fate = "sent"
  /\ IF Accepted(op)
     THEN /\ CarryOut(op)
          /\ op' = [op EXCEPT !.fate = "done",
               !.reply = IF op.id \in DOMAIN plans' THEN plans'[op.id] ELSE None]
     ELSE /\ op' = [op EXCEPT !.fate = "refused"]
          /\ UNCHANGED server
  /\ UNCHANGED <<view, late, bounds>>

\* finally
Release == op' = None

\* invalidateQueries or refetch: the list is read again, or cannot be.
Refreshed == list' \in {plans, None}

\* What is created, or gone from the list, is no longer edited.
Closes(o) == o.kind = "create" \/ (o.kind \in Dialogs /\ Edited(o.id))

\* The reply arrives and the handler runs on.
ReplyShown ==
  /\ pending /\ op.fate = "done"
  /\ Release
  /\ Refreshed
  /\ \/ /\ op.kind \in {"update", "reload"}
        /\ editing' = [id |-> op.id, plan |-> op.reply]
        /\ form' = FormOf(op.reply)
        /\ UNCHANGED <<createID, tried>>
     \/ Closes(op) /\ CloseEditor
     \/ /\ op.kind \notin {"update", "reload"} /\ ~Closes(op)
        /\ UNCHANGED <<form, editing, createID, tried>>
  /\ UNCHANGED <<shown, late, server, nextID, bounds>>

\* The request failed as far as the view knows: refused, done with the reply
\* lost, or still on its way. The form stays; a failed action reads the list.
ReplyFails ==
  /\ pending
  /\ \/ op.fate = "refused" /\ UNCHANGED budget
     \/ op.fate # "refused" /\ Disturbed
  /\ Release
  /\ late' = IF op.fate = "sent" /\ op.kind # "reload" THEN late \union {op} ELSE late
  /\ IF op.kind \in {"create", "update", "reload"} THEN UNCHANGED list ELSE Refreshed
  /\ UNCHANGED <<form, editing, createID, shown, tried, server, nextID, requests>>

Arrive(o) ==
  /\ o \in late
  /\ late' = late \ {o}
  /\ IF Accepted(o) THEN CarryOut(o) ELSE UNCHANGED server
  /\ UNCHANGED <<view, op, bounds>>

RetryList ==
  /\ list = None
  /\ list' = plans
  /\ UNCHANGED <<form, editing, createID, shown, op, late, tried, server,
                 nextID, bounds>>

-----------------------------------------------------------------------------
Next ==
  \/ ChangeDate \/ LoadMoreItems \/ RefetchItems
  \/ \E g \in Garments : Confirm(g) \/ Choose(g) \/ Remove(g) \/ RemoveMissing(g)
  \/ \E id \in Listed : SelectEdit(id) \/ RestorePlan(id)
  \/ \E id \in Listed, action \in Dialogs : RunAction(id, action)
  \/ CancelEdit
  \/ SaveUpdate \/ SaveCreate \/ ReloadEditing
  \/ Handle \/ ReplyShown \/ ReplyFails \/ RetryList
  \/ \E o \in late : Arrive(o)
  \/ Elsewhere

Spec == Init /\ [][Next]_vars

-----------------------------------------------------------------------------
(* Correctness *)

IsItems(items) == DOMAIN items \subseteq Garments /\ items \in [DOMAIN items -> Nat]

IsPlan(plan)   == plan \in PlansOf({plan.items}) /\ IsItems(plan.items)
IsPlans(rows)  == DOMAIN rows \subseteq Nat /\ \A id \in DOMAIN rows : IsPlan(rows[id])

IsForm(f) ==
  /\ f \in [date : Dates, items : {f.items}, confirmed : SUBSET Garments, from : {f.from},
            away : SUBSET Garments]
  /\ IsItems(f.items)

IsGarments(rows) ==
  /\ DOMAIN rows \subseteq Garments
  /\ \A g \in DOMAIN rows : rows[g] \in [revision : Nat,
                                       availability : {"wearable", "laundry", "archived"}]

IsTyped(o) ==
  /\ o \in [kind : Dialogs \union {"create", "update", "restore", "reload"}, id : Nat,
            base : {o.base}, fields : {o.fields}, fate : {"sent", "done", "refused"},
            reply : {o.reply}]
  /\ o.kind \in {"create", "update"} => IsForm(o.fields)
  /\ o.kind # "create" => IsPlan(o.base)

\* Types of the state.
TypeOK ==
  /\ IsForm(form)
  /\ editing # None => editing \in [id : Nat, plan : {editing.plan}] /\ IsPlan(editing.plan)
  /\ nextID \in Nat /\ createID \in Nat \union {None}
  /\ list # None => IsPlans(list)
  /\ IsPlans(plans) /\ IsGarments(shown) /\ IsGarments(wardrobe)
  /\ \A o \in late \union ({op} \ {None}) : IsTyped(o)
  /\ op # None /\ op.kind \in {"update", "reload"} /\ op.fate = "done" => IsPlan(op.reply)

\* One draft is one plan, however often it is saved again after a lost reply
\* and whenever the first attempt arrives (createID in save and cancelEdit).
OnePlanPerDraft == Cardinality(tried \intersect (DOMAIN plans \union deleted)) <= 1

\* A create that arrives late does not bring back a plan that was deleted
\* meanwhile (the tombstone checked by CreateOutfitPlan).
DeletedStaysDeleted == deleted \intersect DOMAIN plans = {}

\* A change of a plan is one made elsewhere, or one the page asked for on the
\* sight of the very row it replaces.
EveryChangeIsSeen ==
  \A id \in DOMAIN plans :
    \/ budget' # budget /\ op' = op
    \/ id \in DOMAIN plans' /\ plans'[id] = plans[id]
    \/ \E o \in late \union {op} :
         /\ o # None /\ o.id = id /\ o.base = plans[id]
         /\ o.kind = "update" => o.fields.from = plans[id]

\* Whatever the page changes or deletes, it changes from the row the owner had
\* before their eyes when choosing to, and a saved edit replaces the very row
\* its form was filled from: a change made elsewhere is never overwritten
\* unseen (expected_revision in save, runAction and restore).
NothingIsOverwrittenUnseen == [][EveryChangeIsSeen]_vars

Exclusive(items) ==
  LET worn == {CategoryOf[g] : g \in DOMAIN items}
  IN  /\ Cardinality(worn) = Cardinality(DOMAIN items)
      /\ "one_piece" \in worn => {"top", "bottom"} \intersect worn = {}

\* A draft is saved as one outfit: one garment per category, and no one-piece
\* together with separates ("mutually exclusive in this flat-lay editor",
\* replaceGarment).  It fails: a selection that dropped out of the loaded list
\* stays beside what it excludes, and may be loaded again before the draft is saved.
DraftIsOneOutfit ==
  \A o \in late \union {op} : o # None /\ o.kind = "create" => Exclusive(o.fields.items)

\* The garments of a saved draft are one outfit but for those that had dropped out
\* of the loaded list while the owner still had them: garments that are edited or
\* deleted elsewhere meanwhile, and stay selected, do not bring two that exclude
\* each other into one plan (replaceGarment, and the check for missing items).
LoadedIsOneOutfit ==
  \A o \in late \union {op} : o # None /\ o.kind = "create" =>
    Exclusive(Restrict(o.fields.items, DOMAIN o.fields.items \ o.fields.away))

=============================================================================
