------------------------- MODULE OutfitPlanView_proofs -------------------------
(***************************************************************************)
(* Theorems about OutfitPlanView, for any wardrobe, any dates and any      *)
(* number of plans, requests, lost replies and changes made elsewhere.     *)
(***************************************************************************)
EXTENDS OutfitPlanView, FiniteSetTheorems, TLAPS

-----------------------------------------------------------------------------
(* The plans of the server: a deleted one stays deleted, and a revision     *)
(* names one content of one plan.                                           *)

ServerInv ==
  /\ DeletedStaysDeleted
  /\ \A id \in DOMAIN plans : "revision" \in DOMAIN plans[id] /\ plans[id].revision \in Nat
  /\ budget \in Nat

\* How a step may change the plans.
Onward ==
  /\ DOMAIN plans \union deleted \subseteq DOMAIN plans' \union deleted'
  /\ \A id \in DOMAIN plans' :
       \/ id \notin DOMAIN plans \union deleted
       \/ id \in DOMAIN plans /\ plans'[id] = plans[id]
       \/ id \in DOMAIN plans /\ plans'[id].revision = plans[id].revision + 1

LEMMA ServerInit == Init => ServerInv
<1> SUFFICES ASSUME Init PROVE ServerInv
  OBVIOUS
<1>1. budget \in Nat
  BY BoundAssumption DEF Init
<1>2. DeletedStaysDeleted
  BY DEF Init, DeletedStaysDeleted
<1>3. \A id \in DOMAIN plans : "revision" \in DOMAIN plans[id] /\ plans[id].revision \in Nat
  BY DEF Init, NewPlan
<1> QED BY <1>1, <1>2, <1>3 DEF ServerInv

\* A row replaced under its id by one with the next revision.
LEMMA ReplacedOnward ==
  ASSUME ServerInv, NEW id \in DOMAIN plans, NEW row,
         "revision" \in DOMAIN row, row.revision = plans[id].revision + 1,
         plans' = Changed(id, row), deleted' = deleted, budget' \in Nat
  PROVE  ServerInv' /\ Onward
<1>1. DOMAIN plans' = DOMAIN plans /\ plans'[id] = row
  BY DEF Changed
<1>2. \A other \in DOMAIN plans : other # id => plans'[other] = plans[other]
  BY DEF Changed
<1>3. plans[id].revision \in Nat
  BY DEF ServerInv
<1>4. row.revision \in Nat
  BY <1>3
<1>5. Onward
  BY <1>1, <1>2 DEF Onward
<1>6. \A other \in DOMAIN plans' :
        "revision" \in DOMAIN plans'[other] /\ plans'[other].revision \in Nat
  BY <1>1, <1>2, <1>4 DEF ServerInv
<1>7. DeletedStaysDeleted'
  BY <1>1 DEF ServerInv, DeletedStaysDeleted
<1> QED BY <1>5, <1>6, <1>7 DEF ServerInv

LEMMA CarryOutOnward ==
  ASSUME ServerInv, NEW o, Accepted(o), CarryOut(o), budget' \in Nat
  PROVE  ServerInv' /\ Onward
<1>1. CASE o.kind = "create"
  <2>1. deleted' = deleted
    BY <1>1 DEF CarryOut
  <2>2. CASE o.id \in DOMAIN plans
    <3>1. plans' = plans
      BY <1>1, <2>2 DEF CarryOut, StatusAfter
    <3> QED BY <2>1, <3>1 DEF ServerInv, Onward, DeletedStaysDeleted
  <2>3. CASE o.id \notin DOMAIN plans
    <3> DEFINE new == NewPlan(o.fields)
    <3>1. new.revision = 1 /\ "revision" \in DOMAIN new
      BY DEF NewPlan
    <3>2. plans' = [id \in DOMAIN plans \union {o.id} |-> IF id = o.id THEN new ELSE plans[id]]
      BY <1>1, <2>3 DEF CarryOut, StatusAfter
    <3>3. o.id \notin deleted
      BY <1>1, <2>3 DEF Accepted, CreateAccepted
    <3> HIDE DEF new
    <3>4. DeletedStaysDeleted'
      BY <2>1, <3>2, <3>3 DEF ServerInv, DeletedStaysDeleted
    <3>5. \A id \in DOMAIN plans' :
            "revision" \in DOMAIN plans'[id] /\ plans'[id].revision \in Nat
      BY <3>1, <3>2 DEF ServerInv
    <3>6. Onward
      BY <2>1, <2>3, <3>2, <3>3 DEF Onward
    <3> QED BY <3>4, <3>5, <3>6 DEF ServerInv
  <2> QED BY <2>2, <2>3
<1>2. CASE o.kind = "update"
  <2> DEFINE new == [NewPlan(o.fields) EXCEPT !.revision = plans[o.id].revision + 1]
  <2>1. o.id \in DOMAIN plans
    BY <1>2 DEF Accepted
  <2>2. plans' = Changed(o.id, new) /\ deleted' = deleted
    BY <1>2 DEF CarryOut, StatusAfter
  <2>3. "revision" \in DOMAIN new /\ new.revision = plans[o.id].revision + 1
    BY DEF NewPlan
  <2> HIDE DEF new
  <2> QED BY <2>1, <2>2, <2>3, ReplacedOnward
<1>3. CASE o.kind \in DOMAIN StatusAfter
  <2> DEFINE new == [plans[o.id] EXCEPT !.status = StatusAfter[o.kind], !.revision = @ + 1]
  <2>1. o.kind \in {"cancel", "not_worn", "restore"}
    BY <1>3 DEF StatusAfter
  <2>2. o.id \in DOMAIN plans
    BY <2>1 DEF Accepted
  <2>3. plans' = Changed(o.id, new) /\ deleted' = deleted
    BY <1>3, <2>1 DEF CarryOut
  <2>4. "revision" \in DOMAIN plans[o.id]
    BY <2>2 DEF ServerInv
  <2>5. "revision" \in DOMAIN new /\ new.revision = plans[o.id].revision + 1
    BY <2>4
  <2> HIDE DEF new
  <2> QED BY <2>2, <2>3, <2>5, ReplacedOnward
<1>4. CASE o.kind = "delete"
  <2>1. plans' = [id \in DOMAIN plans \ {o.id} |-> plans[id]]
    BY <1>4 DEF CarryOut, Restrict, StatusAfter
  <2>2. deleted' = deleted \union {o.id}
    BY <1>4 DEF CarryOut
  <2> QED BY <2>1, <2>2 DEF ServerInv, Onward, DeletedStaysDeleted
<1>5. CASE o.kind \notin {"create", "update", "delete"} \union DOMAIN StatusAfter
  <2>1. plans' = plans /\ deleted' = deleted
    BY <1>5 DEF CarryOut
  <2> QED BY <2>1 DEF ServerInv, Onward, DeletedStaysDeleted
<1> QED BY <1>1, <1>2, <1>3, <1>4, <1>5

LEMMA ElsewhereOnward ==
  ASSUME ServerInv, Elsewhere
  PROVE  ServerInv' /\ Onward
<1>1. budget' \in Nat
  BY DEF Elsewhere, Disturbed, ServerInv
<1>2. ASSUME NEW id \in DOMAIN plans, ChangePlanElsewhere(id) PROVE ServerInv' /\ Onward
  <2>1. PICK date : plans' = Changed(id, [plans[id] EXCEPT !.date = date, !.revision = @ + 1])
    BY <1>2 DEF ChangePlanElsewhere
  <2> DEFINE new == [plans[id] EXCEPT !.date = date, !.revision = @ + 1]
  <2>2. "revision" \in DOMAIN plans[id]
    BY DEF ServerInv
  <2>3. "revision" \in DOMAIN new /\ new.revision = plans[id].revision + 1
    BY <2>2
  <2>4. plans' = Changed(id, new) /\ deleted' = deleted
    BY <1>2, <2>1 DEF ChangePlanElsewhere
  <2> HIDE DEF new
  <2> QED BY <1>1, <2>3, <2>4, ReplacedOnward
<1>3. ASSUME NEW g, EditGarmentElsewhere(g) PROVE ServerInv' /\ Onward
  BY <1>1, <1>3 DEF EditGarmentElsewhere, ServerInv, Onward, DeletedStaysDeleted
<1>4. ASSUME NEW g, RedactSnapshots(g) PROVE ServerInv' /\ Onward
  <2> DEFINE Redacted(row) ==
        [row EXCEPT !.items = Without(@, g), !.confirmed = @ \ {g},
                    !.redacted = TRUE, !.revision = @ + 1]
  <2>1. plans' = [id \in DOMAIN plans |->
                    IF g \in DOMAIN plans[id].items THEN Redacted(plans[id]) ELSE plans[id]]
    BY <1>4 DEF RedactSnapshots
  <2>2. deleted' = deleted
    BY <1>4 DEF RedactSnapshots
  <2>3. \A row : "revision" \in DOMAIN row =>
          "revision" \in DOMAIN Redacted(row) /\ Redacted(row).revision = row.revision + 1
    OBVIOUS
  <2> HIDE DEF Redacted
  <2>4. \A id \in DOMAIN plans :
          /\ "revision" \in DOMAIN plans'[id]
          /\ plans'[id] = plans[id] \/ plans'[id].revision = plans[id].revision + 1
    BY <2>1, <2>3 DEF ServerInv
  <2>5. \A id \in DOMAIN plans : plans'[id].revision \in Nat
    BY <2>4 DEF ServerInv
  <2>6. DOMAIN plans' = DOMAIN plans
    BY <2>1
  <2>7. Onward
    BY <2>2, <2>4, <2>6 DEF Onward
  <2>8. DeletedStaysDeleted'
    BY <2>2, <2>6 DEF ServerInv, DeletedStaysDeleted
  <2> QED BY <1>1, <2>4, <2>5, <2>6, <2>7, <2>8 DEF ServerInv
<1>5. ASSUME NEW g, DeleteAffectedHistory(g) PROVE ServerInv' /\ Onward
  <2>1. PICK affected \in SUBSET DOMAIN plans :
          /\ plans' = [id \in DOMAIN plans \ affected |-> plans[id]]
          /\ deleted' = deleted \union affected
    BY <1>5 DEF DeleteAffectedHistory, Restrict
  <2> QED BY <1>1, <2>1 DEF ServerInv, Onward, DeletedStaysDeleted
<1> QED BY <1>2, <1>3, <1>4, <1>5 DEF Elsewhere, DeleteGarmentElsewhere

LEMMA UnchangedOnward ==
  ASSUME ServerInv, plans' = plans, deleted' = deleted, budget' \in Nat
  PROVE  ServerInv' /\ Onward
BY DEF ServerInv, Onward, DeletedStaysDeleted

\* A late plan is refused for its tombstone, whatever the order of arrivals.
LEMMA ServerStep == ServerInv /\ [Next]_vars => ServerInv' /\ Onward
<1> SUFFICES ASSUME ServerInv, [Next]_vars PROVE ServerInv' /\ Onward
  OBVIOUS
<1> USE DEF server, bounds
<1>0. budget \in Nat /\ (Disturbed => budget' \in Nat)
  BY DEF ServerInv, Disturbed
<1>1. CASE ChangeDate \/ LoadMoreItems \/ RefetchItems \/ CancelEdit \/ RetryList
  BY <1>0, <1>1, UnchangedOnward
     DEF ChangeDate, ChangeForm, LoadMoreItems, RefetchItems, CancelEdit, RetryList
<1>2. ASSUME NEW g, Confirm(g) \/ Choose(g) \/ Remove(g) \/ RemoveMissing(g)
      PROVE  ServerInv' /\ Onward
  BY <1>0, <1>2, UnchangedOnward DEF Confirm, Choose, Remove, RemoveMissing, ChangeForm
<1>3. ASSUME NEW id, SelectEdit(id) \/ RestorePlan(id) \/ \E action \in Dialogs : RunAction(id, action)
      PROVE  ServerInv' /\ Onward
  BY <1>0, <1>3, UnchangedOnward DEF SelectEdit, RestorePlan, RunAction
<1>4. CASE SaveUpdate \/ SaveCreate \/ ReloadEditing
  BY <1>0, <1>4, UnchangedOnward DEF SaveUpdate, SaveCreate, ReloadEditing
<1>5. CASE Handle
  <2>1. CASE Accepted(op)
    BY <1>0, <1>5, <2>1, CarryOutOnward DEF Handle
  <2>2. CASE ~Accepted(op)
    BY <1>0, <1>5, <2>2, UnchangedOnward DEF Handle
  <2> QED BY <2>1, <2>2
<1>6. CASE ReplyShown
  BY <1>0, <1>6, UnchangedOnward DEF ReplyShown
<1>7. CASE ReplyFails
  BY <1>0, <1>7, UnchangedOnward DEF ReplyFails
<1>8. ASSUME NEW o, Arrive(o) PROVE ServerInv' /\ Onward
  <2>1. CASE Accepted(o)
    BY <1>0, <1>8, <2>1, CarryOutOnward DEF Arrive
  <2>2. CASE ~Accepted(o)
    BY <1>0, <1>8, <2>2, UnchangedOnward DEF Arrive
  <2> QED BY <2>1, <2>2
<1>9. CASE Elsewhere
  BY <1>9, ElsewhereOnward
<1>10. CASE UNCHANGED vars
  BY <1>0, <1>10, UnchangedOnward DEF vars
<1> QED BY <1>1, <1>2, <1>3, <1>4, <1>5, <1>6, <1>7, <1>8, <1>9, <1>10 DEF Next

\* A plan that was deleted does not come back, for any number of retries of its
\* create and however late they arrive.
THEOREM DeletedStaysDeletedAlways == Spec => []DeletedStaysDeleted
<1>1. ServerInv => DeletedStaysDeleted
  BY DEF ServerInv
<1> QED BY <1>1, ServerInit, ServerStep, PTL DEF Spec

-----------------------------------------------------------------------------
(* The draft: every save of it is sent under the one id that is kept.       *)

OneID ==
  /\ nextID \in Nat
  /\ createID = None => tried = {}
  /\ createID # None => tried \subseteq {createID}

LEMMA OneIDStep == OneID /\ [Next]_vars => OneID'
<1> SUFFICES ASSUME OneID, [Next]_vars PROVE OneID'
  OBVIOUS
<1> USE DEF OneID, view
<1>1. CASE ChangeDate \/ LoadMoreItems \/ RefetchItems \/ CancelEdit \/ RetryList
  BY <1>1 DEF ChangeDate, ChangeForm, LoadMoreItems, RefetchItems, CancelEdit, CloseEditor, RetryList
<1>2. ASSUME NEW g, Confirm(g) \/ Choose(g) \/ Remove(g) \/ RemoveMissing(g)
      PROVE  OneID'
  BY <1>2 DEF Confirm, Choose, Remove, RemoveMissing, ChangeForm
<1>3. ASSUME NEW id, SelectEdit(id) \/ RestorePlan(id) \/ \E action \in Dialogs : RunAction(id, action)
      PROVE  OneID'
  BY <1>3 DEF SelectEdit, RestorePlan, RunAction
<1>4. CASE SaveUpdate \/ ReloadEditing
  BY <1>4 DEF SaveUpdate, ReloadEditing
<1>5. CASE SaveCreate
  <2>0. nextID' \in Nat
    BY <1>5 DEF SaveCreate
  <2>1. createID' = DraftID /\ tried' = tried \union {DraftID}
    BY <1>5 DEF SaveCreate
  <2>2. CASE createID = None
    <3>1. createID' = nextID /\ tried' = {nextID}
      BY <2>1, <2>2 DEF DraftID
    <3> QED BY <2>0, <3>1, NoneAssumption
  <2>3. CASE createID # None
    BY <2>0, <2>1, <2>3 DEF DraftID
  <2> QED BY <2>2, <2>3
<1>6. CASE Handle \/ ReplyFails \/ Elsewhere
  BY <1>6 DEF Handle, ReplyFails, Elsewhere
<1>7. CASE ReplyShown
  BY <1>7 DEF ReplyShown, CloseEditor
<1>8. ASSUME NEW o, Arrive(o) PROVE OneID'
  BY <1>8 DEF Arrive
<1>9. CASE UNCHANGED vars
  BY <1>9 DEF vars
<1> QED BY <1>1, <1>2, <1>3, <1>4, <1>5, <1>6, <1>7, <1>8, <1>9 DEF Next

\* However often a draft is saved again, and whenever each attempt arrives, it
\* is one plan at most.
THEOREM OnePlanPerDraftAlways == Spec => []OnePlanPerDraft
<1>1. Init => OneID
  BY DEF Init, OneID
<1>2. OneID => OnePlanPerDraft
  <2> SUFFICES ASSUME OneID PROVE OnePlanPerDraft
    OBVIOUS
  <2> DEFINE stored == tried \intersect (DOMAIN plans \union deleted)
  <2>1. stored \subseteq {createID}
    BY DEF OneID
  <2>2. IsFiniteSet({createID}) /\ Cardinality({createID}) = 1
    BY FS_Singleton
  <2>3. Cardinality(stored) <= 1
    BY <2>1, <2>2, FS_Subset
  <2> QED BY <2>3 DEF OnePlanPerDraft
<1> QED BY <1>1, <1>2, OneIDStep, PTL DEF Spec

-----------------------------------------------------------------------------
(* Rows: every row of a plan that the page holds, wherever it holds it, was  *)
(* that plan at its revision, and is that plan as long as the revision is.   *)

Known(rows, dead, id, row) ==
  /\ id \in DOMAIN rows \union dead
  /\ row.revision \in Nat
  /\ id \in DOMAIN rows => /\ row.revision <= rows[id].revision
                           /\ row.revision = rows[id].revision => row = rows[id]

KnownNow(id, row) == Known(plans, deleted, id, row)

\* What a request in flight stands on.
IsRequest(o) ==
  /\ o # None
  /\ {"kind", "id", "base", "fields", "fate", "reply"} \subseteq DOMAIN o
  /\ o.kind # "create" => KnownNow(o.id, o.base)
  /\ o.kind = "update" => o.fields.from = o.base

ListKnown    == \A id \in Listed : KnownNow(id, list[id])
EditingKnown ==
  /\ "from" \in DOMAIN form
  /\ editing # None => KnownNow(editing.id, editing.plan) /\ form.from = editing.plan
OpKnown ==
  op # None =>
    /\ IsRequest(op)
    /\ op.fate = "done" /\ op.kind \in {"update", "reload"} => KnownNow(op.id, op.reply)
LateKnown == \A o \in late : IsRequest(o)

PageInv == ListKnown /\ EditingKnown /\ OpKnown /\ LateKnown

\* A row the server has is known, and what is known stays known.
LEMMA StoredIsKnown ==
  ASSUME ServerInv
  PROVE  \A id \in DOMAIN plans : KnownNow(id, plans[id])
BY DEF ServerInv, KnownNow, Known

LEMMA KnownStays ==
  ASSUME ServerInv, ServerInv', Onward
  PROVE  \A id, row : Known(plans, deleted, id, row) => Known(plans', deleted', id, row)
<1> SUFFICES ASSUME NEW id, NEW row, Known(plans, deleted, id, row)
             PROVE  Known(plans', deleted', id, row)
  OBVIOUS
<1>1. id \in DOMAIN plans' \union deleted' /\ row.revision \in Nat
  BY DEF Known, Onward
<1>2. ASSUME id \in DOMAIN plans'
      PROVE  /\ row.revision <= plans'[id].revision
             /\ row.revision = plans'[id].revision => row = plans'[id]
  <2>1. id \in DOMAIN plans
    BY <1>2 DEF Onward, Known
  <2>2. plans[id].revision \in Nat /\ row.revision <= plans[id].revision
    BY <2>1 DEF ServerInv, Known
  <2>3. CASE plans'[id] = plans[id]
    BY <2>1, <2>3 DEF Known
  <2>4. CASE plans'[id].revision = plans[id].revision + 1
    BY <1>1, <2>2, <2>4
  <2> QED BY <1>2, <2>1, <2>3, <2>4 DEF Onward
<1> QED BY <1>1, <1>2 DEF Known

LEMMA RequestsStay ==
  ASSUME ServerInv, ServerInv', Onward
  PROVE  \A o : IsRequest(o) =>
           /\ o # None
           /\ {"kind", "id", "base", "fields", "fate", "reply"} \subseteq DOMAIN o
           /\ o.kind # "create" => Known(plans', deleted', o.id, o.base)
           /\ o.kind = "update" => o.fields.from = o.base
BY KnownStays DEF IsRequest, KnownNow

\* The parts of the page that a step leaves alone.
LEMMA ListStays ==
  ASSUME ServerInv, ServerInv', Onward, ListKnown, list' = list
  PROVE  ListKnown'
BY KnownStays DEF ListKnown, Listed, KnownNow

LEMMA ListRead ==
  ASSUME ServerInv', list' \in {plans', None}
  PROVE  ListKnown'
<1>1. \A id \in DOMAIN plans' : Known(plans', deleted', id, plans'[id])
  BY DEF ServerInv, Known
<1> QED BY <1>1 DEF ListKnown, Listed, KnownNow

LEMMA EditingStays ==
  ASSUME ServerInv, ServerInv', Onward, EditingKnown, editing' = editing,
         "from" \in DOMAIN form', form'.from = form.from
  PROVE  EditingKnown'
BY KnownStays DEF EditingKnown, KnownNow

LEMMA OpStays ==
  ASSUME ServerInv, ServerInv', Onward, OpKnown, op' = op
  PROVE  OpKnown'
BY KnownStays, RequestsStay DEF OpKnown, IsRequest, KnownNow

LEMMA LateStays ==
  ASSUME ServerInv, ServerInv', Onward, LateKnown, late' \subseteq late
  PROVE  LateKnown'
BY RequestsStay DEF LateKnown, IsRequest, KnownNow

\* A request that is sent stands on a row the page holds.
LEMMA OpSent ==
  ASSUME NEW kind, NEW id, NEW base, NEW fields, Ask(kind, id, base, fields),
         kind # "create" => Known(plans', deleted', id, base),
         kind = "update" => fields.from = base
  PROVE  OpKnown'
<1>1. op' = [kind |-> kind, id |-> id, base |-> base, fields |-> fields,
             fate |-> "sent", reply |-> None]
  BY DEF Ask
<1>2. /\ {"kind", "id", "base", "fields", "fate", "reply"} \subseteq DOMAIN op'
      /\ op'.kind = kind /\ op'.id = id /\ op'.base = base /\ op'.fields = fields
      /\ op'.fate = "sent"
  BY <1>1
<1> QED BY <1>2 DEF OpKnown, IsRequest, KnownNow

\* The server's answer: the row it has by now.
LEMMA OpHandled ==
  ASSUME ServerInv, ServerInv', Onward, OpKnown, Handle
  PROVE  OpKnown'
<1>0. /\ op # None /\ IsRequest(op) /\ op.fate = "sent"
      /\ op.kind # "create" => Known(plans', deleted', op.id, op.base)
  BY RequestsStay DEF Handle, pending, OpKnown
<1>1. CASE Accepted(op)
  <2> DEFINE answer == IF op.id \in DOMAIN plans' THEN plans'[op.id] ELSE None
  <2>1. op' = [op EXCEPT !.fate = "done", !.reply = answer]
    BY <1>1 DEF Handle
  <2>2. op.kind \in {"update", "reload"} => op.id \in DOMAIN plans'
    <3>1. op.kind = "update" => op.id \in DOMAIN plans /\ DOMAIN plans' = DOMAIN plans
      BY <1>1 DEF Accepted, Handle, CarryOut, Changed, StatusAfter
    <3>2. op.kind = "reload" => op.id \in DOMAIN plans /\ plans' = plans
      BY <1>1 DEF Accepted, Handle, CarryOut, StatusAfter
    <3> QED BY <3>1, <3>2
  <2>3. op.kind \in {"update", "reload"} => Known(plans', deleted', op.id, answer)
    BY <2>2 DEF ServerInv, Known
  <2> HIDE DEF answer
  <2>4. /\ DOMAIN op' = DOMAIN op
        /\ op'.kind = op.kind /\ op'.id = op.id /\ op'.base = op.base
        /\ op'.fields = op.fields /\ op'.reply = answer
    BY <1>0, <2>1 DEF IsRequest
  <2> QED BY <1>0, <2>3, <2>4 DEF OpKnown, IsRequest, KnownNow
<1>2. CASE ~Accepted(op)
  <2>1. op' = [op EXCEPT !.fate = "refused"]
    BY <1>2 DEF Handle
  <2>2. /\ DOMAIN op' = DOMAIN op
        /\ op'.kind = op.kind /\ op'.id = op.id /\ op'.base = op.base
        /\ op'.fields = op.fields /\ op'.fate = "refused"
    BY <1>0, <2>1 DEF IsRequest
  <2> QED BY <1>0, <2>2 DEF OpKnown, IsRequest, KnownNow
<1> QED BY <1>1, <1>2

LEMMA PageInit == Init => PageInv
<1> SUFFICES ASSUME Init PROVE PageInv
  OBVIOUS
<1>1. ServerInv
  BY ServerInit
<1>2. ListKnown
  BY <1>1, StoredIsKnown DEF Init, ListKnown, Listed
<1>3. EditingKnown
  BY DEF Init, EditingKnown, EmptyForm
<1>4. OpKnown /\ LateKnown
  BY DEF Init, OpKnown, LateKnown
<1> QED BY <1>2, <1>3, <1>4 DEF PageInv

LEMMA FormChanged ==
  ASSUME EditingKnown, NEW new, ChangeForm(new), DOMAIN new = DOMAIN form, new.from = form.from
  PROVE  "from" \in DOMAIN form' /\ form'.from = form.from
BY DEF EditingKnown, ChangeForm

LEMMA PageAfterChange ==
  ASSUME ServerInv, ServerInv', Onward, PageInv,
         \/ ChangeDate \/ LoadMoreItems \/ RefetchItems
         \/ \E g \in Garments : Confirm(g) \/ Choose(g) \/ Remove(g) \/ RemoveMissing(g)
  PROVE  PageInv'
<1>1. list' = list /\ editing' = editing /\ op' = op /\ late' = late
  BY DEF ChangeDate, LoadMoreItems, RefetchItems, Confirm, Choose, Remove, RemoveMissing, ChangeForm
<1>2. "from" \in DOMAIN form
  BY DEF PageInv, EditingKnown
<1>3. "from" \in DOMAIN form' /\ form'.from = form.from
  <2>1. CASE ChangeDate
    BY <1>2, <2>1 DEF ChangeDate, ChangeForm
  <2>2. CASE LoadMoreItems \/ RefetchItems
    BY <1>2, <2>2 DEF LoadMoreItems, RefetchItems
  <2>3. ASSUME NEW g \in Garments, Confirm(g) PROVE "from" \in DOMAIN form' /\ form'.from = form.from
    BY <1>2, <2>3 DEF Confirm, ChangeForm
  <2>4. ASSUME NEW g \in Garments, Choose(g) PROVE "from" \in DOMAIN form' /\ form'.from = form.from
    BY <1>2, <2>4 DEF Choose, ChangeForm
  <2>5. ASSUME NEW g \in Garments, Remove(g) \/ RemoveMissing(g)
        PROVE  "from" \in DOMAIN form' /\ form'.from = form.from
    BY <1>2, <2>5 DEF Remove, RemoveMissing, ChangeForm
  <2> QED BY <2>1, <2>2, <2>3, <2>4, <2>5
<1> QED BY <1>1, <1>3, ListStays, EditingStays, OpStays, LateStays DEF PageInv

\* Beginning an edit, or ending it.
LEMMA EditingClosed ==
  ASSUME CloseEditor
  PROVE  EditingKnown'
BY DEF CloseEditor, EditingKnown, EmptyForm

LEMMA EditingBegun ==
  ASSUME NEW id, NEW row, Known(plans', deleted', id, row),
         editing' = [id |-> id, plan |-> row], form' = FormOf(row)
  PROVE  EditingKnown'
BY DEF EditingKnown, FormOf, KnownNow

LEMMA PageAfterChoice ==
  ASSUME ServerInv, ServerInv', Onward, PageInv,
         CancelEdit \/ RetryList \/ \E id \in Listed : SelectEdit(id)
  PROVE  PageInv'
<1>1. op' = op /\ late' = late
  BY DEF CancelEdit, RetryList, SelectEdit
<1>2. CASE CancelEdit
  <2>1. list' = list /\ EditingKnown'
    BY <1>2, EditingClosed DEF CancelEdit
  <2> QED BY <1>1, <2>1, ListStays, OpStays, LateStays DEF PageInv
<1>3. CASE RetryList
  <2>1. list' = plans' /\ editing' = editing /\ form' = form
    BY <1>3 DEF RetryList, server
  <2>2. "from" \in DOMAIN form'
    BY <2>1 DEF PageInv, EditingKnown
  <2> QED BY <1>1, <2>1, <2>2, ListRead, EditingStays, OpStays, LateStays DEF PageInv
<1>4. ASSUME NEW id \in Listed, SelectEdit(id) PROVE PageInv'
  <2>1. list' = list /\ editing' = [id |-> id, plan |-> list[id]] /\ form' = FormOf(list[id])
    BY <1>4 DEF SelectEdit, Row
  <2>2. Known(plans', deleted', id, list[id])
    BY KnownStays DEF PageInv, ListKnown, KnownNow
  <2>3. EditingKnown'
    BY <2>1, <2>2, EditingBegun
  <2> QED BY <1>1, <2>1, <2>3, ListStays, OpStays, LateStays DEF PageInv
<1> QED BY <1>2, <1>3, <1>4

LEMMA PageAfterAsking ==
  ASSUME ServerInv, ServerInv', Onward, PageInv,
         \/ SaveUpdate \/ SaveCreate \/ ReloadEditing
         \/ \E id \in Listed : RestorePlan(id) \/ \E action \in Dialogs : RunAction(id, action)
  PROVE  PageInv'
<1>1. list' = list /\ editing' = editing /\ form' = form /\ late' = late
  BY DEF SaveUpdate, SaveCreate, ReloadEditing, RestorePlan, RunAction, view
<1>2. "from" \in DOMAIN form'
  BY <1>1 DEF PageInv, EditingKnown
<1>3. OpKnown'
  <2>1. editing # None => Known(plans', deleted', editing.id, editing.plan) /\ form.from = editing.plan
    BY KnownStays DEF PageInv, EditingKnown, KnownNow
  <2>2. CASE SaveUpdate
    <3>1. editing # None /\ Ask("update", editing.id, editing.plan, Fields(form))
      BY <2>2 DEF SaveUpdate
    <3>2. Fields(form).from = form.from
      BY DEF Fields
    <3> QED BY <2>1, <3>1, <3>2, OpSent
  <2>3. CASE SaveCreate
    <3>1. Ask("create", DraftID, None, Fields(form))
      BY <2>3 DEF SaveCreate
    <3> QED BY <3>1, OpSent
  <2>4. CASE ReloadEditing
    <3>1. editing # None /\ Ask("reload", editing.id, editing.plan, None)
      BY <2>4 DEF ReloadEditing
    <3> QED BY <2>1, <3>1, OpSent
  <2>5. ASSUME NEW id \in Listed, RestorePlan(id) \/ \E action \in Dialogs : RunAction(id, action)
        PROVE  OpKnown'
    <3>1. Known(plans', deleted', id, list[id])
      BY KnownStays DEF PageInv, ListKnown, KnownNow
    <3>2. PICK kind \in Dialogs \union {"restore"} : Ask(kind, id, list[id], None)
      BY <2>5 DEF RestorePlan, RunAction
    <3>3. kind # "update"
      BY DEF Dialogs
    <3> QED BY <3>1, <3>2, <3>3, OpSent
  <2> QED BY <2>2, <2>3, <2>4, <2>5
<1> QED BY <1>1, <1>2, <1>3, ListStays, EditingStays, LateStays DEF PageInv

LEMMA PageAfterReply ==
  ASSUME ServerInv, ServerInv', Onward, PageInv, ReplyShown \/ ReplyFails
  PROVE  PageInv'
<1>1. op # None /\ IsRequest(op) /\ op' = None
  BY DEF ReplyShown, ReplyFails, Release, pending, PageInv, OpKnown
<1>2. OpKnown'
  BY <1>1 DEF OpKnown
<1>3. plans' = plans /\ deleted' = deleted
  BY DEF ReplyShown, ReplyFails, server
<1>4. ListKnown'
  <2>1. list' = list \/ list' \in {plans', None}
    BY <1>3 DEF ReplyShown, ReplyFails, Refreshed
  <2> QED BY <2>1, ListStays, ListRead DEF PageInv
<1>5. LateKnown'
  <2>1. late' \subseteq late \union {op}
    BY DEF ReplyShown, ReplyFails
  <2>2. \A o \in late' : IsRequest(o)
    BY <1>1, <2>1 DEF PageInv, LateKnown
  <2> QED BY <2>2, RequestsStay DEF LateKnown, IsRequest, KnownNow
<1>6. EditingKnown'
  <2>1. CASE editing' = editing /\ form' = form
    <3>1. "from" \in DOMAIN form'
      BY <2>1 DEF PageInv, EditingKnown
    <3> QED BY <2>1, <3>1, EditingStays DEF PageInv
  <2>2. CASE CloseEditor
    BY <2>2, EditingClosed
  <2>3. CASE ReplyShown /\ op.kind \in {"update", "reload"}
    <3>1. editing' = [id |-> op.id, plan |-> op.reply] /\ form' = FormOf(op.reply)
      BY <2>3 DEF ReplyShown, Closes, Dialogs
    <3>2. op.fate = "done"
      BY <2>3 DEF ReplyShown
    <3>3. KnownNow(op.id, op.reply)
      BY <1>1, <2>3, <3>2 DEF PageInv, OpKnown
    <3>4. Known(plans', deleted', op.id, op.reply)
      BY <3>3, KnownStays DEF KnownNow
    <3> QED BY <3>1, <3>4, EditingBegun
  <2> QED BY <2>1, <2>2, <2>3 DEF ReplyShown, ReplyFails
<1> QED BY <1>2, <1>4, <1>5, <1>6 DEF PageInv

LEMMA PageUnchanged ==
  ASSUME ServerInv, ServerInv', Onward, PageInv,
         list' = list, editing' = editing, form' = form
  PROVE  ListKnown' /\ EditingKnown'
<1>1. "from" \in DOMAIN form'
  BY DEF PageInv, EditingKnown
<1> QED BY <1>1, ListStays, EditingStays DEF PageInv

Inv == ServerInv /\ PageInv

LEMMA InvStep == Inv /\ [Next]_vars => Inv'
<1> SUFFICES ASSUME ServerInv, PageInv, [Next]_vars PROVE Inv'
  BY DEF Inv
<1>0. ServerInv' /\ Onward
  BY ServerStep
<1> SUFFICES PageInv'
  BY <1>0 DEF Inv
<1>1. CASE \/ ChangeDate \/ LoadMoreItems \/ RefetchItems
           \/ \E g \in Garments : Confirm(g) \/ Choose(g) \/ Remove(g) \/ RemoveMissing(g)
  BY <1>0, <1>1, PageAfterChange
<1>2. CASE CancelEdit \/ RetryList \/ \E id \in Listed : SelectEdit(id)
  BY <1>0, <1>2, PageAfterChoice
<1>3. CASE \/ SaveUpdate \/ SaveCreate \/ ReloadEditing
           \/ \E id \in Listed : RestorePlan(id) \/ \E action \in Dialogs : RunAction(id, action)
  BY <1>0, <1>3, PageAfterAsking
<1>4. CASE Handle
  <2>1. list' = list /\ editing' = editing /\ form' = form /\ late' = late
    BY <1>4 DEF Handle, view
  <2>2. OpKnown'
    BY <1>0, <1>4, OpHandled DEF PageInv
  <2> QED BY <1>0, <2>1, <2>2, PageUnchanged, LateStays DEF PageInv
<1>5. CASE ReplyShown \/ ReplyFails
  BY <1>0, <1>5, PageAfterReply
<1>6. CASE Elsewhere \/ (\E o \in late : Arrive(o)) \/ UNCHANGED vars
  <2>1. list' = list /\ editing' = editing /\ form' = form /\ op' = op /\ late' \subseteq late
    BY <1>6 DEF Elsewhere, Arrive, vars, view
  <2> QED BY <1>0, <2>1, PageUnchanged, OpStays, LateStays DEF PageInv
<1> QED BY <1>1, <1>2, <1>3, <1>4, <1>5, <1>6 DEF Next

-----------------------------------------------------------------------------
(* No change is overwritten unseen.                                         *)

\* What a request does, it does to the row it stands on.
LEMMA CarryOutIsSeen ==
  ASSUME ServerInv, NEW o, IsRequest(o), Accepted(o), CarryOut(o),
         NEW id \in DOMAIN plans, ~(id \in DOMAIN plans' /\ plans'[id] = plans[id])
  PROVE  o.id = id /\ o.base = plans[id] /\ (o.kind = "update" => o.fields.from = plans[id])
<1>1. o.kind \in {"update", "delete", "cancel", "not_worn", "restore"}
  <2>1. o.kind # "create"
    BY DEF CarryOut, StatusAfter
  <2>2. o.kind # "reload"
    BY DEF CarryOut, StatusAfter
  <2> QED BY <2>1, <2>2 DEF Accepted
<1>2. o.id = id
  <2>1. CASE o.kind = "delete"
    BY <2>1 DEF CarryOut, StatusAfter, Restrict
  <2>2. CASE o.kind = "update"
    BY <2>2 DEF CarryOut, StatusAfter, Changed
  <2>3. CASE o.kind \in {"cancel", "not_worn", "restore"}
    BY <2>3 DEF CarryOut, StatusAfter, Changed
  <2> QED BY <1>1, <2>1, <2>2, <2>3
<1>3. plans[id].revision = o.base.revision
  BY <1>1, <1>2 DEF Accepted, RevisionMatches
<1>4. Known(plans, deleted, id, o.base)
  BY <1>1, <1>2 DEF IsRequest, KnownNow
<1>5. o.base = plans[id]
  BY <1>3, <1>4 DEF Known
<1> QED BY <1>2, <1>5 DEF IsRequest

LEMMA StepIsSeen == Inv /\ [Next]_vars => [EveryChangeIsSeen]_vars
<1> SUFFICES ASSUME ServerInv, PageInv, Next PROVE EveryChangeIsSeen
  BY DEF Inv
<1>1. CASE plans' = plans
  BY <1>1 DEF EveryChangeIsSeen
<1>2. CASE Elsewhere
  <2>1. budget' # budget /\ op' = op
    BY <1>2 DEF Elsewhere, Disturbed, ServerInv
  <2> QED BY <2>1 DEF EveryChangeIsSeen
<1>3. CASE Handle /\ Accepted(op)
  <2>1. op # None /\ IsRequest(op) /\ CarryOut(op)
    BY <1>3 DEF Handle, pending, PageInv, OpKnown
  <2>2. \A id \in DOMAIN plans :
          \/ id \in DOMAIN plans' /\ plans'[id] = plans[id]
          \/ op.id = id /\ op.base = plans[id] /\ (op.kind = "update" => op.fields.from = plans[id])
    BY <1>3, <2>1, CarryOutIsSeen
  <2> QED BY <2>1, <2>2 DEF EveryChangeIsSeen
<1>4. ASSUME NEW o \in late, Arrive(o), Accepted(o) PROVE EveryChangeIsSeen
  <2>1. o # None /\ IsRequest(o) /\ CarryOut(o)
    BY <1>4 DEF Arrive, PageInv, LateKnown, IsRequest
  <2>2. \A id \in DOMAIN plans :
          \/ id \in DOMAIN plans' /\ plans'[id] = plans[id]
          \/ o.id = id /\ o.base = plans[id] /\ (o.kind = "update" => o.fields.from = plans[id])
    BY <1>4, <2>1, CarryOutIsSeen
  <2> QED BY <2>1, <2>2 DEF EveryChangeIsSeen
<1>5. ASSUME plans' # plans
      PROVE  Elsewhere \/ (Handle /\ Accepted(op)) \/ \E o \in late : Arrive(o) /\ Accepted(o)
  <2> USE DEF server
  <2>1. ~(ChangeDate \/ LoadMoreItems \/ RefetchItems \/ CancelEdit \/ RetryList)
    BY <1>5 DEF ChangeDate, ChangeForm, LoadMoreItems, RefetchItems, CancelEdit, RetryList
  <2>2. ~\E g \in Garments : Confirm(g) \/ Choose(g) \/ Remove(g) \/ RemoveMissing(g)
    BY <1>5 DEF Confirm, Choose, Remove, RemoveMissing, ChangeForm
  <2>3. ~\E id \in Listed : SelectEdit(id) \/ RestorePlan(id) \/ \E action \in Dialogs : RunAction(id, action)
    BY <1>5 DEF SelectEdit, RestorePlan, RunAction
  <2>4. ~(SaveUpdate \/ SaveCreate \/ ReloadEditing \/ ReplyShown \/ ReplyFails)
    BY <1>5 DEF SaveUpdate, SaveCreate, ReloadEditing, ReplyShown, ReplyFails
  <2>5. Handle => Accepted(op)
    BY <1>5 DEF Handle
  <2>6. \A o \in late : Arrive(o) => Accepted(o)
    BY <1>5 DEF Arrive
  <2> QED BY <2>1, <2>2, <2>3, <2>4, <2>5, <2>6 DEF Next
<1> QED BY <1>1, <1>2, <1>3, <1>4, <1>5

\* A change made elsewhere is never overwritten unseen, however many plans,
\* devices, lost replies and late requests there are: the revision a request
\* carries names the very row the owner had before their eyes.
THEOREM NothingIsOverwrittenUnseenAlways == Spec => NothingIsOverwrittenUnseen
<1>1. Init => Inv
  BY ServerInit, PageInit DEF Inv
<1> QED BY <1>1, InvStep, StepIsSeen, PTL DEF Spec, NothingIsOverwrittenUnseen

-----------------------------------------------------------------------------
(* Types: what every other argument about the form and the rows rests on.   *)

LEMMA PlanFields ==
  ASSUME NEW date \in Dates, NEW items, IsItems(items), NEW confirmed \in SUBSET Garments,
         NEW redacted \in BOOLEAN, NEW status \in {"active", "cancelled", "not_worn"},
         NEW revision \in Nat \ {0}, NEW plan,
         plan = [date |-> date, items |-> items, confirmed |-> confirmed,
                 redacted |-> redacted, status |-> status, revision |-> revision]
  PROVE  IsPlan(plan)
<1>1. plan.items = items
  OBVIOUS
<1>2. plan \in PlansOf({items})
  BY DEF PlansOf
<1> QED BY <1>1, <1>2 DEF IsPlan

\* A plan is the record of its fields.
LEMMA PlanIsItsFields ==
  ASSUME NEW plan, IsPlan(plan)
  PROVE  /\ plan.date \in Dates /\ IsItems(plan.items) /\ plan.confirmed \in SUBSET Garments
         /\ plan.redacted \in BOOLEAN /\ plan.status \in {"active", "cancelled", "not_worn"}
         /\ plan.revision \in Nat \ {0}
         /\ DOMAIN plan = {"date", "items", "confirmed", "redacted", "status", "revision"}
         /\ plan = [date |-> plan.date, items |-> plan.items, confirmed |-> plan.confirmed,
                    redacted |-> plan.redacted, status |-> plan.status,
                    revision |-> plan.revision]
BY DEF IsPlan, PlansOf

LEMMA FormFields ==
  ASSUME NEW date \in Dates, NEW items, IsItems(items), NEW confirmed \in SUBSET Garments,
         NEW from, NEW away \in SUBSET Garments, NEW f,
         f = [date |-> date, items |-> items, confirmed |-> confirmed, from |-> from,
              away |-> away]
  PROVE  IsForm(f)
<1>1. f.items = items /\ f.from = from
  OBVIOUS
<1>2. f \in [date : Dates, items : {items}, confirmed : SUBSET Garments, from : {from},
            away : SUBSET Garments]
  OBVIOUS
<1> QED BY <1>1, <1>2 DEF IsForm

LEMMA FormIsItsFields ==
  ASSUME NEW f, IsForm(f)
  PROVE  /\ f.date \in Dates /\ IsItems(f.items) /\ f.confirmed \in SUBSET Garments
         /\ f.away \in SUBSET Garments
         /\ DOMAIN f = {"date", "items", "confirmed", "from", "away"}
         /\ f = [date |-> f.date, items |-> f.items, confirmed |-> f.confirmed,
                 from |-> f.from, away |-> f.away]
BY DEF IsForm

LEMMA NoItems == IsItems(<<>>) /\ DOMAIN <<>> = {}
BY DEF IsItems

LEMMA ItemsRestricted ==
  ASSUME NEW items, IsItems(items), NEW S, S \subseteq DOMAIN items
  PROVE  IsItems(Restrict(items, S))
BY DEF IsItems, Restrict

LEMMA EmptyFormIsForm == IsForm(EmptyForm)
<1>1. IsItems(<<>>)
  BY NoItems
<1>2. Today \in Dates
  BY DateAssumption
<1> DEFINE items == <<>>
<1>3. EmptyForm = [date |-> Today, items |-> items, confirmed |-> {}, from |-> None,
                   away |-> {}]
  BY DEF EmptyForm
<1> HIDE DEF items
<1> QED BY <1>1, <1>2, <1>3, FormFields DEF items

LEMMA FormOfPlanIsForm ==
  ASSUME NEW plan, IsPlan(plan)
  PROVE  IsForm(FormOf(plan))
BY PlanIsItsFields, FormFields DEF FormOf

LEMMA NewPlanIsPlan ==
  ASSUME NEW f, f.date \in Dates, IsItems(f.items), f.confirmed \in SUBSET Garments
  PROVE  IsPlan(NewPlan(f))
<1>1. NewPlan(f) = [date |-> f.date, items |-> f.items, confirmed |-> f.confirmed,
                    redacted |-> FALSE, status |-> "active", revision |-> 1]
  BY DEF NewPlan
<1>2. FALSE \in BOOLEAN /\ "active" \in {"active", "cancelled", "not_worn"} /\ 1 \in Nat \ {0}
  OBVIOUS
<1> HIDE DEF NewPlan
<1> QED BY <1>1, <1>2, PlanFields

LEMMA FieldsIsForm ==
  ASSUME IsForm(form)
  PROVE  IsForm(Fields(form))
<1> DEFINE left == {g \in form.confirmed : g \in DOMAIN shown => ~Wearable(shown[g])}
<1>1. /\ left \in SUBSET Garments /\ form.date \in Dates /\ IsItems(form.items)
      /\ form.away \in SUBSET Garments
  BY FormIsItsFields
<1>2. Fields(form) = [date |-> form.date, items |-> form.items, confirmed |-> left,
                      from |-> form.from, away |-> form.away]
  BY DEF Fields
<1> HIDE DEF left
<1> QED BY <1>1, <1>2, FormFields

-----------------------------------------------------------------------------
(* The server's rows *)

LEMMA PlansChanged ==
  ASSUME IsPlans(plans), NEW id \in DOMAIN plans, NEW row, IsPlan(row),
         plans' = Changed(id, row)
  PROVE  IsPlans(plans')
<1>1. DOMAIN plans' = DOMAIN plans /\ \A other \in DOMAIN plans :
        plans'[other] = row \/ plans'[other] = plans[other]
  BY DEF Changed
<1> QED BY <1>1 DEF IsPlans

LEMMA NextRevision == \A n \in Nat \ {0} : n + 1 \in Nat \ {0}
OBVIOUS

LEMMA PlanRevised ==
  ASSUME NEW plan, IsPlan(plan), NEW new,
         \/ \E date \in Dates : new = [plan EXCEPT !.date = date, !.revision = @ + 1]
         \/ \E status \in {"active", "cancelled", "not_worn"} :
              new = [plan EXCEPT !.status = status, !.revision = @ + 1]
         \/ \E g : new = [plan EXCEPT !.items = Without(@, g),
                                      !.confirmed = @ \ {g},
                                      !.redacted = TRUE, !.revision = @ + 1]
  PROVE  IsPlan(new)
<1>0. /\ plan.date \in Dates /\ IsItems(plan.items) /\ plan.confirmed \in SUBSET Garments
      /\ plan.redacted \in BOOLEAN /\ plan.status \in {"active", "cancelled", "not_worn"}
      /\ plan.revision \in Nat \ {0}
  BY PlanIsItsFields
<1>a. plan.revision + 1 \in Nat \ {0}
  BY <1>0, NextRevision
<1>1. DOMAIN plan = {"date", "items", "confirmed", "redacted", "status", "revision"}
  BY PlanIsItsFields
<1>2. ASSUME NEW date \in Dates, new = [plan EXCEPT !.date = date, !.revision = @ + 1]
      PROVE  IsPlan(new)
  <2>1. new = [date |-> date, items |-> plan.items, confirmed |-> plan.confirmed,
               redacted |-> plan.redacted, status |-> plan.status,
               revision |-> plan.revision + 1]
    BY <1>1, <1>2
  <2> QED BY <1>0, <1>a, <2>1, PlanFields
<1>3. ASSUME NEW status \in {"active", "cancelled", "not_worn"},
             new = [plan EXCEPT !.status = status, !.revision = @ + 1]
      PROVE  IsPlan(new)
  <2>1. new = [date |-> plan.date, items |-> plan.items, confirmed |-> plan.confirmed,
               redacted |-> plan.redacted, status |-> status,
               revision |-> plan.revision + 1]
    BY <1>1, <1>3
  <2> QED BY <1>0, <1>a, <2>1, PlanFields
<1>4. ASSUME NEW g, new = [plan EXCEPT !.items = Without(@, g),
                                       !.confirmed = @ \ {g},
                                       !.redacted = TRUE, !.revision = @ + 1]
      PROVE  IsPlan(new)
  <2> DEFINE items == Without(plan.items, g)
             confirmed == plan.confirmed \ {g}
  <2>1. new = [date |-> plan.date, items |-> items, confirmed |-> confirmed,
               redacted |-> TRUE, status |-> plan.status,
               revision |-> plan.revision + 1]
    BY <1>1, <1>4
  <2>2. IsItems(items)
    BY <1>0, ItemsRestricted DEF Without
  <2>3. confirmed \in SUBSET Garments /\ TRUE \in BOOLEAN
    BY <1>0
  <2> HIDE DEF items, confirmed
  <2> QED BY <1>0, <1>a, <2>1, <2>2, <2>3, PlanFields
<1> QED BY <1>2, <1>3, <1>4

\* A request carries what its kind needs.
LEMMA CarryOutTyped ==
  ASSUME IsPlans(plans), NEW o, IsTyped(o), Accepted(o), CarryOut(o)
  PROVE  IsPlans(plans') /\ wardrobe' = wardrobe
<1>0. wardrobe' = wardrobe
  BY DEF CarryOut
<1> SUFFICES IsPlans(plans')
  BY <1>0
<1>1. CASE o.kind = "create"
  <2>1. CASE o.id \in DOMAIN plans
    BY <1>1, <2>1 DEF CarryOut, StatusAfter
  <2>2. CASE o.id \notin DOMAIN plans
    <3>1. plans' = [id \in DOMAIN plans \union {o.id} |->
                      IF id = o.id THEN NewPlan(o.fields) ELSE plans[id]]
      BY <1>1, <2>2 DEF CarryOut, StatusAfter
    <3>2. o.id \in Nat /\ IsForm(o.fields)
      BY <1>1 DEF IsTyped
    <3>3. IsPlan(NewPlan(o.fields))
      BY <3>2, FormIsItsFields, NewPlanIsPlan
    <3> QED BY <3>1, <3>2, <3>3 DEF IsPlans
  <2> QED BY <2>1, <2>2
<1>2. CASE o.kind = "update"
  <2> DEFINE new == [NewPlan(o.fields) EXCEPT !.revision = plans[o.id].revision + 1]
  <2>1. o.id \in DOMAIN plans
    BY <1>2 DEF Accepted
  <2>2. plans' = Changed(o.id, new)
    BY <1>2 DEF CarryOut, StatusAfter
  <2>3. IsForm(o.fields) /\ plans[o.id].revision + 1 \in Nat \ {0}
    BY <1>2, <2>1, PlanIsItsFields DEF IsTyped, IsPlans
  <2>4. /\ o.fields.date \in Dates /\ IsItems(o.fields.items)
        /\ o.fields.confirmed \in SUBSET Garments
    BY <2>3, FormIsItsFields
  <2>5. new = [date |-> o.fields.date, items |-> o.fields.items,
               confirmed |-> o.fields.confirmed, redacted |-> FALSE, status |-> "active",
               revision |-> plans[o.id].revision + 1]
    <3> DEFINE next == plans[o.id].revision + 1
    <3>1. new = [NewPlan(o.fields) EXCEPT !.revision = next]
      OBVIOUS
    <3> HIDE DEF new, next
    <3>2. new = [date |-> o.fields.date, items |-> o.fields.items,
                 confirmed |-> o.fields.confirmed, redacted |-> FALSE, status |-> "active",
                 revision |-> next]
      BY <3>1 DEF NewPlan
    <3> QED BY <3>2 DEF next
  <2>6. FALSE \in BOOLEAN /\ "active" \in {"active", "cancelled", "not_worn"}
    OBVIOUS
  <2> HIDE DEF new
  <2>7. IsPlan(new)
    BY <2>3, <2>4, <2>5, <2>6, PlanFields
  <2> QED BY <2>1, <2>2, <2>7, PlansChanged
<1>3. CASE o.kind \in DOMAIN StatusAfter
  <2> DEFINE new == [plans[o.id] EXCEPT !.status = StatusAfter[o.kind], !.revision = @ + 1]
  <2>1. o.kind \in {"cancel", "not_worn", "restore"}
    BY <1>3 DEF StatusAfter
  <2>2. o.id \in DOMAIN plans
    BY <2>1 DEF Accepted
  <2>3. plans' = Changed(o.id, new)
    BY <1>3, <2>1 DEF CarryOut
  <2>4. StatusAfter[o.kind] \in {"active", "cancelled", "not_worn"}
    BY <2>1 DEF StatusAfter
  <2>5. IsPlan(plans[o.id])
    BY <2>2 DEF IsPlans
  <2>6. IsPlan(new)
    BY <2>4, <2>5, PlanRevised
  <2> HIDE DEF new
  <2> QED BY <2>2, <2>3, <2>6, PlansChanged
<1>4. CASE o.kind = "delete"
  BY <1>4 DEF CarryOut, Restrict, StatusAfter, IsPlans
<1>5. CASE o.kind \notin {"create", "update", "delete"} \union DOMAIN StatusAfter
  BY <1>5 DEF CarryOut
<1> QED BY <1>1, <1>2, <1>3, <1>4, <1>5

LEMMA ElsewhereTyped ==
  ASSUME IsPlans(plans), IsGarments(wardrobe), Elsewhere
  PROVE  IsPlans(plans') /\ IsGarments(wardrobe') /\ DOMAIN wardrobe' \subseteq DOMAIN wardrobe
<1>1. ASSUME NEW id \in DOMAIN plans, ChangePlanElsewhere(id)
      PROVE  IsPlans(plans') /\ wardrobe' = wardrobe
  <2>1. PICK date \in Dates :
          plans' = Changed(id, [plans[id] EXCEPT !.date = date, !.revision = @ + 1])
    BY <1>1 DEF ChangePlanElsewhere
  <2> DEFINE new == [plans[id] EXCEPT !.date = date, !.revision = @ + 1]
  <2>2. IsPlan(plans[id])
    BY DEF IsPlans
  <2>3. IsPlan(new)
    BY <2>2, PlanRevised
  <2>4. plans' = Changed(id, new) /\ wardrobe' = wardrobe
    BY <1>1, <2>1 DEF ChangePlanElsewhere
  <2> HIDE DEF new
  <2> QED BY <2>3, <2>4, PlansChanged
<1>2. ASSUME NEW g \in DOMAIN wardrobe, EditGarmentElsewhere(g)
      PROVE  /\ plans' = plans /\ IsGarments(wardrobe')
             /\ DOMAIN wardrobe' \subseteq DOMAIN wardrobe
  <2>1. PICK availability \in {"wearable", "laundry", "archived"} :
          wardrobe' = [wardrobe EXCEPT ![g] =
                        [revision |-> @.revision + 1, availability |-> availability]]
    BY <1>2 DEF EditGarmentElsewhere
  <2> DEFINE row == [revision |-> wardrobe[g].revision + 1, availability |-> availability]
  <2>2. wardrobe[g].revision \in Nat
    BY DEF IsGarments
  <2>3. row \in [revision : Nat, availability : {"wearable", "laundry", "archived"}]
    BY <2>2
  <2>4. wardrobe' = [wardrobe EXCEPT ![g] = row]
    BY <2>1
  <2> HIDE DEF row
  <2> QED BY <1>2, <2>3, <2>4 DEF EditGarmentElsewhere, IsGarments
<1>3. ASSUME NEW g \in DOMAIN wardrobe, RedactSnapshots(g) PROVE IsPlans(plans')
  <2> DEFINE Redacted(row) ==
        [row EXCEPT !.items = Without(@, g), !.confirmed = @ \ {g},
                    !.redacted = TRUE, !.revision = @ + 1]
  <2>1. plans' = [id \in DOMAIN plans |->
                    IF g \in DOMAIN plans[id].items THEN Redacted(plans[id]) ELSE plans[id]]
    BY <1>3 DEF RedactSnapshots
  <2>2. \A row : IsPlan(row) => IsPlan(Redacted(row))
    BY PlanRevised
  <2> HIDE DEF Redacted
  <2> QED BY <2>1, <2>2 DEF IsPlans
<1>4. ASSUME NEW g \in DOMAIN wardrobe, DeleteAffectedHistory(g) PROVE IsPlans(plans')
  BY <1>4 DEF DeleteAffectedHistory, Restrict, IsPlans
<1>5. ASSUME NEW g \in DOMAIN wardrobe, DeleteGarmentElsewhere(g)
      PROVE  /\ IsPlans(plans') /\ IsGarments(wardrobe')
             /\ DOMAIN wardrobe' \subseteq DOMAIN wardrobe
  <2>1. IsPlans(plans')
    BY <1>3, <1>4, <1>5 DEF DeleteGarmentElsewhere
  <2>2. IsGarments(wardrobe') /\ DOMAIN wardrobe' \subseteq DOMAIN wardrobe
    BY <1>5 DEF DeleteGarmentElsewhere, IsGarments, Without, Restrict
  <2> QED BY <2>1, <2>2
<1> QED BY <1>1, <1>2, <1>5 DEF Elsewhere

-----------------------------------------------------------------------------
(* The page's rows, form and requests *)

LEMMA FormChangedTyped ==
  ASSUME NEW f, IsForm(f), NEW new,
         \/ \E date \in Dates : new = [f EXCEPT !.date = date]
         \/ \E confirmed \in SUBSET Garments : new = [f EXCEPT !.confirmed = confirmed]
         \/ \E away \in SUBSET Garments : new = [f EXCEPT !.away = away]
  PROVE  IsForm(new)
<1>0. /\ f.date \in Dates /\ IsItems(f.items) /\ f.confirmed \in SUBSET Garments
      /\ f.away \in SUBSET Garments
      /\ DOMAIN f = {"date", "items", "confirmed", "from", "away"}
  BY FormIsItsFields
<1>1. ASSUME NEW date \in Dates, new = [f EXCEPT !.date = date] PROVE IsForm(new)
  <2>1. new = [date |-> date, items |-> f.items, confirmed |-> f.confirmed,
               from |-> f.from, away |-> f.away]
    BY <1>0, <1>1
  <2> QED BY <1>0, <2>1, FormFields
<1>2. ASSUME NEW confirmed \in SUBSET Garments, new = [f EXCEPT !.confirmed = confirmed]
      PROVE  IsForm(new)
  <2>1. new = [date |-> f.date, items |-> f.items, confirmed |-> confirmed,
               from |-> f.from, away |-> f.away]
    BY <1>0, <1>2
  <2> QED BY <1>0, <2>1, FormFields
<1>3. ASSUME NEW away \in SUBSET Garments, new = [f EXCEPT !.away = away] PROVE IsForm(new)
  <2>1. new = [date |-> f.date, items |-> f.items, confirmed |-> f.confirmed,
               from |-> f.from, away |-> away]
    BY <1>0, <1>3
  <2> QED BY <1>0, <2>1, FormFields
<1> QED BY <1>1, <1>2, <1>3

LEMMA FormItemsTyped ==
  ASSUME NEW f, IsForm(f), NEW items, IsItems(items),
         NEW confirmed \in SUBSET Garments, NEW away \in SUBSET Garments, NEW new,
         \/ new = [f EXCEPT !.items = items, !.confirmed = confirmed, !.away = away]
         \/ new = [f EXCEPT !.items = items, !.away = away]
  PROVE  IsForm(new)
<1>1. /\ f.date \in Dates /\ f.confirmed \in SUBSET Garments
      /\ DOMAIN f = {"date", "items", "confirmed", "from", "away"}
  BY FormIsItsFields
<1>2. CASE new = [f EXCEPT !.items = items, !.confirmed = confirmed, !.away = away]
  <2>1. new = [date |-> f.date, items |-> items, confirmed |-> confirmed,
               from |-> f.from, away |-> away]
    BY <1>1, <1>2
  <2> QED BY <1>1, <2>1, FormFields
<1>3. CASE new = [f EXCEPT !.items = items, !.away = away]
  <2>1. new = [date |-> f.date, items |-> items, confirmed |-> f.confirmed,
               from |-> f.from, away |-> away]
    BY <1>1, <1>3
  <2> QED BY <1>1, <2>1, FormFields
<1> QED BY <1>2, <1>3

LEMMA ReplacedTyped ==
  ASSUME NEW items, IsItems(items), IsGarments(shown), NEW g \in DOMAIN shown
  PROVE  IsItems(ReplaceGarment(items, g))
<1> DEFINE kept == {h \in DOMAIN items :
                      h \notin DOMAIN shown \/ CategoryOf[h] \notin Conflicts(CategoryOf[g])}
<1>1. kept \subseteq DOMAIN items
  OBVIOUS
<1>2. ReplaceGarment(items, g) =
        [h \in kept \union {g} |-> IF h = g THEN shown[g].revision ELSE items[h]]
  BY DEF ReplaceGarment
<1>3. g \in Garments /\ shown[g].revision \in Nat
  BY DEF IsGarments
<1> HIDE DEF kept
<1> QED BY <1>1, <1>2, <1>3 DEF IsItems

EditingTyped(e) == e # None => e \in [id : Nat, plan : {e.plan}] /\ IsPlan(e.plan)
ListTyped(rows) == rows # None => IsPlans(rows)
RequestsTyped(late1, op1) == \A o \in late1 \union ({op1} \ {None}) : IsTyped(o)
ReplyTyped(op1) ==
  op1 # None /\ op1.kind \in {"update", "reload"} /\ op1.fate = "done" => IsPlan(op1.reply)
IDsTyped == nextID \in Nat /\ createID \in Nat \union {None}

LEMMA TypeParts ==
  TypeOK <=> /\ IsForm(form) /\ EditingTyped(editing) /\ IDsTyped /\ ListTyped(list)
             /\ IsPlans(plans) /\ IsGarments(shown) /\ IsGarments(wardrobe)
             /\ RequestsTyped(late, op) /\ ReplyTyped(op)
BY DEF TypeOK, EditingTyped, ListTyped, RequestsTyped, ReplyTyped, IDsTyped

LEMMA AskTyped ==
  ASSUME RequestsTyped(late, op), late' = late,
         NEW kind, NEW id \in Nat, NEW base, NEW fields, Ask(kind, id, base, fields),
         kind \in Dialogs \union {"create", "update", "restore", "reload"},
         kind \in {"create", "update"} => IsForm(fields),
         kind # "create" => IsPlan(base)
  PROVE  RequestsTyped(late', op') /\ ReplyTyped(op')
<1> DEFINE new == [kind |-> kind, id |-> id, base |-> base, fields |-> fields,
                   fate |-> "sent", reply |-> None]
<1>1. op' = new
  BY DEF Ask
<1>2. IsTyped(new) /\ new.fate = "sent"
  BY DEF IsTyped
<1> HIDE DEF new
<1> QED BY <1>1, <1>2 DEF RequestsTyped, ReplyTyped

LEMMA HandleTyped ==
  ASSUME TypeOK, Handle
  PROVE  /\ IsPlans(plans') /\ wardrobe' = wardrobe
         /\ RequestsTyped(late', op') /\ ReplyTyped(op')
<1>1. op # None /\ IsTyped(op) /\ IsPlans(plans) /\ late' = late /\ RequestsTyped(late, op)
  BY TypeParts DEF Handle, pending, RequestsTyped
<1>2. CASE Accepted(op)
  <2>1. CarryOut(op)
    BY <1>2 DEF Handle
  <2>2. IsPlans(plans') /\ wardrobe' = wardrobe
    BY <1>1, <1>2, <2>1, CarryOutTyped
  <2> DEFINE answer == IF op.id \in DOMAIN plans' THEN plans'[op.id] ELSE None
             new == [op EXCEPT !.fate = "done", !.reply = answer]
  <2>3. op' = new
    BY <1>2 DEF Handle
  <2>4. op.kind \in {"update", "reload"} => IsPlan(answer)
    <3>1. op.kind = "update" => op.id \in DOMAIN plans /\ DOMAIN plans' = DOMAIN plans
      BY <1>2, <2>1 DEF Accepted, CarryOut, Changed, StatusAfter
    <3>2. op.kind = "reload" => op.id \in DOMAIN plans /\ plans' = plans
      BY <1>2, <2>1 DEF Accepted, CarryOut, StatusAfter
    <3> QED BY <2>2, <3>1, <3>2 DEF IsPlans
  <2> HIDE DEF answer
  <2>5. IsTyped(new) /\ new.kind = op.kind /\ new.reply = answer
    BY <1>1 DEF IsTyped
  <2> HIDE DEF new
  <2> QED BY <1>1, <2>2, <2>3, <2>4, <2>5 DEF RequestsTyped, ReplyTyped
<1>3. CASE ~Accepted(op)
  <2> DEFINE new == [op EXCEPT !.fate = "refused"]
  <2>1. op' = new /\ plans' = plans /\ wardrobe' = wardrobe
    BY <1>3 DEF Handle, server
  <2>2. IsTyped(new) /\ new.fate = "refused"
    BY <1>1 DEF IsTyped
  <2> HIDE DEF new
  <2> QED BY <1>1, <2>1, <2>2 DEF RequestsTyped, ReplyTyped
<1> QED BY <1>2, <1>3

LEMMA ReplyShownTyped ==
  ASSUME TypeOK, ReplyShown \/ ReplyFails
  PROVE  /\ IsForm(form') /\ EditingTyped(editing') /\ IDsTyped' /\ ListTyped(list')
         /\ RequestsTyped(late', op') /\ ReplyTyped(op')
<1>1. op # None /\ op' = None /\ IsTyped(op) /\ RequestsTyped(late, op)
  BY TypeParts DEF ReplyShown, ReplyFails, Release, pending, RequestsTyped
<1>2. RequestsTyped(late', op') /\ ReplyTyped(op')
  <2>1. late' \subseteq late \union {op}
    BY DEF ReplyShown, ReplyFails
  <2> QED BY <1>1, <2>1 DEF RequestsTyped, ReplyTyped
<1>3. ListTyped(list')
  <2>1. list' \in {list, plans, None}
    BY DEF ReplyShown, ReplyFails, Refreshed, server
  <2> QED BY <2>1, TypeParts DEF ListTyped
<1>4. IDsTyped'
  BY TypeParts DEF ReplyShown, ReplyFails, CloseEditor, IDsTyped
<1>5. CASE ReplyShown /\ op.kind \in {"update", "reload"}
  <2>1. editing' = [id |-> op.id, plan |-> op.reply] /\ form' = FormOf(op.reply)
    BY <1>5 DEF ReplyShown, Closes, Dialogs
  <2>2. op.id \in Nat /\ IsPlan(op.reply)
    BY <1>1, <1>5, TypeParts DEF ReplyShown, IsTyped, ReplyTyped
  <2>3. IsForm(form')
    BY <2>1, <2>2, FormOfPlanIsForm
  <2>4. EditingTyped(editing')
    BY <2>1, <2>2 DEF EditingTyped
  <2> QED BY <1>2, <1>3, <1>4, <2>3, <2>4
<1>6. CASE CloseEditor
  <2>1. IsForm(form') /\ EditingTyped(editing')
    BY <1>6, EmptyFormIsForm DEF CloseEditor, EditingTyped
  <2> QED BY <1>2, <1>3, <1>4, <2>1
<1>7. CASE form' = form /\ editing' = editing
  BY <1>2, <1>3, <1>4, <1>7, TypeParts
<1> QED BY <1>5, <1>6, <1>7 DEF ReplyShown, ReplyFails

LEMMA TypeInit == Init => TypeOK
<1> SUFFICES ASSUME Init PROVE TypeOK
  OBVIOUS
<1>1. IsForm(form) /\ EditingTyped(editing) /\ IDsTyped
  BY EmptyFormIsForm DEF Init, EditingTyped, IDsTyped
<1>2. IsGarments(wardrobe)
  <2>1. \A g \in Garments : wardrobe[g] \in [revision : Nat, availability : {"wearable", "laundry"}]
    BY DEF Init
  <2> QED BY <2>1 DEF Init, IsGarments
<1>3. IsGarments(shown)
  BY <1>2, PageAssumption DEF Init, IsGarments, Restrict
<1>4. IsPlans(plans)
  <2>1. PICK worn \in SUBSET (Garments \ InLaundry) \ {{}}, date \in Dates :
          plans = [id \in {1} |-> NewPlan([date |-> date, items |-> [g \in worn |-> 1],
                                          confirmed |-> {}])]
    BY DEF Init
  <2> DEFINE items  == [g \in worn |-> 1]
             fields == [date |-> date, items |-> items, confirmed |-> {}]
  <2>2. IsItems(items)
    BY DEF IsItems
  <2>3. fields.date \in Dates /\ fields.items = items /\ fields.confirmed \in SUBSET Garments
    OBVIOUS
  <2>4. plans = [id \in {1} |-> NewPlan(fields)]
    BY <2>1
  <2> HIDE DEF items, fields
  <2>5. IsPlan(NewPlan(fields))
    BY <2>2, <2>3, NewPlanIsPlan
  <2> QED BY <2>4, <2>5 DEF IsPlans
<1>5. ListTyped(list)
  BY <1>4 DEF Init, ListTyped
<1>6. RequestsTyped(late, op) /\ ReplyTyped(op)
  BY DEF Init, RequestsTyped, ReplyTyped
<1> QED BY <1>1, <1>2, <1>3, <1>4, <1>5, <1>6, TypeParts

\* The owner changes the form.
LEMMA ChangedFormTyped ==
  ASSUME TypeOK,
         ChangeDate \/ \E g \in Garments : Confirm(g) \/ Choose(g) \/ Remove(g) \/ RemoveMissing(g)
  PROVE  IsForm(form')
<1>0. /\ IsForm(form) /\ IsGarments(shown) /\ IsItems(form.items)
      /\ form.confirmed \in SUBSET Garments /\ form.away \in SUBSET Garments
  BY TypeParts, FormIsItsFields
<1>1. CASE ChangeDate
  BY <1>0, <1>1, FormChangedTyped DEF ChangeDate, ChangeForm
<1>2. ASSUME NEW g \in Garments, Confirm(g) PROVE IsForm(form')
  <2> DEFINE confirmed == IF g \in form.confirmed THEN form.confirmed \ {g}
                          ELSE form.confirmed \union {g}
  <2>1. form' = [form EXCEPT !.confirmed = confirmed]
    BY <1>2 DEF Confirm, ChangeForm
  <2>2. confirmed \in SUBSET Garments
    BY <1>0
  <2> HIDE DEF confirmed
  <2> QED BY <1>0, <2>1, <2>2, FormChangedTyped
<1>3. ASSUME NEW g \in Garments, Choose(g) PROVE IsForm(form')
  <2> DEFINE items     == ReplaceGarment(form.items, g)
             confirmed == form.confirmed \intersect DOMAIN items
             away      == (form.away \intersect DOMAIN items) \ {g}
  <2>1. form' = [form EXCEPT !.items = items, !.confirmed = confirmed, !.away = away]
    BY <1>3 DEF Choose, ChangeForm
  <2>2. g \in DOMAIN shown
    BY <1>3 DEF Choose, MayChoose
  <2>3. IsItems(items)
    BY <1>0, <2>2, ReplacedTyped
  <2>4. confirmed \in SUBSET Garments /\ away \in SUBSET Garments
    BY <1>0
  <2> HIDE DEF items, confirmed, away
  <2> QED BY <1>0, <2>1, <2>3, <2>4, FormItemsTyped
<1>4. ASSUME NEW g \in Garments, Remove(g) \/ RemoveMissing(g) PROVE IsForm(form')
  <2> DEFINE items     == Without(form.items, g)
             confirmed == form.confirmed \ {g}
             away      == form.away \ {g}
  <2>1. \/ form' = [form EXCEPT !.items = items, !.confirmed = confirmed, !.away = away]
        \/ form' = [form EXCEPT !.items = items, !.away = away]
    BY <1>4 DEF Remove, RemoveMissing, ChangeForm
  <2>2. IsItems(items)
    BY <1>0, ItemsRestricted DEF Without
  <2>3. confirmed \in SUBSET Garments /\ away \in SUBSET Garments
    BY <1>0
  <2> HIDE DEF items, confirmed, away
  <2> QED BY <1>0, <2>1, <2>2, <2>3, FormItemsTyped
<1> QED BY <1>1, <1>2, <1>3, <1>4

LEMMA RefetchedFormTyped ==
  ASSUME TypeOK, RefetchItems
  PROVE  IsForm(form')
<1>1. PICK reached \in SUBSET Offered :
        form' = [form EXCEPT !.away = @ \union ((Selected(form) \intersect DOMAIN wardrobe) \ reached)]
  BY DEF RefetchItems
<1> DEFINE away == form.away \union ((Selected(form) \intersect DOMAIN wardrobe) \ reached)
<1>2. form' = [form EXCEPT !.away = away]
  BY <1>1
<1>3. IsForm(form) /\ form.away \in SUBSET Garments /\ Selected(form) \subseteq Garments
  BY TypeParts, FormIsItsFields DEF IsItems, Selected
<1>4. away \in SUBSET Garments
  BY <1>3
<1> HIDE DEF away
<1> QED BY <1>2, <1>3, <1>4, FormChangedTyped

LEMMA SentTyped ==
  ASSUME TypeOK,
         \/ SaveUpdate \/ SaveCreate \/ ReloadEditing
         \/ \E id \in Listed : RestorePlan(id) \/ \E action \in Dialogs : RunAction(id, action)
  PROVE  RequestsTyped(late', op') /\ ReplyTyped(op')
<1>0. /\ RequestsTyped(late, op) /\ late' = late /\ IsForm(Fields(form))
      /\ editing # None => editing.id \in Nat /\ IsPlan(editing.plan)
  BY TypeParts, FieldsIsForm
     DEF SaveUpdate, SaveCreate, ReloadEditing, RestorePlan, RunAction, EditingTyped
<1>1. CASE SaveUpdate
  BY <1>0, <1>1, AskTyped DEF SaveUpdate
<1>2. CASE SaveCreate
  <2>1. Ask("create", DraftID, None, Fields(form))
    BY <1>2 DEF SaveCreate
  <2>2. DraftID \in Nat
    BY TypeParts DEF DraftID, IDsTyped
  <2> QED BY <1>0, <2>1, <2>2, AskTyped
<1>3. CASE ReloadEditing
  BY <1>0, <1>3, AskTyped DEF ReloadEditing
<1>4. ASSUME NEW id \in Listed, RestorePlan(id) \/ \E action \in Dialogs : RunAction(id, action)
      PROVE  RequestsTyped(late', op') /\ ReplyTyped(op')
  <2>1. id \in Nat /\ IsPlan(list[id])
    BY TypeParts DEF Listed, ListTyped, IsPlans
  <2>2. PICK kind \in Dialogs \union {"restore"} : Ask(kind, id, list[id], None)
    BY <1>4 DEF RestorePlan, RunAction
  <2>3. kind \notin {"create", "update"}
    BY DEF Dialogs
  <2> QED BY <1>0, <2>1, <2>2, <2>3, AskTyped
<1> QED BY <1>1, <1>2, <1>3, <1>4

LEMMA TypeStep == TypeOK /\ [Next]_vars => TypeOK'
<1> SUFFICES ASSUME TypeOK, [Next]_vars PROVE TypeOK'
  OBVIOUS
<1>0. /\ IsForm(form) /\ EditingTyped(editing) /\ IDsTyped /\ ListTyped(list)
      /\ IsPlans(plans) /\ IsGarments(shown) /\ IsGarments(wardrobe)
      /\ RequestsTyped(late, op) /\ ReplyTyped(op)
  BY TypeParts
<1> USE DEF server, view
<1> SUFFICES /\ IsForm(form') /\ EditingTyped(editing') /\ IDsTyped' /\ ListTyped(list')
             /\ IsPlans(plans') /\ IsGarments(shown') /\ IsGarments(wardrobe')
             /\ RequestsTyped(late', op') /\ ReplyTyped(op')
  BY TypeParts DEF TypeOK, EditingTyped, ListTyped, RequestsTyped, ReplyTyped, IDsTyped
<1>1. CASE ChangeDate \/ \E g \in Garments : Confirm(g) \/ Choose(g) \/ Remove(g) \/ RemoveMissing(g)
  <2>1. IsForm(form')
    BY <1>1, ChangedFormTyped
  <2> QED BY <1>0, <1>1, <2>1
          DEF ChangeDate, Confirm, Choose, Remove, RemoveMissing, ChangeForm, IDsTyped
<1>2. CASE LoadMoreItems \/ RefetchItems
  <2>1. Offered \subseteq DOMAIN wardrobe
    BY DEF Offered
  <2>2. IsGarments(shown')
    BY <1>0, <1>2, <2>1 DEF LoadMoreItems, RefetchItems, IsGarments, Restrict
  <2>3. IsForm(form')
    BY <1>0, <1>2, RefetchedFormTyped DEF LoadMoreItems
  <2> QED BY <1>0, <1>2, <2>2, <2>3 DEF LoadMoreItems, RefetchItems, IDsTyped
<1>3. ASSUME NEW id \in Listed, SelectEdit(id)
      PROVE  /\ IsForm(form') /\ EditingTyped(editing')
  <2>1. id \in Nat /\ IsPlan(list[id])
    BY <1>0 DEF Listed, ListTyped, IsPlans
  <2>2. editing' = [id |-> id, plan |-> list[id]] /\ form' = FormOf(list[id])
    BY <1>3 DEF SelectEdit, Row
  <2> QED BY <2>1, <2>2, FormOfPlanIsForm DEF EditingTyped
<1>4. CASE \E id \in Listed : SelectEdit(id)
  BY <1>0, <1>3, <1>4 DEF SelectEdit, IDsTyped
<1>5. CASE CancelEdit \/ RetryList
  BY <1>0, <1>5, EmptyFormIsForm
     DEF CancelEdit, CloseEditor, RetryList, IDsTyped, EditingTyped, ListTyped
<1>6. CASE \/ SaveUpdate \/ SaveCreate \/ ReloadEditing
           \/ \E id \in Listed : RestorePlan(id) \/ \E action \in Dialogs : RunAction(id, action)
  <2>1. RequestsTyped(late', op') /\ ReplyTyped(op')
    BY <1>6, SentTyped
  <2>2. IDsTyped'
    BY <1>0, <1>6
       DEF SaveUpdate, SaveCreate, ReloadEditing, RestorePlan, RunAction, IDsTyped, DraftID
  <2> QED BY <1>0, <1>6, <2>1, <2>2
          DEF SaveUpdate, SaveCreate, ReloadEditing, RestorePlan, RunAction
<1>7. CASE Handle
  BY <1>0, <1>7, HandleTyped DEF Handle, IDsTyped
<1>8. CASE ReplyShown \/ ReplyFails
  <2>1. UNCHANGED <<shown, server>>
    BY <1>8 DEF ReplyShown, ReplyFails
  <2> QED BY <1>0, <1>8, <2>1, ReplyShownTyped
<1>9. ASSUME NEW o \in late, Arrive(o)
      PROVE  /\ IsPlans(plans') /\ wardrobe' = wardrobe
             /\ RequestsTyped(late', op')
  <2>1. IsTyped(o) /\ late' \subseteq late /\ op' = op
    BY <1>0, <1>9 DEF Arrive, RequestsTyped
  <2>2. IsPlans(plans') /\ wardrobe' = wardrobe
    BY <1>0, <1>9, <2>1, CarryOutTyped DEF Arrive
  <2> QED BY <1>0, <2>1, <2>2 DEF RequestsTyped
<1>10. CASE \E o \in late : Arrive(o)
  BY <1>0, <1>9, <1>10 DEF Arrive, IDsTyped
<1>11. CASE Elsewhere
  BY <1>0, <1>11, ElsewhereTyped DEF Elsewhere, IDsTyped
<1>12. CASE UNCHANGED vars
  BY <1>0, <1>12 DEF vars, IDsTyped
<1> QED BY <1>1, <1>2, <1>4, <1>5, <1>6, <1>7, <1>8, <1>10, <1>11, <1>12 DEF Next

\* Every variable stays of its type, for any wardrobe, dates and number of
\* plans: in particular a form is always one date, items with their revisions
\* and confirmations, whatever replies arrive.
THEOREM TypeCorrect == Spec => []TypeOK
<1> QED BY TypeInit, TypeStep, PTL DEF Spec

-----------------------------------------------------------------------------
(* One outfit: of the selections that stayed loaded no two conflict, and what *)
(* a draft has selected is loaded, unless it dropped out of the list or is    *)
(* gone from the wardrobe.                                                    *)

OneGarmentEach(rows, items, away) ==
  \A g, h \in (DOMAIN items \intersect DOMAIN rows) \ away :
    g # h => CategoryOf[h] \notin Conflicts(CategoryOf[g])

DraftInv ==
  editing = None =>
    /\ Selected(form) \subseteq DOMAIN shown \union (Garments \ DOMAIN wardrobe) \union form.away
    /\ OneGarmentEach(shown, form.items, form.away)

StayedLoaded(f) == Restrict(f.items, DOMAIN f.items \ f.away)

CreatesExclusive(late1, op1) ==
  \A o \in late1 \union ({op1} \ {None}) :
    o.kind = "create" => Exclusive(StayedLoaded(o.fields))

OutfitInv == DraftInv /\ CreatesExclusive(late, op)

LEMMA ConflictsSymmetric ==
  \A c, d \in Categories : d \in Conflicts(c) => c \in Conflicts(d)
BY DEF Categories, Conflicts

LEMMA CategoriesFinite == IsFiniteSet(Categories)
<1>1. \A S, c : IsFiniteSet(S) => IsFiniteSet(S \union {c})
  BY FS_AddElement
<1> DEFINE A == {"top"} B == A \union {"bottom"} C == B \union {"one_piece"}
           D == C \union {"shoes"} E == D \union {"outerwear"} F == E \union {"bag"}
<1>2. IsFiniteSet(A)
  BY FS_Singleton
<1>3. IsFiniteSet(B)
  BY <1>1, <1>2
<1>4. IsFiniteSet(C)
  BY <1>1, <1>3
<1>5. IsFiniteSet(D)
  BY <1>1, <1>4
<1>6. IsFiniteSet(E)
  BY <1>1, <1>5
<1>7. IsFiniteSet(F)
  BY <1>1, <1>6
<1>8. IsFiniteSet(F \union {"accessory"})
  BY <1>1, <1>7
<1>9. Categories = F \union {"accessory"}
  BY DEF Categories
<1> QED BY <1>8, <1>9

\* Categories all distinct are as many as the garments.
LEMMA ExclusiveItems ==
  ASSUME NEW items, IsItems(items), NEW rows, DOMAIN items \subseteq DOMAIN rows,
         OneGarmentEach(rows, items, {})
  PROVE  Exclusive(items)
<1> DEFINE S    == DOMAIN items
           worn == {CategoryOf[g] : g \in S}
           c    == [g \in S |-> CategoryOf[g]]
<1>1. S \subseteq Garments /\ worn \subseteq Categories
  BY CategoryAssumption DEF IsItems
<1>2. \A g, h \in S : g # h => CategoryOf[h] \notin Conflicts(CategoryOf[g])
  BY DEF OneGarmentEach
<1>3. \A d \in Categories : d \in Conflicts(d)
  BY DEF Conflicts
<1>4. \A g, h \in S : g # h => CategoryOf[g] # CategoryOf[h]
  BY <1>1, <1>2, <1>3
<1>5. IsFiniteSet(worn)
  BY <1>1, CategoriesFinite, FS_Subset
<1>6. c \in Injection(S, worn) /\ c \in Surjection(S, worn)
  BY <1>4 DEF Injection, IsInjective, Surjection
<1>7. Cardinality(S) = Cardinality(worn)
  <2> HIDE DEF c, worn, S
  <2> QED BY <1>5, <1>6, FS_Injection
<1>8. "one_piece" \in worn => {"top", "bottom"} \intersect worn = {}
  <2> SUFFICES ASSUME NEW g \in S, CategoryOf[g] = "one_piece",
                      NEW h \in S, CategoryOf[h] \in {"top", "bottom"}
               PROVE  FALSE
    OBVIOUS
  <2>1. g # h
    OBVIOUS
  <2>2. CategoryOf[h] \in Conflicts(CategoryOf[g])
    BY DEF Conflicts
  <2> QED BY <1>2, <2>1, <2>2
<1> QED BY <1>7, <1>8 DEF Exclusive

\* A garment chosen takes the place of those it conflicts with.
LEMMA ReplacedOnce ==
  ASSUME NEW items, IsItems(items), IsGarments(shown), NEW g \in DOMAIN shown,
         NEW away, OneGarmentEach(shown, items, away), NEW left,
         left = (away \intersect DOMAIN ReplaceGarment(items, g)) \ {g}
  PROVE  /\ DOMAIN ReplaceGarment(items, g) \subseteq DOMAIN items \union {g}
         /\ OneGarmentEach(shown, ReplaceGarment(items, g), left)
<1> DEFINE kept == {h \in DOMAIN items :
                      h \notin DOMAIN shown \/ CategoryOf[h] \notin Conflicts(CategoryOf[g])}
           new  == ReplaceGarment(items, g)
<1>1. DOMAIN new = kept \union {g} /\ kept \subseteq DOMAIN items
  BY DEF ReplaceGarment
<1>2. \A h \in DOMAIN shown : CategoryOf[h] \in Categories
  BY CategoryAssumption DEF IsGarments
<1>3. ASSUME NEW h \in (DOMAIN new \intersect DOMAIN shown) \ left,
             NEW k \in (DOMAIN new \intersect DOMAIN shown) \ left, h # k
      PROVE  CategoryOf[k] \notin Conflicts(CategoryOf[h])
  <2>1. CASE h # g /\ k # g
    <3>1. h \in DOMAIN items \ away /\ k \in DOMAIN items \ away
      BY <1>1, <1>3, <2>1
    <3> QED BY <1>3, <3>1 DEF OneGarmentEach
  <2>2. CASE h = g
    BY <1>1, <1>3, <2>2
  <2>3. CASE k = g
    <3>1. h \in kept
      BY <1>1, <1>3, <2>3
    <3>2. CategoryOf[h] \notin Conflicts(CategoryOf[g])
      BY <3>1
    <3> HIDE DEF kept, new
    <3> QED BY <1>2, <2>3, <3>2, ConflictsSymmetric
  <2> HIDE DEF kept, new
  <2> QED BY <1>1, <2>1, <2>2, <2>3
<1> HIDE DEF kept, new
<1>4. OneGarmentEach(shown, new, left)
  BY <1>3 DEF OneGarmentEach
<1> QED BY <1>1, <1>4 DEF new

LEMMA EditingIsSomething ==
  ASSUME NEW id \in Nat, NEW plan, IsPlan(plan)
  PROVE  [id |-> id, plan |-> plan] # None
<1>1. plan.items \in Items
  BY PlanIsItsFields DEF IsItems, Items
<1>2. plan \in PlansOf(Items)
  BY <1>1, PlanIsItsFields DEF PlansOf
<1> QED BY <1>2, NoneAssumption

\* What the owner does to the draft.
LEMMA DraftChanged ==
  ASSUME TypeOK, DraftInv, editing = None,
         ChangeDate \/ \E g \in Garments : Confirm(g) \/ Choose(g) \/ Remove(g) \/ RemoveMissing(g)
  PROVE  /\ Selected(form') \subseteq
              DOMAIN shown' \union (Garments \ DOMAIN wardrobe') \union form'.away
         /\ OneGarmentEach(shown', form'.items, form'.away)
<1>0. /\ IsForm(form) /\ IsGarments(shown) /\ IsItems(form.items)
      /\ DOMAIN form = {"date", "items", "confirmed", "from", "away"}
      /\ DOMAIN form.items \subseteq
           DOMAIN shown \union (Garments \ DOMAIN wardrobe) \union form.away
      /\ OneGarmentEach(shown, form.items, form.away)
  BY TypeParts, FormIsItsFields DEF DraftInv, Selected
<1>1. shown' = shown /\ wardrobe' = wardrobe
  BY DEF ChangeDate, Confirm, Choose, Remove, RemoveMissing, ChangeForm, server
<1>2. CASE form'.items = form.items /\ form'.away = form.away
  BY <1>0, <1>1, <1>2 DEF Selected
<1>3. ASSUME NEW g \in Garments, Choose(g)
      PROVE  /\ DOMAIN form'.items \subseteq
                  DOMAIN shown \union (Garments \ DOMAIN wardrobe) \union form'.away
             /\ OneGarmentEach(shown, form'.items, form'.away)
  <2> DEFINE items == ReplaceGarment(form.items, g)
             away  == (form.away \intersect DOMAIN items) \ {g}
  <2>1. g \in DOMAIN shown
    BY <1>3 DEF Choose, MayChoose
  <2>2. form'.items = items /\ form'.away = away
    BY <1>0, <1>3 DEF Choose, ChangeForm
  <2>3. DOMAIN items \subseteq DOMAIN form.items \union {g} /\ OneGarmentEach(shown, items, away)
    BY <1>0, <2>1, ReplacedOnce
  <2> HIDE DEF items
  <2> QED BY <1>0, <2>1, <2>2, <2>3
<1>4. ASSUME NEW g \in Garments, Remove(g) \/ RemoveMissing(g)
      PROVE  /\ DOMAIN form'.items \subseteq
                  DOMAIN shown \union (Garments \ DOMAIN wardrobe) \union form'.away
             /\ OneGarmentEach(shown, form'.items, form'.away)
  <2> DEFINE items == Without(form.items, g)
  <2>1. form'.items = items /\ form'.away = form.away \ {g}
    BY <1>0, <1>4 DEF Remove, RemoveMissing, ChangeForm
  <2>2. DOMAIN items = DOMAIN form.items \ {g}
    BY DEF Without, Restrict
  <2> HIDE DEF items
  <2> QED BY <1>0, <2>1, <2>2 DEF OneGarmentEach
<1>5. ChangeDate \/ (\E g \in Garments : Confirm(g)) =>
        form'.items = form.items /\ form'.away = form.away
  BY <1>0 DEF ChangeDate, Confirm, ChangeForm
<1> QED BY <1>1, <1>2, <1>3, <1>4, <1>5 DEF Selected

\* Garments are loaded that were not: a selection among them had dropped out.
LEMMA DraftReloaded ==
  ASSUME TypeOK, DraftInv, editing = None, LoadMoreItems \/ RefetchItems
  PROVE  /\ Selected(form') \subseteq
              DOMAIN shown' \union (Garments \ DOMAIN wardrobe') \union form'.away
         /\ OneGarmentEach(shown', form'.items, form'.away)
<1>1. wardrobe' = wardrobe /\ Offered \subseteq DOMAIN wardrobe
  BY DEF LoadMoreItems, RefetchItems, server, Offered
<1>2. /\ DOMAIN form.items \subseteq
           DOMAIN shown \union (Garments \ DOMAIN wardrobe) \union form.away
      /\ OneGarmentEach(shown, form.items, form.away)
      /\ DOMAIN form.items \subseteq Garments
      /\ DOMAIN form = {"date", "items", "confirmed", "from", "away"}
  BY TypeParts, FormIsItsFields DEF DraftInv, Selected, IsItems
<1>3. CASE LoadMoreItems
  <2>1. DOMAIN shown' = DOMAIN shown \union Offered /\ form' = form
    BY <1>3 DEF LoadMoreItems
  <2>2. (DOMAIN form.items \intersect DOMAIN shown') \ form.away
          \subseteq (DOMAIN form.items \intersect DOMAIN shown) \ form.away
    BY <1>1, <1>2, <2>1
  <2> QED BY <1>1, <1>2, <2>1, <2>2 DEF OneGarmentEach, Selected
<1>4. CASE RefetchItems
  <2>1. PICK reached \in SUBSET Offered :
          /\ shown' = Restrict(wardrobe, reached)
          /\ form' = [form EXCEPT !.away =
               @ \union ((Selected(form) \intersect DOMAIN wardrobe) \ reached)]
    BY <1>4 DEF RefetchItems
  <2>2. /\ DOMAIN shown' = reached /\ form'.items = form.items
        /\ form'.away = form.away \union ((DOMAIN form.items \intersect DOMAIN wardrobe) \ reached)
    BY <1>2, <2>1 DEF Restrict, Selected
  <2>3. (DOMAIN form'.items \intersect DOMAIN shown') \ form'.away
          \subseteq (DOMAIN form.items \intersect DOMAIN shown) \ form.away
    BY <1>1, <1>2, <2>2
  <2>4. OneGarmentEach(shown', form'.items, form'.away)
    BY <1>2, <2>3 DEF OneGarmentEach
  <2> QED BY <1>1, <1>2, <2>2, <2>4 DEF Selected
<1> QED BY <1>3, <1>4

LEMMA EmptyDraft ==
  ASSUME form' = EmptyForm
  PROVE  /\ Selected(form') \subseteq
              DOMAIN shown' \union (Garments \ DOMAIN wardrobe') \union form'.away
         /\ OneGarmentEach(shown', form'.items, form'.away)
<1>1. DOMAIN form'.items = {}
  BY NoItems DEF EmptyForm
<1> QED BY <1>1 DEF Selected, OneGarmentEach

\* An edit begins: no draft is being made.
LEMMA EditBegun ==
  ASSUME TypeOK,
         \/ \E id \in Listed : SelectEdit(id)
         \/ ReplyShown /\ op.kind \in {"update", "reload"}
  PROVE  editing' # None
<1>1. ASSUME NEW id \in Listed, SelectEdit(id) PROVE editing' # None
  <2>1. id \in Nat /\ IsPlan(list[id])
    BY TypeParts DEF Listed, ListTyped, IsPlans
  <2> QED BY <1>1, <2>1, EditingIsSomething DEF SelectEdit, Row
<1>2. CASE ReplyShown /\ op.kind \in {"update", "reload"}
  <2>1. editing' = [id |-> op.id, plan |-> op.reply]
    BY <1>2 DEF ReplyShown, Closes, Dialogs
  <2>2. op # None /\ op.fate = "done"
    BY <1>2 DEF ReplyShown, pending
  <2>3. op.id \in Nat /\ IsPlan(op.reply)
    BY <1>2, <2>2, TypeParts DEF IsTyped, RequestsTyped, ReplyTyped
  <2> QED BY <2>1, <2>3, EditingIsSomething
<1> QED BY <1>1, <1>2

LEMMA DraftStep == TypeOK /\ DraftInv /\ [Next]_vars => DraftInv'
<1> SUFFICES ASSUME TypeOK, DraftInv, [Next]_vars, editing' = None
             PROVE  /\ Selected(form') \subseteq
                         DOMAIN shown' \union (Garments \ DOMAIN wardrobe') \union form'.away
                    /\ OneGarmentEach(shown', form'.items, form'.away)
  BY DEF DraftInv, OneGarmentEach, Selected
<1> USE DEF server, view
<1>1. CASE ChangeDate \/ \E g \in Garments : Confirm(g) \/ Choose(g) \/ Remove(g) \/ RemoveMissing(g)
  <2>1. editing = None
    BY <1>1 DEF ChangeDate, Confirm, Choose, Remove, RemoveMissing, ChangeForm
  <2> QED BY <1>1, <2>1, DraftChanged
<1>2. CASE LoadMoreItems \/ RefetchItems
  <2>1. editing = None
    BY <1>2 DEF LoadMoreItems, RefetchItems
  <2> QED BY <1>2, <2>1, DraftReloaded
<1>3. CASE \E id \in Listed : SelectEdit(id)
  BY <1>3, EditBegun
<1>4. CASE CancelEdit
  BY <1>4, EmptyDraft DEF CancelEdit, CloseEditor
<1>5. CASE ReplyShown
  <2>1. CASE op.kind \in {"update", "reload"}
    BY <1>5, <2>1, EditBegun
  <2>2. CASE CloseEditor
    BY <2>2, EmptyDraft DEF CloseEditor
  <2>3. CASE UNCHANGED <<form, editing, shown, wardrobe>>
    BY <2>3 DEF DraftInv
  <2> QED BY <1>5, <2>1, <2>2, <2>3 DEF ReplyShown
<1>6. CASE UNCHANGED <<form, editing, shown>> /\ DOMAIN wardrobe' \subseteq DOMAIN wardrobe
  BY <1>6 DEF DraftInv
<1>7. CASE \/ SaveUpdate \/ SaveCreate \/ ReloadEditing \/ ReplyFails \/ RetryList
           \/ \E id \in Listed : RestorePlan(id) \/ \E action \in Dialogs : RunAction(id, action)
  BY <1>6, <1>7
     DEF SaveUpdate, SaveCreate, ReloadEditing, ReplyFails, RetryList, RestorePlan, RunAction
<1>8. CASE Handle \/ \E o \in late : Arrive(o)
  BY <1>6, <1>8 DEF Handle, Arrive, CarryOut
<1>9. CASE Elsewhere
  BY <1>6, <1>9, ElsewhereTyped, TypeParts DEF Elsewhere
<1>10. CASE UNCHANGED vars
  BY <1>6, <1>10 DEF vars
<1> QED BY <1>1, <1>2, <1>3, <1>4, <1>5, <1>7, <1>8, <1>9, <1>10 DEF Next

\* A draft is sent only with everything it has selected loaded.
LEMMA SentExclusive ==
  ASSUME TypeOK, DraftInv, SaveCreate
  PROVE  Exclusive(StayedLoaded(Fields(form)))
<1> DEFINE items == StayedLoaded(form)
<1>1. Selected(form) \subseteq DOMAIN shown /\ editing = None
  BY DEF SaveCreate, Valid, MissingError
<1>2. OneGarmentEach(shown, form.items, form.away) /\ IsItems(form.items)
  BY <1>1, TypeParts, FormIsItsFields DEF DraftInv
<1>3. IsItems(items) /\ DOMAIN items = DOMAIN form.items \ form.away
  BY <1>2, ItemsRestricted DEF StayedLoaded, Restrict
<1>4. DOMAIN items \subseteq DOMAIN shown /\ OneGarmentEach(shown, items, {})
  BY <1>1, <1>2, <1>3 DEF OneGarmentEach, Selected
<1>5. Exclusive(items)
  <2> HIDE DEF items
  <2> QED BY <1>3, <1>4, ExclusiveItems
<1> QED BY <1>5 DEF Fields, StayedLoaded

LEMMA CreatesStep ==
  ASSUME TypeOK, OutfitInv, [Next]_vars
  PROVE  CreatesExclusive(late', op')
<1> USE DEF CreatesExclusive
<1>0. CreatesExclusive(late, op)
  BY DEF OutfitInv
<1>1. CASE late' \subseteq late \union ({op} \ {None}) /\ op' \in {op, None}
  BY <1>0, <1>1
<1>2. CASE SaveCreate
  <2>1. late' = late /\ op'.fields = Fields(form)
    BY <1>2 DEF SaveCreate, Ask
  <2> QED BY <1>0, <1>2, <2>1, SentExclusive DEF OutfitInv
<1>3. CASE \/ SaveUpdate \/ ReloadEditing
           \/ \E id \in Listed : RestorePlan(id) \/ \E action \in Dialogs : RunAction(id, action)
  <2>1. late' = late /\ op'.kind # "create"
    BY <1>3 DEF SaveUpdate, ReloadEditing, RestorePlan, RunAction, Ask, Dialogs
  <2> QED BY <1>0, <2>1
<1>4. CASE Handle
  <2>1. op # None /\ IsTyped(op) /\ late' = late
    BY <1>4, TypeParts DEF Handle, pending, RequestsTyped
  <2>2. op'.kind = op.kind /\ op'.fields = op.fields
    BY <1>4, <2>1 DEF Handle, IsTyped
  <2> QED BY <1>0, <2>1, <2>2
<1>5. CASE ReplyShown \/ ReplyFails
  BY <1>1, <1>5 DEF ReplyShown, ReplyFails, Release, pending
<1>6. CASE \E o \in late : Arrive(o)
  BY <1>1, <1>6 DEF Arrive
<1>7. CASE ChangeDate \/ LoadMoreItems \/ RefetchItems \/ CancelEdit \/ RetryList \/ Elsewhere
  BY <1>1, <1>7 DEF ChangeDate, ChangeForm, LoadMoreItems, RefetchItems, CancelEdit, RetryList, Elsewhere
<1>8. ASSUME NEW g, Confirm(g) \/ Choose(g) \/ Remove(g) \/ RemoveMissing(g)
      PROVE  CreatesExclusive(late', op')
  BY <1>1, <1>8 DEF Confirm, Choose, Remove, RemoveMissing, ChangeForm
<1>9. CASE \E id \in Listed : SelectEdit(id)
  BY <1>1, <1>9 DEF SelectEdit
<1>10. CASE UNCHANGED vars
  BY <1>1, <1>10 DEF vars
<1> QED BY <1>2, <1>3, <1>4, <1>5, <1>6, <1>7, <1>8, <1>9, <1>10 DEF Next

\* The garments of a draft that never dropped out of the loaded list are one
\* outfit whenever it is sent, for any wardrobe and however the list is read again
\* and continued: garments chosen replace those they conflict with, later pages
\* hold no other selection, and what has vanished keeps the draft from being saved.
THEOREM LoadedIsOneOutfitAlways == Spec => []LoadedIsOneOutfit
<1> DEFINE I == TypeOK /\ OutfitInv
<1>1. Init => I
  <2> SUFFICES ASSUME Init PROVE I
    OBVIOUS
  <2>1. Selected(form) = {}
    BY NoItems DEF Init, EmptyForm, Selected
  <2>2. DraftInv
    BY <2>1 DEF DraftInv, OneGarmentEach, Selected
  <2> QED BY <2>2, TypeInit DEF Init, OutfitInv, CreatesExclusive
<1>2. I /\ [Next]_vars => I'
  <2> SUFFICES ASSUME TypeOK, OutfitInv, [Next]_vars PROVE I'
    OBVIOUS
  <2>1. TypeOK' /\ DraftInv'
    BY TypeStep, DraftStep DEF OutfitInv
  <2>2. CreatesExclusive(late, op)'
    BY CreatesStep DEF CreatesExclusive
  <2> QED BY <2>1, <2>2 DEF OutfitInv
<1>3. I => LoadedIsOneOutfit
  BY DEF OutfitInv, CreatesExclusive, LoadedIsOneOutfit, StayedLoaded
<1> QED BY <1>1, <1>2, <1>3, PTL DEF Spec

=============================================================================
