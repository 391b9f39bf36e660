-------------------------- MODULE WearEventView_proofs --------------------------
(***************************************************************************)
(* Theorems about WearEventView, for any wardrobe, any plan the page may   *)
(* be opened with and any number of events, requests, lost replies and     *)
(* changes made elsewhere.                                                 *)
(***************************************************************************)
EXTENDS WearEventView, FiniteSetTheorems, TLAPS

-----------------------------------------------------------------------------
(* The events of the server: a deleted one stays deleted, and a revision    *)
(* names one content of one event.                                          *)

ServerInv ==
  /\ deleted \intersect DOMAIN events = {}
  /\ \A id \in DOMAIN events :
       {"revision", "plan"} \subseteq DOMAIN events[id] /\ events[id].revision \in Nat
  /\ budget \in Nat

\* How a step may change the events.
Onward ==
  /\ DOMAIN events \union deleted \subseteq DOMAIN events' \union deleted'
  /\ \A id \in DOMAIN events' :
       \/ id \notin DOMAIN events \union deleted
       \/ id \in DOMAIN events /\ events'[id] = events[id]
       \/ id \in DOMAIN events /\ events'[id].revision = events[id].revision + 1

LEMMA ServerInit == Init => ServerInv
<1> SUFFICES ASSUME Init PROVE ServerInv
  OBVIOUS
<1>1. budget \in Nat /\ deleted = {}
  BY BoundAssumption DEF Init
<1>2. \A id \in DOMAIN events :
        {"revision", "plan"} \subseteq DOMAIN events[id] /\ events[id].revision \in Nat
  BY DEF Init, NewEvent
<1> QED BY <1>1, <1>2 DEF ServerInv

\* Rows replaced under their ids by themselves or by rows of the next revision.
Bumped(row, new) ==
  /\ {"revision", "plan"} \subseteq DOMAIN new
  /\ new = row \/ new.revision = row.revision + 1

LEMMA BumpedOnward ==
  ASSUME ServerInv, DOMAIN events' = DOMAIN events, deleted' = deleted, budget' \in Nat,
         \A id \in DOMAIN events : Bumped(events[id], events'[id])
  PROVE  ServerInv' /\ Onward
<1>1. \A id \in DOMAIN events : events'[id].revision \in Nat
  BY DEF ServerInv, Bumped
<1> QED BY <1>1 DEF ServerInv, Onward, Bumped

LEMMA UnchangedOnward ==
  ASSUME ServerInv, events' = events, deleted' = deleted, budget' \in Nat
  PROVE  ServerInv' /\ Onward
BY DEF ServerInv, Onward

\* What a create or an update writes.
LEMMA WrittenRow ==
  ASSUME NEW o
  PROVE  /\ {"revision", "plan"} \subseteq DOMAIN Written(o)
         /\ Written(o).plan = o.fields.plan
         /\ o.kind = "create" => Written(o).revision = 1
         /\ o.kind # "create" => Written(o).revision = events[o.id].revision + 1
<1> DEFINE new == NewEvent(o.fields)
           old == events[o.id].revision + 1
           print == events[o.id].print
<1>1. /\ {"revision", "plan", "print"} \subseteq DOMAIN new
      /\ new.plan = o.fields.plan /\ new.revision = 1
  BY DEF NewEvent
<1>2. Written(o) = IF o.kind = "create" THEN new
                   ELSE [new EXCEPT !.print = print, !.revision = old]
  BY DEF Written
<1> HIDE DEF new, old, print
<1>3. /\ {"revision", "plan"} \subseteq DOMAIN Written(o)
      /\ Written(o).plan = o.fields.plan
      /\ o.kind = "create" => Written(o).revision = 1
      /\ o.kind # "create" => Written(o).revision = old
  BY <1>1, <1>2
<1> QED BY <1>3 DEF old

LEMMA CarryOutOnward ==
  ASSUME ServerInv, NEW o, Accepted(o), CarryOut(o), budget' \in Nat
  PROVE  ServerInv' /\ Onward
<1>1. CASE o.kind \in {"create", "update"} /\ ~Repeated(o)
  <2>1. deleted' = deleted
    BY <1>1 DEF CarryOut
  <2>2. events' = [id \in DOMAIN events \union {o.id} |->
                     IF id = o.id THEN Written(o) ELSE events[id]]
    BY <1>1 DEF CarryOut
  <2>3. Writes(o)
    BY <1>1 DEF Accepted
  <2>4. CASE o.kind = "create"
    <3>1. o.id \notin DOMAIN events \union deleted
      BY <2>3, <2>4 DEF Writes
    <3>2. {"revision", "plan"} \subseteq DOMAIN Written(o) /\ Written(o).revision = 1
      BY <2>4, WrittenRow
    <3> QED BY <2>1, <2>2, <3>1, <3>2 DEF ServerInv, Onward
  <2>5. CASE o.kind = "update"
    <3>1. o.id \in DOMAIN events
      BY <2>3, <2>5 DEF Writes
    <3>2. /\ {"revision", "plan"} \subseteq DOMAIN Written(o)
          /\ Written(o).revision = events[o.id].revision + 1
      BY <2>5, WrittenRow
    <3>3. DOMAIN events' = DOMAIN events
      BY <2>2, <3>1
    <3>4. \A id \in DOMAIN events : Bumped(events[id], events'[id])
      BY <2>2, <3>1, <3>2 DEF Bumped, ServerInv
    <3> QED BY <2>1, <3>3, <3>4, BumpedOnward
  <2> QED BY <1>1, <2>4, <2>5
<1>2. CASE o.kind = "delete"
  <2>1. events' = [id \in DOMAIN events \ {o.id} |-> events[id]] /\ deleted' = deleted \union {o.id}
    BY <1>2 DEF CarryOut, Restrict
  <2> QED BY <2>1 DEF ServerInv, Onward
<1>3. CASE o.kind # "delete" /\ ~(o.kind \in {"create", "update"} /\ ~Repeated(o))
  <2>1. events' = events /\ deleted' = deleted
    BY <1>3 DEF CarryOut
  <2> QED BY <2>1, UnchangedOnward
<1> QED BY <1>1, <1>2, <1>3

LEMMA ElsewhereOnward ==
  ASSUME ServerInv, Elsewhere
  PROVE  ServerInv' /\ Onward
<1>1. budget' \in Nat
  BY DEF Elsewhere, Disturbed, ServerInv
<1>2. ASSUME NEW g, EditGarmentElsewhere(g) PROVE ServerInv' /\ Onward
  BY <1>1, <1>2, UnchangedOnward DEF EditGarmentElsewhere
<1>3. ASSUME NEW g, RedactSnapshots(g) PROVE ServerInv' /\ Onward
  <2>1. events' = [id \in DOMAIN events |-> Cleared(events[id], g)] /\ deleted' = deleted
    BY <1>3 DEF RedactSnapshots
  <2>2. \A row : {"revision", "plan"} \subseteq DOMAIN row => Bumped(row, Cleared(row, g))
    BY DEF Bumped, Cleared
  <2>3. \A id \in DOMAIN events : Bumped(events[id], events'[id])
    BY <2>1, <2>2 DEF ServerInv
  <2>4. DOMAIN events' = DOMAIN events
    BY <2>1
  <2> QED BY <1>1, <2>1, <2>3, <2>4, BumpedOnward
<1>7. ASSUME NEW g, DeleteAffectedHistory(g) PROVE ServerInv' /\ Onward
  <2>1. PICK affected \in SUBSET DOMAIN events :
          /\ events' = [id \in DOMAIN events \ affected |-> events[id]]
          /\ deleted' = deleted \union affected
    BY <1>7 DEF DeleteAffectedHistory, Restrict
  <2> QED BY <1>1, <2>1 DEF ServerInv, Onward
<1>8. ASSUME NEW g, DeleteGarmentElsewhere(g) PROVE ServerInv' /\ Onward
  BY <1>3, <1>7, <1>8 DEF DeleteGarmentElsewhere
<1>4. CASE EditPlanElsewhere
  BY <1>1, <1>4, UnchangedOnward DEF EditPlanElsewhere
<1>5. CASE DeletePlanElsewhere
  <2> DEFINE Unlinked(row) ==
        [row EXCEPT !.plan = None, !.source = "unplanned", !.revision = @ + 1]
  <2>1. /\ events' = [id \in DOMAIN events |->
               IF events[id].plan = None THEN events[id] ELSE Unlinked(events[id])]
        /\ deleted' = deleted
    BY <1>5 DEF DeletePlanElsewhere
  <2>2. \A row : {"revision", "plan"} \subseteq DOMAIN row => Bumped(row, Unlinked(row))
    BY DEF Bumped
  <2>3. \A row : {"revision", "plan"} \subseteq DOMAIN row => Bumped(row, row)
    BY DEF Bumped
  <2> HIDE DEF Unlinked
  <2>4. \A id \in DOMAIN events : Bumped(events[id], events'[id])
    BY <2>1, <2>2, <2>3 DEF ServerInv
  <2>5. DOMAIN events' = DOMAIN events
    BY <2>1
  <2> QED BY <1>1, <2>1, <2>4, <2>5, BumpedOnward
<1>6. ASSUME NEW id \in DOMAIN events, ChangeEventElsewhere(id) PROVE ServerInv' /\ Onward
  <2> DEFINE new == [events[id] EXCEPT !.revision = @ + 1]
  <2>1. events' = [events EXCEPT ![id] = new] /\ deleted' = deleted
    BY <1>6 DEF ChangeEventElsewhere
  <2>2. Bumped(events[id], new)
    BY DEF Bumped, ServerInv
  <2> HIDE DEF new
  <2>3. \A other \in DOMAIN events : Bumped(events[other], events'[other])
    BY <2>1, <2>2 DEF Bumped, ServerInv
  <2>4. DOMAIN events' = DOMAIN events
    BY <2>1
  <2> QED BY <1>1, <2>1, <2>3, <2>4, BumpedOnward
<1> QED BY <1>2, <1>4, <1>5, <1>6, <1>8 DEF Elsewhere

\* The actions by which the page changes without the server.
PageAlone ==
  \/ Prefill \/ PrefillFails
  \/ ChangeDate \/ ChangeSource \/ SelectPlan \/ Refetch
  \/ \E g \in Garments : \/ ToggleItem(g) \/ RemoveMissing(g)
                         \/ ConfirmUnavailable(g) \/ MarkForLaundry(g)
  \/ \E id \in Listed : SelectEdit(id)
  \/ CancelEdit \/ ReturnToForm \/ RetryList

Asking ==
  \/ ReloadEditing
  \/ \E id \in Listed : RemoveEvent(id)
  \/ \E confirmations \in Confirmations : SaveUpdate(confirmations) \/ SaveCreate(confirmations)

LEMMA Steps ==
  Next <=> \/ PageAlone \/ Asking \/ Handle \/ ReplyShown \/ ReplyFails
           \/ (\E o \in late : Arrive(o)) \/ Elsewhere
BY DEF Next, PageAlone, Asking

LEMMA PageAloneKeepsServer ==
  ASSUME PageAlone
  PROVE  UNCHANGED <<server, op, late>> /\ (budget' = budget \/ Disturbed)
<1> USE DEF bounds
<1>1. CASE Prefill \/ PrefillFails
  BY <1>1 DEF Prefill, PrefillFails
<1>2. CASE ChangeDate \/ ChangeSource \/ SelectPlan \/ Refetch
  BY <1>2 DEF ChangeDate, ChangeSource, SelectPlan, Refetch, ChangeForm
<1>3. ASSUME NEW g, ToggleItem(g) \/ RemoveMissing(g) \/ ConfirmUnavailable(g) \/ MarkForLaundry(g)
      PROVE  UNCHANGED <<server, op, late, budget>>
  BY <1>3 DEF ToggleItem, RemoveMissing, ConfirmUnavailable, MarkForLaundry, ChangeForm
<1>4. ASSUME NEW id, SelectEdit(id) PROVE UNCHANGED <<server, op, late, budget>>
  BY <1>4 DEF SelectEdit
<1>5. CASE CancelEdit \/ ReturnToForm \/ RetryList
  BY <1>5 DEF CancelEdit, ReturnToForm, RetryList
<1> QED BY <1>1, <1>2, <1>3, <1>4, <1>5 DEF PageAlone

LEMMA AskingKeepsServer ==
  ASSUME Asking
  PROVE  UNCHANGED <<server, loaded, late, budget, form, editing>>
<1>1. CASE ReloadEditing
  BY <1>1 DEF ReloadEditing
<1>2. ASSUME NEW id, RemoveEvent(id) PROVE UNCHANGED <<server, loaded, late, budget, form, editing>>
  BY <1>2 DEF RemoveEvent, draft
<1>3. ASSUME NEW c, SaveUpdate(c) \/ SaveCreate(c)
      PROVE  UNCHANGED <<server, loaded, late, budget, form, editing>>
  BY <1>3 DEF SaveUpdate, SaveCreate
<1> QED BY <1>1, <1>2, <1>3 DEF Asking

LEMMA ServerStep == ServerInv /\ [Next]_vars => ServerInv' /\ Onward
<1> SUFFICES ASSUME ServerInv, [Next]_vars PROVE ServerInv' /\ Onward
  OBVIOUS
<1> USE DEF server, bounds
<1>0. budget \in Nat /\ (Disturbed => budget' \in Nat)
  BY DEF ServerInv, Disturbed
<1>1. CASE PageAlone
  BY <1>0, <1>1, PageAloneKeepsServer, UnchangedOnward
<1>2. CASE Asking
  BY <1>0, <1>2, AskingKeepsServer, UnchangedOnward
<1>3. CASE Handle
  <2>1. CASE Accepted(op)
    BY <1>0, <1>3, <2>1, CarryOutOnward DEF Handle
  <2>2. CASE ~Accepted(op)
    BY <1>0, <1>3, <2>2, UnchangedOnward DEF Handle
  <2> QED BY <2>1, <2>2
<1>4. CASE ReplyShown
  BY <1>0, <1>4, UnchangedOnward DEF ReplyShown
<1>5. CASE ReplyFails
  BY <1>0, <1>5, UnchangedOnward DEF ReplyFails
<1>6. ASSUME NEW o, Arrive(o) PROVE ServerInv' /\ Onward
  <2>1. CASE Accepted(o)
    BY <1>0, <1>6, <2>1, CarryOutOnward DEF Arrive
  <2>2. CASE ~Accepted(o)
    BY <1>0, <1>6, <2>2, UnchangedOnward DEF Arrive
  <2> QED BY <2>1, <2>2
<1>7. CASE Elsewhere
  BY <1>7, ElsewhereOnward
<1>8. CASE UNCHANGED vars
  BY <1>0, <1>8, UnchangedOnward DEF vars
<1> QED BY <1>1, <1>2, <1>3, <1>4, <1>5, <1>6, <1>7, <1>8, Steps

-----------------------------------------------------------------------------
(* The plan: completed exactly while an event that counts is linked to it.  *)

Linked(rows) == \E id \in DOMAIN rows : rows[id].plan # None

PlanInv ==
  /\ ServerInv
  /\ plan # None => {"status", "revision"} \subseteq DOMAIN plan
  /\ PlanFollowsEvents

\* What a step may do to the plan: leave it and its links alone, or bring it in
\* line with its links, or cancel or delete it.
PlanStep ==
  \/ plan' = plan /\ (Linked(events') <=> Linked(events))
  \/ plan' = Recomputed(plan, events')
  \/ plan' = None
  \/ /\ plan # None /\ {"status", "revision"} \subseteq DOMAIN plan'
     /\ plan'.status \in {plan.status, "cancelled"}
     /\ Linked(events') <=> Linked(events)

LEMMA PlanStays ==
  ASSUME PlanInv, ServerInv', PlanStep
  PROVE  PlanInv'
<1>1. CASE plan' = plan /\ (Linked(events') <=> Linked(events))
  BY <1>1 DEF PlanInv, PlanFollowsEvents, Linked
<1>2. CASE plan' = Recomputed(plan, events')
  <2> DEFINE desired == IF Linked(events') THEN "completed" ELSE "active"
  <2>1. plan' = IF plan = None \/ plan.status = "cancelled" \/ plan.status = desired THEN plan
                ELSE [plan EXCEPT !.status = desired, !.revision = @ + 1]
    BY <1>2 DEF Recomputed, Linked
  <2>2. CASE plan = None \/ plan.status = "cancelled"
    BY <2>1, <2>2 DEF PlanInv, PlanFollowsEvents
  <2>3. CASE plan # None /\ plan.status # "cancelled" /\ plan.status = desired
    BY <2>1, <2>3 DEF PlanInv, PlanFollowsEvents, Linked
  <2>4. CASE plan # None /\ plan.status # "cancelled" /\ plan.status # desired
    <3>1. {"status", "revision"} \subseteq DOMAIN plan' /\ plan'.status = desired
      BY <2>1, <2>4 DEF PlanInv
    <3>2. desired = "completed" <=> Linked(events')
      OBVIOUS
    <3> HIDE DEF desired
    <3> QED BY <3>1, <3>2 DEF PlanInv, PlanFollowsEvents, Linked
  <2> QED BY <2>2, <2>3, <2>4
<1>3. CASE plan' = None
  BY <1>3 DEF PlanInv, PlanFollowsEvents
<1>4. CASE /\ plan # None /\ {"status", "revision"} \subseteq DOMAIN plan'
           /\ plan'.status \in {plan.status, "cancelled"}
           /\ Linked(events') <=> Linked(events)
  BY <1>4 DEF PlanInv, PlanFollowsEvents, Linked
<1> QED BY <1>1, <1>2, <1>3, <1>4 DEF PlanStep

LEMMA CarryOutPlan ==
  ASSUME ServerInv, NEW o, Accepted(o), CarryOut(o)
  PROVE  PlanStep
<1>1. CASE o.kind \in {"create", "update"} /\ ~Repeated(o)
  <2>1. events' = [id \in DOMAIN events \union {o.id} |->
                     IF id = o.id THEN Written(o) ELSE events[id]]
    BY <1>1 DEF CarryOut
  <2>2. plan' = IF o.fields.plan # None \/ (o.kind = "update" /\ events[o.id].plan # None)
                THEN Recomputed(plan, events') ELSE plan
    BY <1>1 DEF CarryOut
  <2>3. Written(o).plan = o.fields.plan
    BY WrittenRow
  <2>4. o.kind = "create" => o.id \notin DOMAIN events
    BY <1>1 DEF Repeated
  <2>5. CASE o.fields.plan # None \/ (o.kind = "update" /\ events[o.id].plan # None)
    BY <2>2, <2>5 DEF PlanStep
  <2>6. CASE o.fields.plan = None /\ (o.kind = "update" => events[o.id].plan = None)
    <3>1. \A id \in DOMAIN events : id = o.id => events[id].plan = None
      BY <1>1, <2>4, <2>6
    <3>2. Linked(events') <=> Linked(events)
      BY <2>1, <2>3, <2>6, <3>1 DEF Linked
    <3> QED BY <2>2, <2>6, <3>2 DEF PlanStep
  <2> QED BY <2>5, <2>6
<1>2. CASE o.kind = "delete"
  <2>1. /\ events' = [id \in DOMAIN events \ {o.id} |-> events[id]]
        /\ plan' = IF events[o.id].plan # None THEN Recomputed(plan, events') ELSE plan
    BY <1>2 DEF CarryOut, Restrict
  <2>2. events[o.id].plan = None => (Linked(events') <=> Linked(events))
    BY <2>1 DEF Linked
  <2> QED BY <2>1, <2>2 DEF PlanStep
<1>3. CASE o.kind # "delete" /\ ~(o.kind \in {"create", "update"} /\ ~Repeated(o))
  BY <1>3 DEF CarryOut, PlanStep
<1> QED BY <1>1, <1>2, <1>3

LEMMA ElsewherePlan ==
  ASSUME PlanInv, Elsewhere
  PROVE  PlanStep
<1>1. ASSUME NEW g, EditGarmentElsewhere(g) PROVE PlanStep
  BY <1>1 DEF EditGarmentElsewhere, PlanStep
<1>2. ASSUME NEW g, RedactSnapshots(g) PROVE PlanStep
  <2>1. events' = [id \in DOMAIN events |-> Cleared(events[id], g)] /\ plan' = Cleared(plan, g)
    BY <1>2 DEF RedactSnapshots
  <2>2. \A row : "plan" \in DOMAIN row => Cleared(row, g).plan = row.plan
    BY DEF Cleared
  <2>3. Linked(events') <=> Linked(events)
    BY <2>1, <2>2 DEF Linked, PlanInv, ServerInv
  <2>4. CASE plan = None
    BY <2>1, <2>4 DEF Cleared, PlanStep
  <2>5. CASE plan # None
    <3>1. {"status", "revision"} \subseteq DOMAIN plan' /\ plan'.status = plan.status
      BY <2>1, <2>5 DEF Cleared, PlanInv
    <3> QED BY <2>3, <2>5, <3>1 DEF PlanStep
  <2> QED BY <2>4, <2>5
<1>6. ASSUME NEW g, DeleteAffectedHistory(g) PROVE PlanStep
  <2> DEFINE affected == {id \in DOMAIN events : g \in DOMAIN events[id].items}
  <2>1. /\ events' = [id \in DOMAIN events \ affected |-> events[id]]
        /\ \/ plan' = None
           \/ plan' = Recomputed(plan, events')
           \/ plan' = plan /\ \A id \in affected : events[id].plan = None
    BY <1>6 DEF DeleteAffectedHistory, Restrict
  <2>2. (\A id \in affected : events[id].plan = None) => (Linked(events') <=> Linked(events))
    BY <2>1 DEF Linked
  <2> QED BY <2>1, <2>2 DEF PlanStep
<1>7. ASSUME NEW g, DeleteGarmentElsewhere(g) PROVE PlanStep
  BY <1>2, <1>6, <1>7 DEF DeleteGarmentElsewhere
<1>3. CASE EditPlanElsewhere
  <2>1. plan # None /\ events' = events
    BY <1>3 DEF EditPlanElsewhere
  <2>2. {"status", "revision"} \subseteq DOMAIN plan
    BY <2>1 DEF PlanInv
  <2>3. \/ \E items : plan' = [plan EXCEPT !.items = items, !.revision = @ + 1]
        \/ plan' = [plan EXCEPT !.status = "cancelled", !.revision = @ + 1]
    BY <1>3 DEF EditPlanElsewhere
  <2>4. {"status", "revision"} \subseteq DOMAIN plan' /\ plan'.status \in {plan.status, "cancelled"}
    BY <2>2, <2>3
  <2> QED BY <2>1, <2>4 DEF PlanStep
<1>4. CASE DeletePlanElsewhere
  BY <1>4 DEF DeletePlanElsewhere, PlanStep
<1>5. ASSUME NEW id \in DOMAIN events, ChangeEventElsewhere(id) PROVE PlanStep
  <2> DEFINE new == [events[id] EXCEPT !.revision = @ + 1]
  <2>1. events' = [events EXCEPT ![id] = new] /\ plan' = plan
    BY <1>5 DEF ChangeEventElsewhere
  <2>2. new.plan = events[id].plan
    BY DEF ServerInv, PlanInv
  <2> HIDE DEF new
  <2>3. Linked(events') <=> Linked(events)
    BY <2>1, <2>2 DEF Linked
  <2> QED BY <2>1, <2>3 DEF PlanStep
<1> QED BY <1>1, <1>3, <1>4, <1>5, <1>7 DEF Elsewhere

LEMMA PlanInvStep == PlanInv /\ [Next]_vars => PlanInv'
<1> SUFFICES ASSUME PlanInv, [Next]_vars PROVE PlanInv'
  OBVIOUS
<1>0. ServerInv /\ ServerInv'
  BY ServerStep DEF PlanInv
<1> SUFFICES PlanStep
  BY <1>0, PlanStays
<1>1. CASE UNCHANGED <<plan, events>>
  BY <1>1 DEF PlanStep
<1>2. CASE PageAlone \/ Asking \/ ReplyShown \/ ReplyFails
  BY <1>1, <1>2, PageAloneKeepsServer, AskingKeepsServer DEF ReplyShown, ReplyFails, server
<1>3. CASE Handle
  BY <1>0, <1>1, <1>3, CarryOutPlan DEF Handle, server
<1>4. ASSUME NEW o, Arrive(o) PROVE PlanStep
  BY <1>0, <1>1, <1>4, CarryOutPlan DEF Arrive, server
<1>5. CASE Elsewhere
  BY <1>5, ElsewherePlan
<1>6. CASE UNCHANGED vars
  BY <1>1, <1>6 DEF vars, server
<1> QED BY <1>2, <1>3, <1>4, <1>5, <1>6, Steps

LEMMA InitRecomputes ==
  ASSUME Init
  PROVE  \E row : /\ row = [items |-> [g \in FirstPage |-> 1], status |-> "active",
                            redacted |-> FALSE, revision |-> 1]
                  /\ row.status = "active" /\ {"status", "revision"} \subseteq DOMAIN row
                  /\ plan = Recomputed(row, events)
<1> DEFINE row == [items |-> [g \in FirstPage |-> 1], status |-> "active",
                   redacted |-> FALSE, revision |-> 1]
<1>1. plan = Recomputed(row, events)
  BY DEF Init
<1>2. row.status = "active" /\ {"status", "revision"} \subseteq DOMAIN row
  OBVIOUS
<1> QED BY <1>1, <1>2

LEMMA InitPlan == Init => PlanInv
<1> SUFFICES ASSUME Init PROVE PlanInv
  OBVIOUS
<1>1. ServerInv
  BY ServerInit
<1>2. PICK row : row.status = "active" /\ {"status", "revision"} \subseteq DOMAIN row
                 /\ plan = Recomputed(row, events)
  BY InitRecomputes
<1>3. plan = IF row = None \/ row.status = "cancelled"
                  \/ row.status = (IF Linked(events) THEN "completed" ELSE "active") THEN row
             ELSE [row EXCEPT !.status = IF Linked(events) THEN "completed" ELSE "active",
                              !.revision = @ + 1]
  BY <1>2 DEF Recomputed, Linked
<1>4. CASE Linked(events)
  BY <1>1, <1>2, <1>3, <1>4 DEF PlanInv, PlanFollowsEvents, Linked
<1>5. CASE ~Linked(events)
  BY <1>1, <1>2, <1>3, <1>5 DEF PlanInv, PlanFollowsEvents, Linked
<1> QED BY <1>4, <1>5

\* A plan is completed exactly while an event that counts is linked to it,
\* whatever any number of devices record, correct, delete or cancel, and
\* whenever it arrives.
THEOREM PlanFollowsEventsAlways == Spec => []PlanFollowsEvents
<1>1. Init => PlanInv
  BY InitPlan
<1>2. PlanInv => PlanFollowsEvents
  BY DEF PlanInv
<1> QED BY <1>1, <1>2, PlanInvStep, PTL DEF Spec

-----------------------------------------------------------------------------
(* The draft: every save of it is sent under the one id that is kept.       *)

OneID ==
  /\ nextID \in Nat
  /\ createID = None => tried = {}
  /\ createID # None => tried \subseteq {createID}

LEMMA OneIDStep == OneID /\ [Next]_vars => OneID'
<1> SUFFICES ASSUME OneID, [Next]_vars PROVE OneID'
  OBVIOUS
<1>0. CASE UNCHANGED <<createID, tried, nextID>>
  BY <1>0 DEF OneID
<1>1. CASE \/ Prefill \/ PrefillFails \/ ChangeDate \/ ChangeSource \/ SelectPlan \/ Refetch
           \/ ReturnToForm \/ RetryList \/ ReloadEditing \/ Handle \/ ReplyFails \/ Elsewhere
  BY <1>0, <1>1
     DEF Prefill, PrefillFails, ChangeDate, ChangeSource, SelectPlan, ChangeForm, Refetch,
         ReturnToForm, RetryList, ReloadEditing, Handle, ReplyFails, Elsewhere, draft
<1>2. ASSUME NEW g, ToggleItem(g) \/ RemoveMissing(g) \/ ConfirmUnavailable(g) \/ MarkForLaundry(g)
      PROVE  OneID'
  BY <1>0, <1>2 DEF ToggleItem, RemoveMissing, ConfirmUnavailable, MarkForLaundry, ChangeForm
<1>3. ASSUME NEW id, SelectEdit(id) \/ RemoveEvent(id) PROVE OneID'
  BY <1>0, <1>3 DEF SelectEdit, RemoveEvent, draft
<1>4. ASSUME NEW c, SaveUpdate(c) PROVE OneID'
  BY <1>0, <1>4 DEF SaveUpdate
<1>5. ASSUME NEW c, SaveCreate(c) PROVE OneID'
  <2>0. nextID' \in Nat
    BY <1>5 DEF SaveCreate, OneID
  <2>1. createID' = DraftID /\ tried' = tried \union {DraftID}
    BY <1>5 DEF SaveCreate
  <2>2. CASE createID = None
    <3>1. createID' = nextID /\ tried' = {nextID}
      BY <2>1, <2>2 DEF DraftID, OneID
    <3> QED BY <2>0, <3>1, NoneAssumption DEF OneID
  <2>3. CASE createID # None
    BY <2>0, <2>1, <2>3 DEF DraftID, OneID
  <2> QED BY <2>2, <2>3
<1>6. CASE CancelEdit
  BY <1>6 DEF CancelEdit, CloseEditor, OneID
<1>7. CASE ReplyShown
  BY <1>7 DEF ReplyShown, CloseEditor, OneID, draft
<1>8. ASSUME NEW o, Arrive(o) PROVE OneID'
  BY <1>0, <1>8 DEF Arrive, draft
<1>9. CASE UNCHANGED vars
  BY <1>0, <1>9 DEF vars, draft
<1> QED BY <1>1, <1>2, <1>3, <1>4, <1>5, <1>6, <1>7, <1>8, <1>9 DEF Next

\* However often an event is saved again, and whenever each attempt arrives, it
\* is counted once at most.
THEOREM OneEventPerDraftAlways == Spec => []OneEventPerDraft
<1>1. Init => OneID
  BY DEF Init, OneID
<1>2. OneID => OneEventPerDraft
  <2> SUFFICES ASSUME OneID PROVE OneEventPerDraft
    OBVIOUS
  <2> DEFINE stored == tried \intersect (DOMAIN events \union deleted)
  <2>1. stored \subseteq {createID}
    BY DEF OneID
  <2>2. IsFiniteSet({createID}) /\ Cardinality({createID}) = 1
    BY FS_Singleton
  <2>3. Cardinality(stored) <= 1
    BY <2>1, <2>2, FS_Subset
  <2> QED BY <2>3 DEF OneEventPerDraft
<1> QED BY <1>1, <1>2, OneIDStep, PTL DEF Spec

-----------------------------------------------------------------------------
(* Rows: every row of an event that the page holds, wherever it holds it, was  *)
(* that event at its revision, and is that event as long as the revision is.   *)

Known(rows, dead, id, row) ==
  /\ id \in DOMAIN rows \union dead
  /\ row.revision \in Nat
  /\ id \in DOMAIN rows => /\ row.revision <= rows[id].revision
                           /\ row.revision = rows[id].revision => row = rows[id]

KnownNow(id, row) == Known(events, deleted, id, row)

\* What a request in flight stands on.
IsRequest(o) ==
  /\ o # None
  /\ {"kind", "id", "base", "fields", "fate", "reply"} \subseteq DOMAIN o
  /\ o.kind # "create" => KnownNow(o.id, o.base)
  /\ prefill = "none" => CorrectsItsRow(o)

ListKnown    == \A id \in Listed : KnownNow(id, list[id])
EditingKnown ==
  /\ "from" \in DOMAIN form
  /\ editing # None => /\ KnownNow(editing.id, editing.row)
                       /\ prefill = "none" => form.from = editing.row
OpKnown ==
  op # None =>
    /\ IsRequest(op)
    /\ op.kind = "create" => editing = None
    /\ op.fate = "done" /\ op.kind \in {"update", "reload"} => KnownNow(op.id, op.reply)
LateKnown == \A o \in late : IsRequest(o)

PageInv == ListKnown /\ EditingKnown /\ OpKnown /\ LateKnown

\* How a step goes on; a page that was opened with a plan is one for good.
Ongoing == Onward /\ (prefill' = "none" => prefill = "none")

LEMMA OngoingStep == ServerInv /\ [Next]_vars => Ongoing
<1> SUFFICES ASSUME ServerInv, [Next]_vars PROVE prefill' = "none" => prefill = "none"
  BY ServerStep DEF Ongoing
<1>1. CASE PageAlone
  <2>1. CASE Prefill \/ PrefillFails
    BY <2>1 DEF Prefill, PrefillFails
  <2>2. CASE ChangeDate \/ ChangeSource \/ SelectPlan \/ Refetch
    BY <2>2 DEF ChangeDate, ChangeSource, SelectPlan, Refetch, ChangeForm, opened
  <2>3. ASSUME NEW g, ToggleItem(g) \/ RemoveMissing(g) \/ ConfirmUnavailable(g) \/ MarkForLaundry(g)
        PROVE  prefill' = prefill
    BY <2>3 DEF ToggleItem, RemoveMissing, ConfirmUnavailable, MarkForLaundry, ChangeForm, opened
  <2>4. ASSUME NEW id, SelectEdit(id) PROVE prefill' = prefill
    BY <2>4 DEF SelectEdit, opened
  <2>5. CASE CancelEdit \/ ReturnToForm \/ RetryList
    BY <2>5 DEF CancelEdit, ReturnToForm, RetryList, opened
  <2> QED BY <1>1, <2>1, <2>2, <2>3, <2>4, <2>5 DEF PageAlone
<1>2. CASE Asking
  BY <1>2 DEF Asking, ReloadEditing, RemoveEvent, SaveUpdate, SaveCreate, opened
<1>3. CASE Handle \/ ReplyShown \/ ReplyFails \/ Elsewhere
  BY <1>3 DEF Handle, ReplyShown, ReplyFails, Elsewhere, opened
<1>4. CASE (\E o \in late : Arrive(o)) \/ UNCHANGED vars
  BY <1>4 DEF Arrive, vars, opened
<1> QED BY <1>1, <1>2, <1>3, <1>4, Steps

\* A row the server has is known, and what is known stays known.
LEMMA StoredIsKnown ==
  ASSUME ServerInv
  PROVE  \A id \in DOMAIN events : KnownNow(id, events[id])
BY DEF ServerInv, KnownNow, Known

LEMMA KnownStays ==
  ASSUME ServerInv, ServerInv', Onward
  PROVE  \A id, row : Known(events, deleted, id, row) => Known(events', deleted', id, row)
<1> SUFFICES ASSUME NEW id, NEW row, Known(events, deleted, id, row)
             PROVE  Known(events', deleted', id, row)
  OBVIOUS
<1>1. id \in DOMAIN events' \union deleted' /\ row.revision \in Nat
  BY DEF Known, Onward
<1>2. ASSUME id \in DOMAIN events'
      PROVE  /\ row.revision <= events'[id].revision
             /\ row.revision = events'[id].revision => row = events'[id]
  <2>1. id \in DOMAIN events
    BY <1>2 DEF Onward, Known
  <2>2. events[id].revision \in Nat /\ row.revision <= events[id].revision
    BY <2>1 DEF ServerInv, Known
  <2>3. CASE events'[id] = events[id]
    BY <2>1, <2>3 DEF Known
  <2>4. CASE events'[id].revision = events[id].revision + 1
    BY <1>1, <2>2, <2>4
  <2> QED BY <1>2, <2>1, <2>3, <2>4 DEF Onward
<1> QED BY <1>1, <1>2 DEF Known

LEMMA RequestsStay ==
  ASSUME ServerInv, ServerInv', Ongoing
  PROVE  \A o : IsRequest(o) =>
           /\ o # None
           /\ {"kind", "id", "base", "fields", "fate", "reply"} \subseteq DOMAIN o
           /\ o.kind # "create" => Known(events', deleted', o.id, o.base)
           /\ prefill' = "none" => CorrectsItsRow(o)
BY KnownStays DEF IsRequest, KnownNow, Ongoing

\* The parts of the page that a step leaves alone.
LEMMA ListStays ==
  ASSUME ServerInv, ServerInv', Ongoing, ListKnown, list' = list
  PROVE  ListKnown'
BY KnownStays DEF ListKnown, Listed, KnownNow, Ongoing

LEMMA ListRead ==
  ASSUME ServerInv', list' \in {events', None}
  PROVE  ListKnown'
<1>1. \A id \in DOMAIN events' : Known(events', deleted', id, events'[id])
  BY DEF ServerInv, Known
<1> QED BY <1>1 DEF ListKnown, Listed, KnownNow

LEMMA EditingStays ==
  ASSUME ServerInv, ServerInv', Ongoing, EditingKnown, editing' = editing,
         "from" \in DOMAIN form',
         editing = None \/ prefill' # "none" \/ form'.from = form.from
  PROVE  EditingKnown'
BY KnownStays DEF EditingKnown, KnownNow, Ongoing

LEMMA OpStays ==
  ASSUME ServerInv, ServerInv', Ongoing, OpKnown, op' = op,
         op = None \/ editing' = editing
  PROVE  OpKnown'
BY KnownStays, RequestsStay DEF OpKnown, IsRequest, KnownNow, Ongoing

LEMMA LateStays ==
  ASSUME ServerInv, ServerInv', Ongoing, LateKnown, late' \subseteq late
  PROVE  LateKnown'
BY RequestsStay DEF LateKnown, IsRequest, KnownNow

\* A request that is sent stands on a row the page holds.
LEMMA OpSent ==
  ASSUME NEW kind, NEW id, NEW base, NEW fields, Ask(kind, id, base, fields),
         kind # "create" => Known(events', deleted', id, base),
         kind = "create" => editing' = None,
         kind = "update" /\ prefill' = "none" => fields.from = base
  PROVE  OpKnown'
<1>1. op' = [kind |-> kind, id |-> id, base |-> base, fields |-> fields,
             fate |-> "sent", reply |-> None]
  BY DEF Ask
<1>2. /\ {"kind", "id", "base", "fields", "fate", "reply"} \subseteq DOMAIN op'
      /\ op'.kind = kind /\ op'.id = id /\ op'.base = base /\ op'.fields = fields
      /\ op'.fate = "sent"
  BY <1>1
<1> QED BY <1>2 DEF OpKnown, IsRequest, KnownNow, CorrectsItsRow

\* The server's answer: the row it has by now.
LEMMA OpHandled ==
  ASSUME ServerInv, ServerInv', Ongoing, OpKnown, Handle
  PROVE  OpKnown'
<1>0. /\ op # None /\ IsRequest(op) /\ op.fate = "sent"
      /\ op.kind # "create" => Known(events', deleted', op.id, op.base)
      /\ prefill' = "none" => CorrectsItsRow(op)
      /\ op.kind = "create" => editing' = None
  BY RequestsStay DEF Handle, pending, OpKnown, draft
<1>1. CASE Accepted(op)
  <2> DEFINE answer == IF op.id \in DOMAIN events' THEN events'[op.id] ELSE None
  <2>1. op' = [op EXCEPT !.fate = "done", !.reply = answer]
    BY <1>1 DEF Handle
  <2>2. op.kind \in {"update", "reload"} => op.id \in DOMAIN events'
    <3>1. op.kind = "update" => op.id \in DOMAIN events'
      BY <1>1 DEF Accepted, Writes, Repeated, Handle, CarryOut
    <3>2. op.kind = "reload" => op.id \in DOMAIN events /\ events' = events
      BY <1>1 DEF Accepted, Writes, Repeated, Handle, CarryOut
    <3> QED BY <3>1, <3>2
  <2>3. op.kind \in {"update", "reload"} => Known(events', deleted', op.id, answer)
    BY <2>2 DEF ServerInv, Known
  <2> HIDE DEF answer
  <2>4. /\ DOMAIN op' = DOMAIN op
        /\ op'.kind = op.kind /\ op'.id = op.id /\ op'.base = op.base
        /\ op'.fields = op.fields /\ op'.reply = answer
    BY <1>0, <2>1 DEF IsRequest
  <2> QED BY <1>0, <2>3, <2>4 DEF OpKnown, IsRequest, KnownNow, CorrectsItsRow
<1>2. CASE ~Accepted(op)
  <2>1. op' = [op EXCEPT !.fate = "refused", !.reply = Candidates(op)]
    BY <1>2 DEF Handle
  <2>2. /\ DOMAIN op' = DOMAIN op
        /\ op'.kind = op.kind /\ op'.id = op.id /\ op'.base = op.base
        /\ op'.fields = op.fields /\ op'.fate = "refused"
    BY <1>0, <2>1 DEF IsRequest
  <2> QED BY <1>0, <2>2 DEF OpKnown, IsRequest, KnownNow, CorrectsItsRow
<1> QED BY <1>1, <1>2

LEMMA PageInit == Init => PageInv
<1> SUFFICES ASSUME Init PROVE PageInv
  OBVIOUS
<1>1. ServerInv
  BY ServerInit
<1>2. ListKnown
  BY <1>1, StoredIsKnown DEF Init, ListKnown, Listed
<1>3. EditingKnown
  BY DEF Init, EditingKnown, BlankForm, emptyWearForm
<1>4. OpKnown /\ LateKnown
  BY DEF Init, OpKnown, LateKnown
<1> QED BY <1>2, <1>3, <1>4 DEF PageInv

\* Beginning a correction, or ending it.
LEMMA EditingClosed ==
  ASSUME CloseEditor
  PROVE  EditingKnown'
BY DEF CloseEditor, EditingKnown, emptyWearForm

LEMMA EditingBegun ==
  ASSUME NEW id, NEW row, Known(events', deleted', id, row),
         editing' = [id |-> id, row |-> row], form' = wearFormFromResponse(row)
  PROVE  EditingKnown'
<1>1. "from" \in DOMAIN form' /\ form'.from = row
  BY DEF wearFormFromResponse, emptyWearForm
<1>2. editing'.id = id /\ editing'.row = row
  OBVIOUS
<1> QED BY <1>1, <1>2 DEF EditingKnown, KnownNow

LEMMA PageAfterAlone ==
  ASSUME ServerInv, ServerInv', Ongoing, PageInv, PageAlone
  PROVE  PageInv'
<1>1. op' = op /\ late' = late /\ events' = events
  BY PageAloneKeepsServer DEF server
<1>2. ListKnown'
  <2>1. list' = list \/ list' = events'
    <3>1. CASE Prefill \/ PrefillFails \/ ChangeDate \/ ChangeSource \/ SelectPlan \/ Refetch
      BY <3>1 DEF Prefill, PrefillFails, ChangeDate, ChangeSource, SelectPlan, ChangeForm, Refetch, loaded
    <3>2. ASSUME NEW g, ToggleItem(g) \/ RemoveMissing(g) \/ ConfirmUnavailable(g) \/ MarkForLaundry(g)
          PROVE  list' = list
      BY <3>2 DEF ToggleItem, RemoveMissing, ConfirmUnavailable, MarkForLaundry, ChangeForm, loaded
    <3>3. ASSUME NEW id, SelectEdit(id) PROVE list' = list
      BY <3>3 DEF SelectEdit, loaded
    <3>4. CASE CancelEdit \/ ReturnToForm \/ RetryList
      BY <3>4, <1>1 DEF CancelEdit, ReturnToForm, RetryList, loaded
    <3> QED BY <3>1, <3>2, <3>3, <3>4 DEF PageAlone
  <2> QED BY <2>1, ListStays, ListRead DEF PageInv
<1>3. EditingKnown'
  <2>0. "from" \in DOMAIN form
    BY DEF PageInv, EditingKnown
  <2>1. CASE Prefill
    <3>1. /\ editing' = editing /\ prefill' = "done"
          /\ form' = [emptyWearForm EXCEPT !.source = "followed_plan",
                                           !.plan = plan.revision, !.items = plan.items]
      BY <2>1 DEF Prefill
    <3>2. "from" \in DOMAIN form'
      BY <3>1 DEF emptyWearForm
    <3> QED BY <3>1, <3>2, EditingStays DEF PageInv
  <2>2. CASE PrefillFails
    <3>1. editing' = editing /\ form' = emptyWearForm /\ prefill' = "done"
      BY <2>2 DEF PrefillFails
    <3>2. "from" \in DOMAIN form'
      BY <3>1 DEF emptyWearForm
    <3> QED BY <3>1, <3>2, EditingStays DEF PageInv
  <2>3. CASE ChangeDate \/ ChangeSource
    <3>1. editing' = editing /\ "from" \in DOMAIN form' /\ form'.from = form.from
      BY <2>0, <2>3 DEF ChangeDate, ChangeSource, ChangeForm
    <3> QED BY <3>1, EditingStays DEF PageInv
  <2>4. CASE SelectPlan
    <3>1. editing' = editing /\ "from" \in DOMAIN form' /\ form'.from = form.from
      BY <2>0, <2>4 DEF SelectPlan, ChangeForm
    <3> QED BY <3>1, EditingStays DEF PageInv
  <2>5. CASE Refetch \/ ReturnToForm \/ RetryList
    <3>1. editing' = editing /\ form' = form
      BY <2>5 DEF Refetch, ReturnToForm, RetryList, draft
    <3> QED BY <2>0, <3>1, EditingStays DEF PageInv
  <2>6. ASSUME NEW g, ToggleItem(g) \/ RemoveMissing(g) PROVE EditingKnown'
    <3>1. editing' = editing /\ "from" \in DOMAIN form' /\ form'.from = form.from
      BY <2>0, <2>6 DEF ToggleItem, RemoveMissing, ChangeForm
    <3> QED BY <3>1, EditingStays DEF PageInv
  <2>7. ASSUME NEW g, ConfirmUnavailable(g) \/ MarkForLaundry(g) PROVE EditingKnown'
    <3>1. editing' = editing /\ "from" \in DOMAIN form' /\ form'.from = form.from
      BY <2>0, <2>7 DEF ConfirmUnavailable, MarkForLaundry, ChangeForm
    <3> QED BY <3>1, EditingStays DEF PageInv
  <2>8. ASSUME NEW id \in Listed, SelectEdit(id) PROVE EditingKnown'
    <3>1. editing' = [id |-> id, row |-> list[id]] /\ form' = wearFormFromResponse(list[id])
      BY <2>8 DEF SelectEdit, Row
    <3>2. Known(events', deleted', id, list[id])
      BY KnownStays DEF PageInv, ListKnown, KnownNow, Ongoing
    <3> QED BY <3>1, <3>2, EditingBegun
  <2>9. CASE CancelEdit
    BY <2>9, EditingClosed DEF CancelEdit
  <2> QED BY <2>1, <2>2, <2>3, <2>4, <2>5, <2>6, <2>7, <2>8, <2>9 DEF PageAlone
<1>4. op = None \/ editing' = editing
  <2>1. CASE Prefill \/ PrefillFails \/ ChangeDate \/ ChangeSource \/ SelectPlan \/ Refetch
    BY <2>1 DEF Prefill, PrefillFails, ChangeDate, ChangeSource, SelectPlan, ChangeForm, Refetch, draft
  <2>2. ASSUME NEW g, ToggleItem(g) \/ RemoveMissing(g) \/ ConfirmUnavailable(g) \/ MarkForLaundry(g)
        PROVE  editing' = editing
    BY <2>2 DEF ToggleItem, RemoveMissing, ConfirmUnavailable, MarkForLaundry, ChangeForm
  <2>3. ASSUME NEW id, SelectEdit(id) PROVE op = None
    BY <2>3 DEF SelectEdit, pending
  <2>4. CASE CancelEdit \/ ReturnToForm \/ RetryList
    BY <2>4 DEF CancelEdit, ReturnToForm, RetryList, draft, pending
  <2> QED BY <2>1, <2>2, <2>3, <2>4 DEF PageAlone
<1> QED BY <1>1, <1>2, <1>3, <1>4, OpStays, LateStays DEF PageInv

LEMMA PageAfterAsking ==
  ASSUME ServerInv, ServerInv', Ongoing, PageInv, Asking
  PROVE  PageInv'
<1>1. list' = list /\ editing' = editing /\ form' = form /\ late' = late
  BY AskingKeepsServer DEF loaded
<1>2. "from" \in DOMAIN form'
  BY <1>1 DEF PageInv, EditingKnown
<1>3. OpKnown'
  <2>1. editing # None => Known(events', deleted', editing.id, editing.row) 
                       /\ (prefill' = "none" => form.from = editing.row)
    BY KnownStays DEF PageInv, EditingKnown, KnownNow, Ongoing
  <2>2. ASSUME NEW c, SaveUpdate(c) PROVE OpKnown'
    <3>1. editing # None /\ Ask("update", editing.id, editing.row, Fields(form, c))
      BY <2>2 DEF SaveUpdate
    <3>2. Fields(form, c).from = form.from
      BY DEF Fields
    <3> QED BY <2>1, <3>1, <3>2, OpSent
  <2>3. ASSUME NEW c, SaveCreate(c) PROVE OpKnown'
    <3>1. Ask("create", DraftID, None, Fields(form, c)) /\ editing' = None
      BY <2>3 DEF SaveCreate
    <3> QED BY <3>1, OpSent
  <2>4. CASE ReloadEditing
    <3>1. editing # None /\ Ask("reload", editing.id, editing.row, None)
      BY <2>4 DEF ReloadEditing
    <3> QED BY <2>1, <3>1, OpSent
  <2>5. ASSUME NEW id \in Listed, RemoveEvent(id) PROVE OpKnown'
    <3>1. Known(events', deleted', id, list[id])
      BY KnownStays DEF PageInv, ListKnown, KnownNow, Ongoing
    <3>2. Ask("delete", id, list[id], None)
      BY <2>5 DEF RemoveEvent
    <3> QED BY <3>1, <3>2, OpSent
  <2> QED BY <2>2, <2>3, <2>4, <2>5 DEF Asking
<1> QED BY <1>1, <1>2, <1>3, ListStays, EditingStays, LateStays DEF PageInv

LEMMA PageAfterReply ==
  ASSUME ServerInv, ServerInv', Ongoing, PageInv, ReplyShown \/ ReplyFails
  PROVE  PageInv'
<1>1. op # None /\ IsRequest(op) /\ op' = None
  BY DEF ReplyShown, ReplyFails, Release, pending, PageInv, OpKnown
<1>2. OpKnown'
  BY <1>1 DEF OpKnown
<1>3. events' = events /\ deleted' = deleted
  BY DEF ReplyShown, ReplyFails, server
<1>4. ListKnown'
  <2>1. list' = list \/ list' \in {events', None}
    BY <1>3 DEF ReplyShown, ReplyFails, Refreshed
  <2> QED BY <2>1, ListStays, ListRead DEF PageInv
<1>5. LateKnown'
  <2>1. late' \subseteq late \union {op}
    BY DEF ReplyShown, ReplyFails
  <2>2. \A o \in late' : IsRequest(o)
    BY <1>1, <2>1 DEF PageInv, LateKnown
  <2> QED BY <2>2, RequestsStay DEF LateKnown, IsRequest, KnownNow
<1>6. EditingKnown'
  <2>1. CASE editing' = editing /\ form' = form
    <3>1. "from" \in DOMAIN form'
      BY <2>1 DEF PageInv, EditingKnown
    <3> QED BY <2>1, <3>1, EditingStays DEF PageInv
  <2>2. CASE ReplyShown /\ op.kind = "create"
    <3>1. editing' = editing /\ editing = None /\ form' = emptyWearForm
      BY <1>1, <2>2 DEF ReplyShown, Closes, PageInv, OpKnown
    <3>2. "from" \in DOMAIN form'
      BY <3>1 DEF emptyWearForm
    <3> QED BY <3>2, <2>2, <3>1, EditingStays DEF PageInv
  <2>3. CASE CloseEditor
    BY <2>3, EditingClosed
  <2>4. CASE ReplyShown /\ op.kind \in {"update", "reload"}
    <3>1. editing' = [id |-> op.id, row |-> op.reply] /\ form' = wearFormFromResponse(op.reply)
      BY <2>4 DEF ReplyShown, Closes
    <3>2. op.fate = "done"
      BY <2>4 DEF ReplyShown
    <3>3. KnownNow(op.id, op.reply)
      BY <1>1, <2>4, <3>2 DEF PageInv, OpKnown
    <3>4. Known(events', deleted', op.id, op.reply)
      BY <3>3, KnownStays DEF KnownNow, Ongoing
    <3> QED BY <3>1, <3>4, EditingBegun
  <2> QED BY <2>1, <2>2, <2>3, <2>4 DEF ReplyShown, ReplyFails, draft
<1> QED BY <1>2, <1>4, <1>5, <1>6 DEF PageInv

LEMMA PageUnchanged ==
  ASSUME ServerInv, ServerInv', Ongoing, PageInv,
         list' = list, editing' = editing, form' = form
  PROVE  ListKnown' /\ EditingKnown'
<1>1. "from" \in DOMAIN form'
  BY DEF PageInv, EditingKnown
<1> QED BY <1>1, ListStays, EditingStays DEF PageInv

Inv == ServerInv /\ PageInv

LEMMA InvStep == Inv /\ [Next]_vars => Inv'
<1> SUFFICES ASSUME ServerInv, PageInv, [Next]_vars PROVE Inv'
  BY DEF Inv
<1>0. ServerInv' /\ Ongoing
  BY ServerStep, OngoingStep
<1> SUFFICES PageInv'
  BY <1>0 DEF Inv
<1>1. CASE PageAlone
  BY <1>0, <1>1, PageAfterAlone
<1>2. CASE Asking
  BY <1>0, <1>2, PageAfterAsking
<1>3. CASE Handle
  <2>1. list' = list /\ editing' = editing /\ form' = form /\ late' = late
    BY <1>3 DEF Handle, draft, loaded
  <2>2. OpKnown'
    BY <1>0, <1>3, OpHandled DEF PageInv
  <2> QED BY <1>0, <2>1, <2>2, PageUnchanged, LateStays DEF PageInv
<1>4. CASE ReplyShown \/ ReplyFails
  BY <1>0, <1>4, PageAfterReply
<1>5. CASE Elsewhere \/ (\E o \in late : Arrive(o)) \/ UNCHANGED vars
  <2>1. list' = list /\ editing' = editing /\ form' = form /\ op' = op /\ late' \subseteq late
    BY <1>5 DEF Elsewhere, Arrive, vars, draft, loaded
  <2> QED BY <1>0, <2>1, PageUnchanged, OpStays, LateStays DEF PageInv
<1> QED BY <1>1, <1>2, <1>3, <1>4, <1>5, Steps

-----------------------------------------------------------------------------
(* No change is overwritten unseen.                                         *)

\* What a request does, it does to the row it stands on.
LEMMA CarryOutIsSeen ==
  ASSUME ServerInv, NEW o, IsRequest(o), Accepted(o), CarryOut(o),
         NEW id \in DOMAIN events, ~(id \in DOMAIN events' /\ events'[id] = events[id])
  PROVE  /\ o.id = id /\ o.base = events[id]
         /\ prefill = "none" => CorrectsItsRow(o)
<1>1. CASE o.kind \in {"create", "update"} /\ ~Repeated(o)
  <2>1. events' = [e \in DOMAIN events \union {o.id} |->
                     IF e = o.id THEN Written(o) ELSE events[e]]
    BY <1>1 DEF CarryOut
  <2>2. o.id = id
    BY <2>1
  <2>3. o.kind = "update" /\ events[id].revision = o.base.revision
    BY <1>1, <2>2 DEF Accepted, Writes
  <2>4. Known(events, deleted, id, o.base)
    BY <2>2, <2>3 DEF IsRequest, KnownNow
  <2>5. o.base = events[id]
    BY <2>3, <2>4 DEF Known
  <2> QED BY <2>2, <2>5 DEF IsRequest
<1>2. CASE o.kind = "delete"
  <2>1. events' = [e \in DOMAIN events \ {o.id} |-> events[e]]
    BY <1>2 DEF CarryOut, Restrict
  <2>2. o.id = id
    BY <2>1
  <2>3. events[id].revision = o.base.revision
    BY <1>2, <2>2 DEF Accepted, Writes, Repeated
  <2>4. Known(events, deleted, id, o.base)
    BY <1>2, <2>2 DEF IsRequest, KnownNow
  <2>5. o.base = events[id]
    BY <2>3, <2>4 DEF Known
  <2> QED BY <1>2, <2>2, <2>5 DEF CorrectsItsRow
<1>3. CASE o.kind # "delete" /\ ~(o.kind \in {"create", "update"} /\ ~Repeated(o))
  BY <1>3 DEF CarryOut
<1> QED BY <1>1, <1>2, <1>3

LEMMA StepIsSeen == Inv /\ [Next]_vars => [EveryChangeIsSeen]_vars
<1> SUFFICES ASSUME ServerInv, PageInv, Next PROVE EveryChangeIsSeen
  BY DEF Inv
<1>1. CASE events' = events
  BY <1>1 DEF EveryChangeIsSeen
<1>2. CASE PageAlone \/ Asking \/ ReplyShown \/ ReplyFails
  BY <1>1, <1>2, PageAloneKeepsServer, AskingKeepsServer DEF ReplyShown, ReplyFails, server
<1>3. CASE Elsewhere
  <2>1. budget' # budget /\ op' = op
    BY <1>3 DEF Elsewhere, Disturbed, ServerInv
  <2> QED BY <2>1 DEF EveryChangeIsSeen
<1>4. CASE Handle
  <2>1. CASE ~Accepted(op)
    BY <1>1, <1>4, <2>1 DEF Handle, server
  <2>2. CASE Accepted(op)
    <3>1. op # None /\ IsRequest(op) /\ CarryOut(op)
      BY <1>4, <2>2 DEF Handle, pending, PageInv, OpKnown
    <3>2. \A id \in DOMAIN events :
            \/ id \in DOMAIN events' /\ events'[id] = events[id]
            \/ /\ op.id = id /\ op.base = events[id]
               /\ prefill = "none" => CorrectsItsRow(op)
      BY <2>2, <3>1, CarryOutIsSeen
    <3> QED BY <3>1, <3>2 DEF EveryChangeIsSeen
  <2> QED BY <2>1, <2>2
<1>5. ASSUME NEW o \in late, Arrive(o) PROVE EveryChangeIsSeen
  <2>1. CASE ~Accepted(o)
    BY <1>1, <1>5, <2>1 DEF Arrive, server
  <2>2. CASE Accepted(o)
    <3>1. o # None /\ IsRequest(o) /\ CarryOut(o)
      BY <1>5, <2>2 DEF Arrive, PageInv, LateKnown, IsRequest
    <3>2. \A id \in DOMAIN events :
            \/ id \in DOMAIN events' /\ events'[id] = events[id]
            \/ /\ o.id = id /\ o.base = events[id]
               /\ prefill = "none" => CorrectsItsRow(o)
      BY <2>2, <3>1, CarryOutIsSeen
    <3> QED BY <3>1, <3>2 DEF EveryChangeIsSeen
  <2> QED BY <2>1, <2>2
<1> QED BY <1>2, <1>3, <1>4, <1>5, Steps

\* A correction made elsewhere is never overwritten unseen, however many
\* events, devices, lost replies and late requests there are: the revision a
\* request carries names the very row the owner had before their eyes, and where
\* no plan was read for the form, the row the form was filled from.
THEOREM NothingIsOverwrittenUnseenAlways == Spec => NothingIsOverwrittenUnseen
<1>1. Init => Inv
  BY ServerInit, PageInit DEF Inv
<1> QED BY <1>1, InvStep, StepIsSeen, PTL DEF Spec, NothingIsOverwrittenUnseen

-----------------------------------------------------------------------------
(* What is confirmed is what was reported: the form cannot change while the  *)
(* report is up, nor between the request and its refusal, on a page that was *)
(* not opened with a plan.  When the plan such a page was to be opened with  *)
(* cannot be read, the form is emptied under the report; it cannot be saved. *)

Reported(content, f) == Selected(f) = {} \/ content = Content(f)

ConfirmInv ==
  linked = None =>
    /\ duplicate # None => Reported(duplicate.for, form)
    /\ op # None =>
         /\ op.kind # "delete" => duplicate = None
         /\ op.kind \in {"create", "update"} => Reported(Content(op.fields), form)
         /\ op.fate = "refused" /\ op.reply # {} => op.kind \in {"create", "update"}

LEMMA EmptyFormSelects == Selected(emptyWearForm) = {}
BY DEF Selected, emptyWearForm

LEMMA ConfirmAfterAlone ==
  ASSUME ConfirmInv, PageAlone
  PROVE  ConfirmInv'
<1> SUFFICES ASSUME linked' = None PROVE ConfirmInv'
  BY DEF ConfirmInv
<1>0. op' = op
  BY PageAloneKeepsServer
<1>1. CASE Prefill
  BY <1>1 DEF Prefill
<1>2. CASE PrefillFails
  <2>1. form' = emptyWearForm /\ duplicate' = duplicate /\ linked' = linked
    BY <1>2 DEF PrefillFails
  <2> QED BY <1>0, <2>1, EmptyFormSelects DEF ConfirmInv, Reported
<1>3. CASE ChangeDate \/ ChangeSource \/ SelectPlan
  <2>1. op = None /\ duplicate' = None
    BY <1>3 DEF ChangeDate, ChangeSource, SelectPlan, ChangeForm, pending
  <2> QED BY <1>0, <2>1 DEF ConfirmInv
<1>4. ASSUME NEW g, ToggleItem(g) \/ RemoveMissing(g) \/ ConfirmUnavailable(g) \/ MarkForLaundry(g)
      PROVE  ConfirmInv'
  <2>1. op = None /\ duplicate' = None
    BY <1>4 DEF ToggleItem, RemoveMissing, ConfirmUnavailable, MarkForLaundry, ChangeForm, pending
  <2> QED BY <1>0, <2>1 DEF ConfirmInv
<1>5. ASSUME NEW id, SelectEdit(id) PROVE ConfirmInv'
  <2>1. op = None /\ duplicate' = None
    BY <1>5 DEF SelectEdit, pending
  <2> QED BY <1>0, <2>1 DEF ConfirmInv
<1>6. CASE CancelEdit \/ ReturnToForm
  <2>1. op = None /\ duplicate' = None
    BY <1>6 DEF CancelEdit, CloseEditor, ReturnToForm, pending
  <2> QED BY <1>0, <2>1 DEF ConfirmInv
<1>7. CASE Refetch \/ RetryList
  <2>1. UNCHANGED <<form, duplicate, linked>>
    BY <1>7 DEF Refetch, RetryList, draft, opened
  <2> QED BY <1>0, <2>1 DEF ConfirmInv
<1> QED BY <1>1, <1>2, <1>3, <1>4, <1>5, <1>6, <1>7 DEF PageAlone

LEMMA FieldsContent == \A c : Content(Fields(form, c)) = Content(form)
BY DEF Content, Fields

LEMMA ConfirmAfterAsking ==
  ASSUME ConfirmInv, Asking
  PROVE  ConfirmInv'
<1>1. ASSUME NEW c, SaveUpdate(c) \/ SaveCreate(c) PROVE ConfirmInv'
  <2>1. duplicate' = None /\ form' = form /\ linked' = linked
    BY <1>1 DEF SaveUpdate, SaveCreate, opened
  <2>2. op'.kind \in {"create", "update"} /\ op'.fields = Fields(form, c) /\ op'.fate = "sent"
    BY <1>1 DEF SaveUpdate, SaveCreate, Ask
  <2> QED BY <2>1, <2>2, FieldsContent DEF ConfirmInv, Reported
<1>2. CASE ReloadEditing
  <2>1. duplicate' = None /\ op'.kind = "reload" /\ op'.fate = "sent"
    BY <1>2 DEF ReloadEditing, Ask
  <2> QED BY <2>1 DEF ConfirmInv
<1>3. ASSUME NEW id, RemoveEvent(id) PROVE ConfirmInv'
  <2>1. UNCHANGED <<form, duplicate, linked>> /\ op'.kind = "delete" /\ op'.fate = "sent"
    BY <1>3 DEF RemoveEvent, Ask, draft, opened
  <2> QED BY <2>1 DEF ConfirmInv
<1> QED BY <1>1, <1>2, <1>3 DEF Asking

LEMMA ConfirmAfterReply ==
  ASSUME ConfirmInv, ReplyShown \/ ReplyFails
  PROVE  ConfirmInv'
<1>1. op # None /\ op' = None /\ linked' = linked
  BY DEF ReplyShown, ReplyFails, Release, pending, opened
<1>2. CASE ReplyFails
  <2>1. form' = form
    BY <1>2 DEF ReplyFails
  <2>2. duplicate' # None => op.fate = "refused" /\ op.reply # {}
    BY <1>2 DEF ReplyFails
  <2>3. duplicate' # None => duplicate'.for = Content(op.fields)
    BY <1>2, <2>2 DEF ReplyFails
  <2> QED BY <1>1, <2>1, <2>2, <2>3 DEF ConfirmInv
<1>3. CASE ReplyShown
  <2>1. CASE op.kind \in {"update", "reload"}
    <3>1. duplicate' = duplicate
      BY <1>3, <2>1 DEF ReplyShown, Closes
    <3> QED BY <1>1, <2>1, <3>1 DEF ConfirmInv
  <2>2. CASE op.kind = "create"
    <3>1. duplicate' = duplicate
      BY <1>3, <2>2 DEF ReplyShown, Closes
    <3> QED BY <1>1, <2>2, <3>1 DEF ConfirmInv
  <2>3. CASE CloseEditor
    BY <1>1, <2>3 DEF CloseEditor, ConfirmInv
  <2>4. CASE UNCHANGED draft
    BY <1>1, <2>4 DEF draft, ConfirmInv
  <2> QED BY <1>3, <2>1, <2>2, <2>3, <2>4 DEF ReplyShown
<1> QED BY <1>2, <1>3

LEMMA ConfirmAfterHandling ==
  ASSUME Inv, ConfirmInv, Handle
  PROVE  ConfirmInv'
<1>0. /\ op # None /\ UNCHANGED <<form, duplicate, linked>>
      /\ {"kind", "id", "base", "fields", "fate", "reply"} \subseteq DOMAIN op
  BY DEF Handle, pending, draft, opened, Inv, PageInv, OpKnown, IsRequest
<1>1. CASE Accepted(op)
  <2> DEFINE answer == IF op.id \in DOMAIN events' THEN events'[op.id] ELSE None
  <2>1. op' = [op EXCEPT !.fate = "done", !.reply = answer]
    BY <1>1 DEF Handle
  <2> HIDE DEF answer
  <2>2. op'.kind = op.kind /\ op'.fields = op.fields /\ op'.fate = "done"
    BY <1>0, <2>1
  <2> QED BY <1>0, <2>2 DEF ConfirmInv
<1>2. CASE ~Accepted(op)
  <2>1. op' = [op EXCEPT !.fate = "refused", !.reply = Candidates(op)]
    BY <1>2 DEF Handle
  <2>2. op'.kind = op.kind /\ op'.fields = op.fields /\ op'.reply = Candidates(op)
    BY <1>0, <2>1
  <2>3. Candidates(op) # {} => op.kind \in {"create", "update"}
    BY DEF Candidates, Writes
  <2> QED BY <1>0, <2>2, <2>3 DEF ConfirmInv
<1> QED BY <1>1, <1>2

LEMMA ConfirmStep == Inv /\ ConfirmInv /\ [Next]_vars => ConfirmInv'
<1> SUFFICES ASSUME Inv, ConfirmInv, [Next]_vars PROVE ConfirmInv'
  OBVIOUS
<1>1. CASE UNCHANGED <<form, duplicate, linked, op>>
  BY <1>1 DEF ConfirmInv
<1>2. CASE Elsewhere \/ (\E o \in late : Arrive(o)) \/ UNCHANGED vars
  BY <1>1, <1>2 DEF Elsewhere, Arrive, vars, draft, opened
<1> QED BY <1>2, ConfirmAfterAlone, ConfirmAfterAsking, ConfirmAfterReply, ConfirmAfterHandling, Steps

\* What the owner confirms as similar they confirm for the content it was
\* reported for, whatever is refused, lost or answered late.
THEOREM ConfirmsWhatWasReportedAlways == Spec => ConfirmsWhatWasReported
<1> DEFINE A == ~pending /\ pending' /\ linked = None /\ Confirms(op')
                  => duplicate.for = Content(op'.fields)
           I == Inv /\ ConfirmInv
<1>1. Init => I
  <2>1. Init => Inv
    BY ServerInit, PageInit DEF Inv
  <2>2. Init => ConfirmInv
    BY DEF Init, ConfirmInv
  <2> QED BY <2>1, <2>2
<1>2. I /\ [Next]_vars => I'
  BY InvStep, ConfirmStep
<1>3. I /\ [Next]_vars => [A]_vars
  <2> SUFFICES ASSUME ConfirmInv, Next, ~pending, pending', linked = None, Confirms(op')
               PROVE  duplicate.for = Content(op'.fields)
    OBVIOUS
  <2>0. op = None /\ op' # None
    BY DEF pending
  <2>1. Asking
    BY <2>0, Steps, PageAloneKeepsServer
       DEF Handle, ReplyShown, ReplyFails, Arrive, Elsewhere, pending
  <2>2. PICK c \in Confirmations : SaveUpdate(c) \/ SaveCreate(c)
    <3>1. ReloadEditing => op'.kind = "reload"
      BY DEF ReloadEditing, Ask
    <3>2. \A id : RemoveEvent(id) => op'.kind = "delete"
      BY DEF RemoveEvent, Ask
    <3> QED BY <2>1, <3>1, <3>2 DEF Asking, Confirms
  <2>3. op'.fields = Fields(form, c) /\ Selected(form) # {}
    BY <2>2 DEF SaveUpdate, SaveCreate, Ask, Valid, wearFormError
  <2>4. c # {}
    BY <2>3 DEF Confirms, Fields
  <2>5. duplicate # None
    BY <2>4 DEF Confirmations
  <2>6. duplicate.for = Content(form)
    BY <2>3, <2>5 DEF ConfirmInv, Reported
  <2> QED BY <2>3, <2>6, FieldsContent
<1> QED BY <1>1, <1>2, <1>3, PTL DEF Spec, ConfirmsWhatWasReported

-----------------------------------------------------------------------------
(* Plan and events: while an event counts for the plan, the plan's garments  *)
(* are those it had at the revision the event names, unless they were        *)
(* cleared; every row of the plan that is shown was the plan.                *)

PlanFieldNames  == {"items", "status", "redacted", "revision"}
EventFieldNames == {"plan", "source", "items", "redacted", "revision", "compared"}

Past(row, entries) ==
  /\ PlanFieldNames \subseteq DOMAIN row /\ row.revision \in Nat
  /\ <<row.revision, DOMAIN row.items>> \in entries

\* The garments of a plan row are those of every revision an event names.
Agrees(row, rows, entries) ==
  row # None /\ ~row.redacted =>
    \A id \in DOMAIN rows :
      rows[id].plan # None => <<rows[id].plan, DOMAIN row.items>> \in entries

EntriesInv ==
  \A r, worn : <<r, worn>> \in planned => r \in Nat /\ (plan # None => r <= plan.revision)
PlanPast   == plan # None => Past(plan, planned)
ShownPast  == plansShown # None => Past(plansShown, planned)
EventRows  == \A id \in DOMAIN events : EventFieldNames \subseteq DOMAIN events[id]

HistoryInv == EntriesInv /\ PlanPast /\ ShownPast /\ EventRows /\ Agrees(plan, events, planned)

\* What is remembered stays, a deleted plan stays deleted, and a plan gets later.
Moves ==
  /\ planned \subseteq planned' /\ (plan = None => plan' = None)
  /\ plan # None /\ plan' # None => plan'.revision \in Nat /\ plan.revision <= plan'.revision

LEMMA PlanReplaced ==
  ASSUME EntriesInv, PlanPast, Remembered(plan'),
         plan = None => plan' = None,
         plan' # None => plan' = plan \/ ( /\ PlanFieldNames \subseteq DOMAIN plan'
                                           /\ plan'.revision = plan.revision + 1 )
  PROVE  EntriesInv' /\ PlanPast' /\ Moves
<1>1. Moves
  <2>1. plan # None /\ plan' # None => plan'.revision \in Nat /\ plan.revision <= plan'.revision
    BY DEF PlanPast, Past
  <2> QED BY <2>1 DEF Remembered, Moves
<1>2. CASE plan' = None
  <2>1. planned' = planned
    BY <1>2 DEF Remembered
  <2> QED BY <1>1, <1>2, <2>1 DEF EntriesInv, PlanPast
<1>3. CASE plan' # None /\ plan' = plan
  <2>1. planned' = planned
    BY <1>3 DEF Remembered, PlanPast, Past
  <2> QED BY <1>1, <1>3, <2>1 DEF EntriesInv, PlanPast, Past
<1>4. CASE plan' # None /\ plan' # plan
  <2>1. planned' = planned \union {<<plan'.revision, DOMAIN plan'.items>>}
    BY <1>4 DEF Remembered
  <2>2. plan # None /\ plan.revision \in Nat /\ plan'.revision = plan.revision + 1
    BY <1>4 DEF PlanPast, Past
  <2>3. \A r, worn : <<r, worn>> \in planned' => r \in Nat /\ r <= plan'.revision
    <3> SUFFICES ASSUME NEW r, NEW worn, <<r, worn>> \in planned'
                 PROVE  r \in Nat /\ r <= plan'.revision
      OBVIOUS
    <3>1. CASE <<r, worn>> \in planned
      BY <2>2, <3>1 DEF EntriesInv
    <3>2. CASE r = plan'.revision
      BY <2>2, <3>2
    <3> QED BY <2>1, <3>1, <3>2
  <2> QED BY <1>1, <1>4, <2>1, <2>2, <2>3 DEF EntriesInv, PlanPast, Past
<1> QED BY <1>2, <1>3, <1>4

LEMMA RecomputedPlan ==
  ASSUME PlanPast, NEW rows
  PROVE  LET new == Recomputed(plan, rows)
         IN  /\ plan = None => new = None
             /\ plan # None =>
                  /\ new.items = plan.items /\ new.redacted = plan.redacted
                  /\ new = plan \/ ( /\ PlanFieldNames \subseteq DOMAIN new
                                     /\ new.revision = plan.revision + 1 )
<1> DEFINE desired == IF \E id \in DOMAIN rows : rows[id].plan # None
                      THEN "completed" ELSE "active"
           new     == Recomputed(plan, rows)
<1>1. new = IF plan = None \/ plan.status = "cancelled" \/ plan.status = desired THEN plan
            ELSE [plan EXCEPT !.status = desired, !.revision = @ + 1]
  BY DEF Recomputed
<1>2. plan # None => PlanFieldNames \subseteq DOMAIN plan
  BY DEF PlanPast, Past
<1> HIDE DEF desired, new
<1>3. plan = None => new = None
  BY <1>1
<1>4. CASE plan # None /\ new = plan
  BY <1>3, <1>4 DEF new
<1>5. CASE plan # None /\ new = [plan EXCEPT !.status = desired, !.revision = @ + 1]
  <2>1. /\ new.items = plan.items /\ new.redacted = plan.redacted
        /\ PlanFieldNames \subseteq DOMAIN new /\ new.revision = plan.revision + 1
    BY <1>2, <1>5 DEF PlanFieldNames
  <2> QED BY <1>3, <1>5, <2>1 DEF new
<1> QED BY <1>1, <1>3, <1>4, <1>5 DEF new

LEMMA WrittenFields ==
  ASSUME NEW o
  PROVE  /\ EventFieldNames \subseteq DOMAIN Written(o)
         /\ Written(o).plan = o.fields.plan /\ Written(o).source = o.fields.source
         /\ Written(o).items = o.fields.items /\ Written(o).redacted = FALSE
         /\ Written(o).compared = o.fields.compared
<1> DEFINE new == NewEvent(o.fields)
           old == events[o.id].revision + 1
           print == events[o.id].print
<1>1. /\ EventFieldNames \subseteq DOMAIN new
      /\ new.plan = o.fields.plan /\ new.source = o.fields.source
      /\ new.items = o.fields.items /\ new.redacted = FALSE
      /\ new.compared = o.fields.compared
  BY DEF NewEvent, EventFieldNames
<1>2. Written(o) = IF o.kind = "create" THEN new
                   ELSE [new EXCEPT !.print = print, !.revision = old]
  BY DEF Written
<1> HIDE DEF new, old, print
<1> QED BY <1>1, <1>2 DEF EventFieldNames

\* A request that writes: the one row it leaves, and the plan's answer to it.
RowStored(o) ==
  /\ o.kind \in {"create", "update"} /\ ~Repeated(o)
  /\ Writes(o) /\ PlanAccepted(OldRow(o), o.fields)
  /\ events' = [id \in DOMAIN events \union {o.id} |->
                  IF id = o.id THEN Written(o) ELSE events[id]]

\* A request that writes none.
RowsDropped == DOMAIN events' \subseteq DOMAIN events /\ \A id \in DOMAIN events' : events'[id] = events[id]

LEMMA CarriedOut ==
  ASSUME HistoryInv, NEW o, Accepted(o), CarryOut(o)
  PROVE  /\ RowStored(o) \/ RowsDropped
         /\ Remembered(plan')
         /\ plan = None => plan' = None
         /\ plan # None =>
              /\ plan'.items = plan.items /\ plan'.redacted = plan.redacted
              /\ plan' = plan \/ ( /\ PlanFieldNames \subseteq DOMAIN plan'
                                   /\ plan'.revision = plan.revision + 1 )
<1>1. plan' \in {plan, Recomputed(plan, events')} /\ Remembered(plan')
  BY DEF CarryOut
<1>2. RowStored(o) \/ RowsDropped
  <2>1. CASE o.kind \in {"create", "update"} /\ ~Repeated(o)
    <3>1. Writes(o) /\ PlanAccepted(OldRow(o), o.fields)
      BY <2>1 DEF Accepted
    <3> QED BY <2>1, <3>1 DEF CarryOut, RowStored
  <2>2. CASE o.kind = "delete"
    BY <2>2 DEF CarryOut, Restrict, RowsDropped
  <2>3. CASE o.kind # "delete" /\ ~(o.kind \in {"create", "update"} /\ ~Repeated(o))
    BY <2>3 DEF CarryOut, RowsDropped
  <2> QED BY <2>1, <2>2, <2>3
<1>3. PlanPast
  BY DEF HistoryInv
<1> QED BY <1>1, <1>2, <1>3, RecomputedPlan

LEMMA HistoryCarried ==
  ASSUME HistoryInv, NEW o, Accepted(o), CarryOut(o), plansShown' = plansShown
  PROVE  HistoryInv' /\ Moves
<1>1. EntriesInv' /\ PlanPast' /\ Moves
  BY CarriedOut, PlanReplaced DEF HistoryInv
<1>2. ShownPast'
  BY <1>1 DEF HistoryInv, ShownPast, Past, Moves
<1>3. EventRows'
  BY CarriedOut, WrittenFields DEF HistoryInv, EventRows, RowStored, RowsDropped
<1>4. Agrees(plan', events', planned')
  <2> SUFFICES ASSUME plan' # None, ~plan'.redacted, NEW id \in DOMAIN events',
                      events'[id].plan # None
               PROVE  <<events'[id].plan, DOMAIN plan'.items>> \in planned
    BY <1>1 DEF Agrees, Moves
  <2>1. plan # None /\ plan'.items = plan.items /\ ~plan.redacted
    BY CarriedOut
  <2>2. \A e \in DOMAIN events : events[e].plan # None =>
          <<events[e].plan, DOMAIN plan'.items>> \in planned
    BY <2>1 DEF HistoryInv, Agrees
  <2>3. CASE id \in DOMAIN events /\ events'[id] = events[id]
    BY <2>2, <2>3
  <2>4. CASE RowStored(o) /\ id = o.id
    <3>1. events'[id].plan = o.fields.plan
      BY <2>4, WrittenFields DEF RowStored
    <3>2. \/ plan.revision = o.fields.plan
          \/ OldRow(o) # None /\ OldRow(o).plan = o.fields.plan
      BY <2>4, <3>1 DEF RowStored, PlanAccepted
    <3>3. CASE plan.revision = o.fields.plan
      BY <2>1, <3>1, <3>3 DEF HistoryInv, PlanPast, Past
    <3>4. CASE OldRow(o) # None /\ OldRow(o).plan = o.fields.plan
      <4>1. o.id \in DOMAIN events /\ events[o.id].plan = o.fields.plan
        BY <2>4, <3>4 DEF RowStored, Writes, OldRow
      <4> QED BY <2>2, <3>1, <4>1
    <3> QED BY <3>2, <3>3, <3>4
  <2> QED BY <2>3, <2>4, CarriedOut DEF RowStored, RowsDropped
<1> QED BY <1>1, <1>2, <1>3, <1>4 DEF HistoryInv

LEMMA ClearedRow ==
  ASSUME NEW row, NEW g, {"items", "redacted", "revision"} \subseteq DOMAIN row
  PROVE  \/ Cleared(row, g) = row
         \/ /\ DOMAIN Cleared(row, g) = DOMAIN row
            /\ Cleared(row, g).redacted = TRUE
            /\ Cleared(row, g).revision = row.revision + 1
            /\ \A field \in {"plan", "source", "status", "compared"} \intersect DOMAIN row :
                 Cleared(row, g)[field] = row[field]
BY DEF Cleared

\* How a step elsewhere may change the rows of the events.
Loosened(row, new) ==
  /\ EventFieldNames \subseteq DOMAIN new
  /\ \/ new.plan = None /\ new.source = "unplanned"
     \/ /\ new.plan = row.plan /\ new.source = row.source /\ new.compared = row.compared
        /\ new.redacted = TRUE \/ (new.redacted = row.redacted /\ new.items = row.items)

LEMMA EventsElsewhere ==
  ASSUME HistoryInv, Elsewhere
  PROVE  /\ DOMAIN events' \subseteq DOMAIN events
         /\ \A id \in DOMAIN events' : events'[id] = events[id] \/ Loosened(events[id], events'[id])
<1>1. ASSUME NEW g, EditGarmentElsewhere(g) PROVE events' = events
  BY <1>1 DEF EditGarmentElsewhere
<1>2. ASSUME NEW g, RedactSnapshots(g)
      PROVE  /\ DOMAIN events' = DOMAIN events
             /\ \A id \in DOMAIN events : events'[id] = events[id] \/ Loosened(events[id], events'[id])
  <2>1. events' = [id \in DOMAIN events |-> Cleared(events[id], g)]
    BY <1>2 DEF RedactSnapshots
  <2>2. \A row : EventFieldNames \subseteq DOMAIN row =>
          Cleared(row, g) = row \/ Loosened(row, Cleared(row, g))
    BY ClearedRow DEF Loosened, EventFieldNames
  <2> QED BY <2>1, <2>2 DEF HistoryInv, EventRows
<1>6. ASSUME NEW g, DeleteAffectedHistory(g)
      PROVE  DOMAIN events' \subseteq DOMAIN events /\ \A id \in DOMAIN events' : events'[id] = events[id]
  BY <1>6 DEF DeleteAffectedHistory, Restrict
<1>7. ASSUME NEW g, DeleteGarmentElsewhere(g)
      PROVE  /\ DOMAIN events' \subseteq DOMAIN events
             /\ \A id \in DOMAIN events' : events'[id] = events[id] \/ Loosened(events[id], events'[id])
  BY <1>2, <1>6, <1>7 DEF DeleteGarmentElsewhere
<1>3. CASE EditPlanElsewhere
  BY <1>3 DEF EditPlanElsewhere
<1>4. CASE DeletePlanElsewhere
  <2> DEFINE Unlinked(row) ==
        [row EXCEPT !.plan = None, !.source = "unplanned", !.revision = @ + 1]
  <2>1. events' = [id \in DOMAIN events |->
               IF events[id].plan = None THEN events[id] ELSE Unlinked(events[id])]
    BY <1>4 DEF DeletePlanElsewhere
  <2>2. \A row : EventFieldNames \subseteq DOMAIN row => Loosened(row, Unlinked(row))
    BY DEF Loosened, EventFieldNames
  <2> HIDE DEF Unlinked
  <2> QED BY <2>1, <2>2 DEF HistoryInv, EventRows
<1>5. ASSUME NEW id \in DOMAIN events, ChangeEventElsewhere(id)
      PROVE  /\ DOMAIN events' = DOMAIN events
             /\ \A e \in DOMAIN events : events'[e] = events[e] \/ Loosened(events[e], events'[e])
  <2> DEFINE new == [events[id] EXCEPT !.revision = @ + 1]
  <2>1. events' = [events EXCEPT ![id] = new]
    BY <1>5 DEF ChangeEventElsewhere
  <2>2. Loosened(events[id], new)
    BY DEF Loosened, EventFieldNames, HistoryInv, EventRows
  <2> HIDE DEF new
  <2> QED BY <2>1, <2>2
<1> QED BY <1>1, <1>3, <1>4, <1>5, <1>7 DEF Elsewhere

\* The plan changes its garments only while no event counts for it.
LEMMA PlanElsewhere ==
  ASSUME PlanInv, HistoryInv, Elsewhere
  PROVE  /\ plan = None => plan' = None
         /\ \/ plan' = None \/ plan' = plan
            \/ /\ PlanFieldNames \subseteq DOMAIN plan' /\ plan'.revision = plan.revision + 1
               /\ \/ plan'.redacted = TRUE
                  \/ plan'.items = plan.items /\ plan'.redacted = plan.redacted
                  \/ events' = events /\ \A id \in DOMAIN events : events[id].plan = None
         /\ Remembered(plan') \/ (planned' = planned /\ plan' \in {plan, None})
<1>0. plan # None => PlanFieldNames \subseteq DOMAIN plan
  BY DEF HistoryInv, PlanPast, Past
<1>1. ASSUME NEW g, EditGarmentElsewhere(g) PROVE plan' = plan /\ planned' = planned
  BY <1>1 DEF EditGarmentElsewhere
<1>2. ASSUME NEW g, RedactSnapshots(g)
      PROVE  /\ plan = None => plan' = None
             /\ \/ plan' = plan
                \/ /\ PlanFieldNames \subseteq DOMAIN plan' /\ plan'.revision = plan.revision + 1
                   /\ plan'.redacted = TRUE
  <2>1. plan' = Cleared(plan, g)
    BY <1>2 DEF RedactSnapshots
  <2>2. CASE plan = None
    BY <2>1, <2>2 DEF Cleared
  <2>3. CASE plan # None
    BY <1>0, <2>1, <2>3, ClearedRow DEF PlanFieldNames
  <2> QED BY <2>2, <2>3
<1>9. ASSUME NEW g, DeleteAffectedHistory(g)
      PROVE  /\ plan = None => plan' = None
             /\ \/ plan' = None \/ plan' = plan
                \/ /\ PlanFieldNames \subseteq DOMAIN plan' /\ plan'.revision = plan.revision + 1
                   /\ plan'.items = plan.items /\ plan'.redacted = plan.redacted
  <2>1. plan' \in {None, plan, Recomputed(plan, events')}
    BY <1>9 DEF DeleteAffectedHistory
  <2>2. PlanPast
    BY DEF HistoryInv
  <2>3. CASE plan' = Recomputed(plan, events')
    BY <2>2, <2>3, RecomputedPlan
  <2>4. CASE plan' \in {None, plan}
    BY <2>4 DEF DeleteAffectedHistory, Recomputed
  <2> QED BY <2>1, <2>3, <2>4
<1>10. ASSUME NEW g, DeleteGarmentElsewhere(g)
      PROVE  /\ Remembered(plan') /\ (plan = None => plan' = None)
             /\ \/ plan' = None \/ plan' = plan
                \/ /\ PlanFieldNames \subseteq DOMAIN plan' /\ plan'.revision = plan.revision + 1
                   /\ \/ plan'.redacted = TRUE
                      \/ plan'.items = plan.items /\ plan'.redacted = plan.redacted
  BY <1>2, <1>9, <1>10 DEF DeleteGarmentElsewhere
<1>3. CASE EditPlanElsewhere
  <2>1. plan # None /\ plan.status = "active" /\ events' = events /\ Remembered(plan')
    BY <1>3 DEF EditPlanElsewhere
  <2>2. \A id \in DOMAIN events : events[id].plan = None
    BY <2>1 DEF PlanInv, PlanFollowsEvents
  <2>3. \/ \E items : plan' = [plan EXCEPT !.items = items, !.revision = @ + 1]
        \/ plan' = [plan EXCEPT !.status = "cancelled", !.revision = @ + 1]
    BY <1>3 DEF EditPlanElsewhere
  <2>4. PlanFieldNames \subseteq DOMAIN plan' /\ plan'.revision = plan.revision + 1
    BY <1>0, <2>1, <2>3 DEF PlanFieldNames
  <2> QED BY <2>1, <2>2, <2>4
<1>4. CASE DeletePlanElsewhere
  BY <1>4 DEF DeletePlanElsewhere
<1>5. ASSUME NEW id, ChangeEventElsewhere(id) PROVE plan' = plan /\ planned' = planned
  BY <1>5 DEF ChangeEventElsewhere
<1>6. CASE EditPlanElsewhere \/ DeletePlanElsewhere
  BY <1>3, <1>4, <1>6
<1>7. CASE \E g \in DOMAIN wardrobe : EditGarmentElsewhere(g) \/ DeleteGarmentElsewhere(g)
  BY <1>1, <1>10, <1>7
<1>8. CASE \E id \in DOMAIN events : ChangeEventElsewhere(id)
  BY <1>5, <1>8
<1> QED BY <1>6, <1>7, <1>8 DEF Elsewhere

LEMMA HistoryElsewhere ==
  ASSUME PlanInv, HistoryInv, Elsewhere
  PROVE  HistoryInv' /\ Moves
<1>0. plansShown' = plansShown
  BY DEF Elsewhere, loaded
<1>1. EntriesInv' /\ PlanPast' /\ Moves
  <2>1. CASE Remembered(plan')
    BY <2>1, PlanElsewhere, PlanReplaced DEF HistoryInv
  <2>2. CASE planned' = planned /\ plan' \in {plan, None}
    BY <2>2, PlanElsewhere DEF HistoryInv, EntriesInv, PlanPast, Past, Moves
  <2> QED BY <2>1, <2>2, PlanElsewhere
<1>2. ShownPast'
  BY <1>0, <1>1 DEF HistoryInv, ShownPast, Past, Moves
<1>3. EventRows'
  BY EventsElsewhere DEF HistoryInv, EventRows, Loosened
<1>4. Agrees(plan', events', planned')
  <2> SUFFICES ASSUME plan' # None, ~plan'.redacted, NEW id \in DOMAIN events',
                      events'[id].plan # None
               PROVE  <<events'[id].plan, DOMAIN plan'.items>> \in planned
    BY <1>1 DEF Agrees, Moves
  <2>1. id \in DOMAIN events /\ events'[id].plan = events[id].plan
    BY EventsElsewhere DEF Loosened
  <2>2. plan # None /\ plan'.items = plan.items /\ ~plan.redacted
    BY <2>1, PlanElsewhere
  <2> QED BY <2>1, <2>2 DEF HistoryInv, Agrees
<1> QED BY <1>1, <1>2, <1>3, <1>4 DEF HistoryInv

LEMMA HistoryKept ==
  ASSUME HistoryInv, UNCHANGED <<plan, planned, events>>, plansShown' \in {plansShown, plan, None}
  PROVE  HistoryInv' /\ Moves
BY DEF HistoryInv, EntriesInv, PlanPast, ShownPast, EventRows, Agrees, Past, Moves

LEMMA PageAlonePlans ==
  ASSUME PageAlone
  PROVE  plansShown' = plansShown \/ Refetch
<1>1. CASE Prefill \/ PrefillFails \/ ChangeDate \/ ChangeSource \/ SelectPlan
  BY <1>1 DEF Prefill, PrefillFails, ChangeDate, ChangeSource, SelectPlan, ChangeForm, loaded
<1>2. ASSUME NEW g, ToggleItem(g) \/ RemoveMissing(g) \/ ConfirmUnavailable(g) \/ MarkForLaundry(g)
      PROVE  plansShown' = plansShown
  BY <1>2 DEF ToggleItem, RemoveMissing, ConfirmUnavailable, MarkForLaundry, ChangeForm, loaded
<1>3. ASSUME NEW id, SelectEdit(id) PROVE plansShown' = plansShown
  BY <1>3 DEF SelectEdit, loaded
<1>4. CASE CancelEdit \/ ReturnToForm \/ RetryList
  BY <1>4 DEF CancelEdit, ReturnToForm, RetryList, loaded
<1> QED BY <1>1, <1>2, <1>3, <1>4 DEF PageAlone

LEMMA HistoryStep == PlanInv /\ HistoryInv /\ [Next]_vars => HistoryInv' /\ Moves
<1> SUFFICES ASSUME PlanInv, HistoryInv, [Next]_vars PROVE HistoryInv' /\ Moves
  OBVIOUS
<1>1. CASE PageAlone
  BY <1>1, PageAloneKeepsServer, PageAlonePlans, HistoryKept DEF Refetch, server
<1>2. CASE Asking
  BY <1>2, AskingKeepsServer, HistoryKept DEF server, loaded
<1>3. CASE ReplyShown \/ ReplyFails
  BY <1>3, HistoryKept DEF ReplyShown, ReplyFails, server
<1>4. CASE Handle
  BY <1>4, HistoryCarried, HistoryKept DEF Handle, server, loaded
<1>5. ASSUME NEW o, Arrive(o) PROVE HistoryInv' /\ Moves
  BY <1>5, HistoryCarried, HistoryKept DEF Arrive, server, loaded
<1>6. CASE Elsewhere
  BY <1>6, HistoryElsewhere
<1>7. CASE UNCHANGED vars
  BY <1>7, HistoryKept DEF vars, server, loaded
<1> QED BY <1>1, <1>2, <1>3, <1>4, <1>5, <1>6, <1>7, Steps

-----------------------------------------------------------------------------
(* The page that was not opened with a plan: what a form or a row names of   *)
(* the plan is no later than the plan, nor than its row where that is in the *)
(* list; what is sent as worn by a plan in the list has the garments of a    *)
(* revision at least as late as the one it names.                            *)

Bounded(p, now, seen) ==
  p # None => \/ now = None
              \/ p \in Nat /\ p <= now.revision /\ (seen # None => p <= seen.revision)

SentFollowing(o, now, seen, entries, rows) ==
  o.kind \in {"create", "update"} =>
    /\ Bounded(o.fields.plan, now, seen)
    /\ o.fields.source = "followed_plan" /\ o.fields.compared =>
         /\ o.fields.plan # None
         /\ \/ now = None
            \/ /\ \E r \in Nat : r >= o.fields.plan /\ <<r, DOMAIN o.fields.items>> \in entries
               /\ /\ o.kind = "update" /\ o.id \in DOMAIN rows
                  /\ rows[o.id] = o.base /\ o.base.plan = o.fields.plan
                  => <<o.fields.plan, DOMAIN o.fields.items>> \in entries

Follows(row, entries) ==
  row.source = "followed_plan" /\ ~row.redacted => <<row.plan, DOMAIN row.items>> \in entries

FormBounded    == "plan" \in DOMAIN form /\ Bounded(form.plan, plan, plansShown)
ListBounded    == \A id \in Listed : Bounded(list[id].plan, plan, plansShown)
EditingBounded == editing # None => Bounded(editing.row.plan, plan, plansShown)
ReplyBounded   ==
  op # None /\ op.kind \in {"update", "reload"} /\ op.fate = "done"
    => Bounded(op.reply.plan, plan, plansShown)
OpFollowing    == op # None => SentFollowing(op, plan, plansShown, planned, events)
LateFollowing  == \A o \in late : SentFollowing(o, plan, plansShown, planned, events)
EventsFollow   == \A id \in DOMAIN events :
                    /\ Bounded(events[id].plan, plan, plansShown)
                    /\ events[id].compared => Follows(events[id], planned)

FollowInv ==
  linked = None =>
    /\ FormBounded /\ ListBounded /\ EditingBounded /\ ReplyBounded
    /\ OpFollowing /\ LateFollowing
    /\ EventsFollow /\ Agrees(plansShown, events, planned)

\* The row shown stays, or is left out, or is the plan as it is now.
SeenStep == plansShown' \in {plansShown, None} \/ (plansShown' = plan /\ plan' = plan)

\* What was bounded stays so: the row shown only gets later.
LEMMA BoundedStays ==
  ASSUME HistoryInv, Moves, SeenStep
  PROVE  \A p : Bounded(p, plan, plansShown) => Bounded(p, plan', plansShown')
<1> SUFFICES ASSUME NEW p, Bounded(p, plan, plansShown), p # None, plan' # None
             PROVE  /\ p \in Nat /\ p <= plan'.revision
                    /\ plansShown' # None => p <= plansShown'.revision
  BY DEF Bounded
<1>1. /\ plan # None /\ p \in Nat /\ p <= plan.revision
      /\ plansShown # None => p <= plansShown.revision
  BY DEF Bounded, Moves
<1>2. plan.revision \in Nat /\ plan'.revision \in Nat /\ plan.revision <= plan'.revision
  BY <1>1 DEF HistoryInv, PlanPast, Past, Moves
<1> QED BY <1>1, <1>2 DEF SeenStep

LEMMA SentStays ==
  ASSUME ServerInv, Onward, HistoryInv, Moves,
         SeenStep
  PROVE  \A o : IsRequest(o) /\ SentFollowing(o, plan, plansShown, planned, events)
                  => SentFollowing(o, plan', plansShown', planned', events')
<1> SUFFICES ASSUME NEW o, IsRequest(o), SentFollowing(o, plan, plansShown, planned, events),
                    o.kind \in {"create", "update"}
             PROVE  SentFollowing(o, plan', plansShown', planned', events')
  BY DEF SentFollowing
<1>1. Bounded(o.fields.plan, plan', plansShown')
  BY BoundedStays DEF SentFollowing
<1>2. ASSUME o.fields.source = "followed_plan", plan' # None,
             o.kind = "update", o.id \in DOMAIN events', events'[o.id] = o.base
      PROVE  o.id \in DOMAIN events /\ events[o.id] = o.base
  <2>1. Known(events, deleted, o.id, o.base)
    BY <1>2 DEF IsRequest, KnownNow
  <2>2. o.id \in DOMAIN events
    BY <1>2, <2>1 DEF Known, Onward
  <2>3. o.base.revision <= events[o.id].revision /\ events[o.id].revision \in Nat
    BY <2>1, <2>2 DEF Known, ServerInv
  <2>4. o.base.revision # events[o.id].revision + 1
    BY <2>1, <2>3 DEF Known
  <2> QED BY <1>2, <2>2, <2>4 DEF Onward
<1>3. plan' # None => plan # None
  BY DEF Moves
<1> QED BY <1>1, <1>2, <1>3 DEF SentFollowing, Moves

\* A request that is carried out leaves an event that follows the plan it names.
LEMMA StoredFollows ==
  ASSUME ServerInv, HistoryInv, Moves, NEW o, IsRequest(o), RowStored(o),
         SentFollowing(o, plan, plansShown, planned, events), plansShown' = plansShown,
         EventsFollow, Agrees(plansShown, events, planned)
  PROVE  EventsFollow' /\ Agrees(plansShown', events', planned')
<1>10. SeenStep
  BY DEF SeenStep
<1>1. /\ DOMAIN events' = DOMAIN events \union {o.id}
      /\ events'[o.id] = Written(o)
      /\ \A id \in DOMAIN events : id # o.id => events'[id] = events[id]
  BY DEF RowStored
<1>2. /\ Written(o).plan = o.fields.plan /\ Written(o).source = o.fields.source
      /\ Written(o).items = o.fields.items /\ Written(o).compared = o.fields.compared
  BY WrittenFields
<1>3. Bounded(o.fields.plan, plan, plansShown) /\ o.kind \in {"create", "update"}
  BY DEF SentFollowing, RowStored
<1>4. o.fields.plan # None =>
        /\ plan # None
        /\ \/ plan.revision = o.fields.plan
           \/ OldRow(o) # None /\ OldRow(o).plan = o.fields.plan
  BY DEF RowStored, PlanAccepted
<1>5. OldRow(o) # None =>
        /\ o.kind = "update" /\ o.id \in DOMAIN events
        /\ OldRow(o) = events[o.id] /\ events[o.id] = o.base
  <2>1. OldRow(o) # None => o.kind = "update"
    BY DEF OldRow
  <2>2. o.kind = "update" =>
          o.id \in DOMAIN events /\ events[o.id].revision = o.base.revision
    BY DEF RowStored, Writes
  <2>3. o.kind = "update" => Known(events, deleted, o.id, o.base)
    BY DEF IsRequest, KnownNow
  <2> QED BY <2>1, <2>2, <2>3 DEF OldRow, Known
<1>6. ASSUME o.fields.source = "followed_plan", o.fields.compared
      PROVE  <<o.fields.plan, DOMAIN o.fields.items>> \in planned
  <2>1. o.fields.plan # None /\ plan # None
    BY <1>3, <1>4, <1>6 DEF SentFollowing
  <2>2. PICK r \in Nat : r >= o.fields.plan /\ <<r, DOMAIN o.fields.items>> \in planned
    BY <1>3, <1>6, <2>1 DEF SentFollowing
  <2>3. CASE plan.revision = o.fields.plan
    <3>1. r <= plan.revision /\ plan.revision \in Nat
      BY <2>1, <2>2 DEF HistoryInv, EntriesInv, PlanPast, Past
    <3>2. r = o.fields.plan
      BY <2>2, <2>3, <3>1
    <3> QED BY <2>2, <3>2
  <2>4. CASE OldRow(o) # None /\ OldRow(o).plan = o.fields.plan
    BY <1>3, <1>5, <1>6, <2>1, <2>4 DEF SentFollowing
  <2> QED BY <1>4, <2>1, <2>3, <2>4
<1>7. ASSUME plansShown # None, ~plansShown.redacted, o.fields.plan # None
      PROVE  <<o.fields.plan, DOMAIN plansShown.items>> \in planned
  <2>1. plan # None /\ o.fields.plan \in Nat /\ o.fields.plan <= plansShown.revision
    BY <1>3, <1>4, <1>7 DEF Bounded
  <2>2. /\ <<plansShown.revision, DOMAIN plansShown.items>> \in planned
        /\ plansShown.revision \in Nat /\ plansShown.revision <= plan.revision
        /\ plan.revision \in Nat
    BY <1>7, <2>1 DEF HistoryInv, EntriesInv, PlanPast, ShownPast, Past
  <2>3. CASE plan.revision = o.fields.plan
    <3>1. plansShown.revision = o.fields.plan
      BY <2>1, <2>2, <2>3
    <3> QED BY <2>2, <3>1
  <2>4. CASE OldRow(o) # None /\ OldRow(o).plan = o.fields.plan
    BY <1>5, <1>7, <2>4 DEF Agrees
  <2> QED BY <1>4, <1>7, <2>3, <2>4
<1>8. EventsFollow'
  <2>1. \A id \in DOMAIN events' : Bounded(events'[id].plan, plan', plansShown')
    BY <1>10, <1>1, <1>2, <1>3, BoundedStays DEF EventsFollow
  <2>2. \A id \in DOMAIN events' : events'[id].compared => Follows(events'[id], planned')
    BY <1>1, <1>2, <1>6 DEF EventsFollow, Follows, Moves
  <2> QED BY <2>1, <2>2 DEF EventsFollow
<1>9. Agrees(plansShown', events', planned')
  BY <1>1, <1>2, <1>7 DEF Agrees, Moves
<1> QED BY <1>8, <1>9

LEMMA DroppedFollows ==
  ASSUME HistoryInv, Moves, plansShown' = plansShown, RowsDropped,
         EventsFollow, Agrees(plansShown, events, planned)
  PROVE  EventsFollow' /\ Agrees(plansShown', events', planned')
<1>1. \A id \in DOMAIN events' : Bounded(events'[id].plan, plan', plansShown')
  BY BoundedStays DEF EventsFollow, RowsDropped, SeenStep
<1>2. \A id \in DOMAIN events' : events'[id].compared => Follows(events'[id], planned')
  BY DEF EventsFollow, Follows, Moves, RowsDropped
<1>3. Agrees(plansShown', events', planned')
  BY DEF Agrees, Moves, RowsDropped
<1> QED BY <1>1, <1>2, <1>3 DEF EventsFollow

LEMMA LoosenedFollows ==
  ASSUME HistoryInv, Moves, plansShown' = plansShown, Elsewhere,
         EventsFollow, Agrees(plansShown, events, planned)
  PROVE  EventsFollow' /\ Agrees(plansShown', events', planned')
<1>1. /\ DOMAIN events' \subseteq DOMAIN events
      /\ \A id \in DOMAIN events' : events'[id].plan \in {None, events[id].plan}
  BY EventsElsewhere DEF Loosened
<1>2. \A id \in DOMAIN events' : Bounded(events'[id].plan, plan', plansShown')
  <2>1. Bounded(None, plan', plansShown')
    BY DEF Bounded
  <2> QED BY <1>1, <2>1, BoundedStays DEF EventsFollow, SeenStep
<1>3. \A id \in DOMAIN events' : events'[id].compared => Follows(events'[id], planned')
  <2> SUFFICES ASSUME NEW id \in DOMAIN events', events'[id].compared
               PROVE  Follows(events'[id], planned')
    OBVIOUS
  <2>1. events[id].compared => Follows(events[id], planned)
    BY <1>1 DEF EventsFollow
  <2>2. CASE events'[id] = events[id]
    BY <2>1, <2>2 DEF Follows, Moves
  <2>3. CASE Loosened(events[id], events'[id])
    BY <2>1, <2>3 DEF Follows, Moves, Loosened
  <2> QED BY <2>2, <2>3, EventsElsewhere
<1>4. Agrees(plansShown', events', planned')
  BY <1>1 DEF Agrees, Moves
<1> QED BY <1>2, <1>3, <1>4 DEF EventsFollow

\* The parts that a step leaves alone.
LEMMA FormStays ==
  ASSUME HistoryInv, Moves, SeenStep,
         FormBounded, "plan" \in DOMAIN form', form'.plan \in {form.plan, None}
  PROVE  FormBounded'
BY BoundedStays DEF FormBounded, Bounded

LEMMA RowsStay ==
  ASSUME HistoryInv, Moves, SeenStep
  PROVE  /\ ListBounded /\ list' = list => ListBounded'
         /\ EditingBounded /\ editing' = editing => EditingBounded'
         /\ ReplyBounded /\ op' = op => ReplyBounded'
<1>1. \A p : Bounded(p, plan, plansShown) => Bounded(p, plan', plansShown')
  BY BoundedStays
<1> QED BY <1>1 DEF ListBounded, Listed, EditingBounded, ReplyBounded

LEMMA ListFollows ==
  ASSUME EventsFollow', list' \in {events', None}
  PROVE  ListBounded'
BY DEF ListBounded, Listed, EventsFollow

LEMMA RequestsFollow ==
  ASSUME ServerInv, PageInv, Onward, HistoryInv, Moves,
         SeenStep
  PROVE  /\ OpFollowing /\ op' = op => OpFollowing'
         /\ LateFollowing /\ late' \subseteq late => LateFollowing'
<1>1. \A o : IsRequest(o) /\ SentFollowing(o, plan, plansShown, planned, events)
               => SentFollowing(o, plan', plansShown', planned', events')
  BY SentStays
<1>2. (op # None => IsRequest(op)) /\ \A o \in late : IsRequest(o)
  BY DEF PageInv, OpKnown, LateKnown
<1> QED BY <1>1, <1>2 DEF OpFollowing, LateFollowing

\* A form filled by the page, or by the owner.
LEMMA FilledBounded ==
  /\ "plan" \in DOMAIN emptyWearForm /\ emptyWearForm.plan = None
  /\ \A row : /\ "plan" \in DOMAIN wearFormFromResponse(row)
              /\ wearFormFromResponse(row).plan = row.plan
BY DEF emptyWearForm, wearFormFromResponse

LEMMA SelectedBounded ==
  ASSUME HistoryInv, Moves, linked = None, plansShown' = plansShown, FormBounded, SelectPlan
  PROVE  FormBounded'
<1>1. planItem # None /\ planItem = plansShown
  BY DEF SelectPlan, Selectable, planItem
<1> DEFINE items == IF form.source = "followed_plan" THEN PlanItems(planItem) ELSE form.items
<1>2. form' = [form EXCEPT !.plan = planItem.revision, !.items = items,
                           !.confirmed = {}, !.laundry = {}]
  BY DEF SelectPlan, ChangeForm
<1> HIDE DEF items
<1>3. "plan" \in DOMAIN form' /\ form'.plan = plansShown.revision
  BY <1>1, <1>2 DEF FormBounded
<1>4. plansShown.revision \in Nat /\ (plan # None => plansShown.revision <= plan.revision)
  BY <1>1 DEF HistoryInv, EntriesInv, ShownPast, Past
<1>5. plan' # None => plan # None /\ plan.revision \in Nat /\ plan'.revision \in Nat
                      /\ plan.revision <= plan'.revision
  BY DEF HistoryInv, PlanPast, Past, Moves
<1> QED BY <1>1, <1>3, <1>4, <1>5 DEF FormBounded, Bounded

LEMMA AloneForm ==
  ASSUME HistoryInv, Moves, EventsFollow, EventsFollow', PageAlone, ~Refetch,
         linked = None, linked' = None, plansShown' = plansShown,
         FormBounded, ListBounded, EditingBounded
  PROVE  FormBounded' /\ ListBounded' /\ EditingBounded'
<1>0. "plan" \in DOMAIN form /\ UNCHANGED events
  BY PageAloneKeepsServer DEF FormBounded, server
<1>10. SeenStep
  BY DEF SeenStep
<1>1. CASE Prefill
  BY <1>1 DEF Prefill
<1>2. CASE PrefillFails
  <2>1. form' = emptyWearForm /\ editing' = editing /\ list' = list
    BY <1>2 DEF PrefillFails, loaded
  <2> QED BY <1>10, <2>1, FilledBounded, FormStays, RowsStay
<1>3. CASE ChangeDate \/ ChangeSource
  <2>1. "plan" \in DOMAIN form' /\ form'.plan \in {form.plan, None}
    BY <1>0, <1>3 DEF ChangeDate, ChangeSource, ChangeForm
  <2>2. editing' = editing /\ list' = list
    BY <1>3 DEF ChangeDate, ChangeSource, ChangeForm, loaded
  <2> QED BY <1>10, <2>1, <2>2, FormStays, RowsStay
<1>4. CASE SelectPlan
  <2>1. editing' = editing /\ list' = list
    BY <1>4 DEF SelectPlan, ChangeForm, loaded
  <2> QED BY <1>10, <1>4, <2>1, SelectedBounded, RowsStay
<1>5. ASSUME NEW g, ToggleItem(g) \/ RemoveMissing(g)
      PROVE  FormBounded' /\ ListBounded' /\ EditingBounded'
  <2>1. "plan" \in DOMAIN form' /\ form'.plan = form.plan
    BY <1>0, <1>5 DEF ToggleItem, RemoveMissing, ChangeForm
  <2>2. editing' = editing /\ list' = list
    BY <1>5 DEF ToggleItem, RemoveMissing, ChangeForm, loaded
  <2> QED BY <1>10, <2>1, <2>2, FormStays, RowsStay
<1>6. ASSUME NEW g, ConfirmUnavailable(g) \/ MarkForLaundry(g)
      PROVE  FormBounded' /\ ListBounded' /\ EditingBounded'
  <2>1. "plan" \in DOMAIN form' /\ form'.plan = form.plan
    BY <1>0, <1>6 DEF ConfirmUnavailable, MarkForLaundry, ChangeForm
  <2>2. editing' = editing /\ list' = list
    BY <1>6 DEF ConfirmUnavailable, MarkForLaundry, ChangeForm, loaded
  <2> QED BY <1>10, <2>1, <2>2, FormStays, RowsStay
<1>7. ASSUME NEW id \in Listed, SelectEdit(id)
      PROVE  FormBounded' /\ ListBounded' /\ EditingBounded'
  <2>1. /\ editing' = [id |-> id, row |-> list[id]] /\ form' = wearFormFromResponse(list[id])
        /\ list' = list
    BY <1>7 DEF SelectEdit, Row, loaded
  <2>2. editing'.row = list[id] /\ form'.plan = list[id].plan /\ "plan" \in DOMAIN form'
    BY <2>1, FilledBounded
  <2>3. Bounded(list[id].plan, plan', plansShown')
    BY <1>10, BoundedStays DEF ListBounded
  <2> QED BY <1>10, <2>1, <2>2, <2>3, RowsStay DEF FormBounded, EditingBounded
<1>8. CASE CancelEdit
  <2>1. form' = emptyWearForm /\ editing' = None /\ list' = list
    BY <1>8 DEF CancelEdit, CloseEditor, loaded
  <2> QED BY <1>10, <2>1, FilledBounded, FormStays, RowsStay DEF EditingBounded
<1>9. CASE ReturnToForm \/ RetryList
  <2>1. form' = form /\ editing' = editing /\ (list' = list \/ list' = events')
    BY <1>0, <1>9 DEF ReturnToForm, RetryList, draft, loaded
  <2> QED BY <1>10, <1>0, <2>1, FormStays, RowsStay, ListFollows
<1> QED BY <1>1, <1>2, <1>3, <1>4, <1>5, <1>6, <1>7, <1>8, <1>9 DEF PageAlone

LEMMA FollowAfterAlone ==
  ASSUME Inv, Onward, HistoryInv, HistoryInv', Moves, FollowInv, PageAlone
  PROVE  FollowInv'
<1> SUFFICES ASSUME linked' = None PROVE FollowInv'
  BY DEF FollowInv
<1>0. UNCHANGED <<plan, planned, events, op, late>>
  BY PageAloneKeepsServer DEF server
<1>1. linked = None
  <2>1. Prefill => linked' # None
    BY DEF Prefill
  <2>2. ~Prefill => linked' = linked
    <3>1. CASE PrefillFails \/ ChangeDate \/ ChangeSource \/ SelectPlan \/ Refetch
      BY <3>1 DEF PrefillFails, ChangeDate, ChangeSource, SelectPlan, ChangeForm, Refetch, opened
    <3>2. ASSUME NEW g, ToggleItem(g) \/ RemoveMissing(g) \/ ConfirmUnavailable(g) \/ MarkForLaundry(g)
          PROVE  linked' = linked
      BY <3>2 DEF ToggleItem, RemoveMissing, ConfirmUnavailable, MarkForLaundry, ChangeForm, opened
    <3>3. ASSUME NEW id, SelectEdit(id) PROVE linked' = linked
      BY <3>3 DEF SelectEdit, opened
    <3>4. CASE CancelEdit \/ ReturnToForm \/ RetryList
      BY <3>4 DEF CancelEdit, ReturnToForm, RetryList, opened
    <3> QED BY <3>1, <3>2, <3>3, <3>4 DEF PageAlone
  <2> QED BY <2>1, <2>2
<1>2. /\ FormBounded /\ ListBounded /\ EditingBounded /\ ReplyBounded
      /\ OpFollowing /\ LateFollowing
      /\ EventsFollow /\ Agrees(plansShown, events, planned)
  BY <1>1 DEF FollowInv
<1>3. SeenStep
  BY <1>0, PageAlonePlans DEF Refetch, SeenStep
<1>4. ReplyBounded' /\ OpFollowing' /\ LateFollowing'
  BY <1>0, <1>2, <1>3, RowsStay, RequestsFollow DEF Inv
<1>5. EventsFollow'
  BY <1>0, <1>2, <1>3, BoundedStays DEF EventsFollow
<1>6. Agrees(plansShown', events', planned')
  BY <1>0, <1>2, <1>3 DEF HistoryInv, SeenStep, Agrees
<1>7. FormBounded' /\ ListBounded' /\ EditingBounded'
  <2>1. CASE Refetch
    <3>1. form' = form /\ editing' = editing /\ list' = list
      BY <2>1 DEF Refetch, draft
    <3> QED BY <1>2, <1>3, <3>1, FormStays, RowsStay DEF FormBounded
  <2>2. CASE ~Refetch
    BY <1>1, <1>2, <1>5, <2>2, AloneForm, PageAlonePlans
  <2> QED BY <2>1, <2>2
<1> QED BY <1>4, <1>5, <1>6, <1>7 DEF FollowInv

\* What is saved as worn by the plan has the garments of the row shown.
LEMMA SavedFollows ==
  ASSUME HistoryInv, linked = None, FormBounded, EditingBounded,
         Agrees(plansShown, events, planned), Valid, NEW c, NEW o,
         o.kind \in {"create", "update"}, o.fields = Fields(form, c),
         o.kind = "create" => editing = None,
         o.kind = "update" => editing # None /\ o.id = editing.id /\ o.base = editing.row
  PROVE  SentFollowing(o, plan, plansShown, planned, events)
<1>1. /\ o.fields.plan = form.plan /\ o.fields.source = form.source
      /\ o.fields.items = form.items
  BY DEF Fields
<1>5. o.fields.compared => planItem # None
  <2>1. Fields(form, c).compared = (planItem # None)
    BY Zenon DEF Fields
  <2> QED BY <2>1
<1>2. Bounded(form.plan, plan, plansShown) /\ (planItem # None => plansShown # None)
  BY DEF FormBounded, planItem
<1>3. ASSUME form.source = "followed_plan", plan # None, plansShown # None
      PROVE  /\ form.plan # None
             /\ \E r \in Nat : r >= form.plan /\ <<r, DOMAIN form.items>> \in planned
             /\ \A id \in DOMAIN events : events[id].plan = form.plan
                  => <<form.plan, DOMAIN form.items>> \in planned
  <2>1. form.plan # None
    BY <1>3 DEF Valid, wearFormError
  <2>2. plansShown # None /\ form.plan \in Nat /\ form.plan <= plansShown.revision
    BY <1>2, <1>3, <2>1 DEF Bounded
  <2>3. planItem = plansShown
    BY <2>2 DEF planItem
  <2>4. ~plansShown.redacted /\ DOMAIN plansShown.items = DOMAIN form.items
    BY <1>3, <2>2, <2>3 DEF Valid, followedPlanError, Selected
  <2>5. plansShown.revision \in Nat /\ <<plansShown.revision, DOMAIN plansShown.items>> \in planned
    BY <2>2 DEF HistoryInv, ShownPast, Past
  <2>6. plansShown.revision >= form.plan /\ <<plansShown.revision, DOMAIN form.items>> \in planned
    BY <2>2, <2>4, <2>5
  <2>7. \A id \in DOMAIN events : events[id].plan = form.plan
          => <<form.plan, DOMAIN form.items>> \in planned
    BY <2>1, <2>2, <2>4 DEF Agrees
  <2> QED BY <2>1, <2>5, <2>6, <2>7
<1>4. form.source = "followed_plan" => form.plan # None
  BY DEF Valid, wearFormError
<1> QED BY <1>1, <1>2, <1>3, <1>4, <1>5 DEF SentFollowing

LEMMA FollowAfterAsking ==
  ASSUME Inv, Onward, HistoryInv, HistoryInv', Moves, FollowInv, Asking
  PROVE  FollowInv'
<1> SUFFICES ASSUME linked' = None PROVE FollowInv'
  BY DEF FollowInv
<1>0. UNCHANGED <<plan, planned, events, plansShown, list, form, editing, late>>
  BY AskingKeepsServer DEF server, loaded
<1>1. linked = None
  BY DEF Asking, ReloadEditing, RemoveEvent, SaveUpdate, SaveCreate, opened
<1>2. /\ FormBounded /\ ListBounded /\ EditingBounded
      /\ LateFollowing /\ EventsFollow /\ Agrees(plansShown, events, planned)
  BY <1>1 DEF FollowInv
<1>3. /\ FormBounded' /\ ListBounded' /\ EditingBounded'
      /\ LateFollowing' /\ EventsFollow' /\ Agrees(plansShown', events', planned')
  BY <1>0, <1>2
     DEF FormBounded, ListBounded, Listed, EditingBounded, LateFollowing, EventsFollow
<1>4. op'.fate = "sent"
  BY DEF Asking, ReloadEditing, RemoveEvent, SaveUpdate, SaveCreate, Ask
<1>5. OpFollowing'
  <2>1. CASE ReloadEditing \/ \E id \in Listed : RemoveEvent(id)
    <3>1. op'.kind \notin {"create", "update"}
      BY <2>1 DEF ReloadEditing, RemoveEvent, Ask
    <3> QED BY <3>1 DEF OpFollowing, SentFollowing
  <2>2. ASSUME NEW c, SaveUpdate(c) PROVE OpFollowing'
    <3>1. /\ op' = [kind |-> "update", id |-> editing.id, base |-> editing.row,
                    fields |-> Fields(form, c), fate |-> "sent", reply |-> None]
          /\ Valid /\ editing # None
      BY <2>2 DEF SaveUpdate, Ask
    <3> DEFINE o == [kind |-> "update", id |-> editing.id, base |-> editing.row,
                     fields |-> Fields(form, c), fate |-> "sent", reply |-> None]
    <3>2. /\ o.kind = "update" /\ o.fields = Fields(form, c)
          /\ o.id = editing.id /\ o.base = editing.row
      OBVIOUS
    <3>3. op' = o
      BY <3>1
    <3> HIDE DEF o
    <3>4. SentFollowing(o, plan, plansShown, planned, events)
      BY <1>1, <1>2, <3>1, <3>2, SavedFollows
    <3> QED BY <1>0, <3>3, <3>4 DEF OpFollowing
  <2>3. ASSUME NEW c, SaveCreate(c) PROVE OpFollowing'
    <3>1. /\ op' = [kind |-> "create", id |-> DraftID, base |-> None,
                    fields |-> Fields(form, c), fate |-> "sent", reply |-> None]
          /\ Valid /\ editing = None
      BY <2>3 DEF SaveCreate, Ask
    <3> DEFINE o == [kind |-> "create", id |-> DraftID, base |-> None,
                     fields |-> Fields(form, c), fate |-> "sent", reply |-> None]
    <3>2. o.kind = "create" /\ o.fields = Fields(form, c)
      OBVIOUS
    <3>3. op' = o
      BY <3>1
    <3> HIDE DEF o
    <3>4. SentFollowing(o, plan, plansShown, planned, events)
      BY <1>1, <1>2, <3>1, <3>2, SavedFollows
    <3> QED BY <1>0, <3>3, <3>4 DEF OpFollowing
  <2> QED BY <2>1, <2>2, <2>3 DEF Asking
<1> QED BY <1>3, <1>4, <1>5 DEF FollowInv, ReplyBounded

LEMMA FollowAfterReply ==
  ASSUME Inv, Onward, HistoryInv, Moves, FollowInv, ReplyShown \/ ReplyFails
  PROVE  FollowInv'
<1> SUFFICES ASSUME linked' = None PROVE FollowInv'
  BY DEF FollowInv
<1>0. /\ UNCHANGED <<plan, planned, events, plansShown, linked>>
      /\ op # None /\ op' = None /\ late' \subseteq late \union {op}
  BY DEF ReplyShown, ReplyFails, Release, pending, server, opened
<1>10. SeenStep
  BY <1>0 DEF SeenStep
<1>1. /\ FormBounded /\ ListBounded /\ EditingBounded /\ ReplyBounded
      /\ OpFollowing /\ LateFollowing
      /\ EventsFollow /\ Agrees(plansShown, events, planned)
  BY <1>0 DEF FollowInv
<1>2. EventsFollow' /\ Agrees(plansShown', events', planned') /\ LateFollowing'
  BY <1>0, <1>1 DEF EventsFollow, LateFollowing, OpFollowing
<1>3. OpFollowing' /\ ReplyBounded'
  BY <1>0 DEF OpFollowing, ReplyBounded
<1>4. ListBounded'
  <2>1. list' = list \/ list' \in {events', None}
    BY <1>0 DEF ReplyShown, ReplyFails, Refreshed
  <2> QED BY <1>10, <1>0, <1>1, <1>2, <2>1, ListFollows, RowsStay
<1>5. FormBounded' /\ EditingBounded'
  <2>1. CASE editing' = editing /\ form' = form
    BY <1>0, <1>1, <2>1 DEF FormBounded, EditingBounded
  <2>2. CASE editing' \in {editing, None} /\ form' = emptyWearForm
    <3>1. FormBounded'
      BY <2>2, FilledBounded DEF FormBounded, Bounded
    <3> QED BY <1>0, <1>1, <2>2, <3>1 DEF EditingBounded
  <2>3. CASE ReplyShown /\ op.kind \in {"update", "reload"}
    <3>1. editing' = [id |-> op.id, row |-> op.reply] /\ form' = wearFormFromResponse(op.reply)
      BY <2>3 DEF ReplyShown, Closes
    <3>2. editing'.row = op.reply /\ form'.plan = op.reply.plan /\ "plan" \in DOMAIN form'
      BY <3>1, FilledBounded
    <3>3. Bounded(op.reply.plan, plan, plansShown)
      BY <1>0, <1>1, <2>3 DEF ReplyShown, ReplyBounded
    <3> QED BY <1>0, <3>2, <3>3 DEF FormBounded, EditingBounded
  <2> QED BY <2>1, <2>2, <2>3 DEF ReplyShown, ReplyFails, CloseEditor, draft
<1> QED BY <1>2, <1>3, <1>4, <1>5 DEF FollowInv

\* The server's rows after a request that is carried out.
LEMMA CarriedFollows ==
  ASSUME ServerInv, HistoryInv, Moves, NEW o, IsRequest(o), Accepted(o), CarryOut(o),
         SentFollowing(o, plan, plansShown, planned, events), plansShown' = plansShown,
         EventsFollow, Agrees(plansShown, events, planned)
  PROVE  EventsFollow' /\ Agrees(plansShown', events', planned')
BY CarriedOut, StoredFollows, DroppedFollows

LEMMA FollowAfterServer ==
  ASSUME Inv, Onward, HistoryInv, Moves, FollowInv,
         Handle \/ (\E o \in late : Arrive(o)) \/ Elsewhere
  PROVE  FollowInv'
<1> SUFFICES ASSUME linked' = None PROVE FollowInv'
  BY DEF FollowInv
<1>0. UNCHANGED <<list, form, editing, plansShown, linked>> /\ late' \subseteq late
  BY DEF Handle, Arrive, Elsewhere, draft, loaded, opened
<1>10. SeenStep
  BY <1>0 DEF SeenStep
<1>1. /\ FormBounded /\ ListBounded /\ EditingBounded /\ ReplyBounded
      /\ OpFollowing /\ LateFollowing
      /\ EventsFollow /\ Agrees(plansShown, events, planned)
  BY <1>0 DEF FollowInv
<1>2. ServerInv /\ PageInv
  BY DEF Inv
<1>3. FormBounded' /\ ListBounded' /\ EditingBounded' /\ LateFollowing'
  <2>1. "plan" \in DOMAIN form'
    BY <1>0, <1>1 DEF FormBounded
  <2> QED BY <1>10, <1>0, <1>1, <1>2, <2>1, FormStays, RowsStay, RequestsFollow
<1>4. \A o : IsRequest(o) /\ SentFollowing(o, plan, plansShown, planned, events)
               => SentFollowing(o, plan', plansShown', planned', events')
  BY <1>10, <1>0, <1>2, SentStays
<1>5. CASE Elsewhere
  <2>1. op' = op
    BY <1>5 DEF Elsewhere
  <2> QED BY <1>10, <1>0, <1>1, <1>2, <1>3, <1>5, <2>1, LoosenedFollows, RowsStay, RequestsFollow
          DEF FollowInv
<1>6. ASSUME NEW o \in late, Arrive(o) PROVE FollowInv'
  <2>1. op' = op /\ IsRequest(o) /\ SentFollowing(o, plan, plansShown, planned, events)
    BY <1>1, <1>2, <1>6 DEF Arrive, PageInv, LateKnown, LateFollowing
  <2>2. EventsFollow' /\ Agrees(plansShown', events', planned')
    <3>1. CASE Accepted(o)
      BY <1>0, <1>1, <1>2, <1>6, <2>1, <3>1, CarriedFollows DEF Arrive
    <3>2. CASE ~Accepted(o)
      BY <1>0, <1>1, <1>6, <3>2 DEF Arrive, server, EventsFollow
    <3> QED BY <3>1, <3>2
  <2> QED BY <1>10, <1>0, <1>1, <1>2, <1>3, <2>1, <2>2, RowsStay, RequestsFollow DEF FollowInv
<1>7. CASE Handle
  <2>1. /\ op # None /\ IsRequest(op) /\ late' = late
        /\ SentFollowing(op, plan, plansShown, planned, events)
        /\ {"kind", "id", "base", "fields", "fate", "reply"} \subseteq DOMAIN op
    BY <1>1, <1>2, <1>7 DEF Handle, pending, PageInv, OpKnown, OpFollowing, IsRequest
  <2>2. CASE Accepted(op)
    <3>0. CarryOut(op)
      BY <1>7, <2>2 DEF Handle
    <3>1. EventsFollow' /\ Agrees(plansShown', events', planned')
      BY <1>0, <1>1, <1>2, <2>1, <2>2, <3>0, CarriedFollows
    <3> DEFINE answer == IF op.id \in DOMAIN events' THEN events'[op.id] ELSE None
    <3>2. op' = [op EXCEPT !.fate = "done", !.reply = answer]
      BY <1>7, <2>2 DEF Handle
    <3>3. op.kind \in {"update", "reload"} => op.id \in DOMAIN events'
      <4>1. op.kind = "update" => op.id \in DOMAIN events'
        BY <2>2, <3>0 DEF Accepted, Writes, Repeated, CarryOut
      <4>2. op.kind = "reload" => op.id \in DOMAIN events /\ events' = events
        BY <2>2, <3>0 DEF Accepted, Writes, Repeated, CarryOut
      <4> QED BY <4>1, <4>2
    <3>4. op.kind \in {"update", "reload"} => Bounded(answer.plan, plan', plansShown')
      BY <3>1, <3>3 DEF EventsFollow
    <3> HIDE DEF answer
    <3>5. /\ op'.kind = op.kind /\ op'.id = op.id /\ op'.base = op.base
          /\ op'.fields = op.fields /\ op'.reply = answer
      BY <2>1, <3>2
    <3>6. SentFollowing(op, plan', plansShown', planned', events')
      BY <1>4, <2>1
    <3>7. OpFollowing' /\ ReplyBounded'
      BY <3>4, <3>5, <3>6 DEF OpFollowing, ReplyBounded, SentFollowing
    <3> QED BY <1>3, <3>1, <3>7 DEF FollowInv
  <2>3. CASE ~Accepted(op)
    <3>1. op' = [op EXCEPT !.fate = "refused", !.reply = Candidates(op)]
      BY <1>7, <2>3 DEF Handle
    <3>2. /\ op'.kind = op.kind /\ op'.id = op.id /\ op'.base = op.base
          /\ op'.fields = op.fields /\ op'.fate = "refused"
      BY <2>1, <3>1
    <3>3. SentFollowing(op, plan', plansShown', planned', events')
      BY <1>4, <2>1
    <3>4. OpFollowing' /\ ReplyBounded'
      BY <3>2, <3>3 DEF OpFollowing, ReplyBounded, SentFollowing
    <3>5. EventsFollow' /\ Agrees(plansShown', events', planned')
      BY <1>0, <1>1, <1>7, <2>3 DEF Handle, server, EventsFollow
    <3> QED BY <1>3, <3>4, <3>5 DEF FollowInv
  <2> QED BY <2>2, <2>3
<1> QED BY <1>5, <1>6, <1>7

FollowAll == Inv /\ PlanInv /\ HistoryInv /\ FollowInv

LEMMA FollowInit == Init => FollowAll
<1> SUFFICES ASSUME Init PROVE FollowAll
  OBVIOUS
<1>1. Inv
  BY ServerInit, PageInit DEF Inv
<1>2. PICK row : /\ row = [items |-> [g \in FirstPage |-> 1], status |-> "active",
                           redacted |-> FALSE, revision |-> 1]
                 /\ plan = Recomputed(row, events)
  BY InitRecomputes
<1>3. /\ PlanFieldNames \subseteq DOMAIN plan /\ DOMAIN plan.items = FirstPage
      /\ plan.revision \in {1, 2}
  <2>1. /\ PlanFieldNames \subseteq DOMAIN row /\ DOMAIN row.items = FirstPage
        /\ row.revision = 1
    BY <1>2 DEF PlanFieldNames
  <2>2. CASE plan = row
    BY <2>1, <2>2
  <2>3. ASSUME NEW status, plan = [row EXCEPT !.status = status, !.revision = @ + 1]
        PROVE  /\ DOMAIN plan = DOMAIN row /\ plan.items = row.items
               /\ plan.revision = 2
    BY <2>1, <2>3 DEF PlanFieldNames
  <2> QED BY <1>2, <2>1, <2>2, <2>3 DEF Recomputed
<1>4. PlanInv
  BY InitPlan
<1>10. /\ planned = {<<r, FirstPage>> : r \in 1 .. plan.revision}
       /\ plansShown \in {None, plan}
  BY DEF Init
<1>11. <<plan.revision, FirstPage>> \in planned /\ <<1, FirstPage>> \in planned
  BY <1>3, <1>10
<1>12. \A id \in DOMAIN events :
        /\ EventFieldNames \subseteq DOMAIN events[id]
        /\ events[id].plan \in {None, 1} /\ DOMAIN events[id].items = FirstPage
        /\ events[id].source = "followed_plan" => events[id].plan = 1
  BY DEF Init, NewEvent, EventFieldNames
<1>5. EntriesInv /\ PlanPast /\ ShownPast
  <2>1. \A r, worn : <<r, worn>> \in planned => r \in 1 .. plan.revision
    BY <1>10
  <2> QED BY <1>3, <1>10, <1>11, <2>1 DEF EntriesInv, PlanPast, ShownPast, Past
<1>6. HistoryInv /\ Agrees(plansShown, events, planned)
  BY <1>3, <1>5, <1>10, <1>11, <1>12 DEF HistoryInv, EventRows, Agrees
<1>7. FormBounded
  BY DEF Init, BlankForm, emptyWearForm, FormBounded, Bounded
<1>8. EventsFollow /\ ListBounded
  <2>1. EventsFollow
    BY <1>3, <1>10, <1>11, <1>12 DEF EventsFollow, Bounded, Follows
  <2> QED BY <2>1 DEF Init, EventsFollow, ListBounded, Listed
<1>9. EditingBounded /\ ReplyBounded /\ OpFollowing /\ LateFollowing
  BY DEF Init, EditingBounded, ReplyBounded, OpFollowing, LateFollowing
<1> QED BY <1>1, <1>4, <1>6, <1>7, <1>8, <1>9 DEF FollowAll, FollowInv

LEMMA FollowStep == FollowAll /\ [Next]_vars => FollowAll'
<1> SUFFICES ASSUME Inv, PlanInv, HistoryInv, FollowInv, [Next]_vars PROVE FollowAll'
  BY DEF FollowAll
<1>1. Inv' /\ PlanInv' /\ HistoryInv' /\ Moves
  BY InvStep, PlanInvStep, HistoryStep
<1>2. Onward
  BY ServerStep DEF Inv
<1>3. CASE UNCHANGED vars
  <2>1. /\ UNCHANGED <<form, editing, list, linked, plansShown>>
        /\ UNCHANGED <<op, late, plan, planned, events>>
    BY <1>3 DEF vars, draft, loaded, opened, server
  <2>2. /\ FormBounded => FormBounded'
        /\ ListBounded => ListBounded'
        /\ EditingBounded => EditingBounded'
    BY <2>1 DEF FormBounded, ListBounded, Listed, EditingBounded
  <2>3. /\ ReplyBounded => ReplyBounded'
        /\ OpFollowing => OpFollowing'
        /\ LateFollowing => LateFollowing'
    BY <2>1 DEF ReplyBounded, OpFollowing, LateFollowing
  <2>4. EventsFollow => EventsFollow'
    BY <2>1 DEF EventsFollow
  <2>5. Agrees(plansShown, events, planned) => Agrees(plansShown', events', planned')
    BY <2>1
  <2>6. FollowInv'
    BY <2>1, <2>2, <2>3, <2>4, <2>5 DEF FollowInv
  <2> QED BY <1>1, <2>6 DEF FollowAll
<1>4. ASSUME Next PROVE FollowInv'
  <2>1. CASE PageAlone
    BY <1>1, <1>2, <2>1, FollowAfterAlone
  <2>2. CASE Asking
    BY <1>1, <1>2, <2>2, FollowAfterAsking
  <2>3. CASE ReplyShown \/ ReplyFails
    BY <1>1, <1>2, <2>3, FollowAfterReply
  <2>4. CASE Handle \/ (\E o \in late : Arrive(o)) \/ Elsewhere
    BY <1>1, <1>2, <2>4, FollowAfterServer
  <2> QED BY <1>4, <2>1, <2>2, <2>3, <2>4, Steps
<1> QED BY <1>1, <1>3, <1>4 DEF FollowAll

\* An event last saved as worn by a plan that was in the page's list holds the
\* garments of the very plan revision it names: for any number of changes of the
\* plan and of events, plans that drop out of the list and come back, and however
\* late a save arrives, although the page compares garments with a row that may
\* be old and the server compares revisions only.
THEOREM FollowedIsTheListedPlanAlways == Spec => []FollowedIsTheListedPlan
<1>1. FollowAll => FollowedIsTheListedPlan
  BY DEF FollowAll, FollowInv, EventsFollow, Follows, FollowedIsTheListedPlan, FollowsThePlan
<1> QED BY <1>1, FollowInit, FollowStep, PTL DEF Spec

=============================================================================
