-------------------------- MODULE RecommendationView --------------------------
(***************************************************************************)
(* The recommendation page: the owner sets conditions, asks for outfits    *)
(* from the real wardrobe and saves some of them as outfit plans           *)
(* (components/recommendation/recommendation-view.tsx).  The view is one   *)
(* event loop; every request it sends stays in flight while the owner goes *)
(* on, and its reply runs the rest of the handler.  The server's wardrobe  *)
(* and plans are the view's environment: items are edited from elsewhere,  *)
(* a create may be stored although its reply is lost, or after the client  *)
(* has given up.                                                           *)
(***************************************************************************)
EXTENDS Naturals, FiniteSets, Functions

CONSTANTS Outfits,       \* item sets the server may propose, whatever is asked
          Formalities,   \* choices of the formality toggle
          Warmths,       \* choices of the warmth toggle
          Extras,        \* extra conditions that may be switched on
          Packed,        \* the extra condition that admits packed items
          SceneDefault,  \* the conditions the chosen scene fills in
          None,          \* nothing shown, sent or pending
          MaxVersion,    \* bound on conditions changed and requests sent
          MaxPlans,      \* bound on plan ids generated
          Disturbances   \* bound on items edited elsewhere and replies lost

Items       == UNION Outfits
Conditions  == [formality : Formalities, warmth : Warmths, extras : SUBSET Extras]

ASSUME OutfitsAssumption == Outfits \subseteq SUBSET Items /\ {} \notin Outfits
ASSUME SceneAssumption == SceneDefault \in Conditions
ASSUME NoneAssumption == None \notin Conditions
ASSUME BoundAssumption == {MaxVersion, MaxPlans, Disturbances} \subseteq Nat

Availability == {"wearable", "packed", "laundry"}
ItemRow      == [revision : Nat, availability : Availability]

VARIABLES session,     \* what useCurrentUser knows
          conditions,  \* formality, warmth, extras
          version,     \* requestVersion.current
          pending,     \* a recommendation is awaited
          asked,       \* recommendation requests in flight
          result,      \* the candidates shown
          submitted,   \* the request they answer
          saved,       \* plan id of each card saved
          planIDs,     \* ids kept for cards whose save has not succeeded
          savePending, \* the card being saved
          create,      \* the create request the view waits for
          late,        \* creates the client gave up that may still arrive
          tried,       \* cards and the ids used for them, under these conditions
          wardrobe,    \* server: revision and availability of each item
          plans,       \* server: outfit plans by id
          nextID,      \* the next id crypto.randomUUID will return
          budget       \* disturbances left

page   == <<conditions, version, pending, asked, result, submitted>>
saving == <<saved, planIDs, savePending, create, late, tried, nextID>>
server == <<wardrobe, plans>>
vars   == <<session, page, saving, server, budget>>

-----------------------------------------------------------------------------
(* The server, as far as the view relies on it *)

\* A candidate carries the rows its items had when the server read them; only
\* the available ones are proposed, and packed ones if the request admits them.
Proposable(request) ==
  {outfit \in Outfits :
     \A item \in outfit :
       \/ wardrobe[item].availability = "wearable"
       \/ wardrobe[item].availability = "packed" /\ Packed \in request.extras}

Candidate(outfit) == [item \in outfit |-> wardrobe[item]]

\* An id is used for one content: the same content again returns the plan, any
\* other is a conflict.  Items must be as they were when they were chosen, and
\* what is not available must have been confirmed.
Accepts(c) ==
  IF c.id \in DOMAIN plans
  THEN plans[c.id] = c.content
  ELSE \A item \in DOMAIN c.content :
         /\ wardrobe[item].revision = c.content[item].revision
         /\ wardrobe[item].availability # "wearable" => c.content[item].availability = "packed"

Store(c) == plans' = [id \in DOMAIN plans \union {c.id} |->
                        IF id = c.id THEN c.content ELSE plans[id]]

Disturbed == budget > 0 /\ budget' = budget - 1

EditItem(item) ==
  /\ Disturbed
  /\ \E availability \in Availability :
       wardrobe' = [wardrobe EXCEPT ![item] =
         [revision |-> wardrobe[item].revision + 1, availability |-> availability]]
  /\ UNCHANGED <<session, page, saving, plans>>

-----------------------------------------------------------------------------
(* The session gate: conditions, alerts and cards exist only past it *)

CheckSession ==
  /\ session = "checking"
  /\ session' \in {"in", "out", "failed"}
  /\ UNCHANGED <<page, saving, server, budget>>

RetrySession ==
  /\ session = "failed"
  /\ session' = "checking"
  /\ UNCHANGED <<page, saving, server, budget>>

Open == session = "in"

-----------------------------------------------------------------------------
(* Conditions and recommendations *)

Init ==
  /\ session = "checking"
  /\ conditions = SceneDefault
  /\ version = 0 /\ pending = FALSE /\ asked = {}
  /\ result = None /\ submitted = None
  /\ saved = <<>> /\ planIDs = <<>> /\ savePending = None /\ create = None
  /\ late = {} /\ tried = {} /\ nextID = 1
  /\ wardrobe = [item \in Items |-> [revision |-> 1, availability |-> "wearable"]]
  /\ plans = <<>> /\ budget = Disturbances

\* changeConstraints: the version moves, so that no reply still on its way is
\* taken for the new conditions, and everything that belongs to the old ones
\* is forgotten, the ids kept for retries included.
ChangeConstraints(changed) ==
  /\ Open /\ savePending = None
  /\ version < MaxVersion
  /\ version' = version + 1
  /\ conditions' = changed
  /\ pending' = FALSE /\ result' = None /\ submitted' = None
  /\ saved' = <<>> /\ planIDs' = <<>> /\ tried' = {}
  /\ UNCHANGED <<session, asked, savePending, create, late, nextID, server, budget>>

\* The toggles. The first two are of type single: giving up the chosen value
\* without another is ignored.
ChangeFormality ==
  \E f \in Formalities \ {conditions.formality} :
    ChangeConstraints([conditions EXCEPT !.formality = f])

ChangeWarmth ==
  \E w \in Warmths \ {conditions.warmth} :
    ChangeConstraints([conditions EXCEPT !.warmth = w])

ChangeExtras ==
  \E e \in SUBSET Extras \ {conditions.extras} :
    ChangeConstraints([conditions EXCEPT !.extras = e])

\* recommend, up to the await. What was saved stays, the result goes.
MayRecommend == Open /\ ~pending /\ savePending = None

Recommend ==
  /\ MayRecommend
  /\ version < MaxVersion
  /\ version' = version + 1
  /\ pending' = TRUE /\ result' = None
  /\ asked' = asked \union {[version |-> version + 1, request |-> conditions]}
  /\ UNCHANGED <<session, conditions, submitted, saving, server, budget>>

\* recommend, after the await: a reply whose version has passed is dropped.
Current(call) == call.version = version

ShowResultAnyway(call) ==   \* mutant: an outdated reply is shown
  /\ call \in asked
  /\ asked' = asked \ {call}
  /\ \E outfits \in SUBSET Proposable(call.request) :
       result' = {Candidate(outfit) : outfit \in outfits}
  /\ submitted' = call.request
  /\ pending' = (pending /\ ~Current(call))
  /\ UNCHANGED <<session, conditions, version, saving, server, budget>>

ShowResult(call) ==
  /\ call \in asked
  /\ asked' = asked \ {call}
  /\ IF Current(call)
     THEN /\ \E outfits \in SUBSET Proposable(call.request) :
               result' = {Candidate(outfit) : outfit \in outfits}
          /\ submitted' = call.request
          /\ pending' = FALSE
     ELSE UNCHANGED <<result, submitted, pending>>
  /\ UNCHANGED <<session, conditions, version, saving, server, budget>>

RecommendFailsAlways(call) ==   \* mutant: an outdated failure ends the wait
  /\ call \in asked
  /\ asked' = asked \ {call}
  /\ pending' = FALSE
  /\ UNCHANGED <<session, conditions, version, result, submitted, saving, server, budget>>

RecommendFails(call) ==
  /\ call \in asked
  /\ asked' = asked \ {call}
  /\ pending' = (pending /\ ~Current(call))
  /\ UNCHANGED <<session, conditions, version, result, submitted, saving, server, budget>>

-----------------------------------------------------------------------------
(* Saving a card *)

Key(candidate) == DOMAIN candidate

\* The cards shown; each offers to be saved until it has been.
Cards == IF Open /\ result # None THEN result ELSE {}

MaySave(candidate) ==
  candidate \in Cards /\ savePending = None /\ Key(candidate) \notin DOMAIN saved

\* planIDs.current.get(key) ?? crypto.randomUUID()
PlanIDFresh(key) == nextID   \* mutant: an id is not kept for the retry

PlanID(key) == IF key \in DOMAIN planIDs THEN planIDs[key] ELSE nextID

Keep(key, id) == planIDs' = [k \in DOMAIN planIDs \union {key} |->
                               IF k = key THEN id ELSE planIDs[k]]

\* savePlan, up to the await: packed items are confirmed, being shown as such.
SavePlan(candidate) ==
  LET key == Key(candidate)
      id  == PlanID(key)
  IN  /\ MaySave(candidate)
      /\ id <= MaxPlans
      /\ Keep(key, id)
      /\ nextID' = IF id = nextID THEN nextID + 1 ELSE nextID
      /\ savePending' = key
      /\ create' = [id |-> id, key |-> key, content |-> candidate, fate |-> "sent"]
      /\ tried' = tried \union {<<key, id>>}
      /\ UNCHANGED <<session, page, saved, late, server, budget>>

\* The server handles the create the view waits for.
HandleCreate ==
  /\ create # None /\ create.fate = "sent"
  /\ IF Accepts(create)
     THEN Store(create) /\ create' = [create EXCEPT !.fate = "stored"]
     ELSE create' = [create EXCEPT !.fate = "refused"] /\ UNCHANGED plans
  /\ UNCHANGED <<session, page, saved, planIDs, savePending, late, tried, nextID, wardrobe, budget>>

\* savePlan, after the await: the id is dropped only with the plan known.
SaveSucceeds ==
  /\ create # None /\ create.fate = "stored"
  /\ saved' = [k \in DOMAIN saved \union {create.key} |->
                 IF k = create.key THEN create.id ELSE saved[k]]
  /\ planIDs' = Restrict(planIDs, DOMAIN planIDs \ {create.key})
  /\ savePending' = None /\ create' = None
  /\ UNCHANGED <<session, page, late, tried, nextID, server, budget>>

\* The create failed, for all the view knows: refused, stored with the reply
\* lost, or still on its way.
SaveFails ==
  /\ create # None
  /\ IF create.fate = "refused" THEN UNCHANGED budget ELSE Disturbed
  /\ late' = IF create.fate = "sent" THEN late \union {create} ELSE late
  /\ savePending' = None /\ create' = None
  /\ UNCHANGED <<session, page, saved, planIDs, tried, nextID, server>>

\* A create nobody waits for any more arrives, or never does.
LateCreate(c) ==
  /\ c \in late
  /\ late' = late \ {c}
  /\ IF Accepts(c) THEN Store(c) ELSE UNCHANGED plans
  /\ UNCHANGED <<session, page, saved, planIDs, savePending, create, tried, nextID, wardrobe, budget>>

-----------------------------------------------------------------------------
Next ==
  \/ CheckSession \/ RetrySession
  \/ ChangeFormality \/ ChangeWarmth \/ ChangeExtras
  \/ Recommend
  \/ \E call \in asked : ShowResult(call) \/ RecommendFails(call)
  \/ \E candidate \in Cards : SavePlan(candidate)
  \/ HandleCreate \/ SaveSucceeds \/ SaveFails
  \/ \E c \in late : LateCreate(c)
  \/ \E item \in Items : EditItem(item)

Spec == Init /\ [][Next]_vars

-----------------------------------------------------------------------------
(* Correctness *)

Call == [version : Nat, request : Conditions]

IsCandidate(c) == DOMAIN c \in Outfits /\ c \in [DOMAIN c -> ItemRow]

IsCreate(c) ==
  /\ c.id \in 1 .. nextID - 1
  /\ IsCandidate(c.content) /\ c.key = DOMAIN c.content
  /\ c.fate \in {"sent", "stored", "refused"}

\* Types of the state.
TypeOK ==
  /\ session \in {"checking", "in", "out", "failed"}
  /\ conditions \in Conditions
  /\ version \in Nat /\ pending \in BOOLEAN
  /\ asked \subseteq Call
  /\ result = None \/ \A c \in result : IsCandidate(c)
  /\ submitted \in Conditions \union {None}
  /\ DOMAIN saved \subseteq Outfits /\ DOMAIN planIDs \subseteq Outfits
  /\ savePending \in Outfits \union {None}
  /\ create = None \/ IsCreate(create)
  /\ \A c \in late : IsCreate(c)
  /\ tried \subseteq Outfits \X Nat
  /\ wardrobe \in [Items -> ItemRow]
  /\ nextID \in Nat
  /\ DOMAIN plans \subseteq 1 .. nextID - 1

\* The cards shown answer the conditions shown, however many requests are
\* still on their way and in whatever order they are answered
\* (requestVersion in recommend and changeConstraints).
ShownAnswersConditions == result # None => submitted = conditions

\* The page waits exactly while the request of the current version is out: an
\* outdated reply neither stops the wait for the newer one nor leaves it on.
WaitsForCurrentRequest == pending <=> \E call \in asked : Current(call)

\* Retrying a card never makes a second plan: under one set of conditions, all
\* that was ever sent for a card ends in at most one plan, also when replies
\* are lost and the create given up arrives after its retry (planIDs).
OnePlanPerCard ==
  \A a, b \in tried :
    a[1] = b[1] /\ {a[2], b[2]} \subseteq DOMAIN plans => a = b

=============================================================================
