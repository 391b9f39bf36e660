----------------------- MODULE RecommendationView_proofs -----------------------
(***************************************************************************)
(* Theorems about RecommendationView, for any wardrobe, any conditions and *)
(* any number of requests, failures and changes made elsewhere.            *)
(***************************************************************************)
EXTENDS RecommendationView, TLAPS

-----------------------------------------------------------------------------
(* Requests: the version orders them, and the current one is the only one  *)
(* of its version.                                                         *)

\* Every request on its way was sent under the version it carries, the latest
\* version is the page's, and only the current conditions carry it.
AskedByVersion ==
  /\ \A call \in asked : call.version \in Nat /\ call.version <= version
  /\ \A call \in asked : Current(call) => call.request = conditions
  /\ \A a, b \in asked : a.version = b.version => a = b

RequestInv ==
  /\ version \in Nat /\ pending \in BOOLEAN
  /\ AskedByVersion
  /\ WaitsForCurrentRequest
  /\ ShownAnswersConditions

LEMMA RequestInit == Init => RequestInv
<1> SUFFICES ASSUME Init PROVE RequestInv
  OBVIOUS
<1>1. version \in Nat /\ pending \in BOOLEAN
  BY DEF Init
<1>2. asked = {} /\ pending = FALSE /\ result = None
  BY DEF Init
<1>3. AskedByVersion
  BY <1>2 DEF AskedByVersion
<1>4. WaitsForCurrentRequest
  BY <1>2, Zenon DEF WaitsForCurrentRequest
<1>5. ShownAnswersConditions
  BY <1>2 DEF ShownAnswersConditions
<1> QED BY <1>1, <1>3, <1>4, <1>5 DEF RequestInv

LEMMA RequestAfterChange ==
  ASSUME RequestInv, NEW changed, ChangeConstraints(changed)
  PROVE  RequestInv'
<1>1. version' = version + 1 /\ version' \in Nat
  BY DEF RequestInv, ChangeConstraints
<1>2. \A call \in asked' : call.version \in Nat /\ call.version < version'
  BY <1>1 DEF RequestInv, AskedByVersion, ChangeConstraints
<1>3. AskedByVersion'
  BY <1>1, <1>2 DEF RequestInv, AskedByVersion, ChangeConstraints, Current
<1>4. WaitsForCurrentRequest'
  BY <1>1, <1>2 DEF WaitsForCurrentRequest, ChangeConstraints, Current
<1>5. ShownAnswersConditions'
  BY DEF ShownAnswersConditions, ChangeConstraints
<1> QED BY <1>1, <1>3, <1>4, <1>5 DEF RequestInv, ChangeConstraints

LEMMA RequestAfterRecommend ==
  ASSUME RequestInv, Recommend
  PROVE  RequestInv'
<1> DEFINE sent == [version |-> version + 1, request |-> conditions]
<1>1. version' = version + 1 /\ version' \in Nat /\ sent.version = version' /\ sent.request = conditions'
  BY DEF RequestInv, Recommend
<1>2. asked' = asked \union {sent}
  BY DEF Recommend
<1>3. \A call \in asked : call.version \in Nat /\ call.version < version'
  BY <1>1 DEF RequestInv, AskedByVersion
<1> HIDE DEF sent
<1>4. AskedByVersion'
  <2>1. \A call \in asked' : call.version \in Nat /\ call.version <= version'
    BY <1>1, <1>2, <1>3
  <2>2. \A call \in asked' : Current(call)' => call.request = conditions'
    BY <1>1, <1>2, <1>3 DEF Current
  <2>3. \A a, b \in asked' : a.version = b.version => a = b
    BY <1>1, <1>2, <1>3 DEF RequestInv, AskedByVersion
  <2> QED BY <2>1, <2>2, <2>3 DEF AskedByVersion, Current
<1>5. WaitsForCurrentRequest'
  BY <1>1, <1>2 DEF WaitsForCurrentRequest, Recommend, Current
<1>6. ShownAnswersConditions'
  BY DEF ShownAnswersConditions, Recommend
<1> QED BY <1>1, <1>4, <1>5, <1>6 DEF RequestInv, Recommend

\* A request that is answered takes the wait along exactly if it was current.
LEMMA AnsweredOnce ==
  ASSUME RequestInv, NEW call \in asked,
         asked' = asked \ {call}, version' = version, conditions' = conditions,
         pending' = (pending /\ ~Current(call))
  PROVE  AskedByVersion' /\ WaitsForCurrentRequest'
<1>1. AskedByVersion'
  BY DEF RequestInv, AskedByVersion, Current
<1>2. CASE Current(call)
  <2>1. \A other \in asked' : ~(Current(other)')
    BY <1>2 DEF RequestInv, AskedByVersion, Current
  <2> QED BY <1>1, <1>2, <2>1 DEF WaitsForCurrentRequest
<1>3. CASE ~Current(call)
  <2>1. (\E other \in asked : Current(other)) <=> (\E other \in asked' : Current(other)')
    BY <1>3 DEF Current
  <2>2. pending' <=> pending
    BY <1>3
  <2>3. pending <=> \E other \in asked : Current(other)
    BY DEF RequestInv, WaitsForCurrentRequest
  <2> QED BY <1>1, <2>1, <2>2, <2>3 DEF WaitsForCurrentRequest
<1> QED BY <1>2, <1>3

LEMMA RequestAfterResult ==
  ASSUME RequestInv, NEW call, ShowResult(call)
  PROVE  RequestInv'
<1>1. call \in asked /\ asked' = asked \ {call} /\ version' = version /\ conditions' = conditions
  BY DEF ShowResult
<1>2. pending \in BOOLEAN /\ version \in Nat
  BY DEF RequestInv
<1>3. pending' = (pending /\ ~Current(call))
  <2>1. CASE Current(call)
    <3>1. pending' = FALSE
      BY <2>1 DEF ShowResult
    <3> QED BY <2>1, <3>1
  <2>2. CASE ~Current(call)
    <3>1. pending' = pending
      BY <2>2 DEF ShowResult
    <3> QED BY <1>2, <2>2, <3>1
  <2> QED BY <2>1, <2>2
<1>4. AskedByVersion' /\ WaitsForCurrentRequest'
  BY <1>1, <1>3, AnsweredOnce
<1>5. ShownAnswersConditions'
  <2>1. CASE Current(call)
    <3>1. submitted' = call.request
      BY <2>1 DEF ShowResult
    <3>2. call.request = conditions
      BY <1>1, <2>1 DEF RequestInv, AskedByVersion
    <3> QED BY <1>1, <3>1, <3>2 DEF ShownAnswersConditions
  <2>2. CASE ~Current(call)
    BY <1>1, <2>2 DEF RequestInv, ShownAnswersConditions, ShowResult
  <2> QED BY <2>1, <2>2
<1> QED BY <1>1, <1>2, <1>3, <1>4, <1>5 DEF RequestInv

LEMMA RequestAfterFailure ==
  ASSUME RequestInv, NEW call, RecommendFails(call)
  PROVE  RequestInv'
<1>1. /\ call \in asked /\ asked' = asked \ {call}
      /\ version' = version /\ conditions' = conditions
      /\ pending' = (pending /\ ~Current(call))
      /\ result' = result /\ submitted' = submitted
  BY DEF RecommendFails
<1>2. pending' \in BOOLEAN
  BY <1>1
<1>3. AskedByVersion' /\ WaitsForCurrentRequest'
  BY <1>1, AnsweredOnce
<1> QED BY <1>1, <1>2, <1>3 DEF RequestInv, ShownAnswersConditions

\* Saving, the session and other devices leave the requests alone.
LEMMA RequestUnchanged ==
  ASSUME RequestInv, UNCHANGED page
  PROVE  RequestInv'
BY DEF RequestInv, AskedByVersion, WaitsForCurrentRequest, ShownAnswersConditions, Current, page

LEMMA RequestStep == RequestInv /\ [Next]_vars => RequestInv'
<1> SUFFICES ASSUME RequestInv, [Next]_vars PROVE RequestInv'
  OBVIOUS
<1>1. CASE ChangeFormality \/ ChangeWarmth \/ ChangeExtras
  BY <1>1, RequestAfterChange DEF ChangeFormality, ChangeWarmth, ChangeExtras
<1>2. CASE Recommend
  BY <1>2, RequestAfterRecommend
<1>3. ASSUME NEW call \in asked, ShowResult(call) \/ RecommendFails(call) PROVE RequestInv'
  BY <1>3, RequestAfterResult, RequestAfterFailure
<1>4. CASE CheckSession \/ RetrySession
  BY <1>4, RequestUnchanged DEF CheckSession, RetrySession
<1>5. ASSUME NEW candidate, SavePlan(candidate) PROVE RequestInv'
  BY <1>5, RequestUnchanged DEF SavePlan
<1>6. CASE HandleCreate \/ SaveSucceeds \/ SaveFails
  BY <1>6, RequestUnchanged DEF HandleCreate, SaveSucceeds, SaveFails
<1>7. ASSUME NEW c, LateCreate(c) PROVE RequestInv'
  BY <1>7, RequestUnchanged DEF LateCreate
<1>8. ASSUME NEW item, EditItem(item) PROVE RequestInv'
  BY <1>8, RequestUnchanged DEF EditItem
<1>9. CASE UNCHANGED vars
  BY <1>9, RequestUnchanged DEF vars
<1> QED BY <1>1, <1>2, <1>3, <1>4, <1>5, <1>6, <1>7, <1>8, <1>9 DEF Next

\* Whatever order the replies come in, the outfits on the page were proposed
\* for the conditions on the page.
THEOREM ShownAnswersConditionsAlways == Spec => []ShownAnswersConditions
<1>1. RequestInv => ShownAnswersConditions
  BY DEF RequestInv
<1> QED BY <1>1, RequestInit, RequestStep, PTL DEF Spec

\* The page is busy exactly while the request for its conditions is out.
THEOREM WaitsForCurrentRequestAlways == Spec => []WaitsForCurrentRequest
<1>1. RequestInv => WaitsForCurrentRequest
  BY DEF RequestInv
<1> QED BY <1>1, RequestInit, RequestStep, PTL DEF Spec

-----------------------------------------------------------------------------
(* Plan ids: one per card. *)

\* An id a card was sent with is kept until the card is known to be saved, and
\* a saved card is not sent again: a card has one id.
OneIDPerCard ==
  /\ \A a \in tried : a = <<a[1], a[2]>>
  /\ \A a \in tried :
       \/ a[1] \in DOMAIN saved
       \/ a[1] \in DOMAIN planIDs /\ planIDs[a[1]] = a[2]
  /\ \A a, b \in tried : a[1] = b[1] => a = b

LEMMA OneIDInit == Init => OneIDPerCard
BY DEF Init, OneIDPerCard

LEMMA OneIDAfterSave ==
  ASSUME OneIDPerCard, NEW candidate, SavePlan(candidate)
  PROVE  OneIDPerCard'
<1> DEFINE key == Key(candidate)
           id  == PlanID(key)
           new == <<key, id>>
<1>1. tried' = tried \union {new} /\ saved' = saved /\ key \notin DOMAIN saved
  BY DEF SavePlan, MaySave
<1>2. planIDs' = [k \in DOMAIN planIDs \union {key} |-> IF k = key THEN id ELSE planIDs[k]]
  BY DEF SavePlan, Keep
<1>3. \A a \in tried : a[1] = key => a = new
  <2> SUFFICES ASSUME NEW a \in tried, a[1] = key PROVE a = new
    OBVIOUS
  <2>1. a = <<a[1], a[2]>> /\ key \in DOMAIN planIDs /\ planIDs[key] = a[2]
    BY <1>1 DEF OneIDPerCard
  <2>2. id = a[2]
    BY <2>1 DEF PlanID
  <2> QED BY <2>1, <2>2
<1>4. new[1] = key /\ new[2] = id
  OBVIOUS
<1> HIDE DEF key, id, new
<1>5. \A a \in tried' : a = <<a[1], a[2]>>
  BY <1>1, <1>4 DEF OneIDPerCard, new
<1>6. \A a \in tried' :
        \/ a[1] \in DOMAIN saved'
        \/ a[1] \in DOMAIN planIDs' /\ planIDs'[a[1]] = a[2]
  <2> SUFFICES ASSUME NEW a \in tried', a[1] \notin DOMAIN saved'
               PROVE  a[1] \in DOMAIN planIDs' /\ planIDs'[a[1]] = a[2]
    OBVIOUS
  <2>1. CASE a = new
    BY <1>2, <1>4, <2>1
  <2>2. CASE a # new
    <3>1. a \in tried /\ a[1] # key
      BY <1>1, <1>3, <2>2
    <3>2. a[1] \in DOMAIN planIDs /\ planIDs[a[1]] = a[2]
      BY <1>1, <3>1 DEF OneIDPerCard
    <3> QED BY <1>2, <3>1, <3>2
  <2> QED BY <2>1, <2>2
<1>7. \A a, b \in tried' : a[1] = b[1] => a = b
  BY <1>1, <1>3, <1>4 DEF OneIDPerCard
<1> QED BY <1>5, <1>6, <1>7 DEF OneIDPerCard

LEMMA OneIDAfterSuccess ==
  ASSUME OneIDPerCard, SaveSucceeds
  PROVE  OneIDPerCard'
<1> DEFINE key == create.key
<1>1. tried' = tried /\ DOMAIN saved' = DOMAIN saved \union {key}
  BY DEF SaveSucceeds
<1>2. planIDs' = [k \in DOMAIN planIDs \ {key} |-> planIDs[k]]
  BY DEF SaveSucceeds, Restrict
<1> HIDE DEF key
<1>3. \A a \in tried' :
        \/ a[1] \in DOMAIN saved'
        \/ a[1] \in DOMAIN planIDs' /\ planIDs'[a[1]] = a[2]
  BY <1>1, <1>2 DEF OneIDPerCard
<1> QED BY <1>1, <1>3 DEF OneIDPerCard

LEMMA OneIDUnchanged ==
  ASSUME OneIDPerCard, UNCHANGED <<tried, saved, planIDs>>
  PROVE  OneIDPerCard'
BY DEF OneIDPerCard

LEMMA OneIDAfterChange ==
  ASSUME NEW changed, ChangeConstraints(changed)
  PROVE  OneIDPerCard'
BY DEF OneIDPerCard, ChangeConstraints

LEMMA OneIDStep == OneIDPerCard /\ [Next]_vars => OneIDPerCard'
<1> SUFFICES ASSUME OneIDPerCard, [Next]_vars PROVE OneIDPerCard'
  OBVIOUS
<1>1. CASE ChangeFormality \/ ChangeWarmth \/ ChangeExtras
  BY <1>1, OneIDAfterChange DEF ChangeFormality, ChangeWarmth, ChangeExtras
<1>2. CASE Recommend
  BY <1>2, OneIDUnchanged DEF Recommend, saving
<1>3. ASSUME NEW call \in asked, ShowResult(call) \/ RecommendFails(call) PROVE OneIDPerCard'
  BY <1>3, OneIDUnchanged DEF ShowResult, RecommendFails, saving
<1>4. CASE CheckSession \/ RetrySession
  BY <1>4, OneIDUnchanged DEF CheckSession, RetrySession, saving
<1>5. ASSUME NEW candidate, SavePlan(candidate) PROVE OneIDPerCard'
  BY <1>5, OneIDAfterSave
<1>6. CASE SaveSucceeds
  BY <1>6, OneIDAfterSuccess
<1>7. CASE HandleCreate \/ SaveFails
  BY <1>7, OneIDUnchanged DEF HandleCreate, SaveFails
<1>8. ASSUME NEW c, LateCreate(c) PROVE OneIDPerCard'
  BY <1>8, OneIDUnchanged DEF LateCreate
<1>9. ASSUME NEW item, EditItem(item) PROVE OneIDPerCard'
  BY <1>9, OneIDUnchanged DEF EditItem, saving
<1>10. CASE UNCHANGED vars
  BY <1>10, OneIDUnchanged DEF vars, saving
<1> QED BY <1>1, <1>2, <1>3, <1>4, <1>5, <1>6, <1>7, <1>8, <1>9, <1>10 DEF Next

\* However often a card is saved again, and whatever arrives late, it becomes
\* one plan at most.
THEOREM OnePlanPerCardAlways == Spec => []OnePlanPerCard
<1>1. OneIDPerCard => OnePlanPerCard
  BY DEF OneIDPerCard, OnePlanPerCard
<1> QED BY <1>1, OneIDInit, OneIDStep, PTL DEF Spec
=============================================================================
