------------------------ MODULE MediaPipeline_proofs ------------------------
(***************************************************************************)
(* Theorems about MediaPipeline, for any assets, any processes and any     *)
(* number of faults.                                                       *)
(***************************************************************************)
EXTENDS MediaPipeline, SequenceTheorems, TLAPS

-----------------------------------------------------------------------------
(* Every state is well typed. *)

LEMMA InitTyped == Init => TypeOK
<1> SUFFICES ASSUME Init PROVE TypeOK
  OBVIOUS
<1>1. NoRow \in Row
  BY DEF NoRow, Row, Statuses, Purposes, Keys
<1>2. Idle \in Handler(CheckSteps) /\ Idle \in Handler(EraseSteps)
  BY DEF Idle, Handler, CheckSteps, EraseSteps
<1>3. AtRest \in [Assets -> SweepSteps]
  BY DEF AtRest, SweepSteps
<1>4. topic \in [Events -> Seq(Assets)] /\ offset \in [Events -> Nat]
      /\ \A e \in Events : offset[e] <= Len(topic[e])
  BY DEF Init, Events
<1> QED BY <1>1, <1>2, <1>3, <1>4, BoundsAssumption DEF Init, TypeOK

\* What the groups of variables that actions leave alone hold.
LEMMA Untouched ==
  ASSUME TypeOK
  PROVE  /\ UNCHANGED <<topic, offset>> =>
              /\ topic' \in [Events -> Seq(Assets)] /\ offset' \in [Events -> Nat]
              /\ \A e \in Events : offset'[e] <= Len(topic'[e])
         /\ UNCHANGED objects =>
              /\ raw' \in [Assets -> SUBSET Nat] /\ puts' \in [Assets -> Nat]
              /\ url' \in [Assets -> {"unsigned", "valid", "expired"}]
              /\ derived' \in [Assets -> SUBSET Keys]
         /\ UNCHANGED owner =>
              account' \in {"active", "deleting", "gone"} /\ tasks' \in {"none", "pending", "complete"}
         /\ UNCHANGED work =>
              /\ relay' \in [Processes -> SUBSET (Events \X Assets)]
              /\ check' \in [Processes -> Handler(CheckSteps)]
              /\ erase' \in [Processes -> Handler(EraseSteps)]
              /\ sweep' \in [Processes -> [Assets -> SweepSteps]]
BY DEF TypeOK, objects, owner, work

LEMMA RestartTyped ==
  ASSUME TypeOK, NEW p \in Processes, Restart(p)
  PROVE  /\ relay' \in [Processes -> SUBSET (Events \X Assets)]
         /\ check' \in [Processes -> Handler(CheckSteps)]
         /\ erase' \in [Processes -> Handler(EraseSteps)]
         /\ sweep' \in [Processes -> [Assets -> SweepSteps]]
<1>1. Idle \in Handler(CheckSteps) /\ Idle \in Handler(EraseSteps)
  BY DEF Idle, Handler, CheckSteps, EraseSteps
<1>2. AtRest \in [Assets -> SweepSteps]
  BY DEF AtRest, SweepSteps
<1> QED BY <1>1, <1>2 DEF TypeOK, Restart

LEMMA FaultTyped ==
  ASSUME TypeOK, NEW kind, Fault(kind) \/ UNCHANGED budget
  PROVE  budget' \in Nat
BY DEF TypeOK, Fault

LEMMA OwnerTyped ==
  ASSUME TypeOK, NEW a \in Assets, Owner(a) \/ UrlExpires(a)
  PROVE  TypeOK'
<1>1. CASE CreateMedia(a)
  <2>1. PICK kind \in Kinds :
          media' = [media EXCEPT ![a] = [NoRow EXCEPT !.status  = "pending_upload",
                                                      !.purpose = kind[1],
                                                      !.form    = kind[2]]]
    BY <1>1, Zenon DEF CreateMedia
  <2>2. kind[1] \in Purposes /\ kind[2] \in Keys
    BY KindsAssumption DEF AllKinds
  <2>3. media' \in [Assets -> Row]
    BY <2>1, <2>2 DEF TypeOK, Row, NoRow, Statuses, Purposes, Keys
  <2>4. url' \in [Assets -> {"unsigned", "valid", "expired"}]
    BY <1>1 DEF CreateMedia, TypeOK
  <2> QED BY <1>1, <2>3, <2>4, Untouched DEF CreateMedia, TypeOK, broker
<1>2. CASE Put(a)
  <2>1. puts[a] \in Nat
    BY DEF TypeOK
  <2>2. puts' \in [Assets -> Nat] /\ raw' \in [Assets -> SUBSET Nat]
    BY <1>2, <2>1 DEF Put, TypeOK
  <2> QED BY <1>2, <2>2, Untouched DEF Put, TypeOK, broker
<1>3. CASE CompleteMedia(a)
  <2>1. media' \in [Assets -> Row]
    <3>1. PICK version \in raw[a], valid \in BOOLEAN :
            media' = [media EXCEPT ![a].status = "uploaded", ![a].version = version, ![a].valid = valid]
      BY <1>3, Zenon DEF CompleteMedia
    <3>2. media[a] \in Row /\ version \in Nat
      BY DEF TypeOK
    <3>3. [media[a] EXCEPT !.status = "uploaded", !.version = version, !.valid = valid] \in Row
      BY <3>2 DEF Row, Statuses
    <3>4. media' = [media EXCEPT ![a] = [media[a] EXCEPT !.status = "uploaded", !.version = version, !.valid = valid]]
      BY <3>1 DEF TypeOK
    <3> QED BY <3>3, <3>4 DEF TypeOK
  <2>2. outbox' \in [Events -> [Assets -> {"none", "pending", "published"}]]
    BY <1>3 DEF CompleteMedia, TypeOK, Events
  <2> QED BY <1>3, <2>1, <2>2, Untouched DEF CompleteMedia, TypeOK, broker
<1>4. CASE WithdrawConsent(a)
  <2>1. media' \in [Assets -> Row]
    <3>1. media[a] \in Row
      BY DEF TypeOK
    <3>2. [media[a] EXCEPT !.withdrawn = TRUE] \in Row
      BY <3>1 DEF Row
    <3> QED BY <1>4, <3>2 DEF WithdrawConsent, TypeOK
  <2> QED BY <1>4, <2>1, Untouched DEF WithdrawConsent, TypeOK, broker
<1>5. CASE DeleteMedia(a)
  <2>1. media' \in [Assets -> Row]
    <3>1. media[a] \in Row
      BY DEF TypeOK
    <3>2. Deleting(media[a]) \in Row
      BY <3>1 DEF Row, Statuses, Deleting
    <3> QED BY <1>5, <3>2 DEF DeleteMedia, TypeOK
  <2>2. outbox' \in [Events -> [Assets -> {"none", "pending", "published"}]]
    BY <1>5 DEF DeleteMedia, TypeOK, Events
  <2> QED BY <1>5, <2>1, <2>2, Untouched DEF DeleteMedia, TypeOK, broker
<1>6. CASE UrlExpires(a)
  <2>1. url' \in [Assets -> {"unsigned", "valid", "expired"}]
    BY <1>6 DEF UrlExpires, TypeOK
  <2> QED BY <1>6, <2>1, Untouched DEF UrlExpires, TypeOK, broker
<1> QED BY <1>1, <1>2, <1>3, <1>4, <1>5, <1>6 DEF Owner

LEMMA GoneRowTyped == GoneRow \in Row
BY DEF Row, Statuses, Keys, Purposes, GoneRow, NoRow

\* Rows as the transactions leave them.
LEMMA DeletionRowsTyped ==
  ASSUME NEW row \in Row
  PROVE  Deleting(row) \in Row /\ DeletedRow(row) \in Row
BY DEF Row, Statuses, Keys, Deleting, DeletedRow

LEMMA StatusRowTyped ==
  ASSUME NEW row \in Row, NEW status \in Statuses
  PROVE  /\ [row EXCEPT !.status = status] \in Row
         /\ [row EXCEPT !.sourceDeleted = TRUE, !.status = status] \in Row
BY DEF Row

LEMMA ReadyRowTyped ==
  ASSUME NEW row \in Row, NEW key \in Keys
  PROVE  [row EXCEPT !.status = "ready", !.derivation = key] \in Row
BY DEF Row, Statuses

LEMMA RequestRowTyped ==
  ASSUME NEW row \in Row, NEW request \in {"complete", "running"}
  PROVE  [row EXCEPT !.request = request] \in Row
BY DEF Row

LEMMA FinalizeTyped ==
  ASSUME NEW rows \in [Assets -> Row], NEW status \in {"active", "deleting", "gone"},
         NEW cleanups \in {"none", "pending", "complete"},
         FinalizeAccountDeletionIfReady(rows, status, cleanups)
  PROVE  /\ media' \in [Assets -> Row]
         /\ account' \in {"active", "deleting", "gone"} /\ tasks' \in {"none", "pending", "complete"}
BY GoneRowTyped DEF FinalizeAccountDeletionIfReady

LEMMA AccountTyped ==
  ASSUME TypeOK, BeginAccountDeletion \/ CompleteTaskCleanup
  PROVE  TypeOK'
<1>1. CASE BeginAccountDeletion
  <2> DEFINE remaining == {a \in Assets : media[a].status \notin {"none", "deleted"}}
             rows == [a \in Assets |-> IF a \in remaining THEN Deleting(media[a]) ELSE media[a]]
  <2>1. rows \in [Assets -> Row]
    <3>1. \A a \in Assets : media[a] \in Row /\ Deleting(media[a]) \in Row
      BY DeletionRowsTyped DEF TypeOK
    <3> QED BY <3>1
  <2>2. \E cleanups \in {"none", "pending"} :
          FinalizeAccountDeletionIfReady(rows, "deleting", cleanups)
    BY <1>1 DEF BeginAccountDeletion
  <2> HIDE DEF rows
  <2>3. /\ media' \in [Assets -> Row]
        /\ account' \in {"active", "deleting", "gone"} /\ tasks' \in {"none", "pending", "complete"}
    BY <2>1, <2>2, FinalizeTyped
  <2>4. outbox' \in [Events -> [Assets -> {"none", "pending", "published"}]]
    BY <1>1 DEF BeginAccountDeletion, TypeOK, Events
  <2>5. UNCHANGED <<broker, inbox, objects, work, budget>>
    BY <1>1 DEF BeginAccountDeletion
  <2> QED BY <2>3, <2>4, <2>5, Untouched DEF TypeOK, broker
<1>2. CASE CompleteTaskCleanup
  <2>1. /\ media' \in [Assets -> Row]
        /\ account' \in {"active", "deleting", "gone"} /\ tasks' \in {"none", "pending", "complete"}
    BY <1>2, FinalizeTyped DEF CompleteTaskCleanup, TypeOK
  <2> QED BY <1>2, <2>1, Untouched DEF CompleteTaskCleanup, TypeOK, broker
<1> QED BY <1>1, <1>2

LEMMA RelayTyped ==
  ASSUME TypeOK, NEW p \in Processes, Relay(p)
  PROVE  TypeOK'
<1>1. CASE MarkOutboxPublished(p)
  <2>1. outbox' \in [Events -> [Assets -> {"none", "pending", "published"}]]
    <3>1. PICK e \in Events, a \in Assets : outbox' = [outbox EXCEPT ![e][a] = "published"]
      BY <1>1, Zenon DEF MarkOutboxPublished
    <3> QED BY <3>1 DEF TypeOK
  <2>2. relay' \in [Processes -> SUBSET (Events \X Assets)]
    BY <1>1 DEF MarkOutboxPublished, TypeOK
  <2> QED BY <1>1, <2>1, <2>2, Untouched DEF MarkOutboxPublished, TypeOK, broker
<1>2. ASSUME NEW e \in Events, NEW a \in Assets, Publish(p, e, a)
      PROVE  TypeOK'
  <2>1. topic' = [topic EXCEPT ![e] = Append(@, a)] /\ topic[e] \in Seq(Assets)
    BY <1>2 DEF Publish, TypeOK
  <2>2. Append(topic[e], a) \in Seq(Assets) /\ Len(Append(topic[e], a)) = Len(topic[e]) + 1
    BY <2>1, AppendProperties
  <2>3. topic' \in [Events -> Seq(Assets)] /\ \A f \in Events : offset[f] <= Len(topic'[f])
    <3>1. \A f \in Events : offset[f] \in Nat /\ Len(topic[f]) \in Nat /\ offset[f] <= Len(topic[f])
      BY LenProperties DEF TypeOK
    <3> QED BY <2>1, <2>2, <3>1 DEF TypeOK
  <2>4. relay' \in [Processes -> SUBSET (Events \X Assets)]
    BY <1>2 DEF Publish, TypeOK
  <2> QED BY <1>2, <2>3, <2>4, Untouched DEF Publish, TypeOK
<1> QED BY <1>1, <1>2 DEF Relay

\* The asset a polled record is about.
LEMMA CurrentTyped ==
  ASSUME TypeOK, NEW p, NEW e \in Events, Polled(p, e)
  PROVE  Current(e) \in Assets /\ offset[e] + 1 \in 1 .. Len(topic[e])
<1>1. topic[e] \in Seq(Assets) /\ offset[e] \in Nat /\ offset[e] < Len(topic[e])
  BY DEF TypeOK, Polled
<1>2. Len(topic[e]) \in Nat
  BY <1>1, LenProperties
<1>3. offset[e] + 1 \in 1 .. Len(topic[e])
  BY <1>1, <1>2
<1> QED BY <1>1, <1>3, ElementOfSeq DEF Current

\* A handler that holds its topic works on the record it polled.
AtCurrent(p, e, handler) ==
  assigned[e] = p /\ handler.step # "idle" =>
    offset[e] < Len(topic[e]) /\ Current(e) = handler.asset

Handling ==
  \A p \in Processes :
    /\ AtCurrent(p, "media.uploaded", check[p])
    /\ AtCurrent(p, "media.deletion_requested", erase[p])
    /\ check[p].step # "idle" => check[p].asset \in Assets
    /\ erase[p].step # "idle" => erase[p].asset \in Assets
    /\ check[p].step \in {"put", "complete", "compensate"} => check[p].key \in Keys

MediaTyped == TypeOK /\ Handling

LEMMA CommitTyped ==
  ASSUME TypeOK, NEW p \in Processes, NEW e \in Events, NEW handler,
         Commit(p, e, handler), Polled(p, e) \/ assigned[e] # p
  PROVE  /\ offset' \in [Events -> Nat] /\ \A f \in Events : offset'[f] <= Len(topic[f])
         /\ \/ handler
            \/ Restart(p)
<1>1. CASE assigned[e] = p
  <2>1. \A f \in Events : offset[f] \in Nat /\ Len(topic[f]) \in Nat /\ offset[f] <= Len(topic[f])
    BY LenProperties DEF TypeOK
  <2>2. offset' = [offset EXCEPT ![e] = @ + 1] /\ handler /\ offset[e] < Len(topic[e])
    BY <1>1 DEF Commit, Polled
  <2> QED BY <2>1, <2>2 DEF TypeOK
<1>2. CASE assigned[e] # p
  BY <1>2 DEF Commit, TypeOK
<1> QED BY <1>1, <1>2

\* What deletions leave of a store.
LEMMA StoresTyped ==
  ASSUME TypeOK, NEW a, NEW keys
  PROVE  /\ Without(raw, a, keys) \in [Assets -> SUBSET Nat]
         /\ WithoutSome(raw, a, keys) \subseteq [Assets -> SUBSET Nat]
         /\ Without(derived, a, keys) \in [Assets -> SUBSET Keys]
         /\ WithoutSome(derived, a, keys) \subseteq [Assets -> SUBSET Keys]
<1>1. ASSUME NEW store, NEW S, store \in [Assets -> SUBSET S]
      PROVE  \A some : Without(store, a, some) \in [Assets -> SUBSET S]
  BY <1>1 DEF Without
<1>2. ASSUME NEW store, NEW S, store \in [Assets -> SUBSET S]
      PROVE  WithoutSome(store, a, keys) \subseteq [Assets -> SUBSET S]
  BY <1>1, <1>2 DEF WithoutSome
<1> QED BY <1>1, <1>2 DEF TypeOK

\* A step of a handler, typed.
LEMMA HandlerTyped ==
  ASSUME NEW steps, NEW h \in Handler(steps), NEW step \in steps
  PROVE  [h EXCEPT !.step = step] \in Handler(steps)
BY DEF Handler

LEMMA CheckMediaTyped ==
  ASSUME TypeOK, Handling, NEW p \in Processes, CheckMedia(p)
  PROVE  TypeOK'
<1> DEFINE a == check[p].asset
<1>0. Idle \in Handler(CheckSteps)
  BY DEF Idle, Handler, CheckSteps
<1>g. ASSUME NEW step \in CheckSteps, CheckGoto(p, step)
      PROVE  check' \in [Processes -> Handler(CheckSteps)]
  <2>1. [check[p] EXCEPT !.step = step] \in Handler(CheckSteps)
    BY HandlerTyped DEF TypeOK
  <2> QED BY <1>g, <2>1 DEF TypeOK, CheckGoto
<1>f. ASSUME CheckFails(p)
      PROVE  check' \in [Processes -> Handler(CheckSteps)]
  BY <1>f, <1>0 DEF TypeOK, CheckFails
<1>s. {"read", "reject", "put", "complete", "compensate", "commit"} \subseteq CheckSteps
  BY DEF CheckSteps
<1>1. CASE CheckBegin(p)
  <2> DEFINE b == Current("media.uploaded")
  <2>1. b \in Assets
    BY <1>1, CurrentTyped DEF CheckBegin, Events
  <2>2. media[b] \in Row /\ media[b].status \in Statuses
    BY <2>1 DEF TypeOK, Row
  <2>3. PICK status \in Statuses, step \in {"read", "commit"} : CheckStarts(p, b, status, step)
    BY <1>1, <2>2 DEF CheckBegin, Statuses
  <2>4. media' \in [Assets -> Row]
    BY <2>1, <2>2, <2>3, StatusRowTyped DEF CheckStarts, TypeOK
  <2>5. check' \in [Processes -> Handler(CheckSteps)]
    BY <2>1, <2>3 DEF CheckStarts, TypeOK, Handler, CheckSteps
  <2> QED BY <2>3, <2>4, <2>5, Untouched DEF CheckStarts, TypeOK, broker
<1>2. CASE CheckRead(p)
  <2>1. check' \in [Processes -> Handler(CheckSteps)]
    <3>1. ASSUME check' = [check EXCEPT ![p].step = "put", ![p].key = media[a].form], Exists(a)
          PROVE  check' \in [Processes -> Handler(CheckSteps)]
      <4>1. a \in Assets /\ media[a] \in Row /\ media[a].form \in Keys
        BY <1>2 DEF CheckRead, Handling, TypeOK, Row
      <4>2. check[p] \in Handler(CheckSteps)
        BY DEF TypeOK
      <4>3. [check[p] EXCEPT !.step = "put", !.key = media[a].form] \in Handler(CheckSteps)
        BY <4>1, <4>2 DEF Handler, CheckSteps
      <4>4. check' = [check EXCEPT ![p] = [check[p] EXCEPT !.step = "put", !.key = media[a].form]]
        BY <3>1 DEF TypeOK
      <4> QED BY <4>3, <4>4 DEF TypeOK
    <3> QED BY <1>2, <3>1, <1>g, <1>s DEF CheckRead
  <2>2. budget' \in Nat
    BY <1>2, FaultTyped DEF CheckRead
  <2> QED BY <1>2, <2>1, <2>2, Untouched DEF CheckRead, TypeOK, broker
<1>3. CASE CheckReject(p)
  <2>1. media[a].status = "checking" => a \in Assets /\ media[a] \in Row
    BY <1>3 DEF CheckReject, Handling, TypeOK
  <2>2. media' \in [Assets -> Row]
    BY <1>3, <2>1, StatusRowTyped DEF CheckReject, TypeOK, Statuses
  <2>3. inbox' \subseteq Events \X Assets
    BY <1>3, <2>1 DEF CheckReject, TypeOK, Events
  <2>4. check' \in [Processes -> Handler(CheckSteps)]
    BY <1>3, <1>g, <1>f, <1>s DEF CheckReject
  <2>5. budget' \in Nat
    BY <1>3, FaultTyped DEF CheckReject
  <2> QED BY <1>3, <2>2, <2>3, <2>4, <2>5, Untouched DEF CheckReject, TypeOK, broker
<1>4. CASE CheckPut(p)
  <2>1. derived' \in [Assets -> SUBSET Keys]
    <3>1. [derived EXCEPT ![a] = @ \cup {check[p].key}] \in [Assets -> SUBSET Keys]
      BY <1>4 DEF CheckPut, Handling, TypeOK
    <3>2. derived' \in {derived, [derived EXCEPT ![a] = @ \cup {check[p].key}]}
      BY <1>4 DEF CheckPut
    <3> QED BY <3>1, <3>2 DEF TypeOK
  <2>2. check' \in [Processes -> Handler(CheckSteps)]
    BY <1>4, <1>g, <1>f, <1>s DEF CheckPut
  <2>3. budget' \in Nat
    BY <1>4, FaultTyped DEF CheckPut
  <2> QED BY <1>4, <2>1, <2>2, <2>3, Untouched DEF CheckPut, TypeOK, broker
<1>5. CASE CheckComplete(p)
  <2>1. a \in Assets /\ media[a] \in Row /\ check[p].key \in Keys
    BY <1>5 DEF CheckComplete, Handling, TypeOK
  <2>2. [media[a] EXCEPT !.status = "ready", !.derivation = check[p].key] \in Row
    BY <2>1, ReadyRowTyped
  <2>3. media' \in [Assets -> Row]
    BY <1>5, <2>1, <2>2 DEF CheckComplete, TypeOK
  <2>4. inbox' \subseteq Events \X Assets
    BY <1>5, <2>1 DEF CheckComplete, TypeOK, Events
  <2>5. check' \in [Processes -> Handler(CheckSteps)]
    BY <1>5, <1>g, <1>s DEF CheckComplete
  <2>6. budget' \in Nat
    BY <1>5, FaultTyped DEF CheckComplete
  <2> QED BY <1>5, <2>3, <2>4, <2>5, <2>6, Untouched DEF CheckComplete, TypeOK, broker
<1>6. CASE Compensate(p)
  <2>1. derived' \in [Assets -> SUBSET Keys]
    BY <1>6, StoresTyped DEF Compensate
  <2>2. check' \in [Processes -> Handler(CheckSteps)]
    BY <1>6, <1>f DEF Compensate
  <2>3. budget' \in Nat
    BY <1>6, FaultTyped DEF Compensate
  <2> QED BY <1>6, <2>1, <2>2, <2>3, Untouched DEF Compensate, TypeOK, broker
<1>7. CASE CheckCommit(p)
  <2>1. Polled(p, "media.uploaded") \/ assigned["media.uploaded"] # p
    BY <1>7 DEF CheckCommit, Handling, AtCurrent, Polled
  <2>2. /\ offset' \in [Events -> Nat] /\ \A f \in Events : offset'[f] <= Len(topic[f])
        /\ (CheckFails(p) /\ UNCHANGED <<relay, erase, sweep>>) \/ Restart(p)
    BY <1>7, <2>1, CommitTyped DEF CheckCommit, Events
  <2>3. /\ relay' \in [Processes -> SUBSET (Events \X Assets)]
        /\ check' \in [Processes -> Handler(CheckSteps)]
        /\ erase' \in [Processes -> Handler(EraseSteps)]
        /\ sweep' \in [Processes -> [Assets -> SweepSteps]]
    BY <2>2, <1>f, RestartTyped DEF TypeOK
  <2> QED BY <1>7, <2>2, <2>3, Untouched DEF CheckCommit, TypeOK
<1> QED BY <1>1, <1>2, <1>3, <1>4, <1>5, <1>6, <1>7 DEF CheckMedia

LEMMA EraseMediaTyped ==
  ASSUME TypeOK, Handling, NEW p \in Processes, EraseMedia(p)
  PROVE  TypeOK'
<1> DEFINE a == erase[p].asset
<1>0. Idle \in Handler(EraseSteps)
  BY DEF Idle, Handler, EraseSteps
<1>g. ASSUME NEW step \in EraseSteps, EraseGoto(p, step)
      PROVE  erase' \in [Processes -> Handler(EraseSteps)]
  <2>1. [erase[p] EXCEPT !.step = step] \in Handler(EraseSteps)
    BY HandlerTyped DEF TypeOK
  <2> QED BY <1>g, <2>1 DEF TypeOK, EraseGoto
<1>f. ASSUME EraseFails(p)
      PROVE  erase' \in [Processes -> Handler(EraseSteps)]
  BY <1>f, <1>0 DEF TypeOK, EraseFails
<1>s. {"raw", "derived", "complete", "commit"} \subseteq EraseSteps
  BY DEF EraseSteps
<1>1. CASE EraseBegin(p)
  <2> DEFINE b == Current("media.deletion_requested")
  <2>1. b \in Assets
    BY <1>1, CurrentTyped DEF EraseBegin, Events
  <2>2. media[b] \in Row /\ media[b].derivation \in Keys \cup {"none"}
    BY <2>1 DEF TypeOK, Row
  <2>3. PICK request \in {"complete", "running"}, step \in {"raw", "commit"} :
          EraseStarts(p, b, request, step)
    BY <1>1 DEF EraseBegin
  <2>4. media' \in [Assets -> Row]
    BY <2>1, <2>2, <2>3, RequestRowTyped DEF EraseStarts, TypeOK
  <2>5. erase' \in [Processes -> Handler(EraseSteps)]
    <3>1. [step |-> step, asset |-> b, key |-> media[b].derivation] \in Handler(EraseSteps)
      BY <2>1, <2>2, <1>s DEF Handler
    <3> QED BY <2>3, <3>1 DEF EraseStarts, TypeOK
  <2> QED BY <2>3, <2>4, <2>5, Untouched DEF EraseStarts, TypeOK, broker
<1>2. CASE EraseRaw(p)
  <2>1. raw' \in [Assets -> SUBSET Nat]
    BY <1>2, StoresTyped DEF EraseRaw
  <2>2. erase' \in [Processes -> Handler(EraseSteps)]
    BY <1>2, <1>g, <1>f, <1>s DEF EraseRaw
  <2>3. budget' \in Nat
    BY <1>2, FaultTyped DEF EraseRaw
  <2> QED BY <1>2, <2>1, <2>2, <2>3, Untouched DEF EraseRaw, TypeOK, broker
<1>3. CASE EraseDerived(p)
  <2>1. derived' \in [Assets -> SUBSET Keys]
    BY <1>3, StoresTyped DEF EraseDerived
  <2>2. erase' \in [Processes -> Handler(EraseSteps)]
    BY <1>3, <1>g, <1>f, <1>s DEF EraseDerived
  <2>3. budget' \in Nat
    BY <1>3, FaultTyped DEF EraseDerived
  <2> QED BY <1>3, <2>1, <2>2, <2>3, Untouched DEF EraseDerived, TypeOK, broker
<1>4. CASE EraseComplete(p)
  <2>1. a \in Assets /\ media[a] \in Row
    BY <1>4 DEF EraseComplete, Handling, TypeOK
  <2>2. /\ media' \in [Assets -> Row]
        /\ account' \in {"active", "deleting", "gone"} /\ tasks' \in {"none", "pending", "complete"}
    <3>1. [media EXCEPT ![a] = DeletedRow(@)] \in [Assets -> Row]
      BY <2>1, DeletionRowsTyped DEF TypeOK
    <3>2. CASE UNCHANGED <<media, owner>>
      BY <3>2 DEF TypeOK, owner
    <3>3. CASE FinalizeAccountDeletionIfReady([media EXCEPT ![a] = DeletedRow(@)], account, tasks)
      BY <3>1, <3>3, FinalizeTyped DEF TypeOK
    <3> QED BY <1>4, <3>2, <3>3 DEF EraseComplete
  <2>3. inbox' \subseteq Events \X Assets
    BY <1>4, <2>1 DEF EraseComplete, TypeOK, Events
  <2>4. erase' \in [Processes -> Handler(EraseSteps)]
    BY <1>4, <1>g, <1>f, <1>s DEF EraseComplete
  <2>5. budget' \in Nat
    BY <1>4, FaultTyped DEF EraseComplete
  <2> QED BY <1>4, <2>2, <2>3, <2>4, <2>5, Untouched DEF EraseComplete, TypeOK, broker
<1>5. CASE EraseCommit(p)
  <2>1. Polled(p, "media.deletion_requested") \/ assigned["media.deletion_requested"] # p
    BY <1>5 DEF EraseCommit, Handling, AtCurrent, Polled
  <2>2. /\ offset' \in [Events -> Nat] /\ \A f \in Events : offset'[f] <= Len(topic[f])
        /\ (EraseFails(p) /\ UNCHANGED <<relay, check, sweep>>) \/ Restart(p)
    BY <1>5, <2>1, CommitTyped DEF EraseCommit, Events
  <2>3. /\ relay' \in [Processes -> SUBSET (Events \X Assets)]
        /\ check' \in [Processes -> Handler(CheckSteps)]
        /\ erase' \in [Processes -> Handler(EraseSteps)]
        /\ sweep' \in [Processes -> [Assets -> SweepSteps]]
    BY <2>2, <1>f, RestartTyped DEF TypeOK
  <2> QED BY <1>5, <2>2, <2>3, Untouched DEF EraseCommit, TypeOK
<1> QED BY <1>1, <1>2, <1>3, <1>4, <1>5 DEF EraseMedia

LEMMA SweepTyped ==
  ASSUME TypeOK, NEW p \in Processes, NEW a \in Assets, Sweep(p, a)
  PROVE  TypeOK'
<1>g. ASSUME NEW step \in SweepSteps, SweepGoto(p, a, step)
      PROVE  /\ sweep' \in [Processes -> [Assets -> SweepSteps]]
             /\ UNCHANGED <<relay, check, erase>>
  BY <1>g DEF TypeOK, SweepGoto
<1>s. {"idle", "raw", "rawOfDeleted", "derived", "mark"} \subseteq SweepSteps
  BY DEF SweepSteps
<1> DEFINE WorkTyped ==
      /\ relay' \in [Processes -> SUBSET (Events \X Assets)]
      /\ check' \in [Processes -> Handler(CheckSteps)]
      /\ erase' \in [Processes -> Handler(EraseSteps)]
      /\ sweep' \in [Processes -> [Assets -> SweepSteps]]
<1>w. ASSUME Restart(p) \/ \E step \in {"idle", "raw", "rawOfDeleted", "derived", "mark"} : SweepGoto(p, a, step)
      PROVE  WorkTyped
  BY <1>w, <1>g, <1>s, RestartTyped DEF TypeOK
<1> HIDE DEF WorkTyped
<1>1. CASE SweepBegin(p, a)
  <2>1. WorkTyped
    BY <1>1, <1>w DEF SweepBegin
  <2> QED BY <1>1, <2>1, Untouched DEF SweepBegin, TypeOK, broker, WorkTyped
<1>2. CASE SweepRaw(p, a)
  <2>1. WorkTyped /\ raw' \in [Assets -> SUBSET Nat] /\ budget' \in Nat
    BY <1>2, <1>w, StoresTyped, FaultTyped DEF SweepRaw
  <2> QED BY <1>2, <2>1, Untouched DEF SweepRaw, TypeOK, broker, WorkTyped
<1>3. CASE SweepDerived(p, a)
  <2>1. WorkTyped /\ derived' \in [Assets -> SUBSET Keys] /\ budget' \in Nat
    BY <1>3, <1>w, StoresTyped, FaultTyped DEF SweepDerived
  <2> QED BY <1>3, <2>1, Untouched DEF SweepDerived, TypeOK, broker, WorkTyped
<1>4. CASE MarkSourceDeleted(p, a)
  <2>1. WorkTyped
    BY <1>4, <1>w DEF MarkSourceDeleted
  <2>2. media' \in [Assets -> Row]
    <3> DEFINE status == IF media[a].status = "pending_upload" THEN "rejected" ELSE media[a].status
               row    == [media[a] EXCEPT !.sourceDeleted = TRUE, !.status = status]
    <3>1. media[a] \in Row /\ status \in Statuses
      BY DEF TypeOK, Row, Statuses
    <3>2. row \in Row
      BY <3>1, StatusRowTyped
    <3>3. media' = media \/ media' = [media EXCEPT ![a] = row]
      BY <1>4 DEF MarkSourceDeleted, TypeOK, Row
    <3> QED BY <3>2, <3>3 DEF TypeOK
  <2> QED BY <1>4, <2>1, <2>2, Untouched DEF MarkSourceDeleted, TypeOK, broker, WorkTyped
<1> QED BY <1>1, <1>2, <1>3, <1>4 DEF Sweep

LEMMA FaultsTyped ==
  ASSUME TypeOK, NEW p \in Processes, Crash(p) \/ \E e \in Events : Rebalance(e, p)
  PROVE  TypeOK'
<1>1. CASE Crash(p)
  BY <1>1, FaultTyped, RestartTyped, Untouched DEF Crash, TypeOK, broker
<1>2. ASSUME NEW e \in Events, Rebalance(e, p)
      PROVE  TypeOK'
  <2>1. assigned' \in [Events -> Processes]
    BY <1>2 DEF Rebalance, TypeOK
  <2> QED BY <1>2, <2>1, FaultTyped, Untouched DEF Rebalance, TypeOK
<1> QED BY <1>1, <1>2

-----------------------------------------------------------------------------
(* A handler works on the record its process polled, until that process     *)
(* commits it or loses the topic.                                           *)

Continues(old, new) == new.step # "idle" => old.step # "idle" /\ new.asset = old.asset
Keyed == {"put", "complete", "compensate"}

\* Every process goes on with what it does, or drops it.
AllContinue ==
  \A q \in Processes : /\ Continues(check[q], check'[q]) /\ Continues(erase[q], erase'[q])
                       /\ check'[q].step \in Keyed => check'[q].key \in Keys

\* No topic is taken away and nothing is committed; at most a record is added.
RecordsStay ==
  /\ assigned' = assigned /\ offset' = offset
  /\ \/ topic' = topic
     \/ \E f \in Events, a \in Assets : topic' = [topic EXCEPT ![f] = Append(@, a)]

LEMMA CurrentStays ==
  ASSUME TypeOK, RecordsStay, NEW e \in Events, offset[e] < Len(topic[e])
  PROVE  offset'[e] < Len(topic'[e]) /\ Current(e)' = Current(e)
<1>1. CASE topic' = topic
  BY <1>1 DEF RecordsStay, Current
<1>2. CASE \E f \in Events, a \in Assets : topic' = [topic EXCEPT ![f] = Append(@, a)]
  <2>1. PICK f \in Events, a \in Assets : topic' = [topic EXCEPT ![f] = Append(@, a)]
    BY <1>2
  <2>2. topic[e] \in Seq(Assets) /\ offset[e] \in Nat /\ Len(topic[e]) \in Nat
    BY LenProperties DEF TypeOK
  <2>3. topic'[e] = topic[e] \/ topic'[e] = Append(topic[e], a)
    BY <2>1 DEF TypeOK
  <2>4. /\ Len(Append(topic[e], a)) = Len(topic[e]) + 1
        /\ \A i \in 1 .. Len(topic[e]) : Append(topic[e], a)[i] = topic[e][i]
    BY <2>2, AppendProperties
  <2>5. offset[e] + 1 \in 1 .. Len(topic[e]) /\ offset' = offset
    BY <2>2 DEF RecordsStay
  <2> QED BY <2>2, <2>3, <2>4, <2>5 DEF Current
<1> QED BY <1>1, <1>2 DEF RecordsStay

LEMMA HandlingKept ==
  ASSUME TypeOK, Handling, AllContinue, RecordsStay
  PROVE  Handling'
<1> SUFFICES ASSUME NEW q \in Processes
             PROVE  /\ AtCurrent(q, "media.uploaded", check[q])'
                    /\ AtCurrent(q, "media.deletion_requested", erase[q])'
                    /\ check'[q].step # "idle" => check'[q].asset \in Assets
                    /\ erase'[q].step # "idle" => erase'[q].asset \in Assets
                    /\ check'[q].step \in {"put", "complete", "compensate"} => check'[q].key \in Keys
  BY DEF Handling
<1>0. \A e \in Events : offset[e] < Len(topic[e]) =>
        offset'[e] < Len(topic'[e]) /\ Current(e)' = Current(e)
  BY CurrentStays
<1>1. AtCurrent(q, "media.uploaded", check[q])'
  <2>1. AtCurrent(q, "media.uploaded", check[q]) /\ Continues(check[q], check'[q])
    BY DEF AllContinue, Handling
  <2> QED BY <1>0, <2>1 DEF AtCurrent, Continues, Events, RecordsStay
<1>2. AtCurrent(q, "media.deletion_requested", erase[q])'
  <2>1. AtCurrent(q, "media.deletion_requested", erase[q]) /\ Continues(erase[q], erase'[q])
    BY DEF AllContinue, Handling
  <2> QED BY <1>0, <2>1 DEF AtCurrent, Continues, Events, RecordsStay
<1> QED BY <1>1, <1>2 DEF AllContinue, Continues, Handling, Keyed

LEMMA RestartContinues ==
  ASSUME TypeOK, Handling, NEW p \in Processes, Restart(p)
  PROVE  AllContinue
BY DEF TypeOK, Handling, Restart, AllContinue, Continues, Idle, Keyed

LEMMA OthersContinue ==
  ASSUME Handling, UNCHANGED <<check, erase>>
  PROVE  AllContinue
BY DEF Handling, AllContinue, Continues, Keyed

\* The handler of one process goes on, the other handlers stay.
LEMMA OneContinues ==
  ASSUME TypeOK, Handling, NEW p \in Processes,
         \/ erase' = erase /\ CheckFails(p)
         \/ erase' = erase /\ check[p].step # "idle" /\ \E step \in CheckSteps :
              CheckGoto(p, step) /\ (step \in Keyed => check[p].key \in Keys)
         \/ check' = check /\ EraseFails(p)
         \/ check' = check /\ erase[p].step # "idle" /\ \E step \in EraseSteps : EraseGoto(p, step)
  PROVE  AllContinue
<1>1. CASE erase' = erase /\ CheckFails(p)
  BY <1>1 DEF TypeOK, Handling, CheckFails, AllContinue, Continues, Idle, Keyed
<1>2. CASE erase' = erase /\ check[p].step # "idle" /\ \E step \in CheckSteps :
             CheckGoto(p, step) /\ (step \in Keyed => check[p].key \in Keys)
  BY <1>2 DEF TypeOK, Handling, CheckGoto, AllContinue, Continues, Keyed, Handler
<1>3. CASE check' = check /\ EraseFails(p)
  BY <1>3 DEF TypeOK, Handling, EraseFails, AllContinue, Continues, Idle, Keyed
<1>4. CASE check' = check /\ erase[p].step # "idle" /\ \E step \in EraseSteps : EraseGoto(p, step)
  BY <1>4 DEF TypeOK, Handling, EraseGoto, AllContinue, Continues, Keyed, Handler
<1> QED BY <1>1, <1>2, <1>3, <1>4

\* Every step of a handler but its first goes on with the record.
LEMMA CheckContinues ==
  ASSUME TypeOK, Handling, NEW p \in Processes, CheckMedia(p), ~CheckBegin(p)
  PROVE  AllContinue
<1>s. {"read", "reject", "put", "complete", "compensate", "commit"} \subseteq CheckSteps
  BY DEF CheckSteps
<1>1. CASE CheckRead(p)
  <2>1. CASE CheckGoto(p, "reject")
    BY <1>1, <2>1, <1>s, OneContinues DEF CheckRead, Keyed
  <2>2. CASE /\ Exists(check[p].asset)
             /\ check' = [check EXCEPT ![p].step = "put", ![p].key = media[check[p].asset].form]
    <3>1. media[check[p].asset].form \in Keys
      BY <1>1 DEF CheckRead, Handling, TypeOK, Row
    <3> QED BY <1>1, <2>2, <3>1
            DEF CheckRead, TypeOK, Handler, Handling, AllContinue, Continues, Keyed
  <2> QED BY <1>1, <2>1, <2>2 DEF CheckRead
<1>2. CASE CheckReject(p)
  BY <1>2, <1>s, OneContinues DEF CheckReject, Keyed
<1>3. CASE CheckPut(p) \/ CheckComplete(p)
  <2>1. check[p].key \in Keys /\ erase' = erase /\ check[p].step # "idle"
    BY <1>3 DEF CheckPut, CheckComplete, Handling
  <2>2. \/ CheckFails(p)
        \/ \E step \in {"complete", "commit", "compensate"} : CheckGoto(p, step)
    BY <1>3 DEF CheckPut, CheckComplete
  <2> QED BY <2>1, <2>2, <1>s, OneContinues
<1>4. CASE Compensate(p)
  BY <1>4, OneContinues DEF Compensate
<1>5. CASE CheckCommit(p)
  BY <1>5, RestartContinues, OneContinues DEF CheckCommit, Commit
<1> QED BY <1>1, <1>2, <1>3, <1>4, <1>5 DEF CheckMedia

LEMMA EraseContinues ==
  ASSUME TypeOK, Handling, NEW p \in Processes, EraseMedia(p), ~EraseBegin(p)
  PROVE  AllContinue
<1>s. {"raw", "derived", "complete", "commit"} \subseteq EraseSteps
  BY DEF EraseSteps
<1>1. CASE EraseRaw(p) \/ EraseDerived(p) \/ EraseComplete(p)
  <2>1. /\ erase[p].step # "idle" /\ check' = check
        /\ EraseFails(p) \/ \E step \in {"derived", "complete", "commit"} : EraseGoto(p, step)
    BY <1>1 DEF EraseRaw, EraseDerived, EraseComplete
  <2> QED BY <2>1, <1>s, OneContinues
<1>2. CASE EraseCommit(p)
  BY <1>2, RestartContinues, OneContinues DEF EraseCommit, Commit
<1> QED BY <1>1, <1>2 DEF EraseMedia

LEMMA HandlersContinue ==
  ASSUME TypeOK, Handling, [Next]_vars,
         \A p \in Processes : ~CheckBegin(p) /\ ~EraseBegin(p)
  PROVE  AllContinue
<1>1. CASE (\E a \in Assets : Owner(a) \/ UrlExpires(a)) \/ BeginAccountDeletion \/ CompleteTaskCleanup
  <2>1. UNCHANGED <<check, erase>>
    BY <1>1 DEF Owner, CreateMedia, Put, CompleteMedia, WithdrawConsent, DeleteMedia, UrlExpires,
                BeginAccountDeletion, CompleteTaskCleanup, work
  <2> QED BY <2>1, OthersContinue
<1>2. ASSUME NEW p \in Processes, Relay(p)
      PROVE  AllContinue
  BY <1>2, OthersContinue DEF Relay, MarkOutboxPublished, Publish
<1>3. ASSUME NEW p \in Processes, NEW a \in Assets, Sweep(p, a)
      PROVE  AllContinue
  <2>1. UNCHANGED <<check, erase>> \/ Restart(p)
    BY <1>3 DEF Sweep, SweepBegin, SweepRaw, SweepDerived, MarkSourceDeleted, SweepGoto
  <2> QED BY <2>1, OthersContinue, RestartContinues
<1>4. ASSUME NEW p \in Processes, Crash(p)
      PROVE  AllContinue
  BY <1>4, RestartContinues DEF Crash
<1>5. ASSUME NEW p \in Processes, NEW e \in Events, Rebalance(e, p)
      PROVE  AllContinue
  BY <1>5, OthersContinue DEF Rebalance, work
<1>6. CASE UNCHANGED vars
  BY <1>6, OthersContinue DEF vars, work
<1> QED BY <1>1, <1>2, <1>3, <1>4, <1>5, <1>6, CheckContinues, EraseContinues DEF Next

\* What moves records on: reading one, committing one, and the broker.
LEMMA RecordsStayElsewhere ==
  ASSUME [Next]_vars,
         \A p \in Processes : /\ ~CheckCommit(p) /\ ~EraseCommit(p)
                              /\ \A e \in Events : ~Rebalance(e, p)
  PROVE  RecordsStay
<1>1. CASE (\E a \in Assets : Owner(a) \/ UrlExpires(a)) \/ BeginAccountDeletion \/ CompleteTaskCleanup
  BY <1>1 DEF Owner, CreateMedia, Put, CompleteMedia, WithdrawConsent, DeleteMedia, UrlExpires,
              BeginAccountDeletion, CompleteTaskCleanup, broker, RecordsStay
<1>2. ASSUME NEW p \in Processes, Relay(p)
      PROVE  RecordsStay
  BY <1>2 DEF Relay, MarkOutboxPublished, Publish, broker, RecordsStay
<1>3. ASSUME NEW p \in Processes, NEW a \in Assets, Sweep(p, a)
      PROVE  RecordsStay
  BY <1>3 DEF Sweep, SweepBegin, SweepRaw, SweepDerived, MarkSourceDeleted, broker, RecordsStay
<1>4. ASSUME NEW p \in Processes, CheckMedia(p)
      PROVE  RecordsStay
  BY <1>4 DEF CheckMedia, CheckBegin, CheckStarts, CheckRead, CheckReject, CheckPut, CheckComplete,
              Compensate, broker, RecordsStay
<1>5. ASSUME NEW p \in Processes, EraseMedia(p)
      PROVE  RecordsStay
  BY <1>5 DEF EraseMedia, EraseBegin, EraseStarts, EraseRaw, EraseDerived, EraseComplete, broker,
              RecordsStay
<1>6. ASSUME NEW p \in Processes, Crash(p)
      PROVE  RecordsStay
  BY <1>6 DEF Crash, broker, RecordsStay
<1>7. CASE UNCHANGED vars
  BY <1>7 DEF vars, broker, RecordsStay
<1> QED BY <1>1, <1>2, <1>3, <1>4, <1>5, <1>6, <1>7 DEF Next

LEMMA HandlingStep ==
  ASSUME TypeOK, Handling, [Next]_vars
  PROVE  Handling'
<1>1. ASSUME NEW p \in Processes, CheckBegin(p)
      PROVE  Handling'
  <2> DEFINE b == Current("media.uploaded")
  <2>1. b \in Assets /\ Polled(p, "media.uploaded")
    BY <1>1, CurrentTyped DEF CheckBegin, Events
  <2>2. PICK status \in Statuses, step \in {"read", "commit"} : CheckStarts(p, b, status, step)
    <3>1. media[b].status \in Statuses
      BY <2>1 DEF TypeOK, Row
    <3> QED BY <1>1, <3>1 DEF CheckBegin, Statuses
  <2>3. /\ check' = [check EXCEPT ![p] = [step |-> step, asset |-> b, key |-> "none"]]
        /\ erase' = erase /\ UNCHANGED <<topic, offset, assigned>>
    BY <2>2 DEF CheckStarts, broker
  <2> QED BY <2>1, <2>3 DEF Handling, AtCurrent, Current, Polled, TypeOK
<1>2. ASSUME NEW p \in Processes, EraseBegin(p)
      PROVE  Handling'
  <2> DEFINE b == Current("media.deletion_requested")
  <2>1. b \in Assets /\ Polled(p, "media.deletion_requested")
    BY <1>2, CurrentTyped DEF EraseBegin, Events
  <2>2. PICK request \in {"complete", "running"}, step \in {"raw", "commit"} :
          EraseStarts(p, b, request, step)
    BY <1>2 DEF EraseBegin
  <2>3. /\ erase' = [erase EXCEPT ![p] = [step |-> step, asset |-> b, key |-> media[b].derivation]]
        /\ check' = check /\ UNCHANGED <<topic, offset, assigned>>
    BY <2>2 DEF EraseStarts, broker
  <2> QED BY <2>1, <2>3 DEF Handling, AtCurrent, Current, Polled, TypeOK
<1>3. ASSUME NEW p \in Processes, CheckCommit(p)
      PROVE  Handling'
  <2>0. AllContinue
    BY <1>3, RestartContinues, OneContinues DEF CheckCommit, Commit
  <2>1. CASE UNCHANGED offset
    BY <1>3, <2>0, <2>1, HandlingKept DEF CheckCommit, RecordsStay
  <2>2. CASE /\ assigned["media.uploaded"] = p /\ CheckFails(p)
             /\ offset' = [offset EXCEPT !["media.uploaded"] = @ + 1]
    <3>1. assigned' = assigned /\ topic' = topic /\ check'[p].step = "idle"
      BY <1>3, <2>2 DEF CheckCommit, CheckFails, Idle, TypeOK
    <3>2. ASSUME NEW q \in Processes, q # p
          PROVE  assigned'["media.uploaded"] # q
      BY <2>2, <3>1, <3>2
    <3>3. offset'["media.deletion_requested"] = offset["media.deletion_requested"]
      BY <2>2 DEF TypeOK
    <3> QED BY <2>0, <3>1, <3>2, <3>3
            DEF Handling, AtCurrent, Current, AllContinue, Continues, Keyed
  <2> QED BY <1>3, <2>1, <2>2 DEF CheckCommit, Commit
<1>4. ASSUME NEW p \in Processes, EraseCommit(p)
      PROVE  Handling'
  <2>0. AllContinue
    BY <1>4, RestartContinues, OneContinues DEF EraseCommit, Commit
  <2>1. CASE UNCHANGED offset
    BY <1>4, <2>0, <2>1, HandlingKept DEF EraseCommit, RecordsStay
  <2>2. CASE /\ assigned["media.deletion_requested"] = p /\ EraseFails(p)
             /\ offset' = [offset EXCEPT !["media.deletion_requested"] = @ + 1]
    <3>1. assigned' = assigned /\ topic' = topic /\ erase'[p].step = "idle"
      BY <1>4, <2>2 DEF EraseCommit, EraseFails, Idle, TypeOK
    <3>2. ASSUME NEW q \in Processes, q # p
          PROVE  assigned'["media.deletion_requested"] # q
      BY <2>2, <3>1, <3>2
    <3>3. offset'["media.uploaded"] = offset["media.uploaded"]
      BY <2>2 DEF TypeOK
    <3> QED BY <2>0, <3>1, <3>2, <3>3
            DEF Handling, AtCurrent, Current, AllContinue, Continues, Keyed
  <2> QED BY <1>4, <2>1, <2>2 DEF EraseCommit, Commit
<1>5. ASSUME NEW p \in Processes, NEW e \in Events, Rebalance(e, p)
      PROVE  Handling'
  <2>1. /\ assigned' = [assigned EXCEPT ![e] = p] /\ UNCHANGED <<topic, offset, check, erase>>
        /\ e = "media.uploaded" => check[p].step = "idle"
        /\ e = "media.deletion_requested" => erase[p].step = "idle"
    BY <1>5 DEF Rebalance, work
  <2> QED BY <2>1 DEF Handling, AtCurrent, Current, TypeOK, Events
<1> QED BY <1>1, <1>2, <1>3, <1>4, <1>5, HandlersContinue, RecordsStayElsewhere, HandlingKept

LEMMA TypedStep ==
  ASSUME MediaTyped, [Next]_vars
  PROVE  MediaTyped'
<1>1. TypeOK'
  <2>1. CASE UNCHANGED vars
    BY <2>1, Untouched DEF vars, MediaTyped, TypeOK, broker
  <2> QED BY <2>1, OwnerTyped, AccountTyped, RelayTyped, CheckMediaTyped, EraseMediaTyped, SweepTyped,
             FaultsTyped
          DEF Next, MediaTyped
<1>2. Handling'
  BY HandlingStep DEF MediaTyped
<1> QED BY <1>1, <1>2 DEF MediaTyped

LEMMA TypedStart == Init => MediaTyped
<1> SUFFICES ASSUME Init PROVE MediaTyped
  OBVIOUS
<1>1. \A p \in Processes : check[p].step = "idle" /\ erase[p].step = "idle"
  BY DEF Init, Idle
<1> QED BY <1>1, InitTyped DEF MediaTyped, Handling, AtCurrent

-----------------------------------------------------------------------------
(* The life of an asset: how its row may change, and what its events, its   *)
(* handlers and the sweep say about it.                                     *)

Erased == {"deleted", "gone"}
Ended  == {"deleting", "deleted", "gone"}

RowMoves(a, row, next) ==
  /\ row.status = "none" =>
       \/ next.status = "none"
       \/ next.status = "pending_upload" /\ account = "active"
  /\ row.status = "pending_upload" =>
       \/ next.status \in {"pending_upload", "rejected"} \union Ended
       \/ next.status = "uploaded" /\ url[a] = "valid" /\ next.version \in raw[a]
  /\ row.status = "uploaded" => next.status \in {"uploaded", "checking", "rejected"} \union Ended
  /\ row.status = "checking" => next.status \in {"checking", "ready", "rejected"} \union Ended
  /\ row.status = "ready" => next.status \in {"ready"} \union Ended
  /\ row.status = "rejected" => next.status \in {"rejected"} \union Ended
  /\ row.status = "deleting" => next.status \in Ended
  /\ row.status = "deleted" => next.status \in Erased
  /\ row.status = "gone" => next = row
  /\ row.status # "none" /\ next.status # "gone" => next.purpose = row.purpose
  /\ row.status \in {"uploaded", "checking", "ready"} /\ next.status \notin Erased =>
       next.version = row.version
  /\ row.status = "ready" /\ next.status = "ready" => next.derivation = row.derivation
  /\ row.request = "complete" /\ next.status # "gone" => next.request = "complete"
  /\ next.request # "none" => row.request # "none" \/ next.status \in Ended
  /\ next.request = "none" /\ next.status \in {"deleting", "deleted"} =>
       row.request = "none" /\ row.status \in {"deleting", "deleted"}

\* An event is written with the row it is about, and outlives it.
Reached(e, a) ==
  IF e = "media.uploaded" THEN media[a].status \notin {"none", "pending_upload"}
                          ELSE media[a].status \in Ended

Announced(e, a) ==
  \/ outbox[e][a] # "none"
  \/ \E p \in Processes : <<e, a>> \in relay[p]
  \/ \E i \in 1 .. Len(topic[e]) : topic[e][i] = a

EventsAreDue == \A e \in Events, a \in Assets : Announced(e, a) => Reached(e, a)

HandlersAreDue ==
  \A p \in Processes :
    /\ check[p].step # "idle" =>
         media[check[p].asset].status \notin {"none", "pending_upload", "uploaded"}
    /\ erase[p].step # "idle" => media[erase[p].asset].status \in Ended

\* The sweep removes only sources that nobody needs, now or later.
Unneeded(a) ==
  \/ media[a].status = "pending_upload" /\ url[a] = "expired"
  \/ media[a].status = "ready" /\ media[a].purpose # "wardrobe"
  \/ media[a].status \in {"rejected"} \union Ended

SweepsAreDue ==
  \A p \in Processes, a \in Assets :
    /\ sweep[p][a] # "idle" => Unneeded(a)
    /\ sweep[p][a] \in {"rawOfDeleted", "derived"} => media[a].status \in Erased

AccountLast ==
  /\ \A a \in Assets : media[a].request # "none" => media[a].status \in Ended
  /\ \A a \in Assets : media[a].request = "none" => media[a].status \notin {"deleting", "deleted"}
  /\ \A a \in Assets : media[a].status = "gone" => account = "gone"
  /\ account = "gone" =>
       tasks # "pending" /\ \A a \in Assets : media[a].status \in {"none", "gone"}

LifeInv == EventsAreDue /\ HandlersAreDue /\ SweepsAreDue /\ AccountLast

LEMMA RowStays ==
  ASSUME NEW a, NEW row
  PROVE  RowMoves(a, row, row)
BY DEF RowMoves, Ended, Erased

\* Deletion may be asked of anything that lives.
LEMMA DeletingMoves ==
  ASSUME NEW a, NEW row \in Row, row.status \notin {"none", "deleted", "gone"}
  PROVE  RowMoves(a, row, Deleting(row))
<1>1. /\ Deleting(row).status = "deleting" /\ Deleting(row).purpose = row.purpose
      /\ Deleting(row).version = row.version
      /\ Deleting(row).request = IF row.request = "none" THEN "pending" ELSE row.request
  BY DEF Row, Deleting
<1> QED BY <1>1 DEF RowMoves, Ended, Erased

\* A status that checking or sweeping moves on.
LEMMA StatusMoves ==
  ASSUME NEW a, NEW row \in Row, NEW next \in Row,
         \/ next.status = row.status
         \/ row.status = "pending_upload" /\ next.status = "rejected"
         \/ row.status = "uploaded" /\ next.status \in {"checking", "rejected"}
         \/ row.status = "checking" /\ next.status \in {"ready", "rejected"},
         row.status \notin {"none", "gone"}, next.purpose = row.purpose,
         next.version = row.version, next.request = row.request,
         row.status = "ready" => next.derivation = row.derivation
  PROVE  RowMoves(a, row, next)
BY DEF RowMoves, Ended, Erased

LEMMA RowMovesByOwner ==
  ASSUME TypeOK, LifeInv, NEW a \in Assets, NEW b \in Assets, Owner(b) \/ UrlExpires(b)
  PROVE  RowMoves(a, media[a], media'[a])
<1>0. media[a] \in Row /\ media[a].status \in Statuses /\ media[b] \in Row
  BY DEF TypeOK, Row
<1>s. ASSUME media'[a] = media[a]
      PROVE  RowMoves(a, media[a], media'[a])
  BY <1>s, RowStays
<1>1. CASE CreateMedia(b)
  <2>1. PICK kind \in Kinds :
          media' = [media EXCEPT ![b] = [NoRow EXCEPT !.status  = "pending_upload",
                                                      !.purpose = kind[1],
                                                      !.form    = kind[2]]]
    BY <1>1, Zenon DEF CreateMedia
  <2>2. CASE a = b
    <3>1. media[a].status = "none" /\ media[a].request = "none" /\ account = "active"
      BY <1>1, <2>2 DEF CreateMedia, LifeInv, AccountLast, Ended
    <3>2. media'[a].status = "pending_upload" /\ media'[a].request = "none"
      BY <2>1, <2>2 DEF TypeOK, NoRow
    <3> QED BY <3>1, <3>2 DEF RowMoves
  <2> QED BY <1>s, <2>1, <2>2 DEF TypeOK
<1>2. CASE Put(b) \/ UrlExpires(b)
  BY <1>2, <1>s DEF Put, UrlExpires
<1>3. CASE CompleteMedia(b)
  <2>1. PICK version \in raw[b], valid \in BOOLEAN :
          media' = [media EXCEPT ![b].status = "uploaded", ![b].version = version, ![b].valid = valid]
    BY <1>3, Zenon DEF CompleteMedia
  <2>2. CASE a = b
    <3>1. media[a].status = "pending_upload" /\ url[a] = "valid"
      BY <1>3, <2>2 DEF CompleteMedia
    <3>2. /\ media'[a].status = "uploaded" /\ media'[a].version = version
          /\ media'[a].request = media[a].request /\ media'[a].purpose = media[a].purpose
      BY <1>0, <2>1, <2>2 DEF TypeOK, Row
    <3> QED BY <2>2, <3>1, <3>2 DEF RowMoves
  <2> QED BY <1>s, <2>1, <2>2 DEF TypeOK
<1>4. CASE WithdrawConsent(b)
  <2>1. media' = [media EXCEPT ![b].withdrawn = TRUE]
    BY <1>4 DEF WithdrawConsent
  <2>2. CASE a = b
    <3>1. \A field \in {"status", "purpose", "version", "derivation", "request"} :
            media'[a][field] = media[a][field]
      BY <1>0, <2>1, <2>2 DEF TypeOK, Row
    <3>2. /\ media'[a].status = media[a].status /\ media'[a].purpose = media[a].purpose
          /\ media'[a].version = media[a].version /\ media'[a].derivation = media[a].derivation
          /\ media'[a].request = media[a].request
      BY <3>1
    <3>3. media[a].status \notin {"none", "gone"}
      BY <1>4, <2>2 DEF WithdrawConsent, Exists
    <3>4. media'[a] \in Row
      BY <1>0, <2>1, <2>2 DEF TypeOK, Row
    <3> QED BY <1>0, <3>2, <3>3, <3>4, StatusMoves
  <2> QED BY <1>s, <2>1, <2>2 DEF TypeOK
<1>5. CASE DeleteMedia(b)
  <2>1. media' = [media EXCEPT ![b] = Deleting(@)]
    BY <1>5 DEF DeleteMedia
  <2>2. CASE a = b
    <3>1. /\ media[a].request = "none" /\ media[a].status \notin {"none", "gone"}
      BY <1>5, <2>2 DEF DeleteMedia, Exists
    <3>2. media[a].status # "deleted"
      BY <3>1 DEF LifeInv, AccountLast
    <3> QED BY <1>0, <2>1, <2>2, <3>1, <3>2, DeletingMoves DEF TypeOK
  <2> QED BY <1>s, <2>1, <2>2 DEF TypeOK
<1> QED BY <1>1, <1>2, <1>3, <1>4, <1>5 DEF Owner

\* The end of an account: what is left of it is deleted, and goes with it.
LEMMA RowMovesByFinalize ==
  ASSUME NEW rows \in [Assets -> Row], NEW status, NEW cleanups,
         FinalizeAccountDeletionIfReady(rows, status, cleanups),
         NEW a \in Assets, NEW b, NEW row, RowMoves(b, row, rows[a])
  PROVE  RowMoves(b, row, media'[a])
<1>1. CASE ReadyToFinalize(rows, status, cleanups) /\ rows[a].status # "none"
  <2>1. rows[a].status = "deleted"
    BY <1>1 DEF ReadyToFinalize
  <2>2. media'[a] = GoneRow
    BY <1>1 DEF FinalizeAccountDeletionIfReady
  <2>3. GoneRow.status = "gone" /\ GoneRow.request = "none"
    BY DEF GoneRow, NoRow
  <2>4. row.status \in {"deleting", "deleted"} \/ row.status \notin {"none", "gone"}
    BY <2>1 DEF RowMoves
  <2> QED BY <2>1, <2>2, <2>3 DEF RowMoves, Ended, Erased
<1>2. CASE ~(ReadyToFinalize(rows, status, cleanups) /\ rows[a].status # "none")
  <2>1. media'[a] = rows[a]
    BY <1>2 DEF FinalizeAccountDeletionIfReady
  <2> QED BY <2>1
<1> QED BY <1>1, <1>2

LEMMA RowMovesByAccount ==
  ASSUME TypeOK, LifeInv, NEW a \in Assets, BeginAccountDeletion \/ CompleteTaskCleanup
  PROVE  RowMoves(a, media[a], media'[a])
<1>0. media \in [Assets -> Row] /\ media[a] \in Row
  BY DEF TypeOK
<1>1. CASE BeginAccountDeletion
  <2> DEFINE remaining == {c \in Assets : media[c].status \notin {"none", "deleted"}}
             rows == [c \in Assets |-> IF c \in remaining THEN Deleting(media[c]) ELSE media[c]]
  <2>1. PICK cleanups \in {"none", "pending"} : FinalizeAccountDeletionIfReady(rows, "deleting", cleanups)
    BY <1>1 DEF BeginAccountDeletion
  <2>2. rows \in [Assets -> Row]
    <3>1. \A c \in Assets : media[c] \in Row /\ Deleting(media[c]) \in Row
      BY DeletionRowsTyped DEF TypeOK
    <3> QED BY <3>1
  <2>3. RowMoves(a, media[a], rows[a])
    <3>1. CASE a \in remaining
      <4>1. account = "active"
        BY <1>1 DEF BeginAccountDeletion
      <4>2. media[a].status \notin {"none", "deleted", "gone"}
        BY <3>1, <4>1 DEF LifeInv, AccountLast
      <4> QED BY <1>0, <3>1, <4>2, DeletingMoves
    <3>2. CASE a \notin remaining
      BY <3>2, RowStays
    <3> QED BY <3>1, <3>2
  <2> HIDE DEF rows
  <2> QED BY <2>1, <2>2, <2>3, RowMovesByFinalize
<1>2. CASE CompleteTaskCleanup
  <2>1. FinalizeAccountDeletionIfReady(media, account, "complete")
    BY <1>2 DEF CompleteTaskCleanup
  <2> QED BY <1>0, <2>1, RowStays, RowMovesByFinalize
<1> QED BY <1>1, <1>2

LEMMA RowMovesByCheck ==
  ASSUME TypeOK, Handling, LifeInv, NEW p \in Processes, CheckMedia(p), NEW a \in Assets
  PROVE  RowMoves(a, media[a], media'[a])
<1>0. media \in [Assets -> Row] /\ media[a] \in Row
  BY DEF TypeOK
<1>s. ASSUME media'[a] = media[a]
      PROVE  RowMoves(a, media[a], media'[a])
  BY <1>s, RowStays
<1>1. CASE CheckBegin(p)
  <2> DEFINE b == Current("media.uploaded")
  <2>1. b \in Assets
    BY <1>1, CurrentTyped DEF CheckBegin, Events
  <2>2. CASE a # b
    <3>1. media'[a] = media[a]
      BY <1>1, <2>2 DEF CheckBegin, CheckStarts, TypeOK
    <3> QED BY <3>1, <1>s
  <2>3. CASE a = b
    <3>1. PICK status \in Statuses :
            /\ media' = [media EXCEPT ![a].status = status]
            /\ \/ status = media[a].status
               \/ media[a].status = "uploaded" /\ status \in {"checking", "rejected"}
      <4>1. media[a].status \in Statuses
        BY <1>0 DEF Row
      <4> QED BY <1>1, <2>3, <4>1 DEF CheckBegin, CheckStarts, Statuses
    <3>2. media[a].status \notin {"none", "gone"}
      BY <1>1, <2>3 DEF CheckBegin, Exists
    <3>3. media'[a] = [media[a] EXCEPT !.status = status] /\ media'[a] \in Row
      BY <1>0, <3>1, StatusRowTyped
    <3>4. /\ media'[a].status = status /\ media'[a].purpose = media[a].purpose
          /\ media'[a].version = media[a].version /\ media'[a].request = media[a].request
          /\ media'[a].derivation = media[a].derivation
      BY <1>0, <3>3 DEF Row
    <3> QED BY <1>0, <3>1, <3>2, <3>3, <3>4, StatusMoves
  <2> QED BY <2>2, <2>3
<1>2. CASE CheckRead(p) \/ CheckPut(p) \/ Compensate(p) \/ CheckCommit(p)
  BY <1>2, <1>s DEF CheckRead, CheckPut, Compensate, CheckCommit
<1>3. CASE CheckReject(p) \/ CheckComplete(p)
  <2>1. CASE media' = media
    BY <2>1, <1>s
  <2>2. ASSUME NEW status \in {"ready", "rejected"}, NEW key \in Keys \union {media[a].derivation},
               check[p].asset = a, media[a].status = "checking",
               media'[a] = [media[a] EXCEPT !.status = status, !.derivation = key]
        PROVE  RowMoves(a, media[a], media'[a])
    <3>1. media'[a] \in Row
      BY <1>0, <2>2 DEF Row, Statuses
    <3>2. /\ media'[a].status = status /\ media'[a].purpose = media[a].purpose
          /\ media'[a].version = media[a].version /\ media'[a].request = media[a].request
      BY <1>0, <2>2 DEF Row
    <3> QED BY <1>0, <2>2, <3>1, <3>2, StatusMoves
  <2>3. CASE check[p].asset # a
    <3>1. media'[a] = media[a]
      BY <1>3, <2>3 DEF CheckReject, CheckComplete, TypeOK
    <3> QED BY <3>1, <1>s
  <2>4. CASE CheckReject(p) /\ check[p].asset = a /\ media' # media
    <3>1. media' = [media EXCEPT ![a].status = "rejected"] /\ media[a].status = "checking"
      BY <2>4 DEF CheckReject
    <3>2. media'[a] = [media[a] EXCEPT !.status = "rejected", !.derivation = media[a].derivation]
      BY <1>0, <3>1 DEF Row
    <3> QED BY <2>2, <2>4, <3>1, <3>2
  <2>5. CASE CheckComplete(p) /\ check[p].asset = a /\ media' # media
    <3>1. /\ media' = [media EXCEPT ![a].status = "ready", ![a].derivation = check[p].key]
          /\ media[a].status = "checking"
      BY <2>5 DEF CheckComplete
    <3>2. media'[a] = [media[a] EXCEPT !.status = "ready", !.derivation = check[p].key]
      BY <1>0, <3>1
    <3>3. check[p].key \in Keys
      BY <2>5 DEF CheckComplete, Handling
    <3> QED BY <2>2, <2>5, <3>1, <3>2, <3>3
  <2> QED BY <1>3, <2>1, <2>3, <2>4, <2>5
<1> QED BY <1>1, <1>2, <1>3 DEF CheckMedia

LEMMA RowMovesByErase ==
  ASSUME TypeOK, Handling, LifeInv, NEW p \in Processes, EraseMedia(p), NEW a \in Assets
  PROVE  RowMoves(a, media[a], media'[a])
<1>0. media \in [Assets -> Row] /\ media[a] \in Row
  BY DEF TypeOK
<1>s. ASSUME media'[a] = media[a]
      PROVE  RowMoves(a, media[a], media'[a])
  BY <1>s, RowStays
<1>1. CASE EraseBegin(p)
  <2> DEFINE b == Current("media.deletion_requested")
  <2>1. b \in Assets /\ offset["media.deletion_requested"] + 1 \in 1 .. Len(topic["media.deletion_requested"])
    BY <1>1, CurrentTyped DEF EraseBegin, Events
  <2>2. PICK request \in {"complete", "running"}, step \in {"raw", "commit"} :
          EraseStarts(p, b, request, step) /\ (media[b].request = "complete" => request = "complete")
    BY <1>1 DEF EraseBegin
  <2>3. media' = [media EXCEPT ![b].request = request] /\ Exists(b)
    BY <1>1, <2>2 DEF EraseStarts, EraseBegin
  <2>4. CASE a # b
    BY <1>s, <2>3, <2>4 DEF TypeOK
  <2>5. CASE a = b
    <3>1. media[a].status \in Ended \ {"gone"}
      <4>1. \E i \in 1 .. Len(topic["media.deletion_requested"]) : topic["media.deletion_requested"][i] = a
        BY <2>1, <2>5 DEF Current
      <4>2. Reached("media.deletion_requested", a)
        BY <4>1 DEF LifeInv, EventsAreDue, Announced, Events
      <4> QED BY <2>3, <2>5, <4>2 DEF Reached, Exists
    <3>2. /\ media'[a].status = media[a].status /\ media'[a].purpose = media[a].purpose
          /\ media'[a].version = media[a].version /\ media'[a].request = request
      BY <1>0, <2>3, <2>5 DEF Row
    <3> QED BY <2>2, <2>5, <3>1, <3>2 DEF RowMoves, Ended, Erased
  <2> QED BY <2>4, <2>5
<1>2. CASE EraseRaw(p) \/ EraseDerived(p) \/ EraseCommit(p)
  BY <1>2, <1>s DEF EraseRaw, EraseDerived, EraseCommit
<1>3. CASE EraseComplete(p)
  <2> DEFINE b == erase[p].asset
             rows == [media EXCEPT ![b] = DeletedRow(@)]
  <2>1. CASE media' = media
    BY <1>s, <2>1
  <2>2. CASE FinalizeAccountDeletionIfReady(rows, account, tasks) /\ media[b].status = "deleting"
    <3>1. b \in Assets /\ media[b] \in Row
      BY <1>3 DEF EraseComplete, Handling, TypeOK
    <3>2. rows \in [Assets -> Row]
      BY <1>0, <3>1, DeletionRowsTyped
    <3>3. RowMoves(a, media[a], rows[a])
      <4>1. CASE a = b
        <5>1. /\ rows[a].status = "deleted" /\ rows[a].request = "complete"
              /\ rows[a].purpose = media[a].purpose
          BY <1>0, <4>1 DEF DeletedRow, Row
        <5> QED BY <2>2, <4>1, <5>1 DEF RowMoves, Ended, Erased
      <4>2. CASE a # b
        BY <1>0, <4>2, RowStays
      <4> QED BY <4>1, <4>2
    <3> HIDE DEF rows
    <3> QED BY <2>2, <3>2, <3>3, RowMovesByFinalize
  <2> QED BY <1>3, <2>1, <2>2 DEF EraseComplete
<1> QED BY <1>1, <1>2, <1>3 DEF EraseMedia

LEMMA RowMovesBySweep ==
  ASSUME TypeOK, NEW p \in Processes, NEW b \in Assets, Sweep(p, b), NEW a \in Assets
  PROVE  RowMoves(a, media[a], media'[a])
<1>0. media \in [Assets -> Row] /\ media[a] \in Row
  BY DEF TypeOK
<1>1. CASE media'[a] = media[a]
  BY <1>1, RowStays
<1>2. CASE MarkSourceDeleted(p, b) /\ media'[a] # media[a]
  <2> DEFINE status == IF media[a].status = "pending_upload" THEN "rejected" ELSE media[a].status
             row    == [media[a] EXCEPT !.sourceDeleted = TRUE, !.status = status]
  <2>1. a = b /\ Exists(a) /\ media'[a] = row
    BY <1>0, <1>2 DEF MarkSourceDeleted, Row
  <2>2. status \in Statuses
    BY <1>0 DEF Row, Statuses
  <2>3. row \in Row
    BY <1>0, <2>2, StatusRowTyped
  <2>4. /\ row.status = status /\ row.purpose = media[a].purpose
        /\ row.version = media[a].version /\ row.request = media[a].request
        /\ row.derivation = media[a].derivation
    BY <1>0 DEF Row
  <2>5. media[a].status \notin {"none", "gone"}
    BY <2>1 DEF Exists
  <2> QED BY <1>0, <2>1, <2>3, <2>4, <2>5, StatusMoves
<1> QED BY <1>1, <1>2 DEF Sweep, SweepBegin, SweepRaw, SweepDerived

\* Whoever acts, an asset goes one way only.
LEMMA RowStep ==
  ASSUME MediaTyped, LifeInv, [Next]_vars
  PROVE  \A a \in Assets : RowMoves(a, media[a], media'[a])
<1> SUFFICES ASSUME NEW a \in Assets PROVE RowMoves(a, media[a], media'[a])
  OBVIOUS
<1>1. CASE media' = media
  BY <1>1, RowStays
<1>2. ASSUME NEW p \in Processes, Relay(p) \/ Crash(p) \/ \E e \in Events : Rebalance(e, p)
      PROVE  media' = media
  BY <1>2 DEF Relay, MarkOutboxPublished, Publish, Crash, Rebalance
<1>3. CASE UNCHANGED vars
  BY <1>3, <1>1 DEF vars
<1> QED BY <1>1, <1>2, <1>3, RowMovesByOwner, RowMovesByAccount, RowMovesByCheck,
           RowMovesByErase, RowMovesBySweep
        DEF Next, MediaTyped

-----------------------------------------------------------------------------
(* The account goes last. *)

AccountMoves ==
  /\ account = "gone" => account' = "gone" /\ tasks' = tasks
  /\ account # "gone" /\ account' = "gone" =>
       tasks' # "pending" /\ \A a \in Assets : media'[a].status \in {"none", "gone"}
  /\ \A a \in Assets : media'[a].status = "gone" => media[a].status = "gone" \/ account' = "gone"

LEMMA FinalizeMoves ==
  ASSUME NEW rows \in [Assets -> Row], NEW status, NEW cleanups,
         FinalizeAccountDeletionIfReady(rows, status, cleanups),
         status # "gone", account # "gone",
         \A a \in Assets : rows[a].status = "gone" => media[a].status = "gone"
  PROVE  AccountMoves
<1>1. GoneRow.status = "gone"
  BY DEF GoneRow, NoRow
<1>2. CASE ReadyToFinalize(rows, status, cleanups)
  <2>1. account' = "gone" /\ tasks' # "pending"
    BY <1>2 DEF ReadyToFinalize, FinalizeAccountDeletionIfReady
  <2>2. \A a \in Assets : media'[a].status \in {"none", "gone"}
    BY <1>1, <1>2 DEF FinalizeAccountDeletionIfReady
  <2> QED BY <2>1, <2>2 DEF AccountMoves
<1>3. CASE ~ReadyToFinalize(rows, status, cleanups)
  <2>1. account' = status /\ media' = rows
    BY <1>3 DEF FinalizeAccountDeletionIfReady
  <2> QED BY <2>1 DEF AccountMoves
<1> QED BY <1>2, <1>3

\* Who does not look at the account leaves it and makes nothing go with it.
LEMMA AccountStays ==
  ASSUME UNCHANGED owner,
         \A a \in Assets : media'[a] = media[a] \/ media'[a].status # "gone"
  PROVE  AccountMoves
BY DEF owner, AccountMoves

LEMMA AccountStep ==
  ASSUME MediaTyped, LifeInv, [Next]_vars
  PROVE  AccountMoves
<1>0. media \in [Assets -> Row]
  BY DEF MediaTyped, TypeOK
<1>1. ASSUME NEW b \in Assets, Owner(b) \/ UrlExpires(b)
      PROVE  AccountMoves
  <2>1. UNCHANGED owner
    BY <1>1 DEF Owner, CreateMedia, Put, CompleteMedia, WithdrawConsent, DeleteMedia, UrlExpires
  <2>2. CASE CreateMedia(b)
    <3>1. PICK kind \in Kinds :
            media' = [media EXCEPT ![b] = [NoRow EXCEPT !.status  = "pending_upload",
                                                        !.purpose = kind[1],
                                                        !.form    = kind[2]]]
      BY <2>2, Zenon DEF CreateMedia
    <3>2. media'[b].status = "pending_upload"
      BY <1>0, <3>1 DEF NoRow
    <3> QED BY <1>0, <2>1, <3>1, <3>2, AccountStays
  <2>3. CASE CompleteMedia(b)
    <3>1. PICK version \in raw[b], valid \in BOOLEAN :
            media' = [media EXCEPT ![b].status = "uploaded", ![b].version = version, ![b].valid = valid]
      BY <2>3, Zenon DEF CompleteMedia
    <3>2. media'[b].status = "uploaded"
      BY <1>0, <3>1 DEF Row
    <3> QED BY <1>0, <2>1, <3>1, <3>2, AccountStays
  <2>4. CASE WithdrawConsent(b)
    <3>1. media' = [media EXCEPT ![b].withdrawn = TRUE] /\ media[b].status # "gone"
      BY <2>4 DEF WithdrawConsent, Exists
    <3>2. media'[b].status # "gone"
      BY <1>0, <3>1 DEF Row
    <3> QED BY <1>0, <2>1, <3>1, <3>2, AccountStays
  <2>5. CASE DeleteMedia(b)
    <3>1. media' = [media EXCEPT ![b] = Deleting(@)]
      BY <2>5 DEF DeleteMedia
    <3>2. media'[b].status # "gone"
      BY <1>0, <3>1 DEF Row, Deleting
    <3> QED BY <1>0, <2>1, <3>1, <3>2, AccountStays
  <2>6. CASE Put(b) \/ UrlExpires(b)
    BY <2>1, <2>6, AccountStays DEF Put, UrlExpires
  <2> QED BY <1>1, <2>2, <2>3, <2>4, <2>5, <2>6 DEF Owner
<1>2. CASE BeginAccountDeletion
  <2> DEFINE remaining == {c \in Assets : media[c].status \notin {"none", "deleted"}}
             rows == [c \in Assets |-> IF c \in remaining THEN Deleting(media[c]) ELSE media[c]]
  <2>1. PICK cleanups \in {"none", "pending"} : FinalizeAccountDeletionIfReady(rows, "deleting", cleanups)
    BY <1>2 DEF BeginAccountDeletion
  <2>2. account = "active"
    BY <1>2 DEF BeginAccountDeletion
  <2>3. ASSUME NEW c \in Assets
        PROVE  media[c] \in Row /\ Deleting(media[c]) \in Row /\ Deleting(media[c]).status # "gone"
    <3>1. media[c] \in Row
      BY <1>0
    <3>2. Deleting(media[c]).status = "deleting"
      BY <3>1 DEF Deleting, Row
    <3> QED BY <3>1, <3>2, DeletionRowsTyped
  <2>4. rows \in [Assets -> Row] /\ \A c \in Assets : rows[c].status = "gone" => media[c].status = "gone"
    BY <2>3
  <2> HIDE DEF rows
  <2> QED BY <2>1, <2>2, <2>4, FinalizeMoves
<1>3. CASE CompleteTaskCleanup
  <2>1. FinalizeAccountDeletionIfReady(media, account, "complete") /\ account # "gone"
    BY <1>3 DEF CompleteTaskCleanup, LifeInv, AccountLast
  <2> QED BY <1>0, <2>1, FinalizeMoves
<1>4. ASSUME NEW p \in Processes,
             \/ Relay(p) \/ Crash(p) \/ \E e \in Events : Rebalance(e, p)
             \/ CheckRead(p) \/ CheckPut(p) \/ Compensate(p) \/ CheckCommit(p)
             \/ EraseRaw(p) \/ EraseDerived(p) \/ EraseCommit(p)
             \/ \E a \in Assets : SweepBegin(p, a) \/ SweepRaw(p, a) \/ SweepDerived(p, a)
      PROVE  AccountMoves
  <2>1. UNCHANGED <<media, owner>>
    BY <1>4 DEF Relay, MarkOutboxPublished, Publish, Crash, Rebalance, CheckRead, CheckPut, Compensate,
                CheckCommit, EraseRaw, EraseDerived, EraseCommit, SweepBegin, SweepRaw, SweepDerived
  <2> QED BY <2>1, AccountStays
<1>5. ASSUME NEW p \in Processes, CheckBegin(p)
      PROVE  AccountMoves
  <2> DEFINE b == Current("media.uploaded")
  <2>1. PICK status \in Statuses : media' = [media EXCEPT ![b].status = status] /\ status # "gone"
    <3>1. b \in Assets
      BY <1>5, CurrentTyped DEF CheckBegin, Events, MediaTyped
    <3>2. media[b].status \in Statuses /\ media[b].status # "gone"
      BY <1>0, <1>5, <3>1 DEF Row, CheckBegin, Exists
    <3> QED BY <1>5, <3>2 DEF CheckBegin, CheckStarts, Statuses
  <2>2. \A a \in Assets : media'[a] = media[a] \/ media'[a].status = status
    BY <1>0, <2>1 DEF Row
  <2> QED BY <1>5, <2>1, <2>2, AccountStays DEF CheckBegin, CheckStarts
<1>6. ASSUME NEW p \in Processes, CheckReject(p) \/ CheckComplete(p)
      PROVE  AccountMoves
  <2>1. UNCHANGED owner
    BY <1>6 DEF CheckReject, CheckComplete
  <2>2. \A a \in Assets : media'[a] = media[a] \/ media'[a].status \in {"ready", "rejected"}
    BY <1>0, <1>6 DEF CheckReject, CheckComplete, Row
  <2> QED BY <2>1, <2>2, AccountStays
<1>7. ASSUME NEW p \in Processes, EraseBegin(p)
      PROVE  AccountMoves
  <2>1. PICK request \in {"complete", "running"} :
          media' = [media EXCEPT ![Current("media.deletion_requested")].request = request]
    BY <1>7 DEF EraseBegin, EraseStarts
  <2>2. ASSUME NEW a \in Assets
        PROVE  \/ media'[a] = media[a]
               \/ media'[a].status = media[a].status /\ a = Current("media.deletion_requested")
    <3>1. media[a] \in Row
      BY <1>0
    <3>2. [media[a] EXCEPT !.request = request].status = media[a].status
      BY <3>1 DEF Row
    <3> QED BY <1>0, <2>1, <3>2
  <2> QED BY <1>7, <2>2, AccountStays DEF EraseBegin, EraseStarts, Exists
<1>8. ASSUME NEW p \in Processes, EraseComplete(p)
      PROVE  AccountMoves
  <2> DEFINE b == erase[p].asset
             rows == [media EXCEPT ![b] = DeletedRow(@)]
  <2>1. CASE UNCHANGED <<media, owner>>
    BY <2>1, AccountStays
  <2>2. CASE FinalizeAccountDeletionIfReady(rows, account, tasks) /\ media[b].status = "deleting"
    <3>1. b \in Assets
      BY <1>8 DEF EraseComplete, Handling, MediaTyped
    <3>2. account # "gone"
      BY <2>2, <3>1 DEF LifeInv, AccountLast
    <3>3. ASSUME NEW c \in Assets
          PROVE  DeletedRow(media[c]) \in Row /\ DeletedRow(media[c]).status # "gone"
      <4>1. media[c] \in Row
        BY <1>0
      <4>2. DeletedRow(media[c]).status = "deleted"
        BY <4>1 DEF DeletedRow, Row
      <4> QED BY <4>1, <4>2, DeletionRowsTyped
    <3>4. rows \in [Assets -> Row] /\ \A c \in Assets : rows[c].status = "gone" => media[c].status = "gone"
      BY <1>0, <3>3
    <3> HIDE DEF rows
    <3> QED BY <2>2, <3>2, <3>4, FinalizeMoves
  <2> QED BY <1>8, <2>1, <2>2 DEF EraseComplete
<1>9. ASSUME NEW p \in Processes, NEW b \in Assets, MarkSourceDeleted(p, b)
      PROVE  AccountMoves
  <2>1. UNCHANGED owner
    BY <1>9 DEF MarkSourceDeleted
  <2>2. \A a \in Assets : media'[a] = media[a] \/ media'[a].status # "gone"
    BY <1>0, <1>9 DEF MarkSourceDeleted, Exists, Row
  <2> QED BY <2>1, <2>2, AccountStays
<1>10. CASE UNCHANGED vars
  BY <1>10, AccountStays DEF vars
<1> QED BY <1>1, <1>2, <1>3, <1>4, <1>5, <1>6, <1>7, <1>8, <1>9, <1>10
        DEF Next, CheckMedia, EraseMedia, Sweep

LEMMA AccountLastStep ==
  ASSUME AccountLast, AccountMoves, \A a \in Assets : RowMoves(a, media[a], media'[a]),
         \A a \in Assets : media'[a].status \in Statuses /\ media[a].status \in Statuses
  PROVE  AccountLast'
<1>1. ASSUME NEW a \in Assets, media'[a].request # "none"
      PROVE  media'[a].status \in Ended
  <2>1. CASE media[a].request = "none"
    BY <1>1, <2>1 DEF RowMoves
  <2>2. CASE media[a].request # "none"
    <3>1. media[a].status \in Ended
      BY <2>2 DEF AccountLast
    <3> QED BY <3>1 DEF RowMoves, Ended, Erased
  <2> QED BY <2>1, <2>2
<1>2. ASSUME NEW a \in Assets, media'[a].request = "none"
      PROVE  media'[a].status \notin {"deleting", "deleted"}
  BY <1>2 DEF RowMoves, AccountLast
<1>3. \A a \in Assets : media'[a].status = "gone" => account' = "gone"
  BY DEF AccountMoves, AccountLast
<1>4. ASSUME account' = "gone"
      PROVE  tasks' # "pending" /\ \A a \in Assets : media'[a].status \in {"none", "gone"}
  <2>1. CASE account = "gone"
    BY <2>1 DEF AccountMoves, AccountLast, RowMoves
  <2> QED BY <1>4, <2>1 DEF AccountMoves
<1> QED BY <1>1, <1>2, <1>3, <1>4 DEF AccountLast

-----------------------------------------------------------------------------
(* Events, handlers and sweeps stay behind the row they are about. *)

LEMMA ReachedStays ==
  ASSUME NEW e, NEW a, RowMoves(a, media[a], media'[a]),
         media[a].status \in Statuses, media'[a].status \in Statuses, Reached(e, a)
  PROVE  Reached(e, a)'
BY DEF RowMoves, Reached, Ended, Erased, Statuses

LEMMA AnnouncedStays ==
  ASSUME NEW e \in Events, NEW a \in Assets, UNCHANGED <<outbox, topic>>,
         \A p \in Processes : relay'[p] \subseteq relay[p], Announced(e, a)'
  PROVE  Announced(e, a)
BY DEF Announced

LEMMA RestartForgets ==
  ASSUME TypeOK, NEW p \in Processes, Restart(p)
  PROVE  /\ \A q \in Processes : relay'[q] \subseteq relay[q]
         /\ \A q \in Processes, a \in Assets :
              sweep'[q][a] = sweep[q][a] \/ sweep'[q][a] = "idle"
BY DEF TypeOK, Restart, AtRest

\* An event that is new comes with a row that has reached it.
LEMMA AnnouncedStep ==
  ASSUME MediaTyped, LifeInv, [Next]_vars, NEW e \in Events, NEW a \in Assets, Announced(e, a)'
  PROVE  Announced(e, a) \/ Reached(e, a)'
<1>0. /\ media \in [Assets -> Row] /\ outbox \in [Events -> [Assets -> {"none", "pending", "published"}]]
      /\ relay \in [Processes -> SUBSET (Events \X Assets)] /\ topic \in [Events -> Seq(Assets)]
  BY DEF MediaTyped, TypeOK
<1>1. ASSUME NEW b \in Assets, Owner(b) \/ UrlExpires(b)
      PROVE  Announced(e, a) \/ Reached(e, a)'
  <2>1. UNCHANGED <<topic, relay>>
    BY <1>1 DEF Owner, CreateMedia, Put, CompleteMedia, WithdrawConsent, DeleteMedia, UrlExpires,
                broker, work
  <2>2. CASE CompleteMedia(b)
    <3>1. outbox' = [outbox EXCEPT !["media.uploaded"][b] = "pending"]
      BY <2>2 DEF CompleteMedia
    <3>2. media'[b].status = "uploaded"
      <4>1. PICK version \in raw[b], valid \in BOOLEAN :
              media' = [media EXCEPT ![b].status = "uploaded", ![b].version = version, ![b].valid = valid]
        BY <2>2, Zenon DEF CompleteMedia
      <4> QED BY <1>0, <4>1 DEF Row
    <3>3. CASE e = "media.uploaded" /\ a = b
      BY <3>2, <3>3 DEF Reached
    <3>4. CASE ~(e = "media.uploaded" /\ a = b)
      <4>1. outbox'[e][a] = outbox[e][a]
        BY <1>0, <3>1, <3>4
      <4> QED BY <1>1, <2>1, <4>1 DEF Announced
    <3> QED BY <3>3, <3>4
  <2>3. CASE DeleteMedia(b)
    <3>1. outbox' = [outbox EXCEPT !["media.deletion_requested"][b] = "pending"]
      BY <2>3 DEF DeleteMedia
    <3>2. media'[b].status = "deleting"
      BY <1>0, <2>3 DEF DeleteMedia, Deleting, Row
    <3>3. CASE e = "media.deletion_requested" /\ a = b
      BY <3>2, <3>3 DEF Reached, Ended
    <3>4. CASE ~(e = "media.deletion_requested" /\ a = b)
      <4>1. outbox'[e][a] = outbox[e][a]
        BY <1>0, <3>1, <3>4
      <4> QED BY <1>1, <2>1, <4>1 DEF Announced
    <3> QED BY <3>3, <3>4
  <2>4. CASE UNCHANGED outbox
    BY <1>1, <2>1, <2>4, AnnouncedStays
  <2> QED BY <1>1, <2>2, <2>3, <2>4 DEF Owner, CreateMedia, Put, WithdrawConsent, UrlExpires
<1>2. CASE BeginAccountDeletion
  <2> DEFINE remaining == {c \in Assets : media[c].status \notin {"none", "deleted"}}
             rows == [c \in Assets |-> IF c \in remaining THEN Deleting(media[c]) ELSE media[c]]
  <2>1. /\ UNCHANGED <<topic, relay>>
        /\ outbox' = [outbox EXCEPT !["media.deletion_requested"] =
                        [c \in Assets |-> IF c \in remaining /\ media[c].request = "none"
                                            THEN "pending" ELSE @[c]]]
    BY <1>2 DEF BeginAccountDeletion, broker, work
  <2>2. PICK cleanups \in {"none", "pending"} : FinalizeAccountDeletionIfReady(rows, "deleting", cleanups)
    BY <1>2 DEF BeginAccountDeletion
  <2>3. CASE e = "media.deletion_requested" /\ a \in remaining
    <3>1. rows[a].status = "deleting"
      BY <1>0, <2>3 DEF Deleting, Row
    <3>2. GoneRow.status = "gone"
      BY DEF GoneRow, NoRow
    <3> HIDE DEF rows
    <3>3. media'[a] = GoneRow \/ media'[a] = rows[a]
      BY <2>2 DEF FinalizeAccountDeletionIfReady
    <3> QED BY <2>3, <3>1, <3>2, <3>3 DEF Reached, Ended
  <2>4. CASE ~(e = "media.deletion_requested" /\ a \in remaining)
    <3>1. outbox'[e][a] = outbox[e][a]
      BY <1>0, <2>1, <2>4
    <3> QED BY <2>1, <3>1 DEF Announced
  <2> QED BY <2>3, <2>4
<1>3. ASSUME NEW p \in Processes, MarkOutboxPublished(p)
      PROVE  Announced(e, a)
  <2>1. PICK f \in Events, b \in Assets :
          <<f, b>> \in relay[p] /\ outbox' = [outbox EXCEPT ![f][b] = "published"]
    BY <1>3 DEF MarkOutboxPublished
  <2>2. topic' = topic /\ relay' = [relay EXCEPT ![p] = {}]
    BY <1>3 DEF MarkOutboxPublished, broker
  <2>3. CASE e = f /\ a = b
    BY <2>1, <2>3 DEF Announced
  <2>4. CASE ~(e = f /\ a = b)
    <3>1. outbox'[e][a] = outbox[e][a]
      BY <1>0, <2>1, <2>4
    <3>2. \A q \in Processes : relay'[q] \subseteq relay[q]
      BY <1>0, <2>2
    <3> QED BY <2>2, <3>1, <3>2 DEF Announced
  <2> QED BY <2>3, <2>4
<1>4. ASSUME NEW p \in Processes, NEW f \in Events, NEW b \in Assets, Publish(p, f, b)
      PROVE  Announced(e, a)
  <2>1. /\ outbox' = outbox /\ outbox[f][b] = "pending"
        /\ topic' = [topic EXCEPT ![f] = Append(@, b)]
        /\ relay' = [relay EXCEPT ![p] = {<<f, b>>}]
    BY <1>4 DEF Publish
  <2>2. CASE e = f /\ a = b
    BY <2>1, <2>2 DEF Announced
  <2>3. CASE ~(e = f /\ a = b)
    <3>1. \A q \in Processes : <<e, a>> \in relay'[q] => <<e, a>> \in relay[q]
      BY <1>0, <2>1, <2>3
    <3>2. ASSUME NEW i \in 1 .. Len(topic'[e]), topic'[e][i] = a
          PROVE  \E j \in 1 .. Len(topic[e]) : topic[e][j] = a
      <4>1. CASE e # f
        BY <1>0, <2>1, <3>2, <4>1
      <4>2. CASE e = f
        <5>1. topic'[e] = Append(topic[e], b) /\ topic[e] \in Seq(Assets) /\ Len(topic[e]) \in Nat
          BY <1>0, <2>1, <4>2, LenProperties
        <5>2. /\ Len(topic'[e]) = Len(topic[e]) + 1
              /\ \A j \in 1 .. Len(topic[e]) : topic'[e][j] = topic[e][j]
              /\ topic'[e][Len(topic[e]) + 1] = b
          BY <5>1, AppendProperties
        <5> QED BY <2>3, <3>2, <4>2, <5>1, <5>2
      <4> QED BY <4>1, <4>2
    <3> QED BY <2>1, <3>1, <3>2 DEF Announced
  <2> QED BY <2>2, <2>3
<1>5. ASSUME NEW p \in Processes, CheckMedia(p) \/ EraseMedia(p)
      PROVE  Announced(e, a)
  <2>1. UNCHANGED <<outbox, topic>> /\ (relay' = relay \/ Restart(p))
    BY <1>5 DEF CheckMedia, CheckBegin, CheckStarts, CheckRead, CheckReject, CheckPut, CheckComplete,
                Compensate, CheckCommit, EraseMedia, EraseBegin, EraseStarts, EraseRaw, EraseDerived,
                EraseComplete, EraseCommit, Commit, broker
  <2> QED BY <2>1, RestartForgets, AnnouncedStays DEF MediaTyped
<1>6. ASSUME NEW p \in Processes, Crash(p) \/ (\E b \in Assets : Sweep(p, b)) \/ \E f \in Events : Rebalance(f, p)
      PROVE  Announced(e, a)
  <2>1. UNCHANGED <<outbox, topic>> /\ (relay' = relay \/ Restart(p))
    BY <1>6 DEF Crash, Sweep, SweepBegin, SweepRaw, SweepDerived, MarkSourceDeleted, SweepGoto, Rebalance,
                broker, work
  <2> QED BY <2>1, RestartForgets, AnnouncedStays DEF MediaTyped
<1>7. CASE CompleteTaskCleanup \/ UNCHANGED vars
  <2>1. UNCHANGED <<outbox, topic, relay>>
    BY <1>7 DEF CompleteTaskCleanup, vars, broker, work
  <2> QED BY <2>1, AnnouncedStays
<1> QED BY <1>1, <1>2, <1>3, <1>4, <1>5, <1>6, <1>7 DEF Next, Relay

LEMMA EventsAreDueStep ==
  ASSUME MediaTyped, MediaTyped', LifeInv, [Next]_vars
  PROVE  EventsAreDue'
<1> SUFFICES ASSUME NEW e \in Events, NEW a \in Assets, Announced(e, a)' PROVE Reached(e, a)'
  BY DEF EventsAreDue
<1>1. CASE Announced(e, a)
  <2>1. Reached(e, a) /\ RowMoves(a, media[a], media'[a])
    BY <1>1, RowStep DEF LifeInv, EventsAreDue
  <2>2. media[a].status \in Statuses /\ media'[a].status \in Statuses
    BY DEF MediaTyped, TypeOK, Row
  <2> QED BY <2>1, <2>2, ReachedStays
<1> QED BY <1>1, AnnouncedStep

\* What a handler polls has been announced.
LEMMA PolledReached ==
  ASSUME MediaTyped, LifeInv, NEW p, NEW e \in Events, Polled(p, e)
  PROVE  Current(e) \in Assets /\ Reached(e, Current(e))
<1>1. Current(e) \in Assets /\ offset[e] + 1 \in 1 .. Len(topic[e])
  BY CurrentTyped DEF MediaTyped
<1>2. Announced(e, Current(e))
  BY <1>1 DEF Announced, Current
<1> QED BY <1>1, <1>2 DEF LifeInv, EventsAreDue

Checked(a) == media[a].status \notin {"none", "pending_upload", "uploaded"}

LEMMA HandlersAreDueStep ==
  ASSUME MediaTyped, MediaTyped', LifeInv, [Next]_vars
  PROVE  HandlersAreDue'
<1>0. ASSUME NEW a \in Assets
      PROVE  /\ media[a].status \in Statuses /\ media'[a].status \in Statuses
             /\ Checked(a) => Checked(a)'
             /\ media[a].status \in Ended => media'[a].status \in Ended
  <2>1. media[a].status \in Statuses /\ media'[a].status \in Statuses
    BY DEF MediaTyped, TypeOK, Row
  <2>2. RowMoves(a, media[a], media'[a])
    BY RowStep
  <2> QED BY <2>1, <2>2 DEF RowMoves, Checked, Ended, Erased, Statuses
<1>1. \A p \in Processes : /\ check[p].step # "idle" => check[p].asset \in Assets /\ Checked(check[p].asset)
                           /\ erase[p].step # "idle" =>
                                erase[p].asset \in Assets /\ media[erase[p].asset].status \in Ended
  BY DEF MediaTyped, Handling, LifeInv, HandlersAreDue, Checked
<1>2. ASSUME AllContinue
      PROVE  HandlersAreDue'
  BY <1>0, <1>1, <1>2 DEF AllContinue, Continues, HandlersAreDue, Checked
<1>3. ASSUME NEW p \in Processes, CheckBegin(p)
      PROVE  HandlersAreDue'
  <2> DEFINE b == Current("media.uploaded")
  <2>1. b \in Assets /\ Reached("media.uploaded", b)
    BY <1>3, PolledReached DEF CheckBegin, Events
  <2>2. PICK status \in Statuses, step \in CheckSteps :
          CheckStarts(p, b, status, step) /\ status \notin {"none", "pending_upload", "uploaded"}
    BY <1>0, <1>3, <2>1 DEF CheckBegin, Statuses, CheckSteps, Reached
  <2>3. media'[b].status = status
    BY <2>1, <2>2 DEF CheckStarts, MediaTyped, TypeOK, Row
  <2>4. /\ check' = [check EXCEPT ![p] = [step |-> step, asset |-> b, key |-> "none"]]
        /\ erase' = erase
    BY <2>2 DEF CheckStarts
  <2>5. media'[b].status \notin {"none", "pending_upload", "uploaded"}
    BY <2>2, <2>3
  <2> HIDE DEF b
  <2> QED BY <1>0, <1>1, <2>4, <2>5 DEF HandlersAreDue, Checked, MediaTyped, TypeOK
<1>4. ASSUME NEW p \in Processes, EraseBegin(p)
      PROVE  HandlersAreDue'
  <2> DEFINE b == Current("media.deletion_requested")
  <2>1. b \in Assets /\ media[b].status \in Ended
    BY <1>4, PolledReached DEF EraseBegin, Events, Reached
  <2>2. PICK step \in EraseSteps :
          /\ check' = check
          /\ erase' = [erase EXCEPT ![p] = [step |-> step, asset |-> b, key |-> media[b].derivation]]
    BY <1>4 DEF EraseBegin, EraseStarts, EraseSteps
  <2>3. media'[b].status \in Ended
    BY <1>0, <2>1
  <2> HIDE DEF b
  <2> QED BY <1>0, <1>1, <2>2, <2>3 DEF HandlersAreDue, Checked, MediaTyped, TypeOK
<1> QED BY <1>2, <1>3, <1>4, HandlersContinue DEF MediaTyped

\* A source nobody needs stays so: an upload cannot be completed any more once
\* its URL has expired.
LEMMA UnneededStays ==
  ASSUME NEW a \in Assets, Unneeded(a), RowMoves(a, media[a], media'[a]),
         media[a].status \in Statuses, media'[a].status \in Statuses,
         url[a] = "expired" /\ media[a].status # "none" => url'[a] = "expired"
  PROVE  Unneeded(a)'
BY DEF Unneeded, RowMoves, Ended, Erased, Statuses

LEMMA UrlStep ==
  ASSUME TypeOK, [Next]_vars, NEW a \in Assets, url[a] = "expired", media[a].status # "none"
  PROVE  url'[a] = "expired"
<1>1. ASSUME NEW b \in Assets, Owner(b) \/ UrlExpires(b)
      PROVE  url'[a] = "expired"
  BY <1>1 DEF Owner, CreateMedia, Put, CompleteMedia, WithdrawConsent, DeleteMedia, UrlExpires,
              objects, TypeOK
<1>2. CASE BeginAccountDeletion \/ CompleteTaskCleanup \/ UNCHANGED vars
  BY <1>2 DEF BeginAccountDeletion, CompleteTaskCleanup, vars, objects
<1>3. ASSUME NEW p \in Processes, Relay(p) \/ CheckMedia(p)
      PROVE  url' = url
  BY <1>3 DEF Relay, MarkOutboxPublished, Publish, CheckMedia, CheckBegin, CheckStarts, CheckRead,
              CheckReject, CheckPut, CheckComplete, Compensate, CheckCommit, objects
<1>4. ASSUME NEW p \in Processes, EraseMedia(p)
      PROVE  url' = url
  BY <1>4 DEF EraseMedia, EraseBegin, EraseStarts, EraseRaw, EraseDerived, EraseComplete, EraseCommit,
              objects
<1>5. ASSUME NEW p \in Processes,
             Crash(p) \/ (\E b \in Assets : Sweep(p, b)) \/ \E f \in Events : Rebalance(f, p)
      PROVE  url' = url
  BY <1>5 DEF Crash, Sweep, SweepBegin, SweepRaw, SweepDerived, MarkSourceDeleted, Rebalance, objects
<1> QED BY <1>1, <1>2, <1>3, <1>4, <1>5 DEF Next

\* A sweep goes on with an asset, drops it, or begins with one it may sweep.
SweepGoesOn(q, a) ==
  \/ sweep'[q][a] = sweep[q][a]
  \/ sweep'[q][a] = "idle"
  \/ sweep'[q][a] = "mark" /\ sweep[q][a] # "idle"
  \/ sweep'[q][a] = "derived" /\ sweep[q][a] = "rawOfDeleted"
  \/ sweep'[q][a] = "raw" /\ SweepCandidate(a)
  \/ sweep'[q][a] = "rawOfDeleted" /\ media[a].status = "deleted"

LEMMA SweepsGoOn ==
  ASSUME TypeOK, [Next]_vars, NEW q \in Processes, NEW a \in Assets
  PROVE  SweepGoesOn(q, a)
<1>0. sweep \in [Processes -> [Assets -> SweepSteps]]
  BY DEF TypeOK
<1>1. CASE (\E b \in Assets : Owner(b) \/ UrlExpires(b)) \/ BeginAccountDeletion \/ CompleteTaskCleanup
           \/ UNCHANGED vars
  <2>1. sweep' = sweep
    BY <1>1 DEF Owner, CreateMedia, Put, CompleteMedia, WithdrawConsent, DeleteMedia, UrlExpires,
                BeginAccountDeletion, CompleteTaskCleanup, vars, work
  <2> QED BY <2>1 DEF SweepGoesOn
<1>2. ASSUME NEW p \in Processes,
             \/ Relay(p) \/ CheckMedia(p) \/ EraseMedia(p) \/ Crash(p)
             \/ \E f \in Events : Rebalance(f, p)
      PROVE  SweepGoesOn(q, a)
  <2>1. CASE Relay(p) \/ CheckMedia(p)
    <3>1. sweep' = sweep \/ Restart(p)
      BY <2>1 DEF Relay, MarkOutboxPublished, Publish, CheckMedia, CheckBegin, CheckStarts, CheckRead,
                  CheckReject, CheckPut, CheckComplete, Compensate, CheckCommit, Commit
    <3> QED BY <3>1, RestartForgets DEF SweepGoesOn
  <2>2. CASE EraseMedia(p) \/ Crash(p) \/ \E f \in Events : Rebalance(f, p)
    <3>1. sweep' = sweep \/ Restart(p)
      BY <2>2 DEF EraseMedia, EraseBegin, EraseStarts, EraseRaw, EraseDerived, EraseComplete,
                  EraseCommit, Commit, Crash, Rebalance, work
    <3> QED BY <3>1, RestartForgets DEF SweepGoesOn
  <2> QED BY <1>2, <2>1, <2>2
<1>3. ASSUME NEW p \in Processes, NEW b \in Assets, Sweep(p, b)
      PROVE  SweepGoesOn(q, a)
  <2>1. CASE Restart(p)
    BY <2>1, RestartForgets DEF SweepGoesOn
  <2>2. ASSUME NEW step, SweepGoto(p, b, step)
        PROVE  sweep'[q][a] = IF q = p /\ a = b THEN step ELSE sweep[q][a]
    BY <1>0, <2>2 DEF SweepGoto
  <2>3. CASE SweepBegin(p, b)
    BY <2>2, <2>3 DEF SweepBegin, SweepGoesOn
  <2>4. CASE SweepRaw(p, b) \/ SweepDerived(p, b) \/ MarkSourceDeleted(p, b)
    BY <2>1, <2>2, <2>4 DEF SweepRaw, SweepDerived, MarkSourceDeleted, SweepGoesOn
  <2> QED BY <1>3, <2>3, <2>4 DEF Sweep
<1> QED BY <1>1, <1>2, <1>3 DEF Next

LEMMA SweepsAreDueStep ==
  ASSUME MediaTyped, MediaTyped', LifeInv, [Next]_vars
  PROVE  SweepsAreDue'
<1> SUFFICES ASSUME NEW q \in Processes, NEW a \in Assets
             PROVE  /\ sweep'[q][a] # "idle" => Unneeded(a)'
                    /\ sweep'[q][a] \in {"rawOfDeleted", "derived"} => media'[a].status \in Erased
  BY DEF SweepsAreDue
<1>1. media[a].status \in Statuses /\ media'[a].status \in Statuses /\ RowMoves(a, media[a], media'[a])
  BY RowStep DEF MediaTyped, TypeOK, Row
<1>2. Unneeded(a) => Unneeded(a)'
  BY <1>1, UrlStep, UnneededStays DEF MediaTyped
<1>3. media[a].status \in Erased => media'[a].status \in Erased
  BY <1>1 DEF RowMoves, Erased
<1>4. SweepGoesOn(q, a)
  BY SweepsGoOn DEF MediaTyped
<1>5. /\ sweep[q][a] # "idle" => Unneeded(a)
      /\ sweep[q][a] \in {"rawOfDeleted", "derived"} => media[a].status \in Erased
  BY DEF LifeInv, SweepsAreDue
<1>6. SweepCandidate(a) => Unneeded(a)
  BY DEF SweepCandidate, Unneeded, Ended
<1>7. media[a].status = "deleted" => Unneeded(a) /\ media[a].status \in Erased
  BY DEF Unneeded, Ended, Erased
<1> QED BY <1>2, <1>3, <1>4, <1>5, <1>6, <1>7 DEF SweepGoesOn

LEMMA LifeStart == Init => LifeInv
<1> SUFFICES ASSUME Init PROVE LifeInv
  OBVIOUS
<1>1. \A a \in Assets : media[a] = NoRow
  BY DEF Init
<1>2. NoRow.status = "none" /\ NoRow.request = "none"
  BY DEF NoRow
<1>3. EventsAreDue
  BY DEF Init, EventsAreDue, Announced
<1>4. HandlersAreDue
  BY DEF Init, HandlersAreDue, Idle
<1>5. SweepsAreDue
  BY DEF Init, SweepsAreDue, AtRest
<1>6. AccountLast
  BY <1>1, <1>2 DEF Init, AccountLast
<1> QED BY <1>3, <1>4, <1>5, <1>6 DEF LifeInv

MediaInv == MediaTyped /\ LifeInv

LEMMA MediaInvStep ==
  ASSUME MediaInv, [Next]_vars
  PROVE  MediaInv'
<1>1. MediaTyped'
  BY TypedStep DEF MediaInv
<1>2. EventsAreDue' /\ HandlersAreDue' /\ SweepsAreDue'
  BY <1>1, EventsAreDueStep, HandlersAreDueStep, SweepsAreDueStep DEF MediaInv
<1>3. AccountLast'
  <2>1. \A a \in Assets : media'[a].status \in Statuses /\ media[a].status \in Statuses
    BY <1>1 DEF MediaInv, MediaTyped, TypeOK, Row
  <2> QED BY <2>1, RowStep, AccountStep, AccountLastStep DEF MediaInv, LifeInv
<1> QED BY <1>1, <1>2, <1>3 DEF MediaInv, LifeInv

LEMMA MediaInvAlways == Spec => []MediaInv
<1>1. Init => MediaInv
  BY TypedStart, LifeStart DEF MediaInv
<1>2. MediaInv /\ [Next]_vars => MediaInv'
  BY MediaInvStep
<1> QED BY <1>1, <1>2, PTL DEF Spec

-----------------------------------------------------------------------------
(* The theorems. *)

\* Every state is well typed.
THEOREM MediaTypeCorrect == Spec => []TypeOK
<1>1. MediaInv => TypeOK
  BY DEF MediaInv, MediaTyped
<1> QED BY <1>1, MediaInvAlways, PTL

\* Whatever is interrupted, repeated or done late, an asset whose deletion was
\* requested never comes back, and a completed request stays completed.
THEOREM DeletionIsFinalAlways == Spec => DeletionIsFinal
<1>1. MediaInv /\ [Next]_vars =>
        [ \A a \in Assets :
            /\ media[a].status = "deleting" => media'[a].status \in {"deleting", "deleted", "gone"}
            /\ media[a].status = "deleted" => media'[a].status \in {"deleted", "gone"}
            /\ media[a].status = "gone" => media'[a] = media[a]
            /\ media[a].request = "complete" /\ media'[a].status # "gone"
                 => media'[a].request = "complete" ]_vars
  <2> SUFFICES ASSUME MediaInv, [Next]_vars, NEW a \in Assets
               PROVE  /\ media[a].status = "deleting" => media'[a].status \in {"deleting", "deleted", "gone"}
                      /\ media[a].status = "deleted" => media'[a].status \in {"deleted", "gone"}
                      /\ media[a].status = "gone" => media'[a] = media[a]
                      /\ media[a].request = "complete" /\ media'[a].status # "gone"
                           => media'[a].request = "complete"
    OBVIOUS
  <2> QED BY RowStep DEF MediaInv, RowMoves, Ended, Erased
<1> QED BY <1>1, MediaInvAlways, PTL DEF Spec, DeletionIsFinal

-----------------------------------------------------------------------------
(* Sources are removed only when nobody needs them. *)

LEMMA RawStep ==
  ASSUME MediaTyped, LifeInv, [Next]_vars, NEW a \in Assets
  PROVE  raw[a] \subseteq raw'[a] \/ Unneeded(a)
<1>0. raw \in [Assets -> SUBSET Nat]
  BY DEF MediaTyped, TypeOK
<1>1. ASSUME NEW b \in Assets, Owner(b) \/ UrlExpires(b)
      PROVE  raw[a] \subseteq raw'[a]
  BY <1>0, <1>1 DEF Owner, CreateMedia, Put, CompleteMedia, WithdrawConsent, DeleteMedia, UrlExpires,
                    objects
<1>2. CASE BeginAccountDeletion \/ CompleteTaskCleanup \/ UNCHANGED vars
  BY <1>2 DEF BeginAccountDeletion, CompleteTaskCleanup, vars, objects
<1>3. ASSUME NEW p \in Processes, Relay(p) \/ CheckMedia(p)
      PROVE  raw' = raw
  BY <1>3 DEF Relay, MarkOutboxPublished, Publish, CheckMedia, CheckBegin, CheckStarts, CheckRead,
              CheckReject, CheckPut, CheckComplete, Compensate, CheckCommit, objects
<1>4. ASSUME NEW p \in Processes, EraseMedia(p)
      PROVE  raw[a] \subseteq raw'[a] \/ Unneeded(a)
  <2>1. CASE EraseRaw(p)
    <3>1. media[erase[p].asset].status \in Ended /\ erase[p].asset \in Assets
      BY <2>1 DEF EraseRaw, LifeInv, HandlersAreDue, MediaTyped, Handling
    <3>2. CASE erase[p].asset = a
      BY <3>1, <3>2 DEF Unneeded
    <3>3. CASE erase[p].asset # a
      BY <1>0, <2>1, <3>3 DEF EraseRaw, Without, WithoutSome
    <3> QED BY <3>2, <3>3
  <2>2. CASE ~EraseRaw(p)
    BY <1>4, <2>2 DEF EraseMedia, EraseBegin, EraseStarts, EraseDerived, EraseComplete, EraseCommit, objects
  <2> QED BY <2>1, <2>2
<1>5. ASSUME NEW p \in Processes, NEW b \in Assets, Sweep(p, b)
      PROVE  raw[a] \subseteq raw'[a] \/ Unneeded(a)
  <2>1. CASE SweepRaw(p, b)
    <3>1. Unneeded(b)
      BY <2>1 DEF SweepRaw, LifeInv, SweepsAreDue
    <3>2. CASE a # b
      BY <1>0, <2>1, <3>2 DEF SweepRaw, Without, WithoutSome
    <3> QED BY <3>1, <3>2
  <2>2. CASE ~SweepRaw(p, b)
    BY <1>5, <2>2 DEF Sweep, SweepBegin, SweepDerived, MarkSourceDeleted, objects
  <2> QED BY <2>1, <2>2
<1>6. ASSUME NEW p \in Processes, Crash(p) \/ \E f \in Events : Rebalance(f, p)
      PROVE  raw' = raw
  BY <1>6 DEF Crash, Rebalance, objects
<1> QED BY <1>1, <1>2, <1>3, <1>4, <1>5, <1>6 DEF Next

LEMMA SourceStep ==
  ASSUME MediaInv, SourceIsKept, [Next]_vars
  PROVE  SourceIsKept'
<1> SUFFICES ASSUME NEW a \in Assets,
                    \/ media'[a].status \in {"uploaded", "checking"}
                    \/ media'[a].status = "ready" /\ media'[a].purpose = "wardrobe"
             PROVE  media'[a].version \in raw'[a]
  BY DEF SourceIsKept
<1>1. RowMoves(a, media[a], media'[a]) /\ (raw[a] \subseteq raw'[a] \/ Unneeded(a))
  BY RowStep, RawStep DEF MediaInv
<1>2. media[a].status \in Statuses
  BY DEF MediaInv, MediaTyped, TypeOK, Row
<1>3. CASE media[a].status = "pending_upload"
  BY <1>1, <1>3 DEF RowMoves, Unneeded, Ended
<1>4. CASE \/ media[a].status \in {"uploaded", "checking"}
           \/ media[a].status = "ready" /\ media[a].purpose = "wardrobe"
  <2>1. media[a].version \in raw[a]
    BY <1>4 DEF SourceIsKept
  <2>2. ~Unneeded(a)
    BY <1>4 DEF Unneeded, Ended
  <2>3. media'[a].version = media[a].version
    BY <1>1, <1>4 DEF RowMoves, Erased
  <2> QED BY <1>1, <2>1, <2>2, <2>3
<1>5. CASE media[a].status = "ready" /\ media[a].purpose # "wardrobe"
  BY <1>1, <1>5 DEF RowMoves, Ended
<1> QED BY <1>1, <1>2, <1>3, <1>4, <1>5 DEF Statuses, RowMoves, Ended, Erased

\* Whatever the sweep and the consumers meet, with every fault allowed, the
\* source of an upload that is still to be checked, and of a wardrobe photo
\* that lives, is in the store.
THEOREM SourceIsKeptAlways == Spec => []SourceIsKept
<1>1. Init => SourceIsKept
  <2>1. NoRow.status = "none"
    BY DEF NoRow
  <2> QED BY <2>1 DEF Init, SourceIsKept
<1>2. MediaInv /\ SourceIsKept /\ [Next]_vars => SourceIsKept'
  BY SourceStep
<1> QED BY <1>1, <1>2, MediaInvAlways, PTL DEF Spec

-----------------------------------------------------------------------------
(* Where a row that is ready, or erased, comes from. *)

Origin(a) ==
  /\ media'[a].status = "ready" =>
       \/ media[a].status = "ready"
       \/ \E p \in Processes :
            /\ CheckComplete(p) /\ check[p].asset = a /\ media[a].status = "checking"
            /\ media'[a].derivation = check[p].key
            /\ <<"media.uploaded", a>> \in inbox'
  /\ media'[a].status \in Erased =>
       \/ media[a].status \in Erased
       \/ \E p \in Processes : erase[p].step = "complete" /\ erase[p].asset = a

LEMMA OriginStays ==
  ASSUME NEW a, \/ media'[a] = media[a] \/ media'[a].status = media[a].status
                \/ media'[a].status \notin {"ready"} \union Erased
  PROVE  Origin(a)
BY DEF Origin

\* What the end of an account may leave of a row.
LeftBy(row, next) ==
  \/ next = row
  \/ next.status = "gone" /\ row.status = "deleted"

LEMMA FinalizeOrigin ==
  ASSUME NEW rows \in [Assets -> Row], NEW status, NEW cleanups,
         FinalizeAccountDeletionIfReady(rows, status, cleanups), NEW a \in Assets
  PROVE  LeftBy(rows[a], media'[a])
<1>1. GoneRow.status = "gone"
  BY DEF GoneRow, NoRow
<1>2. CASE ReadyToFinalize(rows, status, cleanups) /\ rows[a].status # "none"
  <2>1. media'[a] = GoneRow /\ rows[a].status = "deleted"
    BY <1>2 DEF FinalizeAccountDeletionIfReady, ReadyToFinalize
  <2> QED BY <1>1, <2>1 DEF LeftBy
<1>3. CASE ~(ReadyToFinalize(rows, status, cleanups) /\ rows[a].status # "none")
  <2>1. media'[a] = rows[a]
    BY <1>3 DEF FinalizeAccountDeletionIfReady
  <2> QED BY <2>1 DEF LeftBy
<1> QED BY <1>2, <1>3

LEMMA OriginStep ==
  ASSUME MediaTyped, [Next]_vars, NEW a \in Assets
  PROVE  Origin(a)
<1>0. media \in [Assets -> Row] /\ media[a] \in Row
  BY DEF MediaTyped, TypeOK
<1>1. ASSUME NEW b \in Assets, Owner(b) \/ UrlExpires(b)
      PROVE  Origin(a)
  <2>1. CASE CreateMedia(b)
    <3>1. PICK kind \in Kinds :
            media' = [media EXCEPT ![b] = [NoRow EXCEPT !.status  = "pending_upload",
                                                        !.purpose = kind[1],
                                                        !.form    = kind[2]]]
      BY <2>1, Zenon DEF CreateMedia
    <3>2. media'[b].status = "pending_upload"
      BY <1>0, <3>1 DEF NoRow
    <3> QED BY <1>0, <3>1, <3>2, OriginStays DEF Erased
  <2>2. CASE CompleteMedia(b)
    <3>1. PICK version \in raw[b], valid \in BOOLEAN :
            media' = [media EXCEPT ![b].status = "uploaded", ![b].version = version, ![b].valid = valid]
      BY <2>2, Zenon DEF CompleteMedia
    <3>2. media'[b].status = "uploaded"
      BY <1>0, <3>1 DEF Row
    <3> QED BY <1>0, <3>1, <3>2, OriginStays DEF Erased
  <2>3. CASE WithdrawConsent(b)
    <3>1. media' = [media EXCEPT ![b].withdrawn = TRUE]
      BY <2>3 DEF WithdrawConsent
    <3>2. [media[a] EXCEPT !.withdrawn = TRUE].status = media[a].status
      BY <1>0 DEF Row
    <3> QED BY <1>0, <3>1, <3>2, OriginStays
  <2>4. CASE DeleteMedia(b)
    <3>1. media' = [media EXCEPT ![b] = Deleting(@)]
      BY <2>4 DEF DeleteMedia
    <3>2. Deleting(media[a]).status = "deleting"
      BY <1>0 DEF Row, Deleting
    <3> QED BY <1>0, <3>1, <3>2, OriginStays DEF Erased
  <2>5. CASE Put(b) \/ UrlExpires(b)
    BY <2>5, OriginStays DEF Put, UrlExpires
  <2> QED BY <1>1, <2>1, <2>2, <2>3, <2>4, <2>5 DEF Owner
<1>2. CASE BeginAccountDeletion
  <2> DEFINE remaining == {c \in Assets : media[c].status \notin {"none", "deleted"}}
             rows == [c \in Assets |-> IF c \in remaining THEN Deleting(media[c]) ELSE media[c]]
  <2>1. PICK cleanups \in {"none", "pending"} : FinalizeAccountDeletionIfReady(rows, "deleting", cleanups)
    BY <1>2 DEF BeginAccountDeletion
  <2>2. Deleting(media[a]).status = "deleting"
    BY <1>0 DEF Row, Deleting
  <2>3. rows[a] = media[a] \/ rows[a].status = "deleting"
    BY <2>2
  <2>r. rows \in [Assets -> Row]
    BY <1>0, DeletionRowsTyped
  <2> HIDE DEF rows
  <2>4. LeftBy(rows[a], media'[a])
    BY <2>1, <2>r, FinalizeOrigin
  <2> QED BY <2>3, <2>4, OriginStays DEF Origin, Erased, LeftBy
<1>3. CASE CompleteTaskCleanup
  <2>1. LeftBy(media[a], media'[a])
    BY <1>0, <1>3, FinalizeOrigin DEF CompleteTaskCleanup
  <2> QED BY <2>1, OriginStays DEF Origin, Erased, LeftBy
<1>4. ASSUME NEW p \in Processes,
             \/ Relay(p) \/ Crash(p) \/ \E e \in Events : Rebalance(e, p)
             \/ CheckRead(p) \/ CheckPut(p) \/ Compensate(p) \/ CheckCommit(p)
             \/ EraseRaw(p) \/ EraseDerived(p) \/ EraseCommit(p)
             \/ \E b \in Assets : SweepBegin(p, b) \/ SweepRaw(p, b) \/ SweepDerived(p, b)
      PROVE  Origin(a)
  <2>1. UNCHANGED media
    BY <1>4 DEF Relay, MarkOutboxPublished, Publish, Crash, Rebalance, CheckRead, CheckPut, Compensate,
                CheckCommit, EraseRaw, EraseDerived, EraseCommit, SweepBegin, SweepRaw, SweepDerived
  <2> QED BY <2>1, OriginStays
<1>5. ASSUME NEW p \in Processes, CheckBegin(p)
      PROVE  Origin(a)
  <2> DEFINE b == Current("media.uploaded")
  <2>1. b \in Assets
    BY <1>5, CurrentTyped DEF CheckBegin, Events, MediaTyped
  <2>2. PICK status \in Statuses : /\ media' = [media EXCEPT ![b].status = status]
                                   /\ status = media[b].status \/ status \in {"rejected", "checking"}
    <3>1. media[b].status \in Statuses
      BY <1>0, <2>1 DEF Row
    <3> QED BY <1>5, <3>1 DEF CheckBegin, CheckStarts, Statuses
  <2>3. [media[a] EXCEPT !.status = status].status = status
    BY <1>0 DEF Row
  <2> QED BY <1>0, <2>2, <2>3, OriginStays DEF Erased
<1>6. ASSUME NEW p \in Processes, CheckReject(p)
      PROVE  Origin(a)
  <2>1. media'[a] = media[a] \/ media'[a].status = "rejected"
    BY <1>0, <1>6 DEF CheckReject, Row
  <2> QED BY <2>1, OriginStays DEF Erased
<1>7. ASSUME NEW p \in Processes, CheckComplete(p)
      PROVE  Origin(a)
  <2>1. CASE media'[a] = media[a]
    BY <2>1, OriginStays
  <2>2. CASE media'[a] # media[a]
    <3> DEFINE b == check[p].asset
    <3>1. /\ media' = [media EXCEPT ![b].status = "ready", ![b].derivation = check[p].key]
          /\ media[b].status = "checking" /\ inbox' = inbox \cup {<<"media.uploaded", b>>}
      BY <1>7, <2>2 DEF CheckComplete
    <3>2. a = b
      BY <1>0, <2>2, <3>1
    <3>3. media'[a].status = "ready" /\ media'[a].derivation = check[p].key
      BY <1>0, <3>1, <3>2 DEF Row
    <3> QED BY <1>7, <3>1, <3>2, <3>3 DEF Origin, Erased, LeftBy
  <2> QED BY <2>1, <2>2
<1>8. ASSUME NEW p \in Processes, EraseBegin(p)
      PROVE  Origin(a)
  <2>1. PICK request \in {"complete", "running"} :
          media' = [media EXCEPT ![Current("media.deletion_requested")].request = request]
    BY <1>8 DEF EraseBegin, EraseStarts
  <2>2. [media[a] EXCEPT !.request = request].status = media[a].status
    BY <1>0 DEF Row
  <2> QED BY <1>0, <2>1, <2>2, OriginStays
<1>9. ASSUME NEW p \in Processes, EraseComplete(p)
      PROVE  Origin(a)
  <2> DEFINE b == erase[p].asset
             rows == [media EXCEPT ![b] = DeletedRow(@)]
  <2>1. CASE media' = media
    BY <2>1, OriginStays
  <2>2. CASE FinalizeAccountDeletionIfReady(rows, account, tasks)
    <3>r. rows \in [Assets -> Row]
      BY <1>0, DeletionRowsTyped
    <3>1. LeftBy(rows[a], media'[a])
      <4> HIDE DEF rows
      <4> QED BY <2>2, <3>r, FinalizeOrigin
    <3>2. CASE a = b
      <4>1. rows[a].status = "deleted"
        BY <1>0, <3>2 DEF DeletedRow, Row
      <4> QED BY <1>9, <3>1, <3>2, <4>1 DEF EraseComplete, Origin, Erased, LeftBy
    <3>3. CASE a # b
      <4>1. rows[a] = media[a]
        BY <1>0, <3>3
      <4> QED BY <3>1, <4>1, OriginStays DEF Origin, Erased, LeftBy
    <3> QED BY <3>2, <3>3
  <2> QED BY <1>9, <2>1, <2>2 DEF EraseComplete
<1>10. ASSUME NEW p \in Processes, NEW b \in Assets, MarkSourceDeleted(p, b)
      PROVE  Origin(a)
  <2>1. media'[a] = media[a] \/ media'[a].status = media[a].status \/ media'[a].status = "rejected"
    BY <1>0, <1>10 DEF MarkSourceDeleted, Row
  <2> QED BY <2>1, OriginStays DEF Erased
<1>11. CASE UNCHANGED vars
  BY <1>11, OriginStays DEF vars
<1> QED BY <1>1, <1>2, <1>3, <1>4, <1>5, <1>6, <1>7, <1>8, <1>9, <1>10, <1>11
        DEF Next, CheckMedia, EraseMedia, Sweep

-----------------------------------------------------------------------------
(* A ready asset has its image: an attempt that loses the race takes back    *)
(* only what no row names, and one that cannot record its image loses no     *)
(* race when there is no other.                                              *)

Undone(a) == media[a].status \in {"rejected"} \union Ended

ImagesInPlace ==
  /\ \A p \in Processes :
       /\ check[p].step = "complete" =>
            check[p].key \in derived[check[p].asset] \/ Undone(check[p].asset)
       /\ check[p].step = "compensate" => Undone(check[p].asset) \/ "rebalance" \notin Faults
  /\ \A a \in Assets :
       media[a].status = "ready" => /\ Receipt("media.uploaded", a)
                                    /\ media[a].derivation \in derived[a]

\* An attempt takes its image back, although the row may be checked again.
TakenBack(a) == \E p \in Processes : Compensate(p) /\ check[p].asset = a

\* Only assets that will not be shown again lose an image, and those whose one
\* attempt could not record it.
LEMMA DerivedStep ==
  ASSUME MediaInv, ImagesInPlace, [Next]_vars, NEW a \in Assets
  PROVE  \/ derived[a] \subseteq derived'[a] \/ Undone(a)
         \/ "rebalance" \notin Faults /\ TakenBack(a)
<1>0. derived \in [Assets -> SUBSET Keys]
  BY DEF MediaInv, MediaTyped, TypeOK
<1>1. CASE (\E b \in Assets : Owner(b) \/ UrlExpires(b)) \/ BeginAccountDeletion \/ CompleteTaskCleanup
           \/ UNCHANGED vars
  BY <1>1 DEF Owner, CreateMedia, Put, CompleteMedia, WithdrawConsent, DeleteMedia, UrlExpires,
              BeginAccountDeletion, CompleteTaskCleanup, vars, objects
<1>2. ASSUME NEW p \in Processes, Relay(p) \/ Crash(p) \/ \E f \in Events : Rebalance(f, p)
      PROVE  derived' = derived
  BY <1>2 DEF Relay, MarkOutboxPublished, Publish, Crash, Rebalance, objects
<1>3. ASSUME NEW p \in Processes, CheckMedia(p)
      PROVE  \/ derived[a] \subseteq derived'[a] \/ Undone(a)
             \/ "rebalance" \notin Faults /\ TakenBack(a)
  <2>1. CASE CheckPut(p)
    BY <1>0, <2>1 DEF CheckPut
  <2>2. CASE Compensate(p)
    <3>1. Undone(check[p].asset) \/ "rebalance" \notin Faults
      BY <2>2 DEF Compensate, ImagesInPlace
    <3>2. CASE check[p].asset # a
      BY <1>0, <2>2, <3>2 DEF Compensate, Without, WithoutSome
    <3> QED BY <2>2, <3>1, <3>2 DEF TakenBack
  <2>3. CASE ~CheckPut(p) /\ ~Compensate(p)
    BY <1>3, <2>3 DEF CheckMedia, CheckBegin, CheckStarts, CheckRead, CheckReject, CheckComplete,
                      CheckCommit, objects
  <2> QED BY <2>1, <2>2, <2>3
<1>4. ASSUME NEW p \in Processes, EraseMedia(p)
      PROVE  derived[a] \subseteq derived'[a] \/ Undone(a)
  <2>1. CASE EraseDerived(p)
    <3>1. Undone(erase[p].asset)
      BY <2>1 DEF EraseDerived, MediaInv, LifeInv, HandlersAreDue, Undone
    <3>2. CASE erase[p].asset # a
      BY <1>0, <2>1, <3>2 DEF EraseDerived, Without, WithoutSome
    <3> QED BY <3>1, <3>2
  <2>2. CASE ~EraseDerived(p)
    BY <1>4, <2>2 DEF EraseMedia, EraseBegin, EraseStarts, EraseRaw, EraseComplete, EraseCommit, objects
  <2> QED BY <2>1, <2>2
<1>5. ASSUME NEW p \in Processes, NEW b \in Assets, Sweep(p, b)
      PROVE  derived[a] \subseteq derived'[a] \/ Undone(a)
  <2>1. CASE SweepDerived(p, b)
    <3>1. Undone(b)
      BY <2>1 DEF SweepDerived, MediaInv, LifeInv, SweepsAreDue, Undone, Ended, Erased
    <3>2. CASE a # b
      BY <1>0, <2>1, <3>2 DEF SweepDerived, Without, WithoutSome
    <3> QED BY <3>1, <3>2
  <2>2. CASE ~SweepDerived(p, b)
    BY <1>5, <2>2 DEF Sweep, SweepBegin, SweepRaw, MarkSourceDeleted, objects
  <2> QED BY <2>1, <2>2
<1> QED BY <1>1, <1>2, <1>3, <1>4, <1>5 DEF Next

\* A receipt is never taken back.
LEMMA ReceiptsStay ==
  ASSUME [Next]_vars
  PROVE  inbox \subseteq inbox'
<1>1. CASE (\E b \in Assets : Owner(b) \/ UrlExpires(b)) \/ BeginAccountDeletion \/ CompleteTaskCleanup
           \/ UNCHANGED vars
  BY <1>1 DEF Owner, CreateMedia, Put, CompleteMedia, WithdrawConsent, DeleteMedia, UrlExpires,
              BeginAccountDeletion, CompleteTaskCleanup, vars
<1>2. ASSUME NEW p \in Processes, Relay(p) \/ CheckMedia(p)
      PROVE  inbox \subseteq inbox'
  BY <1>2 DEF Relay, MarkOutboxPublished, Publish, CheckMedia, CheckBegin, CheckStarts, CheckRead,
              CheckReject, CheckPut, CheckComplete, Compensate, CheckCommit
<1>3. ASSUME NEW p \in Processes, EraseMedia(p)
      PROVE  inbox \subseteq inbox'
  BY <1>3 DEF EraseMedia, EraseBegin, EraseStarts, EraseRaw, EraseDerived, EraseComplete, EraseCommit
<1>4. ASSUME NEW p \in Processes,
             Crash(p) \/ (\E b \in Assets : Sweep(p, b)) \/ \E f \in Events : Rebalance(f, p)
      PROVE  inbox' = inbox
  BY <1>4 DEF Crash, Sweep, SweepBegin, SweepRaw, SweepDerived, MarkSourceDeleted, Rebalance
<1> QED BY <1>1, <1>2, <1>3, <1>4 DEF Next

\* How an attempt comes to store an image in the row, or to take it back.
CheckComes(q) ==
  /\ check'[q].step = "complete" =>
       \/ check'[q] = check[q]
       \/ CheckPut(q) /\ check'[q].asset = check[q].asset /\ check'[q].key = check[q].key
                      /\ check[q].key \in derived'[check[q].asset]
  /\ check'[q].step = "compensate" =>
       \/ check'[q] = check[q]
       \/ /\ CheckComplete(q) /\ check'[q].asset = check[q].asset
          /\ \/ ~Receipt("media.uploaded", check[q].asset) /\ media[check[q].asset].status # "checking"
             \/ {"dbError", "lostReply"} \intersect Faults # {}

LEMMA CheckComesStays ==
  ASSUME NEW q, check'[q] = check[q] \/ check'[q].step \notin {"complete", "compensate"}
  PROVE  CheckComes(q)
BY DEF CheckComes

LEMMA RestartIdles ==
  ASSUME TypeOK, NEW p \in Processes, Restart(p), NEW q \in Processes
  PROVE  check'[q] = check[q] \/ check'[q].step \notin {"complete", "compensate"}
BY DEF TypeOK, Restart, Idle

LEMMA CheckComesStep ==
  ASSUME MediaTyped, [Next]_vars, NEW q \in Processes
  PROVE  CheckComes(q)
<1>0. check \in [Processes -> Handler(CheckSteps)] /\ derived \in [Assets -> SUBSET Keys]
  BY DEF MediaTyped, TypeOK
<1>1. CASE (\E b \in Assets : Owner(b) \/ UrlExpires(b)) \/ BeginAccountDeletion \/ CompleteTaskCleanup
           \/ UNCHANGED vars
  <2>1. check' = check
    BY <1>1 DEF Owner, CreateMedia, Put, CompleteMedia, WithdrawConsent, DeleteMedia, UrlExpires,
                BeginAccountDeletion, CompleteTaskCleanup, vars, work
  <2> QED BY <2>1, CheckComesStays
<1>2. ASSUME NEW p \in Processes,
             \/ Relay(p) \/ EraseMedia(p) \/ Crash(p)
             \/ (\E b \in Assets : Sweep(p, b)) \/ \E f \in Events : Rebalance(f, p)
      PROVE  CheckComes(q)
  <2>1. CASE Relay(p) \/ EraseMedia(p)
    <3>1. check' = check \/ Restart(p)
      BY <2>1 DEF Relay, MarkOutboxPublished, Publish, EraseMedia, EraseBegin, EraseStarts, EraseRaw,
                  EraseDerived, EraseComplete, EraseCommit, Commit
    <3> QED BY <3>1, RestartIdles, CheckComesStays DEF MediaTyped
  <2>2. CASE Crash(p) \/ (\E b \in Assets : Sweep(p, b)) \/ \E f \in Events : Rebalance(f, p)
    <3>1. check' = check \/ Restart(p)
      BY <2>2 DEF Crash, Sweep, SweepBegin, SweepRaw, SweepDerived, MarkSourceDeleted, SweepGoto,
                  Rebalance, work
    <3> QED BY <3>1, RestartIdles, CheckComesStays DEF MediaTyped
  <2> QED BY <1>2, <2>1, <2>2
<1>3. ASSUME NEW p \in Processes, CheckMedia(p)
      PROVE  CheckComes(q)
  <2>1. CASE p # q
    <3>1. check'[q] = check[q] \/ Restart(p)
      BY <1>0, <1>3, <2>1 DEF CheckMedia, CheckBegin, CheckStarts, CheckRead, CheckReject, CheckPut,
              CheckComplete, Compensate, CheckCommit, Commit, CheckGoto, CheckFails
    <3> QED BY <3>1, RestartIdles, CheckComesStays DEF MediaTyped
  <2>2. CASE CheckCommit(q)
    <3>1. CheckFails(q) \/ Restart(q)
      BY <2>2 DEF CheckCommit, Commit
    <3> QED BY <1>0, <3>1, RestartIdles, CheckComesStays DEF CheckFails, Idle, MediaTyped
  <2>3. CASE CheckBegin(q)
    <3>1. PICK step \in {"read", "commit"} :
            check' = [check EXCEPT ![q] = [step |-> step, asset |-> Current("media.uploaded"), key |-> "none"]]
      BY <2>3 DEF CheckBegin, CheckStarts
    <3> QED BY <1>0, <3>1, CheckComesStays
  <2>4. CASE CheckRead(q) \/ CheckReject(q) \/ Compensate(q)
    <3>1. check'[q].step \in {"put", "reject", "commit", "idle"}
      BY <1>0, <2>4 DEF CheckRead, CheckReject, Compensate, CheckGoto, CheckFails, Idle, Handler
    <3> QED BY <3>1, CheckComesStays
  <2>5. CASE CheckPut(q)
    <3>1. check[q].asset \in Assets
      BY <2>5 DEF CheckPut, MediaTyped, Handling
    <3>2. CASE CheckFails(q)
      BY <1>0, <3>2, CheckComesStays DEF CheckFails, Idle
    <3>3. CASE /\ CheckGoto(q, "complete")
               /\ derived' = [derived EXCEPT ![check[q].asset] = @ \cup {check[q].key}]
      <4>1. /\ check'[q].step = "complete" /\ check'[q].asset = check[q].asset
            /\ check'[q].key = check[q].key
        BY <1>0, <3>3 DEF CheckGoto, Handler
      <4>2. check[q].key \in derived'[check[q].asset]
        BY <1>0, <3>1, <3>3
      <4> QED BY <2>5, <4>1, <4>2 DEF CheckComes
    <3> QED BY <2>5, <3>2, <3>3 DEF CheckPut
  <2>6. CASE CheckComplete(q)
    <3>1. CASE CheckGoto(q, "commit")
      BY <1>0, <3>1, CheckComesStays DEF CheckGoto, Handler
    <3>2. CASE /\ CheckGoto(q, "compensate")
               /\ \/ ~Receipt("media.uploaded", check[q].asset) /\ media[check[q].asset].status # "checking"
                  \/ {"dbError", "lostReply"} \intersect Faults # {}
      <4>1. check'[q].step = "compensate" /\ check'[q].asset = check[q].asset
        BY <1>0, <3>2 DEF CheckGoto, Handler
      <4> QED BY <2>6, <3>2, <4>1 DEF CheckComes
    <3> QED BY <2>6, <3>1, <3>2 DEF CheckComplete, Fault
  <2> QED BY <1>3, <2>1, <2>2, <2>3, <2>4, <2>5, <2>6 DEF CheckMedia
<1> QED BY <1>1, <1>2, <1>3 DEF Next

\* A topic that is never given to another process has one attempt at a time,
\* and an asset is ready only after its attempt.
Attempting == {"read", "reject", "put", "complete", "compensate"}

OneAttempt ==
  "rebalance" \notin Faults =>
    \A p \in Processes :
      /\ check[p].step # "idle" => assigned["media.uploaded"] = p
      /\ check[p].step \in Attempting => media[check[p].asset].status # "ready"

\* How a process comes to work on an attempt.
AttemptComes(q) ==
  check'[q].step # "idle" =>
    \/ /\ check[q].step # "idle" /\ check'[q].asset = check[q].asset
       /\ check'[q].step \in Attempting => check[q].step \in Attempting
    \/ /\ CheckBegin(q) /\ assigned["media.uploaded"] = q
       /\ check'[q].step \in Attempting => media'[check'[q].asset].status # "ready"

LEMMA AttemptComesStep ==
  ASSUME MediaTyped, [Next]_vars, NEW q \in Processes
  PROVE  AttemptComes(q)
<1>0. check \in [Processes -> Handler(CheckSteps)] /\ media \in [Assets -> Row]
  BY DEF MediaTyped, TypeOK
<1>1. ASSUME NEW p \in Processes, Restart(p) \/ CheckFails(p)
      PROVE  AttemptComes(q)
  BY <1>0, <1>1 DEF Restart, CheckFails, Idle, AttemptComes
<1>2. CASE check' = check
  BY <1>2 DEF AttemptComes
<1>3. CASE (\E b \in Assets : Owner(b) \/ UrlExpires(b)) \/ BeginAccountDeletion \/ CompleteTaskCleanup
           \/ UNCHANGED vars
  BY <1>2, <1>3 DEF Owner, CreateMedia, Put, CompleteMedia, WithdrawConsent, DeleteMedia, UrlExpires,
              BeginAccountDeletion, CompleteTaskCleanup, vars, work
<1>4. ASSUME NEW p \in Processes,
             \/ Relay(p) \/ EraseMedia(p) \/ Crash(p)
             \/ (\E b \in Assets : Sweep(p, b)) \/ \E f \in Events : Rebalance(f, p)
      PROVE  AttemptComes(q)
  <2>1. CASE Relay(p) \/ EraseMedia(p)
    BY <1>1, <1>2, <2>1 DEF Relay, MarkOutboxPublished, Publish, EraseMedia, EraseBegin, EraseStarts,
                  EraseRaw, EraseDerived, EraseComplete, EraseCommit, Commit
  <2>2. CASE Crash(p) \/ (\E b \in Assets : Sweep(p, b)) \/ \E f \in Events : Rebalance(f, p)
    BY <1>1, <1>2, <2>2 DEF Crash, Sweep, SweepBegin, SweepRaw, SweepDerived, MarkSourceDeleted,
                  SweepGoto, Rebalance, work
  <2> QED BY <1>4, <2>1, <2>2
<1>5. ASSUME NEW p \in Processes, CheckBegin(p)
      PROVE  AttemptComes(q)
  <2> DEFINE b == Current("media.uploaded")
  <2>1. b \in Assets /\ assigned["media.uploaded"] = p
    BY <1>5, CurrentTyped DEF CheckBegin, Events, MediaTyped, Polled
  <2>2. PICK status, step :
          CheckStarts(p, b, status, step) /\ (step # "commit" => status = "checking")
    <3>1. \/ CheckStarts(p, b, "checking", "read")
          \/ \E status : CheckStarts(p, b, status, "commit")
      BY <1>5 DEF CheckBegin
    <3> QED BY <3>1, Zenon
  <2>3. /\ check' = [check EXCEPT ![p] = [step |-> step, asset |-> b, key |-> "none"]]
        /\ media' = [media EXCEPT ![b].status = status]
    BY <2>2 DEF CheckStarts
  <2>4. media'[b].status = status
    BY <1>0, <2>1, <2>3 DEF Row
  <2>5. CASE p = q
    <3>1. check'[q].step = step /\ check'[q].asset = b
      BY <1>0, <2>3, <2>5
    <3> QED BY <1>5, <2>1, <2>2, <2>4, <2>5, <3>1 DEF AttemptComes, Attempting
  <2>6. CASE p # q
    BY <1>0, <2>3, <2>6 DEF AttemptComes
  <2> QED BY <2>5, <2>6
<1>6. ASSUME NEW p \in Processes, CheckRead(p) \/ CheckReject(p) \/ CheckPut(p) \/ CheckComplete(p)
      PROVE  AttemptComes(q)
  <2>1. check[p].step \in Attempting /\ check[p].step # "idle"
    BY <1>6 DEF CheckRead, CheckReject, CheckPut, CheckComplete, Attempting
  <2>2. CASE CheckFails(p)
    BY <1>1, <2>2
  <2>3. ASSUME NEW step, CheckGoto(p, step) PROVE AttemptComes(q)
    BY <1>0, <2>1, <2>3 DEF CheckGoto, Handler, AttemptComes
  <2>4. CASE CheckRead(p) /\ ~CheckGoto(p, "reject")
    <3>1. check' = [check EXCEPT ![p].step = "put", ![p].key = media[check[p].asset].form]
      BY <2>4 DEF CheckRead
    <3> QED BY <1>0, <2>1, <3>1 DEF Handler, AttemptComes
  <2> QED BY <1>6, <2>2, <2>3, <2>4 DEF CheckReject, CheckPut, CheckComplete
<1>7. ASSUME NEW p \in Processes, Compensate(p) \/ CheckCommit(p)
      PROVE  AttemptComes(q)
  BY <1>1, <1>7 DEF Compensate, CheckCommit, Commit
<1> QED BY <1>3, <1>4, <1>5, <1>6, <1>7 DEF Next, CheckMedia

\* A recording that counts ends its attempt.
LEMMA RecordedEnds ==
  ASSUME "lostReply" \notin Faults, MediaTyped, NEW p \in Processes, CheckComplete(p),
         media' # media
  PROVE  check'[p].step = "commit"
BY DEF CheckComplete, CheckGoto, Fault, MediaTyped, TypeOK, Handler

LEMMA OneAttemptStep ==
  ASSUME "lostReply" \notin Faults, MediaInv, OneAttempt, [Next]_vars
  PROVE  OneAttempt'
<1> SUFFICES ASSUME "rebalance" \notin Faults, NEW q \in Processes, check'[q].step # "idle"
             PROVE  /\ assigned'["media.uploaded"] = q
                    /\ check'[q].step \in Attempting => media'[check'[q].asset].status # "ready"
  BY DEF OneAttempt, Attempting
<1>1. assigned' = assigned
  <2>1. \A p \in Processes, e \in Events : ~Rebalance(e, p)
    BY DEF Rebalance, Fault
  <2>2. ASSUME NEW p \in Processes, CheckCommit(p) \/ EraseCommit(p) PROVE assigned' = assigned
    BY <2>2 DEF CheckCommit, EraseCommit
  <2> QED BY <2>1, <2>2, RecordsStayElsewhere DEF RecordsStay
<1>2. AttemptComes(q)
  BY AttemptComesStep DEF MediaInv
<1>3. assigned["media.uploaded"] = q
  BY <1>2 DEF AttemptComes, OneAttempt
<1>4. ASSUME check'[q].step \in Attempting, check[q].step \in Attempting,
             check'[q].asset = check[q].asset
      PROVE  media'[check'[q].asset].status # "ready"
  <2> DEFINE a == check[q].asset
  <2>1. a \in Assets /\ media[a].status # "ready"
    BY <1>4 DEF OneAttempt, MediaInv, MediaTyped, Handling, Attempting
  <2>2. SUFFICES ASSUME media'[a].status = "ready" PROVE FALSE
    BY <1>4
  <2>3. PICK p \in Processes : CheckComplete(p) /\ check[p].asset = a /\ media[a].status = "checking"
    BY <2>1, <2>2, OriginStep DEF Origin, MediaInv
  <2>4. p = q
    BY <1>3, <2>3 DEF OneAttempt, CheckComplete
  <2>5. check'[q].step = "commit"
    BY <2>1, <2>2, <2>3, <2>4, RecordedEnds DEF MediaInv
  <2> QED BY <1>4, <2>5 DEF Attempting
<1> QED BY <1>1, <1>2, <1>3, <1>4 DEF AttemptComes

\* No commit is reported as failed, and either every transaction is carried out
\* or no topic changes hands.
AttemptsAgree ==
  "lostReply" \notin Faults /\ ("dbError" \notin Faults \/ "rebalance" \notin Faults)

\* The one attempt that takes its image back is over.
LEMMA TakenBackEnds ==
  ASSUME MediaTyped, OneAttempt, "rebalance" \notin Faults, NEW q \in Processes,
         check[q].step # "idle", TakenBack(check[q].asset)
  PROVE  check'[q].step = "idle"
<1>1. PICK p \in Processes : Compensate(p)
  BY DEF TakenBack
<1>2. p = q
  BY <1>1 DEF OneAttempt, Compensate
<1> QED BY <1>1, <1>2 DEF Compensate, CheckFails, Idle, MediaTyped, TypeOK

LEMMA ImagesStep ==
  ASSUME AttemptsAgree, MediaInv, MediaInv', OneAttempt, ImagesInPlace, [Next]_vars
  PROVE  ImagesInPlace'
<1>1. ASSUME NEW a \in Assets
      PROVE  /\ Undone(a) => Undone(a)'
             /\ \/ derived[a] \subseteq derived'[a] \/ Undone(a)
                \/ "rebalance" \notin Faults /\ TakenBack(a)
             /\ RowMoves(a, media[a], media'[a])
             /\ media[a].status \in Statuses
  <2>1. RowMoves(a, media[a], media'[a])
    BY RowStep DEF MediaInv
  <2>2. Undone(a) => Undone(a)'
    BY <2>1 DEF Undone, RowMoves, Ended, Erased
  <2>3. media[a].status \in Statuses
    BY DEF MediaInv, MediaTyped, TypeOK, Row
  <2> QED BY <2>1, <2>2, <2>3, DerivedStep
<1>2. ASSUME NEW q \in Processes, check'[q].step \in {"complete", "compensate"}
      PROVE  /\ check'[q].asset \in Assets /\ check'[q].asset = check[q].asset
             /\ check'[q].step = "complete" =>
                  check'[q].key \in derived'[check'[q].asset] \/ media'[check'[q].asset].status \in {"rejected"} \union Ended
             /\ check'[q].step = "compensate" =>
                  media'[check'[q].asset].status \in {"rejected"} \union Ended \/ "rebalance" \notin Faults
  <2>0. CheckComes(q)
    BY CheckComesStep DEF MediaInv
  <2>1. CASE check'[q] = check[q]
    <3>1. check[q].asset \in Assets
      BY <1>2, <2>1 DEF MediaInv, MediaTyped, Handling
    <3>2. "rebalance" \notin Faults => ~TakenBack(check[q].asset)
      BY <1>2, <2>1, TakenBackEnds DEF MediaInv
    <3> QED BY <1>1, <1>2, <2>1, <3>1, <3>2 DEF ImagesInPlace, Undone
  <2>2. CASE check'[q].step = "complete" /\ check'[q] # check[q]
    <3>1. check[q].asset \in Assets
      BY <2>0, <2>2 DEF CheckComes, CheckPut, MediaInv, MediaTyped, Handling
    <3> QED BY <2>0, <2>2, <3>1 DEF CheckComes
  <2>3. CASE check'[q].step = "compensate" /\ check'[q] # check[q]
    <3> DEFINE a == check[q].asset
    <3>1. /\ CheckComplete(q) /\ check'[q].asset = a
          /\ \/ ~Receipt("media.uploaded", a) /\ media[a].status # "checking"
             \/ "rebalance" \notin Faults
      BY <2>0, <2>3 DEF CheckComes, AttemptsAgree
    <3>2. a \in Assets /\ media[a].status \notin {"none", "pending_upload", "uploaded"}
      BY <3>1 DEF CheckComplete, MediaInv, MediaTyped, Handling, LifeInv, HandlersAreDue
    <3>3. CASE "rebalance" \notin Faults
      BY <2>3, <3>1, <3>2, <3>3
    <3>4. CASE ~Receipt("media.uploaded", a) /\ media[a].status # "checking"
      <4>1. media[a].status # "ready"
        BY <3>2, <3>4 DEF ImagesInPlace
      <4>2. Undone(a)
        BY <1>1, <3>2, <3>4, <4>1 DEF Undone, Ended, Statuses
      <4>3. media'[a].status \in {"rejected"} \union Ended
        BY <1>1, <3>2, <4>2 DEF Undone, RowMoves, Ended, Erased
      <4> QED BY <2>3, <3>1, <3>2, <4>3
    <3> QED BY <3>1, <3>3, <3>4
  <2> QED BY <1>2, <2>1, <2>2, <2>3
<1>3. ASSUME NEW a \in Assets, media'[a].status = "ready"
      PROVE  <<"media.uploaded", a>> \in inbox' /\ media'[a].derivation \in derived'[a]
  <2>0. Origin(a) /\ inbox \subseteq inbox'
    BY OriginStep, ReceiptsStay DEF MediaInv
  <2>a. ~("rebalance" \notin Faults /\ TakenBack(a))
    <3> SUFFICES ASSUME "rebalance" \notin Faults, NEW p \in Processes,
                        Compensate(p), check[p].asset = a
                 PROVE  FALSE
      BY DEF TakenBack
    <3>1. media[a].status # "ready" /\ media' = media
      BY DEF Compensate, OneAttempt, Attempting
    <3> QED BY <1>3, <3>1
  <2>1. CASE media[a].status = "ready"
    <3>1. <<"media.uploaded", a>> \in inbox /\ media[a].derivation \in derived[a] /\ ~Undone(a)
      BY <2>1 DEF ImagesInPlace, Receipt, Undone, Ended
    <3>2. media'[a].derivation = media[a].derivation
      BY <1>1, <1>3, <2>1 DEF RowMoves
    <3> QED BY <1>1, <2>0, <2>a, <3>1, <3>2
  <2>2. CASE media[a].status # "ready"
    <3>1. PICK p \in Processes : /\ CheckComplete(p) /\ check[p].asset = a /\ media[a].status = "checking"
                                 /\ media'[a].derivation = check[p].key
                                 /\ <<"media.uploaded", a>> \in inbox'
      BY <1>3, <2>0, <2>2 DEF Origin
    <3>2. ~Undone(a)
      BY <3>1 DEF Undone, Ended
    <3>3. check[p].key \in derived[a]
      BY <3>1, <3>2 DEF CheckComplete, ImagesInPlace
    <3> QED BY <1>1, <2>a, <3>1, <3>2, <3>3
  <2> QED BY <2>1, <2>2
<1> QED BY <1>2, <1>3 DEF ImagesInPlace, Undone, Receipt

\* Whatever checks, erasures and sweeps run at once, fail or start again, a
\* ready asset has the image its row names, under two assumptions without which
\* the code does not keep it.  A commit that succeeded is not reported to the
\* handler as failed: it would take back the image of a row that is ready.  And
\* if a transaction may fail uncommitted, its topic does not change hands: the
\* attempt that failed would take back what the other one has recorded.
THEOREM ReadyIsReadableAlways ==
  ASSUME AttemptsAgree
  PROVE  Spec => []ReadyIsReadable
<1>1. Init => OneAttempt /\ ImagesInPlace
  <2>1. NoRow.status = "none" /\ Idle.step = "idle"
    BY DEF NoRow, Idle
  <2> QED BY <2>1 DEF Init, OneAttempt, ImagesInPlace, Attempting
<1>2. MediaInv /\ MediaInv' /\ OneAttempt /\ ImagesInPlace /\ [Next]_vars =>
        OneAttempt' /\ ImagesInPlace'
  BY OneAttemptStep, ImagesStep DEF AttemptsAgree
<1>3. ImagesInPlace => ReadyIsReadable
  BY DEF ImagesInPlace, ReadyIsReadable
<1> QED BY <1>1, <1>2, <1>3, MediaInvAlways, PTL DEF Spec

-----------------------------------------------------------------------------
(* Sources are erased before the rows, and the account, that name them.      *)

SourcesErased ==
  /\ \A a \in Assets : media[a].status \in {"none"} \union Erased => raw[a] = {}
  /\ \A p \in Processes :
       erase[p].step \in {"derived", "complete"} => raw[erase[p].asset] = {}

\* While nobody uploads behind the back of the server, only an asset that waits
\* for its upload gets a source.
LEMMA RawGrows ==
  ASSUME "latePut" \notin Faults, MediaTyped, [Next]_vars, NEW a \in Assets
  PROVE  raw'[a] \subseteq raw[a] \/ media[a].status = "pending_upload"
<1>0. raw \in [Assets -> SUBSET Nat]
  BY DEF MediaTyped, TypeOK
<1>1. ASSUME NEW b \in Assets, Owner(b) \/ UrlExpires(b)
      PROVE  raw'[a] \subseteq raw[a] \/ media[a].status = "pending_upload"
  <2>1. CASE Put(b)
    BY <1>0, <2>1 DEF Put
  <2>2. CASE ~Put(b)
    BY <1>1, <2>2 DEF Owner, CreateMedia, CompleteMedia, WithdrawConsent, DeleteMedia, UrlExpires, objects
  <2> QED BY <2>1, <2>2
<1>2. CASE BeginAccountDeletion \/ CompleteTaskCleanup \/ UNCHANGED vars
  BY <1>2 DEF BeginAccountDeletion, CompleteTaskCleanup, vars, objects
<1>3. ASSUME NEW p \in Processes, Relay(p) \/ CheckMedia(p)
      PROVE  raw' = raw
  BY <1>3 DEF Relay, MarkOutboxPublished, Publish, CheckMedia, CheckBegin, CheckStarts, CheckRead,
              CheckReject, CheckPut, CheckComplete, Compensate, CheckCommit, objects
<1>4. ASSUME NEW p \in Processes, EraseMedia(p)
      PROVE  raw'[a] \subseteq raw[a]
  <2>1. CASE EraseRaw(p)
    BY <1>0, <2>1 DEF EraseRaw, Without, WithoutSome
  <2>2. CASE ~EraseRaw(p)
    BY <1>4, <2>2 DEF EraseMedia, EraseBegin, EraseStarts, EraseDerived, EraseComplete, EraseCommit, objects
  <2> QED BY <2>1, <2>2
<1>5. ASSUME NEW p \in Processes, NEW b \in Assets, Sweep(p, b)
      PROVE  raw'[a] \subseteq raw[a]
  <2>1. CASE SweepRaw(p, b)
    BY <1>0, <2>1 DEF SweepRaw, Without, WithoutSome
  <2>2. CASE ~SweepRaw(p, b)
    BY <1>5, <2>2 DEF Sweep, SweepBegin, SweepDerived, MarkSourceDeleted, objects
  <2> QED BY <2>1, <2>2
<1>6. ASSUME NEW p \in Processes, Crash(p) \/ \E f \in Events : Rebalance(f, p)
      PROVE  raw' = raw
  BY <1>6 DEF Crash, Rebalance, objects
<1> QED BY <1>1, <1>2, <1>3, <1>4, <1>5, <1>6 DEF Next

\* An erasure reaches its last steps only through the deletion of the source.
EraseComes(q) ==
  erase'[q].step \in {"derived", "complete"} =>
    \/ erase'[q] = erase[q]
    \/ /\ erase'[q].asset = erase[q].asset
       /\ erase[q].step = "derived" \/ raw'[erase[q].asset] = {}

LEMMA EraseComesStays ==
  ASSUME NEW q, erase'[q] = erase[q] \/ erase'[q].step \notin {"derived", "complete"}
  PROVE  EraseComes(q)
BY DEF EraseComes

LEMMA RestartIdlesErase ==
  ASSUME TypeOK, NEW p \in Processes, Restart(p), NEW q \in Processes
  PROVE  erase'[q] = erase[q] \/ erase'[q].step \notin {"derived", "complete"}
BY DEF TypeOK, Restart, Idle

LEMMA EraseComesStep ==
  ASSUME MediaTyped, [Next]_vars, NEW q \in Processes
  PROVE  EraseComes(q)
<1>0. erase \in [Processes -> Handler(EraseSteps)] /\ raw \in [Assets -> SUBSET Nat]
  BY DEF MediaTyped, TypeOK
<1>1. CASE (\E b \in Assets : Owner(b) \/ UrlExpires(b)) \/ BeginAccountDeletion \/ CompleteTaskCleanup
           \/ UNCHANGED vars
  <2>1. erase' = erase
    BY <1>1 DEF Owner, CreateMedia, Put, CompleteMedia, WithdrawConsent, DeleteMedia, UrlExpires,
                BeginAccountDeletion, CompleteTaskCleanup, vars, work
  <2> QED BY <2>1, EraseComesStays
<1>2. ASSUME NEW p \in Processes,
             \/ Relay(p) \/ CheckMedia(p) \/ Crash(p)
             \/ (\E b \in Assets : Sweep(p, b)) \/ \E f \in Events : Rebalance(f, p)
      PROVE  EraseComes(q)
  <2>1. CASE Relay(p) \/ CheckMedia(p)
    <3>1. erase' = erase \/ Restart(p)
      BY <2>1 DEF Relay, MarkOutboxPublished, Publish, CheckMedia, CheckBegin, CheckStarts, CheckRead,
                  CheckReject, CheckPut, CheckComplete, Compensate, CheckCommit, Commit
    <3> QED BY <3>1, RestartIdlesErase, EraseComesStays DEF MediaTyped
  <2>2. CASE Crash(p) \/ (\E b \in Assets : Sweep(p, b)) \/ \E f \in Events : Rebalance(f, p)
    <3>1. erase' = erase \/ Restart(p)
      BY <2>2 DEF Crash, Sweep, SweepBegin, SweepRaw, SweepDerived, MarkSourceDeleted, SweepGoto,
                  Rebalance, work
    <3> QED BY <3>1, RestartIdlesErase, EraseComesStays DEF MediaTyped
  <2> QED BY <1>2, <2>1, <2>2
<1>3. ASSUME NEW p \in Processes, EraseMedia(p)
      PROVE  EraseComes(q)
  <2>1. CASE p # q
    <3>1. erase'[q] = erase[q] \/ Restart(p)
      BY <1>0, <1>3, <2>1 DEF EraseMedia, EraseBegin, EraseStarts, EraseRaw, EraseDerived, EraseComplete,
              EraseCommit, Commit, EraseGoto, EraseFails
    <3> QED BY <3>1, RestartIdlesErase, EraseComesStays DEF MediaTyped
  <2>2. CASE EraseCommit(q)
    <3>1. EraseFails(q) \/ Restart(q)
      BY <2>2 DEF EraseCommit, Commit
    <3> QED BY <1>0, <3>1, RestartIdlesErase, EraseComesStays DEF EraseFails, Idle, MediaTyped
  <2>3. CASE EraseBegin(q)
    <3> DEFINE a == Current("media.deletion_requested")
    <3>1. PICK step \in {"raw", "commit"} :
            erase' = [erase EXCEPT ![q] = [step |-> step, asset |-> a, key |-> media[a].derivation]]
      BY <2>3 DEF EraseBegin, EraseStarts
    <3> QED BY <1>0, <3>1, EraseComesStays
  <2>4. CASE EraseRaw(q)
    <3>1. erase[q].asset \in Assets
      BY <2>4 DEF EraseRaw, MediaTyped, Handling
    <3>2. CASE EraseFails(q)
      BY <1>0, <3>2, EraseComesStays DEF EraseFails, Idle
    <3>3. CASE raw' = Without(raw, erase[q].asset, raw[erase[q].asset]) /\ EraseGoto(q, "derived")
      <4>1. raw'[erase[q].asset] = {}
        BY <1>0, <3>1, <3>3 DEF Without
      <4>2. erase'[q].asset = erase[q].asset
        BY <1>0, <3>3 DEF EraseGoto, Handler
      <4> QED BY <4>1, <4>2 DEF EraseComes
    <3> QED BY <2>4, <3>2, <3>3 DEF EraseRaw
  <2>5. CASE EraseDerived(q)
    <3>1. CASE EraseFails(q)
      BY <1>0, <3>1, EraseComesStays DEF EraseFails, Idle
    <3>2. CASE EraseGoto(q, "complete")
      BY <1>0, <2>5, <3>2 DEF EraseDerived, EraseGoto, EraseComes, Handler
    <3> QED BY <2>5, <3>1, <3>2 DEF EraseDerived
  <2>6. CASE EraseComplete(q)
    <3>1. EraseFails(q) \/ EraseGoto(q, "commit")
      BY <2>6 DEF EraseComplete
    <3>2. erase'[q].step \in {"idle", "commit"}
      BY <1>0, <3>1 DEF EraseFails, EraseGoto, Idle, Handler
    <3> QED BY <3>2, EraseComesStays
  <2> QED BY <1>3, <2>1, <2>2, <2>3, <2>4, <2>5, <2>6 DEF EraseMedia
<1> QED BY <1>1, <1>2, <1>3 DEF Next

LEMMA SourcesErasedStep ==
  ASSUME "latePut" \notin Faults, MediaInv, MediaInv', SourcesErased, [Next]_vars
  PROVE  SourcesErased'
<1>1. ASSUME NEW a \in Assets
      PROVE  /\ raw'[a] \subseteq raw[a] \/ media[a].status = "pending_upload"
             /\ RowMoves(a, media[a], media'[a]) /\ media[a].status \in Statuses /\ Origin(a)
  BY RawGrows, RowStep, OriginStep DEF MediaInv, MediaTyped, TypeOK, Row
<1>2. ASSUME NEW p \in Processes, erase[p].step \in {"derived", "complete"}
      PROVE  erase[p].asset \in Assets /\ raw[erase[p].asset] = {} /\ raw'[erase[p].asset] = {}
  <2>1. erase[p].asset \in Assets /\ media[erase[p].asset].status \in Ended
    BY <1>2 DEF MediaInv, MediaTyped, Handling, LifeInv, HandlersAreDue
  <2>2. raw[erase[p].asset] = {}
    BY <1>2 DEF SourcesErased
  <2>3. raw'[erase[p].asset] \subseteq {}
    BY <1>1, <2>1, <2>2 DEF Ended
  <2> QED BY <2>1, <2>2, <2>3
<1>3. ASSUME NEW a \in Assets, media'[a].status \in {"none"} \union Erased
      PROVE  raw'[a] = {}
  <2>1. CASE media[a].status \in {"none"} \union Erased
    <3>1. raw[a] = {}
      BY <2>1 DEF SourcesErased
    <3> QED BY <1>1, <2>1, <3>1 DEF Erased
  <2>2. CASE media[a].status \notin {"none"} \union Erased
    <3>1. media'[a].status # "none"
      BY <1>1, <2>2 DEF RowMoves, Statuses, Ended, Erased
    <3>2. PICK p \in Processes : erase[p].step = "complete" /\ erase[p].asset = a
      BY <1>1, <1>3, <2>2, <3>1 DEF Origin
    <3> QED BY <1>2, <3>2
  <2> QED BY <2>1, <2>2
<1>4. ASSUME NEW q \in Processes, erase'[q].step \in {"derived", "complete"}
      PROVE  raw'[erase'[q].asset] = {}
  <2>1. EraseComes(q)
    BY EraseComesStep DEF MediaInv
  <2> QED BY <1>2, <1>4, <2>1 DEF EraseComes
<1> QED BY <1>3, <1>4 DEF SourcesErased

\* When an account is gone, all its generation cleanups are complete and every
\* source it had is erased: an account is finalised only over rows that are
\* deleted, and a row is deleted only after its source.  The one thing assumed
\* is that a client does not use its upload URL any more once it has completed
\* the upload or the asset is deleted.
THEOREM AccountGoneIsErasedAlways ==
  ASSUME "latePut" \notin Faults
  PROVE  Spec => []AccountGoneIsErased
<1>1. Init => SourcesErased
  <2>1. Idle.step = "idle"
    BY DEF Idle
  <2> QED BY <2>1 DEF Init, SourcesErased
<1>2. MediaInv /\ MediaInv' /\ SourcesErased /\ [Next]_vars => SourcesErased'
  BY SourcesErasedStep
<1>3. MediaInv /\ SourcesErased => AccountGoneIsErased
  <2> SUFFICES ASSUME MediaInv, SourcesErased, account = "gone"
               PROVE  tasks # "pending" /\ \A a \in Assets : raw[a] = {}
    BY DEF AccountGoneIsErased
  <2>1. tasks # "pending" /\ \A a \in Assets : media[a].status \in {"none", "gone"}
    BY DEF MediaInv, LifeInv, AccountLast
  <2> QED BY <2>1 DEF SourcesErased, Erased
<1> QED BY <1>1, <1>2, <1>3, MediaInvAlways, PTL DEF Spec

=============================================================================
