---------------------------- MODULE MediaPipeline ----------------------------
(***************************************************************************)
(* A private image from upload to erasure: the media_assets row, its       *)
(* deletion request and its outbox events (adapter/postgres/media.go), the *)
(* relay that moves events to the broker, the two consumers that check and *)
(* erase an asset, the sweep that removes sources nobody needs any more    *)
(* (application/eventworker), the versioned object store, and the deletion *)
(* of the owner's account, which ends by deleting every row.               *)
(*                                                                         *)
(* Every repository method is one transaction; between two of them, and    *)
(* between two object store calls, anybody else may act.  A process may    *)
(* die between any two steps: it starts again with the records it had not  *)
(* committed.  Records are handled one at a time per topic, in order.      *)
(***************************************************************************)
EXTENDS Naturals, Sequences

CONSTANTS Assets,           \* the images of one owner
          NoAsset,          \* what an idle consumer works on
          Processes,        \* worker processes
          Kinds,            \* the purposes and normalised forms they may have
          MayDeleteAccount, \* whether the owner may delete the account
          Faults,           \* which of FaultKinds may happen
          FaultBudget,      \* how many of them, in total
          MaxPuts           \* bound on uses of one presigned URL

FaultKinds == {"crash", "storeError", "dbError", "lostReply", "rebalance", "latePut"}

Purposes == {"wardrobe", "personal", "plain"} \* keeps source; needs consent; neither
Keys     == {"normalized.jpg", "normalized.png"}
AllKinds == {kind \in Purposes \X Keys :
               kind[2] = "normalized.png" => kind[1] = "wardrobe"}

ASSUME AssetsAssumption == NoAsset \notin Assets
ASSUME KindsAssumption == Kinds \subseteq AllKinds
ASSUME MayDeleteAccountAssumption == MayDeleteAccount \in BOOLEAN
ASSUME FaultsAssumption == Faults \subseteq FaultKinds
ASSUME BoundsAssumption == FaultBudget \in Nat /\ MaxPuts \in Nat

VARIABLES media,    \* the row of each asset with its deletion request
          outbox,   \* the event of each type for each asset
          topic,    \* the records of each event type's topic
          offset,   \* the records each consumer group has committed
          assigned, \* the process each topic is assigned to
          inbox,    \* receipts of completed handlers
          raw,      \* versions under each asset's source key
          puts,     \* versions ever uploaded under it
          url,      \* the presigned upload URL of each asset
          derived,  \* normalised images stored for each asset
          account,  \* the owner's account
          tasks,    \* the generation cleanups its deletion waits for
          relay,    \* the event each process published and has not marked
          check,    \* the media-check handler of each process
          erase,    \* the media-delete handler of each process
          sweep,    \* where the sweep of each process is with each asset
          budget    \* faults left

objects == <<raw, puts, url, derived>>
broker  == <<topic, offset, assigned>>
owner   == <<account, tasks>>
work    == <<relay, check, erase, sweep>>
vars    == <<media, outbox, broker, inbox, objects, owner, work, budget>>

Events   == {"media.uploaded", "media.deletion_requested"}
Statuses == {"none", "pending_upload", "uploaded", "checking", "ready",
             "rejected", "deleting", "deleted", "gone"}

\* form is the key the normalised image gets, valid whether the uploaded
\* version passes the check, version 0 before one is named.
Row == [status        : Statuses,
        purpose       : Purposes,
        form          : Keys,
        withdrawn     : BOOLEAN,
        valid         : BOOLEAN,
        version       : Nat,
        derivation    : Keys \cup {"none"},
        sourceDeleted : BOOLEAN,
        request       : {"none", "pending", "running", "complete"}]

NoRow == [status |-> "none", purpose |-> "plain", form |-> "normalized.jpg",
          withdrawn |-> FALSE, valid |-> FALSE, version |-> 0,
          derivation |-> "none", sourceDeleted |-> FALSE, request |-> "none"]

GoneRow == [NoRow EXCEPT !.status = "gone"]
Exists(a) == media[a].status \notin {"none", "gone"}

CheckSteps == {"idle", "read", "reject", "put", "complete", "compensate", "commit"}
EraseSteps == {"idle", "raw", "derived", "complete", "commit"}
SweepSteps == {"idle", "raw", "rawOfDeleted", "derived", "mark"}

\* A handler works on the asset of one record, and on one image key of it.
Handler(steps) == [step : steps, asset : Assets \cup {NoAsset}, key : Keys \cup {"none"}]

TypeOK ==
  /\ media \in [Assets -> Row]
  /\ outbox \in [Events -> [Assets -> {"none", "pending", "published"}]]
  /\ topic \in [Events -> Seq(Assets)]
  /\ offset \in [Events -> Nat]
  /\ \A e \in Events : offset[e] <= Len(topic[e])
  /\ assigned \in [Events -> Processes]
  /\ inbox \subseteq Events \X Assets
  /\ raw \in [Assets -> SUBSET Nat]
  /\ puts \in [Assets -> Nat]
  /\ url \in [Assets -> {"unsigned", "valid", "expired"}]
  /\ derived \in [Assets -> SUBSET Keys]
  /\ account \in {"active", "deleting", "gone"}
  /\ tasks \in {"none", "pending", "complete"}
  /\ relay \in [Processes -> SUBSET (Events \X Assets)]
  /\ check \in [Processes -> Handler(CheckSteps)]
  /\ erase \in [Processes -> Handler(EraseSteps)]
  /\ sweep \in [Processes -> [Assets -> SweepSteps]]
  /\ budget \in Nat

Idle  == [step |-> "idle", asset |-> NoAsset, key |-> "none"]
AtRest == [a \in Assets |-> "idle"]

Init ==
  /\ media = [a \in Assets |-> NoRow]
  /\ outbox = [e \in Events |-> [a \in Assets |-> "none"]]
  /\ topic = [e \in Events |-> <<>>]
  /\ offset = [e \in Events |-> 0]
  /\ inbox = {}
  /\ raw = [a \in Assets |-> {}]
  /\ puts = [a \in Assets |-> 0]
  /\ url = [a \in Assets |-> "unsigned"]
  /\ derived = [a \in Assets |-> {}]
  /\ account = "active"
  /\ tasks = "none"
  /\ assigned \in [Events -> Processes]
  /\ relay = [p \in Processes |-> {}]
  /\ check = [p \in Processes |-> Idle]
  /\ erase = [p \in Processes |-> Idle]
  /\ sweep = [p \in Processes |-> AtRest]
  /\ budget = FaultBudget

Fault(kind) == kind \in Faults /\ budget > 0 /\ budget' = budget - 1

\* A worker process dies, or one of its goroutines returns an error and ends
\* it (Runner.Run), and is started again.
Restart(p) ==
  /\ relay' = [relay EXCEPT ![p] = {}]
  /\ check' = [check EXCEPT ![p] = Idle]
  /\ erase' = [erase EXCEPT ![p] = Idle]
  /\ sweep' = [sweep EXCEPT ![p] = AtRest]

-----------------------------------------------------------------------------
(* The owner *)

CreateMedia(a) ==
  /\ media[a].status = "none"
  /\ account = "active"
  /\ \E kind \in Kinds :
       media' = [media EXCEPT ![a] = [NoRow EXCEPT !.status  = "pending_upload",
                                                   !.purpose = kind[1],
                                                   !.form    = kind[2]]]
  /\ url' = [url EXCEPT ![a] = "valid"]
  /\ UNCHANGED <<outbox, broker, inbox, raw, puts, derived, owner, work, budget>>

\* The client uses the URL.  Whether it does so again after completing the
\* upload, or after the asset is deleted, is up to the client.
Put(a) ==
  /\ url[a] = "valid"
  /\ puts[a] < MaxPuts
  /\ media[a].status = "pending_upload" \/ "latePut" \in Faults
  /\ puts' = [puts EXCEPT ![a] = @ + 1]
  /\ raw' = [raw EXCEPT ![a] = @ \cup {puts[a] + 1}]
  /\ UNCHANGED <<media, outbox, broker, inbox, url, derived, owner, work, budget>>

\* UploadIntentLifetime.  The intent and its URL expire together.
UrlExpires(a) ==
  /\ url[a] = "valid"
  /\ url' = [url EXCEPT ![a] = "expired"]
  /\ UNCHANGED <<media, outbox, broker, inbox, raw, puts, derived, owner, work, budget>>

CompleteMedia(a) ==
  /\ media[a].status = "pending_upload"
  /\ url[a] = "valid"
  /\ \E version \in raw[a], valid \in BOOLEAN :
       media' = [media EXCEPT ![a].status  = "uploaded",
                              ![a].version = version,
                              ![a].valid   = valid]
  /\ outbox' = [outbox EXCEPT !["media.uploaded"][a] = "pending"]
  /\ UNCHANGED <<broker, inbox, objects, owner, work, budget>>

WithdrawConsent(a) ==
  /\ Exists(a)
  /\ media[a].purpose = "personal"
  /\ ~media[a].withdrawn
  /\ media' = [media EXCEPT ![a].withdrawn = TRUE]
  /\ UNCHANGED <<outbox, broker, inbox, objects, owner, work, budget>>

\* A row whose deletion is requested: reading stops at once.
Deleting(row) ==
  [row EXCEPT !.status  = "deleting",
              !.request = IF @ = "none" THEN "pending" ELSE @]

DeleteMedia(a) ==
  /\ account = "active"
  /\ Exists(a)
  /\ media[a].request = "none"
  /\ media' = [media EXCEPT ![a] = Deleting(@)]
  /\ outbox' = [outbox EXCEPT !["media.deletion_requested"][a] = "pending"]
  /\ UNCHANGED <<broker, inbox, objects, owner, work, budget>>

-----------------------------------------------------------------------------
(* The account *)

\* Mutant: an asset whose deletion is requested counts as deleted.
ReadyToFinalizeEarly(rows, status, cleanups) ==
  /\ status = "deleting"
  /\ cleanups # "pending"
  /\ \A a \in Assets : rows[a].status \in {"none", "deleting", "deleted"}

ReadyToFinalize(rows, status, cleanups) ==
  /\ status = "deleting"
  /\ cleanups # "pending"
  /\ \A a \in Assets : rows[a].status \in {"none", "deleted"}

\* finalizeAccountDeletionIfReady at the end of a transaction that leaves
\* rows, status and cleanups: deleting the user cascades to every media row.
FinalizeAccountDeletionIfReady(rows, status, cleanups) ==
  /\ tasks' = cleanups
  /\ IF ReadyToFinalize(rows, status, cleanups)
       THEN /\ account' = "gone"
            /\ media' = [a \in Assets |->
                           IF rows[a].status = "none" THEN rows[a] ELSE GoneRow]
       ELSE /\ account' = status
            /\ media' = rows

\* Assets already deleted stay as they are; a request made before is adopted
\* with the event it already has.
BeginAccountDeletion ==
  LET remaining == {a \in Assets : media[a].status \notin {"none", "deleted"}}
  IN /\ MayDeleteAccount
     /\ account = "active"
     /\ \E cleanups \in {"none", "pending"} :
          FinalizeAccountDeletionIfReady(
            [a \in Assets |-> IF a \in remaining THEN Deleting(media[a]) ELSE media[a]],
            "deleting", cleanups)
     /\ outbox' = [outbox EXCEPT !["media.deletion_requested"] =
                     [a \in Assets |-> IF a \in remaining /\ media[a].request = "none"
                                         THEN "pending" ELSE @[a]]]
     /\ UNCHANGED <<broker, inbox, objects, work, budget>>

\* The last generation cleanup of the account completes.
CompleteTaskCleanup ==
  /\ tasks = "pending"
  /\ FinalizeAccountDeletionIfReady(media, account, "complete")
  /\ UNCHANGED <<outbox, broker, inbox, objects, work, budget>>

-----------------------------------------------------------------------------
(* The relay and the broker *)

\* ProduceSync, outside any transaction.
Publish(p, e, a) ==
  /\ relay[p] = {}
  /\ outbox[e][a] = "pending"
  /\ topic' = [topic EXCEPT ![e] = Append(@, a)]
  /\ relay' = [relay EXCEPT ![p] = {<<e, a>>}]
  /\ UNCHANGED <<media, outbox, offset, assigned, inbox, objects, owner,
                 check, erase, sweep, budget>>

MarkOutboxPublished(p) ==
  /\ \E e \in Events, a \in Assets :
       /\ <<e, a>> \in relay[p]
       /\ outbox' = [outbox EXCEPT ![e][a] = "published"]
  /\ relay' = [relay EXCEPT ![p] = {}]
  /\ UNCHANGED <<media, broker, inbox, objects, owner, check, erase, sweep, budget>>

Polled(p, e) == assigned[e] = p /\ offset[e] < Len(topic[e])
Current(e)   == topic[e][offset[e] + 1]

\* CommitRecords.  It is refused to a process that has lost the topic, which
\* ends that process.
Commit(p, e, handler) ==
  IF assigned[e] = p
    THEN /\ offset' = [offset EXCEPT ![e] = @ + 1]
         /\ handler
    ELSE UNCHANGED offset /\ Restart(p)

\* The group takes a process that misses its heartbeats for dead and gives the
\* topic to another one, while the first still handles its record.
Rebalance(e, p) ==
  /\ Fault("rebalance")
  /\ assigned[e] # p
  /\ (IF e = "media.uploaded" THEN check ELSE erase)[p].step = "idle"
  /\ assigned' = [assigned EXCEPT ![e] = p]
  /\ UNCHANGED <<media, outbox, topic, offset, inbox, objects, owner, work>>

-----------------------------------------------------------------------------
(* The object store *)

\* DeleteAllVersions under some keys, and what is left when it fails half way.
Without(store, a, keys)     == [store EXCEPT ![a] = @ \ keys]
WithoutSome(store, a, keys) == {Without(store, a, some) : some \in SUBSET keys}

-----------------------------------------------------------------------------
(* The media-check consumer: Runner.checkMedia.  A handler that returns an  *)
(* error is tried again, by this process or by the next one: the record     *)
(* stays current until it is committed.                                     *)

CheckGoto(p, step) == check' = [check EXCEPT ![p].step = step]
CheckFails(p)      == check' = [check EXCEPT ![p] = Idle]
Receipt(e, a)      == <<e, a>> \in inbox

\* BeginMediaCheck over the row of a leaves it with this status; another
\* attempt goes on with the step.
CheckStarts(p, a, status, step) ==
  /\ media' = [media EXCEPT ![a].status = status]
  /\ check' = [check EXCEPT ![p] = [step |-> step, asset |-> a, key |-> "none"]]
  /\ UNCHANGED <<outbox, broker, inbox, objects, owner, relay, erase, sweep, budget>>

\* Mutant: a record whose check was interrupted is taken for handled.
CheckBeginOnce(p) ==
  /\ check[p].step = "idle"
  /\ Polled(p, "media.uploaded")
  /\ LET a == Current("media.uploaded")
     IN /\ Exists(a)
        /\ IF media[a].status = "uploaded"
             THEN CheckStarts(p, a, "checking", "read")
             ELSE CheckStarts(p, a, media[a].status, "commit")

\* Mutant: a record is refused when its asset is decided already.
CheckBeginStrict(p) ==
  /\ check[p].step = "idle"
  /\ Polled(p, "media.uploaded")
  /\ LET a == Current("media.uploaded")
     IN /\ media[a].status \in {"uploaded", "checking"}
        /\ CheckStarts(p, a, "checking", "read")

\* BeginMediaCheck.  An interrupted check is done again.  A record whose asset
\* is gone is an error however often it is tried.
CheckBegin(p) ==
  /\ check[p].step = "idle"
  /\ Polled(p, "media.uploaded")
  /\ LET a == Current("media.uploaded")
     IN /\ Exists(a)
        /\ \/ /\ media[a].status = "uploaded" /\ media[a].withdrawn
              /\ CheckStarts(p, a, "rejected", "commit")
           \/ /\ media[a].status = "uploaded" /\ ~media[a].withdrawn
              /\ CheckStarts(p, a, "checking", "read")
           \/ /\ media[a].status = "checking"
              /\ CheckStarts(p, a, "checking", "read")
           \/ /\ media[a].status \notin {"uploaded", "checking"}
              /\ CheckStarts(p, a, media[a].status, "commit")

\* The attempt works on the row BeginMediaCheck returned: its version and form
\* do not change any more, but the row may go.  A source that cannot be read
\* and one that fails the check are rejected alike.
CheckRead(p) ==
  /\ check[p].step = "read"
  /\ LET a    == check[p].asset
         good == Exists(a) /\ media[a].version \in raw[a] /\ media[a].valid
     IN \/ /\ good
           /\ check' = [check EXCEPT ![p].step = "put", ![p].key = media[a].form]
           /\ UNCHANGED budget
        \/ ~good /\ CheckGoto(p, "reject") /\ UNCHANGED budget
        \/ Fault("storeError") /\ CheckGoto(p, "reject")
  /\ UNCHANGED <<media, outbox, broker, inbox, objects, owner, relay, erase, sweep>>

\* CompleteMediaCheck without an image.  The transaction may fail uncommitted, and
\* a commit whose reply is lost looks like a failure to the handler.
CheckReject(p) ==
  /\ check[p].step = "reject"
  /\ LET a == check[p].asset
     IN \/ /\ Receipt("media.uploaded", a)
           /\ CheckGoto(p, "commit")
           /\ UNCHANGED <<media, inbox, budget>>
        \/ /\ ~Receipt("media.uploaded", a)
           /\ media[a].status = "checking"
           /\ media' = [media EXCEPT ![a].status = "rejected"]
           /\ inbox' = inbox \cup {<<"media.uploaded", a>>}
           /\ \/ CheckGoto(p, "commit") /\ UNCHANGED budget
              \/ CheckFails(p) /\ Fault("lostReply")
        \/ /\ ~Receipt("media.uploaded", a)
           /\ media[a].status # "checking"
           /\ CheckFails(p)
           /\ UNCHANGED <<media, inbox, budget>>
        \/ CheckFails(p) /\ Fault("dbError") /\ UNCHANGED <<media, inbox>>
  /\ UNCHANGED <<outbox, broker, objects, owner, relay, erase, sweep>>

\* PutDerived.  A write that reports an error may have happened.
CheckPut(p) ==
  /\ check[p].step = "put"
  /\ LET stored == [derived EXCEPT ![check[p].asset] = @ \cup {check[p].key}]
     IN \/ derived' = stored /\ CheckGoto(p, "complete") /\ UNCHANGED budget
        \/ derived' \in {derived, stored} /\ CheckFails(p) /\ Fault("storeError")
  /\ UNCHANGED <<media, outbox, broker, inbox, raw, puts, url, owner, relay, erase, sweep>>

\* Mutant: the row is updated whatever its status has become.
CheckCompleteAnyway(p) ==
  /\ check[p].step = "complete"
  /\ Exists(check[p].asset)
  /\ media' = [media EXCEPT ![check[p].asset].status     = "ready",
                            ![check[p].asset].derivation = check[p].key]
  /\ inbox' = inbox \cup {<<"media.uploaded", check[p].asset>>}
  /\ CheckGoto(p, "commit")
  /\ UNCHANGED <<outbox, broker, objects, owner, relay, erase, sweep, budget>>

\* Mutant: the receipt is not looked up.
CheckCompleteForgetful(p) ==
  /\ check[p].step = "complete"
  /\ LET a == check[p].asset
     IN \/ /\ media[a].status = "checking"
           /\ media' = [media EXCEPT ![a].status = "ready", ![a].derivation = check[p].key]
           /\ inbox' = inbox \cup {<<"media.uploaded", a>>}
           /\ CheckGoto(p, "commit")
        \/ /\ media[a].status # "checking"
           /\ CheckGoto(p, "compensate")
           /\ UNCHANGED <<media, inbox>>
  /\ UNCHANGED <<outbox, broker, objects, owner, relay, erase, sweep, budget>>

\* CompleteMediaCheck with the stored image.  Any failure makes the handler take
\* the image back: a conflict, a commit whose reply is lost, and a transaction
\* that ends uncommitted on an error or the deadline of the attempt.
CheckComplete(p) ==
  /\ check[p].step = "complete"
  /\ LET a == check[p].asset
     IN \/ /\ Receipt("media.uploaded", a)
           /\ CheckGoto(p, "commit")
           /\ UNCHANGED <<media, inbox, budget>>
        \/ /\ ~Receipt("media.uploaded", a)
           /\ media[a].status = "checking"
           /\ media' = [media EXCEPT ![a].status = "ready", ![a].derivation = check[p].key]
           /\ inbox' = inbox \cup {<<"media.uploaded", a>>}
           /\ \/ CheckGoto(p, "commit") /\ UNCHANGED budget
              \/ CheckGoto(p, "compensate") /\ Fault("lostReply")
        \/ /\ ~Receipt("media.uploaded", a)
           /\ media[a].status # "checking"
           /\ CheckGoto(p, "compensate")
           /\ UNCHANGED <<media, inbox, budget>>
        \/ CheckGoto(p, "compensate") /\ Fault("dbError") /\ UNCHANGED <<media, inbox>>
  /\ UNCHANGED <<outbox, broker, objects, owner, relay, erase, sweep>>

\* The handler takes back the image it stored, once, and returns its error.
Compensate(p) ==
  /\ check[p].step = "compensate"
  /\ CheckFails(p)
  /\ LET image == {check[p].key}
     IN \/ derived' = Without(derived, check[p].asset, image) /\ UNCHANGED budget
        \/ derived' \in WithoutSome(derived, check[p].asset, image) /\ Fault("storeError")
  /\ UNCHANGED <<media, outbox, broker, inbox, raw, puts, url, owner, relay, erase, sweep>>

CheckCommit(p) ==
  /\ check[p].step = "commit"
  /\ Commit(p, "media.uploaded", CheckFails(p) /\ UNCHANGED <<relay, erase, sweep>>)
  /\ UNCHANGED <<media, outbox, topic, assigned, inbox, objects, owner, budget>>

CheckMedia(p) ==
  \/ CheckBegin(p) \/ CheckRead(p) \/ CheckReject(p) \/ CheckPut(p)
  \/ CheckComplete(p) \/ Compensate(p) \/ CheckCommit(p)

-----------------------------------------------------------------------------
(* The media-delete consumer: Runner.deleteMedia *)

EraseGoto(p, step) == erase' = [erase EXCEPT ![p].step = step]
EraseFails(p)      == erase' = [erase EXCEPT ![p] = Idle]

\* BeginDeletion over the row of a: the derivations to erase are those
\* recorded by now.
EraseStarts(p, a, request, step) ==
  /\ media' = [media EXCEPT ![a].request = request]
  /\ erase' = [erase EXCEPT ![p] = [step |-> step, asset |-> a, key |-> media[a].derivation]]
  /\ UNCHANGED <<outbox, broker, inbox, objects, owner, relay, check, sweep, budget>>

EraseBegin(p) ==
  /\ erase[p].step = "idle"
  /\ Polled(p, "media.deletion_requested")
  /\ LET a == Current("media.deletion_requested")
     IN /\ Exists(a)
        /\ \/ /\ media[a].request = "complete"
              /\ EraseStarts(p, a, "complete", "commit")
           \/ /\ media[a].request # "complete"
              /\ EraseStarts(p, a, "running", "raw")

EraseRaw(p) ==
  /\ erase[p].step = "raw"
  /\ LET a == erase[p].asset
     IN \/ raw' = Without(raw, a, raw[a]) /\ EraseGoto(p, "derived") /\ UNCHANGED budget
        \/ raw' \in WithoutSome(raw, a, raw[a]) /\ EraseFails(p) /\ Fault("storeError")
  /\ UNCHANGED <<media, outbox, broker, inbox, puts, url, derived, owner, relay, check, sweep>>

\* Mutant: the record is committed although the image could not be erased.
EraseDerivedGivesUp(p) ==
  /\ erase[p].step = "derived"
  /\ \/ /\ derived' = [derived EXCEPT ![erase[p].asset] = @ \ {erase[p].key, "normalized.jpg"}]
        /\ EraseGoto(p, "complete")
        /\ UNCHANGED budget
     \/ /\ Fault("storeError")
        /\ EraseGoto(p, "commit")
        /\ UNCHANGED derived
  /\ UNCHANGED <<media, outbox, broker, inbox, raw, puts, url, owner, relay, check, sweep>>

\* The recorded derivation, and the image a check may have stored unrecorded
\* under the name most images have.
EraseDerived(p) ==
  /\ erase[p].step = "derived"
  /\ LET a      == erase[p].asset
         images == {erase[p].key, "normalized.jpg"}
     IN \/ /\ derived' = Without(derived, a, images)
           /\ EraseGoto(p, "complete")
           /\ UNCHANGED budget
        \/ /\ derived' \in WithoutSome(derived, a, images)
           /\ EraseFails(p)
           /\ Fault("storeError")
  /\ UNCHANGED <<media, outbox, broker, inbox, raw, puts, url, owner, relay, check, sweep>>

DeletedRow(row) ==
  [row EXCEPT !.status = "deleted", !.version = 0, !.derivation = "none",
              !.request = "complete"]

\* Mutant: the account is not looked at when an asset is erased.
EraseCompleteAlone(p) ==
  /\ erase[p].step = "complete"
  /\ media[erase[p].asset].status = "deleting"
  /\ media' = [media EXCEPT ![erase[p].asset] = DeletedRow(@)]
  /\ inbox' = inbox \cup {<<"media.deletion_requested", erase[p].asset>>}
  /\ EraseGoto(p, "commit")
  /\ UNCHANGED <<outbox, broker, objects, owner, relay, check, sweep, budget>>

\* CompleteDeletion.  Its conflicts cannot happen: the receipt is written with
\* the status it would conflict with.
EraseComplete(p) ==
  /\ erase[p].step = "complete"
  /\ LET a == erase[p].asset
     IN \/ /\ Receipt("media.deletion_requested", a)
           /\ EraseGoto(p, "commit")
           /\ UNCHANGED <<media, inbox, owner, budget>>
        \/ /\ ~Receipt("media.deletion_requested", a)
           /\ media[a].status = "deleting"
           /\ FinalizeAccountDeletionIfReady([media EXCEPT ![a] = DeletedRow(@)], account, tasks)
           /\ inbox' = inbox \cup {<<"media.deletion_requested", a>>}
           /\ \/ EraseGoto(p, "commit") /\ UNCHANGED budget
              \/ EraseFails(p) /\ Fault("lostReply")
        \/ EraseFails(p) /\ Fault("dbError") /\ UNCHANGED <<media, inbox, owner>>
  /\ UNCHANGED <<outbox, broker, objects, relay, check, sweep>>

EraseCommit(p) ==
  /\ erase[p].step = "commit"
  /\ Commit(p, "media.deletion_requested", EraseFails(p) /\ UNCHANGED <<relay, check, sweep>>)
  /\ UNCHANGED <<media, outbox, topic, assigned, inbox, objects, owner, budget>>

EraseMedia(p) ==
  EraseBegin(p) \/ EraseRaw(p) \/ EraseDerived(p) \/ EraseComplete(p) \/ EraseCommit(p)

-----------------------------------------------------------------------------
(* The source sweep: Runner.cleanupSources.  Any error ends its process.    *)

SweepGoto(p, a, step) ==
  /\ sweep' = [sweep EXCEPT ![p][a] = step]
  /\ UNCHANGED <<relay, check, erase>>

\* Mutant: an unfinished upload is a candidate at once.
SweepCandidateHasty(a) ==
  /\ ~media[a].sourceDeleted
  /\ \/ media[a].status \in {"pending_upload", "rejected", "deleted"}
     \/ media[a].status = "ready" /\ media[a].purpose # "wardrobe"

\* Mutant: what has been deleted is taken to be erased.
SweepCandidateLiving(a) ==
  /\ ~media[a].sourceDeleted
  /\ \/ media[a].status = "pending_upload" /\ url[a] = "expired"
     \/ media[a].status = "ready" /\ media[a].purpose # "wardrobe"
     \/ media[a].status = "rejected"

\* SourceCleanupCandidates.  An unfinished upload waits a day, well beyond its
\* URL; a deleted asset a minute, which outlasts any attempt to check it.
SweepCandidate(a) ==
  /\ ~media[a].sourceDeleted
  /\ \/ media[a].status = "pending_upload" /\ url[a] = "expired"
     \/ media[a].status = "ready" /\ media[a].purpose # "wardrobe"
     \/ media[a].status = "rejected"
     \/ /\ media[a].status = "deleted"
        /\ \A p \in Processes : check[p].step # "idle" => check[p].asset # a

SweepBegin(p, a) ==
  /\ sweep[p][a] = "idle"
  /\ SweepCandidate(a)
  /\ SweepGoto(p, a, IF media[a].status = "deleted" THEN "rawOfDeleted" ELSE "raw")
  /\ UNCHANGED <<media, outbox, broker, inbox, objects, owner, budget>>

SweepRaw(p, a) ==
  /\ sweep[p][a] \in {"raw", "rawOfDeleted"}
  /\ \/ /\ raw' = Without(raw, a, raw[a])
        /\ SweepGoto(p, a, IF sweep[p][a] = "raw" THEN "mark" ELSE "derived")
        /\ UNCHANGED budget
     \/ raw' \in WithoutSome(raw, a, raw[a]) /\ Restart(p) /\ Fault("storeError")
  /\ UNCHANGED <<media, outbox, broker, inbox, puts, url, derived, owner>>

SweepDerived(p, a) ==
  /\ sweep[p][a] = "derived"
  /\ \/ derived' = Without(derived, a, Keys) /\ SweepGoto(p, a, "mark") /\ UNCHANGED budget
     \/ derived' \in WithoutSome(derived, a, Keys) /\ Restart(p) /\ Fault("storeError")
  /\ UNCHANGED <<media, outbox, broker, inbox, raw, puts, url, owner>>

\* MarkSourceDeleted goes by the status the row has now.
MarkSourceDeleted(p, a) ==
  /\ sweep[p][a] = "mark"
  /\ SweepGoto(p, a, "idle")
  /\ media' = IF ~Exists(a) \/ media[a].sourceDeleted THEN media
              ELSE [media EXCEPT ![a].sourceDeleted = TRUE,
                                 ![a].status = IF @ = "pending_upload" THEN "rejected" ELSE @]
  /\ UNCHANGED <<outbox, broker, inbox, objects, owner, budget>>

Sweep(p, a) ==
  SweepBegin(p, a) \/ SweepRaw(p, a) \/ SweepDerived(p, a) \/ MarkSourceDeleted(p, a)

-----------------------------------------------------------------------------

Crash(p) ==
  /\ Fault("crash")
  /\ Restart(p)
  /\ UNCHANGED <<media, outbox, broker, inbox, objects, owner>>

Owner(a) ==
  CreateMedia(a) \/ Put(a) \/ CompleteMedia(a) \/ WithdrawConsent(a) \/ DeleteMedia(a)

Relay(p) == MarkOutboxPublished(p) \/ \E e \in Events, a \in Assets : Publish(p, e, a)

Next ==
  \/ \E a \in Assets : Owner(a) \/ UrlExpires(a)
  \/ BeginAccountDeletion \/ CompleteTaskCleanup
  \/ \E p \in Processes :
       \/ Relay(p) \/ CheckMedia(p) \/ EraseMedia(p) \/ Crash(p)
       \/ \E a \in Assets : Sweep(p, a)
       \/ \E e \in Events : Rebalance(e, p)

Spec == Init /\ [][Next]_vars

\* The goroutines of every process run on, its tickers tick, the generation
\* cleanups of a deleted account are completed and URLs expire.  The owner
\* need not do anything.
Fairness ==
  /\ WF_vars(CompleteTaskCleanup)
  /\ \A a \in Assets : WF_vars(UrlExpires(a))
  /\ \A p \in Processes :
       /\ WF_vars(Relay(p))
       /\ WF_vars(CheckMedia(p))
       /\ WF_vars(EraseMedia(p))
       /\ \A a \in Assets : WF_vars(Sweep(p, a))

FairSpec == Spec /\ Fairness

-----------------------------------------------------------------------------
(* Correctness *)

\* A ready asset can be shown: the image its row names is in the store, whatever
\* handler or sweep ran, failed or was repeated on the way (checkMedia stores
\* first, records second and takes back what it could not record).  It fails when
\* a recording is reported as failed although it was made, by this attempt (a lost
\* reply) or by another of the same asset (a failed transaction and a rebalance).
ReadyIsReadable ==
  \A a \in Assets :
    media[a].status = "ready" => media[a].derivation \in derived[a]

\* A source is kept as long as somebody needs it: until the check of the named
\* version is over, and as long as a wardrobe photo lives
\* (SourceCleanupCandidates: unfinished, checked or deleted assets only).
SourceIsKept ==
  \A a \in Assets :
    \/ media[a].status \in {"uploaded", "checking"}
    \/ media[a].status = "ready" /\ media[a].purpose = "wardrobe"
    => media[a].version \in raw[a]

\* An event is due while it waits in the outbox or in the uncommitted part of
\* its topic.
Due(e, a) ==
  \/ outbox[e][a] = "pending"
  \/ \E i \in offset[e] + 1 .. Len(topic[e]) : topic[e][i] = a

\* Deletion is final: neither a check that was running, nor a redelivered
\* event, nor the sweep brings an asset back or reopens a completed request.
DeletionIsFinal ==
  [][ \A a \in Assets :
        /\ media[a].status = "deleting" => media'[a].status \in {"deleting", "deleted", "gone"}
        /\ media[a].status = "deleted" => media'[a].status \in {"deleted", "gone"}
        /\ media[a].status = "gone" => media'[a] = media[a]
        /\ media[a].request = "complete" /\ media'[a].status # "gone"
             => media'[a].request = "complete" ]_vars

\* The account is gone only when every source it had is erased and its
\* generation cleanups are complete (finalizeAccountDeletionIfReady).
AccountGoneIsErased ==
  account = "gone" => /\ tasks # "pending"
                      /\ \A a \in Assets : raw[a] = {}

\* Every completed upload is decided, or deleted first.
UploadIsDecided ==
  \A a \in Assets :
    media[a].status = "uploaded" ~> media[a].status \notin {"uploaded", "checking"}

\* Every requested deletion completes, store failures and crashes included.
DeletionCompletes ==
  \A a \in Assets :
    media[a].status = "deleting" ~> media[a].status \in {"deleted", "gone"}

\* Deletion tracks the objects until they are gone (PROJECT.md: "keep the
\* object cleanup tracked until it is complete"): a deleted asset ends with
\* nothing left in the store, also what a check that was running stored.
ErasedLeavesNothing ==
  \A a \in Assets :
    media[a].status \in {"deleted", "gone"} ~> [](raw[a] = {} /\ derived[a] = {})

\* A consumer never stays on one record: everything published is handled, also
\* a record delivered again after its work is done.
EveryRecordIsHandled ==
  \A e \in Events : offset[e] < Len(topic[e]) ~> offset[e] = Len(topic[e])

\* A deleted account is gone in the end, with everything it had.
AccountDeletionCompletes == account = "deleting" ~> account = "gone"
=============================================================================
