------------------------------ MODULE WardrobeView ------------------------------
(***************************************************************************)
(* The wardrobe page: one form for an item and its photo, the upload of    *)
(* the photo in steps of its own, the list of items, their deletion with   *)
(* its consequences shown first, and the sample items (components/wardrobe,*)
(* lib/wardrobe, hooks/wardrobe).  The page does one thing at a time; the  *)
(* photos are checked by a worker meanwhile, the same account works        *)
(* elsewhere, and a request may be carried out although its reply is lost, *)
(* or after the page has given it up.  The fields of an item other than    *)
(* its photo are one content; filters, previews and statistics, which no   *)
(* handler reads, are left out.                                            *)
(***************************************************************************)
EXTENDS Naturals, FiniteSets, Sequences, Functions

CONSTANTS Contents,     \* what the fields of the form may say
          Unnamed,      \* the content without a valid name
          SampleCount,  \* sample items, with ids known in advance (5 in the code)
          None,         \* nothing edited, chosen, asked or awaited
          MaxFiles,     \* bound on photos chosen and processed
          MaxMedia,     \* bound on media rows
          MaxItems,     \* bound on item ids generated
          MaxChanges,   \* bound on changes of the form's content
          MaxRequests,  \* bound on what the page sets out to do
          Disturbances  \* bound on changes made elsewhere, failures and lost replies

ASSUME ContentsAssumption == Unnamed \notin Contents /\ "sample" \notin Contents
ASSUME NoneAssumption == None \notin Nat \union ({"chosen", "processed"} \X Nat)
ASSUME BoundAssumption ==
  {SampleCount, MaxFiles, MaxMedia, MaxItems, MaxChanges, MaxRequests, Disturbances}
    \subseteq Nat

VARIABLES form,      \* content, photo files and media ids
          editing,   \* the item row being edited
          createID,  \* createID.current
          attempts,  \* files and the media each has been uploaded as
          deletion,  \* the deletion the dialog asks about
          list,      \* the item rows shown, None while they cannot be read
          op,        \* what the page is doing
          late,      \* requests given up that may still arrive
          tried,     \* item ids used for the draft in the form
          items,     \* server: item rows
          deleted,   \* server: tombstones of items
          media,     \* server: media rows
          impact,    \* server: a digest of the plans and events that hold the items
          files,     \* photos chosen or processed so far
          nextID,    \* the next id crypto.randomUUID will return
          bounds     \* changes, requests and disturbances left

draft  == <<form, editing, createID, tried>>
server == <<items, deleted, media, impact>>
vars   == <<draft, attempts, deletion, list, op, late, server, files, nextID, bounds>>

Samples == 1 .. SampleCount
pending == op # None

\* The page itself is out of reach behind the dialog.
Idle == ~pending /\ deletion = None

Spends(what) == bounds[what] > 0 /\ bounds' = [bounds EXCEPT ![what] = @ - 1]
Disturbed    == Spends("disturbances")

-----------------------------------------------------------------------------
(* lib/wardrobe/form.ts *)

\* A file is a photo as it was chosen, or one the editor has made of it.
File(kind) == <<kind, files + 1>>

\* A form remembers the row it was filled from, for the properties only.
emptyWardrobeForm ==
  [content |-> Unnamed, file |-> None, originalFile |-> None,
   photo |-> None, original |-> None, from |-> None]

wardrobeFormFromItem(row) ==
  [emptyWardrobeForm EXCEPT
     !.content = row.content, !.photo = row.photo,
     !.original = IF row.original = None THEN row.photo ELSE row.original, !.from = row]

wardrobeNameError(content) == content = Unnamed

Fields(f) == [content |-> f.content, photo |-> f.photo, original |-> f.original]

-----------------------------------------------------------------------------
(* The server, as far as the page relies on it *)

\* validateWardrobePhoto
PhotoAccepted(id) == id # None => id \in DOMAIN media /\ media[id].status = "ready"

PhotosAccepted(fields) == PhotoAccepted(fields.photo) /\ PhotoAccepted(fields.original)

\* CompleteMedia: once, and again only while the photo has not been checked.
CompleteAccepted(id) == media[id].status \in {"pending_upload", "uploaded"}

SameItem(row, fields) == Fields(row) = fields

\* A create under an id that is taken is the same create, or refused.
CreateAccepted(o) ==
  /\ PhotosAccepted(o.fields)
  /\ IF o.id \in DOMAIN items THEN SameItem(items[o.id], o.fields)
     ELSE o.id \notin deleted

ImpactAny(o) == TRUE   \* mutant: what was shown of the deletion may have changed

ImpactMatches(o) == impact = o.impact

Accepted(o) ==
  \/ o.kind = "complete" /\ CompleteAccepted(o.id)
  \/ o.kind \in {"create", "sample"} /\ CreateAccepted(o)
  \/ /\ o.kind \in {"update", "delete"}
     /\ o.id \in DOMAIN items /\ items[o.id].revision = o.base.revision
     /\ o.kind = "update" => PhotosAccepted(o.fields)
     /\ o.kind = "delete" => ImpactMatches(o)
  \/ o.kind \in {"reload", "impact"} /\ o.id \in DOMAIN items

\* An update that leaves a photo out keeps the one there is.
Kept(new, old) == IF new = None THEN old ELSE new

Updated(row, fields) ==
  [content |-> fields.content, photo |-> Kept(fields.photo, row.photo),
   original |-> Kept(fields.original, row.original), revision |-> row.revision + 1]

NewItem(fields) ==
  [content |-> fields.content, photo |-> fields.photo, original |-> fields.original,
   revision |-> 1]

CarryOut(o) ==
  /\ items' =
       CASE o.kind \in {"create", "sample"} /\ o.id \notin DOMAIN items ->
              [id \in DOMAIN items \union {o.id} |->
                 IF id = o.id THEN NewItem(o.fields) ELSE items[id]]
         [] o.kind = "update" -> [items EXCEPT ![o.id] = Updated(@, o.fields)]
         [] o.kind = "delete" -> Restrict(items, DOMAIN items \ {o.id})
         [] OTHER -> items
  /\ deleted' = IF o.kind = "delete" THEN deleted \union {o.id} ELSE deleted
  /\ media' = IF o.kind = "complete" /\ media[o.id].status = "pending_upload"
              THEN [media EXCEPT ![o.id].status = "uploaded"] ELSE media
  /\ UNCHANGED impact

\* The worker checks a photo that has been uploaded (MediaPipeline has the rest).
CheckMedia(id) ==
  /\ media[id].status = "uploaded"
  /\ \E status \in {"ready", "rejected"} : media' = [media EXCEPT ![id].status = status]
  /\ UNCHANGED <<draft, attempts, deletion, list, op, late, items, deleted, impact,
                 files, nextID, bounds>>

\* The same account elsewhere: an item is edited or deleted, or a plan made of it.
ChangeItemElsewhere(id) ==
  /\ \/ /\ items' = [items EXCEPT ![id].revision = @ + 1]
        /\ UNCHANGED <<deleted, impact>>
     \/ /\ items' = Restrict(items, DOMAIN items \ {id})
        /\ deleted' = deleted \union {id}
        /\ UNCHANGED impact
     \/ impact' = impact + 1 /\ UNCHANGED <<items, deleted>>

Elsewhere ==
  /\ Disturbed
  /\ \E id \in DOMAIN items : ChangeItemElsewhere(id)
  /\ UNCHANGED <<draft, attempts, deletion, list, op, late, media, files, nextID>>

-----------------------------------------------------------------------------
(* The form *)

\* The owner has an item with a photo and its original, or without.
Init ==
  /\ media = <<[file |-> <<"chosen", 0>>, status |-> "ready"]>>
  /\ \E photo \in {1, None} :
       items = [id \in {SampleCount + 1} |->
         [content |-> CHOOSE c \in Contents : TRUE, photo |-> photo, original |-> photo,
          revision |-> 1]]
  /\ form = emptyWardrobeForm
  /\ editing = None /\ createID = None /\ tried = {} /\ attempts = <<>>
  /\ deletion = None /\ op = None /\ late = {} /\ deleted = {} /\ impact = 0
  /\ list = items /\ files = 0 /\ nextID = SampleCount + 2
  /\ bounds = [changes |-> MaxChanges, requests |-> MaxRequests,
               disturbances |-> Disturbances]

\* The fields are disabled while the page is busy.
ChangeContent ==
  /\ Idle /\ Spends("changes")
  /\ \E content \in Contents \ {form.content} : form' = [form EXCEPT !.content = content]
  /\ UNCHANGED <<editing, createID, tried, attempts, deletion, list, op, late, server,
                 files, nextID>>

ChoosePhotoKeepingOriginal ==   \* mutant: the uploaded original is not dropped
  /\ Idle /\ files < MaxFiles
  /\ files' = files + 1
  /\ form' = [form EXCEPT !.file = File("chosen"), !.originalFile = File("chosen"),
                          !.photo = None]
  /\ UNCHANGED <<editing, createID, tried, attempts, deletion, list, op, late, server,
                 nextID, bounds>>

\* A new photo is its own original, and the ones before it are out.
ChoosePhoto ==
  /\ Idle /\ files < MaxFiles
  /\ files' = files + 1
  /\ form' = [form EXCEPT !.file = File("chosen"), !.originalFile = File("chosen"),
                          !.photo = None, !.original = None]
  /\ UNCHANGED <<editing, createID, tried, attempts, deletion, list, op, late, server,
                 nextID, bounds>>

HasSource == form.file # None \/ form.photo # None

\* process: the source is read, made into a new photo or restored, and both are
\* put into the form. A failure leaves the form as it is.
Process(mode) ==
  /\ Idle /\ HasSource
  /\ mode # "restore" => files < MaxFiles
  /\ op' = [kind |-> "process", mode |-> mode]
  /\ UNCHANGED <<draft, attempts, deletion, list, late, server, files, nextID, bounds>>

OriginalSourceShown ==   \* mutant: what is cut next is what is shown
  IF form.file # None THEN form.file
  ELSE media[Kept(form.original, form.photo)].file

\* The original as the form has it, or as the server keeps it.
OriginalSource ==
  IF form.originalFile # None THEN form.originalFile
  ELSE media[Kept(form.original, form.photo)].file

ProcessDone ==
  /\ pending /\ op.kind = "process"
  /\ form' = [form EXCEPT
       !.originalFile = OriginalSource,
       !.file = IF op.mode = "restore" THEN OriginalSource ELSE File("processed")]
  /\ files' = IF op.mode = "restore" THEN files ELSE files + 1
  /\ op' = None
  /\ UNCHANGED <<editing, createID, tried, attempts, deletion, list, late, server,
                 nextID, bounds>>

ProcessFails ==
  /\ pending /\ op.kind = "process"
  /\ Disturbed
  /\ op' = None
  /\ UNCHANGED <<draft, attempts, deletion, list, late, server, files, nextID>>

-----------------------------------------------------------------------------
(* The list *)

Listed == IF list = None THEN {} ELSE DOMAIN list

\* The row shown, with its id: what a handler captures.
Row(id) == [id |-> id, row |-> list[id]]

SelectEdit(id) ==
  /\ Idle
  /\ editing' = Row(id)
  /\ form' = wardrobeFormFromItem(list[id])
  /\ UNCHANGED <<createID, tried, attempts, deletion, list, op, late, server, files,
                 nextID, bounds>>

CloseEditor ==
  /\ editing' = None
  /\ form' = emptyWardrobeForm
  /\ createID' = None /\ tried' = {}

CancelEdit ==
  /\ Idle /\ editing # None
  /\ CloseEditor
  /\ UNCHANGED <<attempts, deletion, list, op, late, server, files, nextID, bounds>>

\* The dialog keeps the row and the consequences it was opened with.
ChoosePolicy ==
  /\ deletion # None /\ ~pending
  /\ deletion.impact > 0
  /\ \E policy \in {"redact_snapshots", "delete_affected_history"} \ {deletion.policy} :
       deletion' = [deletion EXCEPT !.policy = policy]
  /\ UNCHANGED <<draft, attempts, list, op, late, server, files, nextID, bounds>>

KeepItem ==
  /\ deletion # None /\ ~pending
  /\ deletion' = None
  /\ UNCHANGED <<draft, attempts, list, op, late, server, files, nextID, bounds>>

-----------------------------------------------------------------------------
(* Requests *)

Request(kind, id, base, fields) ==
  [kind |-> kind, id |-> id, base |-> base, fields |-> fields, impact |-> None,
   fate |-> "sent", reply |-> None, goal |-> None, original |-> None]

Ask(request) == Spends("requests") /\ op' = request

UploadAnew(file, goal, original) ==   \* mutant: earlier uploads are not remembered
  [Request("put", file, None, None) EXCEPT !.goal = goal, !.original = original]

\* Uploading a photo, as the original of the item or as what is shown of it;
\* a photo uploaded before is only completed again.
Upload(file, goal, original) ==
  [Request(IF file \in DOMAIN attempts THEN "complete" ELSE "put",
           IF file \in DOMAIN attempts THEN attempts[file] ELSE file, None, None)
     EXCEPT !.goal = goal, !.original = original]

DraftIDFresh == nextID   \* mutant: every save makes an id of its own

\* createID.current ??= crypto.randomUUID()
DraftID == IF createID = None THEN nextID ELSE createID

\* The last step of save, under the ids of the photos: update with the revision
\* being edited, or create under the kept id.
Write(photo, original) ==
  LET fields == [content |-> form.content, photo |-> photo, original |-> original]
      id     == DraftID
  IN  IF editing # None
      THEN /\ op' = Request("update", editing.id, editing.row, fields)
           /\ UNCHANGED <<createID, tried, nextID>>
      ELSE /\ id <= SampleCount + MaxItems
           /\ op' = Request("create", id, None, fields)
           /\ createID' = id /\ tried' = tried \union {id}
           /\ nextID' = IF id = nextID THEN nextID + 1 ELSE nextID

\* save, up to its first await: the original goes first, unless it is there.
\* The photo shown is the original itself, or another upload.
Save ==
  /\ Idle /\ Spends("requests")
  /\ ~wardrobeNameError(form.content)
  /\ \/ /\ form.file = None
        /\ Write(form.photo, form.original)
        /\ UNCHANGED form
     \/ /\ form.file # None /\ form.original = None
        /\ op' = Upload(form.originalFile, "original", None)
        /\ UNCHANGED <<form, createID, tried, nextID>>
     \/ /\ form.file # None /\ form.original # None /\ form.file = form.originalFile
        /\ form' = [form EXCEPT !.photo = form.original]
        /\ Write(form.original, form.original)
     \/ /\ form.file # None /\ form.original # None /\ form.file # form.originalFile
        /\ op' = Upload(form.file, "shown", form.original)
        /\ UNCHANGED <<form, createID, tried, nextID>>
  /\ UNCHANGED <<editing, attempts, deletion, list, late, server, files>>

\* A media row for the photo, before anything is stored under it.
NewMedia(file) == Append(media, [file |-> file, status |-> "pending_upload"])

\* The photo is put into the store, and its row remembered for the next save.
PutDone ==
  /\ pending /\ op.kind = "put"
  /\ Len(media) < MaxMedia
  /\ media' = NewMedia(op.id)
  /\ attempts' = [f \in DOMAIN attempts \union {op.id} |->
                    IF f = op.id THEN Len(media') ELSE attempts[f]]
  /\ op' = [op EXCEPT !.kind = "complete", !.id = Len(media')]
  /\ UNCHANGED <<draft, deletion, list, late, items, deleted, impact, files, nextID, bounds>>

\* Not decodable, too large, or the store cannot be reached or does not answer:
\* a row may be left behind, and the next save begins another.
PutFails ==
  /\ pending /\ op.kind = "put"
  /\ Disturbed
  /\ op' = None
  /\ \/ UNCHANGED media
     \/ Len(media) < MaxMedia /\ media' = NewMedia(op.id)
  /\ UNCHANGED <<draft, attempts, deletion, list, late, items, deleted, impact, files, nextID>>

\* The poll finds the photo checked: the next upload, or the item itself.
PollReady ==
  /\ pending /\ op.kind = "poll" /\ media[op.id].status = "ready"
  /\ IF op.goal = "original" /\ form.file # form.originalFile
     THEN /\ op' = Upload(form.file, "shown", op.id)
          /\ UNCHANGED <<form, createID, tried, nextID>>
     ELSE LET original == IF op.goal = "original" THEN op.id ELSE op.original
          IN  /\ form' = [form EXCEPT !.photo = op.id, !.original = original]
              /\ Write(op.id, original)
  /\ UNCHANGED <<editing, attempts, deletion, list, late, server, files, bounds>>

\* Rejected, or not checked by the deadline: the save fails, the form stays.
PollFails ==
  /\ pending /\ op.kind = "poll" /\ media[op.id].status # "ready"
  /\ op' = None
  /\ UNCHANGED <<draft, attempts, deletion, list, late, server, files, nextID, bounds>>

ReloadEditing ==
  /\ Idle /\ editing # None
  /\ Ask(Request("reload", editing.id, editing.row, None))
  /\ UNCHANGED <<draft, attempts, deletion, list, late, server, files, nextID>>

InspectDelete(id) ==
  /\ Idle
  /\ Ask(Request("impact", id, list[id], None))
  /\ UNCHANGED <<draft, attempts, deletion, list, late, server, files, nextID>>

\* remove acts on the row and the consequences the dialog shows.
Remove ==
  /\ deletion # None /\ ~pending
  /\ Ask([Request("delete", deletion.id, deletion.row, None) EXCEPT !.impact = deletion.impact])
  /\ UNCHANGED <<draft, attempts, deletion, list, late, server, files, nextID>>

\* addSamples: one after the other, those that are not in the list.
Missing(after) == {id \in Samples : id > after /\ id \notin DOMAIN list}

SampleRequest(id) ==
  Request("sample", id, None, [content |-> "sample", photo |-> None, original |-> None])

FirstOf(ids) == CHOOSE id \in ids : \A other \in ids : id <= other

AddSamples ==
  /\ Idle /\ list # None /\ Missing(0) # {}
  /\ Ask(SampleRequest(FirstOf(Missing(0))))
  /\ UNCHANGED <<draft, attempts, deletion, list, late, server, files, nextID>>

\* The server handles the request awaited.
Requests == {"complete", "create", "update", "reload", "impact", "delete", "sample"}

Handle ==
  /\ pending /\ op.kind \in Requests /\ op.fate = "sent"
  /\ IF Accepted(op)
     THEN /\ CarryOut(op)
          /\ op' = [op EXCEPT !.fate = "done", !.impact = IF op.kind = "impact" THEN impact ELSE @,
               !.reply = IF op.kind # "complete" /\ op.id \in DOMAIN items' THEN items'[op.id]
                         ELSE None]
     ELSE /\ op' = [op EXCEPT !.fate = "refused"]
          /\ UNCHANGED server
  /\ UNCHANGED <<draft, attempts, deletion, list, late, files, nextID, bounds>>

\* invalidateQueries or refetch: the list is read again, or cannot be.
Refreshed == list' \in {items, None}

\* What is gone from the list is no longer edited.
Closes(o) == o.kind = "delete" /\ editing # None /\ editing.id = o.id

\* The reply arrives and the handler runs on.
ReplyShown ==
  /\ pending /\ op.kind \in Requests /\ op.fate = "done"
  /\ op' = CASE op.kind = "complete" -> [op EXCEPT !.kind = "poll"]
             [] op.kind = "sample" /\ list # None /\ Missing(op.id) # {} ->
                  SampleRequest(FirstOf(Missing(op.id)))
             [] OTHER -> None
  /\ \/ /\ op.kind \in {"update", "reload"}
        /\ editing' = [id |-> op.id, row |-> op.reply]
        /\ form' = wardrobeFormFromItem(op.reply)
        /\ UNCHANGED <<createID, tried>>
     \/ /\ op.kind = "create"
        /\ createID' = None /\ tried' = {}
        /\ form' = emptyWardrobeForm
        /\ UNCHANGED editing
     \/ Closes(op) /\ CloseEditor
     \/ op.kind \notin {"update", "reload", "create"} /\ ~Closes(op) /\ UNCHANGED draft
  /\ deletion' = CASE op.kind = "impact" ->
                        [id |-> op.id, row |-> op.base, impact |-> op.impact,
                         policy |-> "redact_snapshots"]
                   [] op.kind = "delete" -> None
                   [] OTHER -> deletion
  /\ IF op.kind \in {"complete", "impact"} THEN UNCHANGED list ELSE Refreshed
  /\ UNCHANGED <<attempts, late, server, files, nextID, bounds>>

\* The request failed as far as the page knows: refused, done with the reply
\* lost, or still on its way. The form stays; a failed deletion reads the list.
ReplyFails ==
  /\ pending /\ op.kind \in Requests
  /\ IF op.fate = "refused" THEN UNCHANGED bounds ELSE Disturbed
  /\ op' = None
  /\ late' = IF op.fate = "sent" /\ op.kind \notin {"reload", "impact"}
             THEN late \union {op} ELSE late
  /\ deletion' = IF op.kind = "delete" THEN None ELSE deletion
  /\ IF op.kind = "delete" THEN Refreshed ELSE UNCHANGED list
  /\ UNCHANGED <<draft, attempts, server, files, nextID>>

Arrive(o) ==
  /\ o \in late
  /\ late' = late \ {o}
  /\ IF Accepted(o) THEN CarryOut(o) ELSE UNCHANGED server
  /\ UNCHANGED <<draft, attempts, deletion, list, op, files, nextID, bounds>>

RetryList ==
  /\ list = None
  /\ list' = items
  /\ UNCHANGED <<draft, attempts, deletion, op, late, server, files, nextID, bounds>>

-----------------------------------------------------------------------------
Next ==
  \/ ChangeContent \/ ChoosePhoto
  \/ \E mode \in {"make", "restore"} : Process(mode)
  \/ ProcessDone \/ ProcessFails
  \/ \E id \in Listed : SelectEdit(id) \/ InspectDelete(id)
  \/ CancelEdit \/ ChoosePolicy \/ KeepItem
  \/ Save \/ PutDone \/ PutFails \/ PollReady \/ PollFails
  \/ ReloadEditing \/ Remove \/ AddSamples
  \/ Handle \/ ReplyShown \/ ReplyFails \/ RetryList
  \/ \E o \in late : Arrive(o)
  \/ \E id \in DOMAIN media : CheckMedia(id)
  \/ Elsewhere

Spec == Init /\ [][Next]_vars

-----------------------------------------------------------------------------
(* Correctness *)

IsMedia(id) == id = None \/ id \in DOMAIN media

IsItem(row) ==
  /\ row.content \in Contents \union {"sample"}
  /\ IsMedia(row.photo) /\ IsMedia(row.original)
  /\ row.revision \in Nat \ {0}

\* Types of the state.
TypeOK ==
  /\ form.content \in Contents \union {Unnamed, "sample"}
  /\ IsMedia(form.photo) /\ IsMedia(form.original)
  /\ editing # None => IsItem(editing.row)
  /\ createID # None => createID \in SampleCount + 1 .. nextID - 1
  /\ \A f \in DOMAIN attempts : attempts[f] \in DOMAIN media
  /\ deletion # None => deletion.impact \in Nat
  /\ list # None => \A id \in DOMAIN list : IsItem(list[id])
  /\ \A id \in DOMAIN items : id < nextID /\ IsItem(items[id])
  /\ \A id \in DOMAIN media :
       media[id].status \in {"pending_upload", "uploaded", "ready", "rejected"}
  /\ files \in 0 .. MaxFiles /\ impact \in Nat

\* What is saved as the photo of an item, and as its original, are the very
\* photos in the form, after whatever failures, crops, restores and retries
\* (the order of the uploads in save and the patches of the photo editor).
SavedPhotoIsTheChosenOne ==
  pending /\ op.kind \in {"create", "update"} /\ form.file # None
    => /\ media[op.fields.photo].file = form.file
       /\ media[op.fields.original].file = form.originalFile

\* The original an item keeps has never been cut: "cropping does not touch the
\* original" (wardrobe-photo-editor.tsx), also of a photo edited many times.
OriginalIsUntouched ==
  \A id \in DOMAIN items :
    items[id].original # None => media[items[id].original].file[1] = "chosen"

\* However often a save is repeated, and wherever it stopped before, a photo is
\* completed under one media id only (the attempts of useWardrobePhotoUpload).
UploadedOnce ==
  \A a, b \in DOMAIN media :
    media[a].file = media[b].file /\ "pending_upload" \notin {media[a].status, media[b].status}
      => a = b

\* One draft is one item, however often it is saved again after a lost reply
\* and whenever the first attempt arrives (createID in save and cancelEdit).
OneItemPerDraft == Cardinality(tried \intersect (DOMAIN items \union deleted)) <= 1

\* A change of an item is one made elsewhere, or one the page asked for on the
\* sight of the row it replaces, and, if it is a deletion, of what goes with it.
EveryChangeIsSeen ==
  \A id \in DOMAIN items :
    \/ bounds'.disturbances # bounds.disturbances /\ op' = op
    \/ id \in DOMAIN items' /\ items'[id] = items[id]
    \/ \E o \in late \union {op} :
         /\ o # None /\ o.kind \in Requests /\ o.id = id /\ o.base = items[id]
         /\ o.kind = "delete" => o.impact = impact

\* Whatever the page changes or deletes, it changes from the row the owner had
\* before their eyes, and an item goes only with the consequences the owner was
\* shown (expected_revision in save and remove, and the digest of the impact).
NothingIsOverwrittenUnseen == [][EveryChangeIsSeen]_vars

\* "The photo is still being processed, save again later; the uploaded photo
\* will be used again" (use-wardrobe-photo.ts): saving again is not refused for
\* a photo that has been found in order meanwhile.
RetryUsesTheUpload ==
  pending /\ op.kind = "complete" /\ op.fate = "refused" => media[op.id].status # "ready"
=============================================================================
