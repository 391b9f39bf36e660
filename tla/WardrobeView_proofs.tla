-------------------------- MODULE WardrobeView_proofs --------------------------
(***************************************************************************)
(* Theorems about WardrobeView, for any number of photos, uploads, items,  *)
(* requests, failures, lost replies and changes made elsewhere.            *)
(***************************************************************************)
EXTENDS WardrobeView, FiniteSetTheorems, SequenceTheorems, TLAPS

-----------------------------------------------------------------------------
(* Photos and the media they are uploaded as.                               *)

Files    == {"chosen", "processed"} \X Nat
Statuses == {"pending_upload", "uploaded", "ready", "rejected"}
MediaRow == [file : Files, status : Statuses]

MediaInv == media \in Seq(MediaRow)

\* A media row keeps its photo.
Grows ==
  \A id \in DOMAIN media : id \in DOMAIN media' /\ media'[id].file = media[id].file

LEMMA MediaAppended ==
  ASSUME MediaInv, NEW file \in Files, media' = NewMedia(file)
  PROVE  /\ MediaInv' /\ Grows
         /\ Len(media') \in DOMAIN media' /\ media'[Len(media')].file = file
<1> DEFINE row == [file |-> file, status |-> "pending_upload"]
<1>1. row \in MediaRow /\ row.file = file
  BY DEF MediaRow, Statuses
<1>2. media' = Append(media, row) /\ media \in Seq(MediaRow)
  BY DEF NewMedia, MediaInv
<1> HIDE DEF row
<1>3. /\ Append(media, row) \in Seq(MediaRow)
      /\ Len(Append(media, row)) = Len(media) + 1
      /\ Append(media, row)[Len(media) + 1] = row
      /\ \A i \in 1 .. Len(media) : Append(media, row)[i] = media[i]
  BY <1>1, <1>2, AppendProperties
<1>4. Len(media) \in Nat /\ DOMAIN media = 1 .. Len(media) /\ DOMAIN media' = 1 .. Len(media) + 1
  BY <1>2, <1>3, LenProperties
<1> QED BY <1>1, <1>2, <1>3, <1>4 DEF MediaInv, Grows

LEMMA MediaChecked ==
  ASSUME MediaInv, NEW id \in DOMAIN media, NEW status \in Statuses,
         media' = [media EXCEPT ![id].status = status]
  PROVE  MediaInv' /\ Grows
<1> DEFINE row == [media[id] EXCEPT !.status = status]
<1>1. media[id] \in MediaRow
  BY ElementOfSeq, LenProperties DEF MediaInv
<1>2. row \in MediaRow /\ row.file = media[id].file
  BY <1>1 DEF MediaRow
<1>3. media' = [media EXCEPT ![id] = row]
  OBVIOUS
<1> HIDE DEF row
<1>4. media' \in Seq(MediaRow)
  BY <1>2, <1>3, ExceptSeq, LenProperties DEF MediaInv
<1>5. Grows
  BY <1>2, <1>3 DEF Grows
<1> QED BY <1>4, <1>5 DEF MediaInv

LEMMA MediaUnchanged ==
  ASSUME MediaInv, media' = media
  PROVE  MediaInv' /\ Grows
BY DEF MediaInv, Grows

LEMMA MediaIDs ==
  ASSUME MediaInv
  PROVE  \A id \in DOMAIN media : id # None /\ media[id].file \in Files
<1>1. DOMAIN media = 1 .. Len(media) /\ Len(media) \in Nat
  BY LenProperties DEF MediaInv
<1>2. \A id \in DOMAIN media : media[id] \in MediaRow
  BY <1>1, ElementOfSeq DEF MediaInv
<1> QED BY <1>1, <1>2, NoneAssumption DEF MediaRow

-----------------------------------------------------------------------------
(* Originals: wherever a photo is named as the original of an item, it is a *)
(* photo as it was chosen.                                                  *)

Uncut(rows, id) == id # None => id \in DOMAIN rows /\ rows[id].file[1] = "chosen"

\* A row, a form or the fields of a request: who has a photo has its original.
UncutRow(rows, row) ==
  /\ Uncut(rows, row.original)
  /\ row.photo # None => row.original # None

RowFields == {"content", "photo", "original"}

ItemsUncut == \A id \in DOMAIN items : RowFields \subseteq DOMAIN items[id] /\ UncutRow(media, items[id])
ListUncut  == \A id \in Listed : UncutRow(media, list[id])

FormUncut ==
  /\ RowFields \union {"file", "originalFile"} \subseteq DOMAIN form
  /\ {form.file, form.originalFile} \subseteq Files \union {None}
  /\ form.file # None => form.originalFile # None
  /\ form.originalFile # None => form.originalFile[1] = "chosen"
  /\ UncutRow(media, form)

AttemptsInv ==
  \A f \in DOMAIN attempts :
    f \in Files /\ attempts[f] \in DOMAIN media /\ media[attempts[f]].file = f

Shape == {"kind", "id", "base", "fields", "impact", "fate", "reply", "goal", "original"}

RequestUncut(rows, o) ==
  /\ Shape \subseteq DOMAIN o
  /\ o.kind \in {"create", "update", "sample"} => UncutRow(rows, o.fields)
  /\ o.kind = "complete" => o.id \in DOMAIN rows

LateUncut == \A o \in late : RequestUncut(media, o)

Uploading == {"put", "complete", "poll"}

\* What an upload is for, and what it has reached.
UploadUncut(rows, o) ==
  /\ o.kind = "put" => o.id \in Files /\ (o.goal = "original" => o.id[1] = "chosen")
  /\ o.kind # "put" => o.id \in DOMAIN rows /\ (o.goal = "original" => rows[o.id].file[1] = "chosen")
  /\ o.goal # "original" => o.original # None /\ Uncut(rows, o.original)

OpUncut ==
  op # None =>
    /\ op.kind = "process" => HasSource
    /\ op.kind # "process" => RequestUncut(media, op)
    /\ op.kind \in Uploading => form.file # None /\ UploadUncut(media, op)
    /\ op.kind \in {"update", "reload"} /\ op.fate = "done" => UncutRow(media, op.reply)

UncutInv ==
  /\ MediaInv /\ files \in Nat
  /\ ItemsUncut /\ ListUncut /\ FormUncut /\ AttemptsInv /\ LateUncut /\ OpUncut

\* What a step leaves alone stays in order while media rows keep their photos.
LEMMA UncutStays ==
  ASSUME Grows
  PROVE  /\ \A row : UncutRow(media, row) => UncutRow(media', row)
         /\ \A o : RequestUncut(media, o) => RequestUncut(media', o)
         /\ \A o : UploadUncut(media, o) => UploadUncut(media', o)
<1>1. \A id : Uncut(media, id) => Uncut(media', id)
  BY DEF Grows, Uncut
<1>2. \A row : UncutRow(media, row) => UncutRow(media', row)
  BY <1>1 DEF UncutRow
<1>3. \A o : RequestUncut(media, o) => RequestUncut(media', o)
  BY <1>2 DEF RequestUncut, Grows
<1>4. \A o : UploadUncut(media, o) => UploadUncut(media', o)
  BY <1>1 DEF UploadUncut, Grows
<1> QED BY <1>2, <1>3, <1>4

LEMMA ItemsStay ==
  ASSUME Grows, ItemsUncut, items' = items
  PROVE  ItemsUncut'
BY UncutStays DEF ItemsUncut

LEMMA ListStays ==
  ASSUME Grows, ItemsUncut', ListUncut, list' = list \/ list' \in {items', None}
  PROVE  ListUncut'
BY UncutStays DEF ItemsUncut, ListUncut, Listed

LEMMA FormStays ==
  ASSUME Grows, FormUncut, form' = form
  PROVE  FormUncut'
BY UncutStays DEF FormUncut

LEMMA AttemptsStay ==
  ASSUME Grows, AttemptsInv, attempts' = attempts
  PROVE  AttemptsInv'
BY DEF Grows, AttemptsInv

LEMMA LateStays ==
  ASSUME Grows, LateUncut, late' \subseteq late
  PROVE  LateUncut'
BY UncutStays DEF LateUncut

LEMMA OpStays ==
  ASSUME Grows, OpUncut, op' = op, form' = form
  PROVE  OpUncut'
BY UncutStays DEF OpUncut, HasSource

LEMMA OpEnds ==
  ASSUME op' = None
  PROVE  OpUncut'
BY DEF OpUncut

-----------------------------------------------------------------------------
(* What the page sets out to do.                                            *)

LEMMA UploadSent ==
  ASSUME MediaInv, AttemptsInv, Grows, NEW file \in Files, NEW goal, NEW original,
         op' = Upload(file, goal, original), form'.file # None,
         goal = "original" => file[1] = "chosen",
         goal # "original" => original # None /\ Uncut(media, original)
  PROVE  OpUncut'
<1> DEFINE known == file \in DOMAIN attempts
           id    == IF known THEN attempts[file] ELSE file
<1>1. op' = [Request(IF known THEN "complete" ELSE "put", id, None, None)
               EXCEPT !.goal = goal, !.original = original]
  BY DEF Upload
<1>2. known => id \in DOMAIN media /\ media[id].file = file
  BY DEF AttemptsInv
<1>3. known => id \in DOMAIN media' /\ media'[id].file = file
  BY <1>2 DEF Grows
<1>4. ~known => id = file
  OBVIOUS
<1>5. goal # "original" => Uncut(media', original)
  BY DEF Grows, Uncut
<1> HIDE DEF known, id
<1>6. /\ Shape \subseteq DOMAIN op'
      /\ op'.kind = IF known THEN "complete" ELSE "put"
      /\ op'.id = id /\ op'.goal = goal /\ op'.original = original
  BY <1>1 DEF Request, Shape
<1>7. RequestUncut(media', op')
  BY <1>3, <1>6 DEF RequestUncut
<1>8. UploadUncut(media', op')
  BY <1>3, <1>4, <1>5, <1>6 DEF UploadUncut
<1> QED BY <1>6, <1>7, <1>8 DEF OpUncut, Uploading

LEMMA RequestSent ==
  ASSUME NEW kind, NEW id, NEW base, NEW fields, op' = Request(kind, id, base, fields),
         kind \notin Uploading \union {"process"},
         kind \in {"create", "update", "sample"} => UncutRow(media', fields)
  PROVE  OpUncut'
<1>1. Shape \subseteq DOMAIN op' /\ op'.kind = kind /\ op'.fields = fields /\ op'.fate = "sent"
  BY DEF Request, Shape
<1>2. RequestUncut(media', op')
  BY <1>1 DEF RequestUncut, Uploading
<1> QED BY <1>1, <1>2 DEF OpUncut, Uploading

LEMMA WriteSent ==
  ASSUME NEW photo, NEW original, Write(photo, original),
         Uncut(media', original), photo # None => original # None
  PROVE  OpUncut'
<1> DEFINE fields == [content |-> form.content, photo |-> photo, original |-> original]
<1>1. fields.photo = photo /\ fields.original = original
  OBVIOUS
<1>2. \/ op' = Request("update", editing.id, editing.row, fields)
      \/ op' = Request("create", DraftID, None, fields)
  BY DEF Write
<1> HIDE DEF fields
<1>3. UncutRow(media', fields)
  BY <1>1 DEF UncutRow
<1> QED BY <1>2, <1>3, RequestSent DEF Uploading

-----------------------------------------------------------------------------
(* The steps of the page.                                                   *)

LEMMA SaveUncut ==
  ASSUME UncutInv, Save
  PROVE  UncutInv'
<1>0. /\ media' = media /\ items' = items /\ list' = list /\ attempts' = attempts
      /\ late' = late /\ files' = files
  BY DEF Save, server
<1>1. MediaInv' /\ Grows
  BY <1>0, MediaUnchanged DEF UncutInv
<1>2. ItemsUncut' /\ ListUncut' /\ AttemptsInv' /\ LateUncut'
  BY <1>0, <1>1, ItemsStay, ListStays, AttemptsStay, LateStays DEF UncutInv
<1>3. FormUncut /\ MediaInv /\ AttemptsInv
  BY DEF UncutInv
<1>4. FormUncut' /\ OpUncut'
  <2>1. CASE form.file = None /\ Write(form.photo, form.original) /\ form' = form
    <3>1. Uncut(media', form.original) /\ (form.photo # None => form.original # None)
      BY <1>0, <1>3 DEF FormUncut, UncutRow
    <3> QED BY <1>1, <1>3, <2>1, <3>1, FormStays, WriteSent
  <2>2. CASE /\ form.file # None /\ form.original = None
             /\ op' = Upload(form.originalFile, "original", None) /\ form' = form
    <3>1. form.originalFile \in Files /\ form.originalFile[1] = "chosen" /\ form'.file # None
      BY <1>3, <2>2 DEF FormUncut
    <3> QED BY <1>1, <1>3, <2>2, <3>1, FormStays, UploadSent
  <2>3. CASE /\ form.file # None /\ form.original # None
             /\ form' = [form EXCEPT !.photo = form.original]
             /\ Write(form.original, form.original)
    <3>1. Uncut(media', form.original)
      BY <1>0, <1>3 DEF FormUncut, UncutRow
    <3>2. OpUncut'
      BY <2>3, <3>1, WriteSent
    <3>3. /\ DOMAIN form' = DOMAIN form /\ form'.file = form.file
          /\ form'.originalFile = form.originalFile /\ form'.original = form.original
      BY <1>3, <2>3 DEF FormUncut
    <3>4. FormUncut'
      BY <1>0, <1>3, <2>3, <3>1, <3>3 DEF FormUncut, UncutRow
    <3> QED BY <3>2, <3>4
  <2>4. CASE /\ form.file # None /\ form.original # None
             /\ op' = Upload(form.file, "shown", form.original) /\ form' = form
    <3>1. form.file \in Files /\ form'.file # None /\ Uncut(media, form.original)
      BY <1>3, <2>4 DEF FormUncut, UncutRow
    <3> QED BY <1>1, <1>3, <2>4, <3>1, FormStays, UploadSent
  <2> QED BY <2>1, <2>2, <2>3, <2>4 DEF Save
<1> QED BY <1>0, <1>1, <1>2, <1>4 DEF UncutInv

LEMMA PutDoneUncut ==
  ASSUME UncutInv, PutDone
  PROVE  UncutInv'
<1>0. items' = items /\ list' = list /\ form' = form /\ late' = late /\ files' = files
  BY DEF PutDone, draft
<1>1. /\ op # None /\ op.kind = "put" /\ form.file # None
      /\ UploadUncut(media, op) /\ RequestUncut(media, op)
  BY DEF PutDone, pending, UncutInv, OpUncut, Uploading
<1>2. op.id \in Files
  BY <1>1 DEF UploadUncut
<1>3. /\ MediaInv' /\ Grows
      /\ Len(media') \in DOMAIN media' /\ media'[Len(media')].file = op.id
  BY <1>2, MediaAppended DEF PutDone, UncutInv
<1>4. ItemsUncut' /\ ListUncut' /\ FormUncut' /\ LateUncut'
  BY <1>0, <1>3, ItemsStay, ListStays, FormStays, LateStays DEF UncutInv
<1>5. AttemptsInv'
  <2>1. attempts' = [f \in DOMAIN attempts \union {op.id} |->
                       IF f = op.id THEN Len(media') ELSE attempts[f]]
    BY DEF PutDone
  <2> QED BY <1>2, <1>3, <2>1 DEF AttemptsInv, UncutInv, Grows
<1>6. OpUncut'
  <2> DEFINE id == Len(media')
  <2>1. op' = [op EXCEPT !.kind = "complete", !.id = id]
    BY DEF PutDone
  <2>2. id \in DOMAIN media' /\ media'[id].file = op.id
    BY <1>3
  <2> HIDE DEF id
  <2>3. /\ DOMAIN op' = DOMAIN op /\ op'.kind = "complete" /\ op'.id = id
        /\ op'.goal = op.goal /\ op'.original = op.original
    BY <1>1, <2>1 DEF RequestUncut, Shape
  <2>4. RequestUncut(media', op')
    BY <1>1, <2>2, <2>3 DEF RequestUncut
  <2>5. op.goal # "original" => op.original # None /\ Uncut(media', op.original)
    BY <1>1, <1>3 DEF UploadUncut, Uncut, Grows
  <2>6. UploadUncut(media', op')
    BY <1>1, <2>2, <2>3, <2>5 DEF UploadUncut
  <2> QED BY <1>0, <1>1, <2>3, <2>4, <2>6 DEF OpUncut
<1> QED BY <1>0, <1>3, <1>4, <1>5, <1>6 DEF UncutInv

LEMMA PollReadyUncut ==
  ASSUME UncutInv, PollReady
  PROVE  UncutInv'
<1>0. /\ media' = media /\ items' = items /\ list' = list /\ attempts' = attempts
      /\ late' = late /\ files' = files
  BY DEF PollReady, server
<1>1. MediaInv' /\ Grows
  BY <1>0, MediaUnchanged DEF UncutInv
<1>2. ItemsUncut' /\ ListUncut' /\ AttemptsInv' /\ LateUncut'
  BY <1>0, <1>1, ItemsStay, ListStays, AttemptsStay, LateStays DEF UncutInv
<1>3. /\ op # None /\ op.kind = "poll" /\ form.file # None /\ UploadUncut(media, op)
      /\ FormUncut /\ MediaInv /\ AttemptsInv
  BY DEF PollReady, pending, UncutInv, OpUncut, Uploading
<1>4. op.id \in DOMAIN media /\ op.id # None /\ (op.goal = "original" => Uncut(media, op.id))
  BY <1>3, MediaIDs DEF UploadUncut, Uncut
<1>5. CASE op.goal = "original" /\ form.file # form.originalFile
  <2>1. op' = Upload(form.file, "shown", op.id) /\ form' = form
    BY <1>5 DEF PollReady
  <2>2. form.file \in Files /\ form'.file # None
    BY <1>3, <2>1 DEF FormUncut
  <2>3. OpUncut'
    BY <1>1, <1>3, <1>4, <1>5, <2>1, <2>2, UploadSent
  <2>4. FormUncut'
    BY <1>1, <1>3, <2>1, FormStays
  <2> QED BY <1>0, <1>1, <1>2, <2>3, <2>4 DEF UncutInv
<1>6. CASE ~(op.goal = "original" /\ form.file # form.originalFile)
  <2> DEFINE original == IF op.goal = "original" THEN op.id ELSE op.original
  <2>1. form' = [form EXCEPT !.photo = op.id, !.original = original] /\ Write(op.id, original)
    BY <1>6 DEF PollReady
  <2>2. original # None /\ Uncut(media', original)
    BY <1>0, <1>3, <1>4 DEF UploadUncut
  <2> HIDE DEF original
  <2>3. OpUncut'
    BY <2>1, <2>2, WriteSent
  <2>4. /\ DOMAIN form' = DOMAIN form /\ form'.file = form.file
        /\ form'.originalFile = form.originalFile /\ form'.original = original
    BY <1>3, <2>1 DEF FormUncut
  <2>5. FormUncut'
    BY <1>0, <1>3, <2>2, <2>4 DEF FormUncut, UncutRow
  <2> QED BY <1>0, <1>1, <1>2, <2>3, <2>5 DEF UncutInv
<1> QED BY <1>5, <1>6

\* Cutting a photo takes the original along, the one in the form or the one on
\* the server.
LEMMA ProcessDoneUncut ==
  ASSUME UncutInv, ProcessDone
  PROVE  UncutInv'
<1>0. /\ media' = media /\ items' = items /\ list' = list /\ attempts' = attempts
      /\ late' = late /\ op' = None
  BY DEF ProcessDone, server
<1>1. MediaInv' /\ Grows
  BY <1>0, MediaUnchanged DEF UncutInv
<1>2. ItemsUncut' /\ ListUncut' /\ AttemptsInv' /\ LateUncut' /\ OpUncut'
  BY <1>0, <1>1, ItemsStay, ListStays, AttemptsStay, LateStays, OpEnds DEF UncutInv
<1>3. HasSource /\ FormUncut /\ MediaInv /\ files \in Nat
  BY DEF ProcessDone, pending, UncutInv, OpUncut
<1>4. files' \in Nat
  BY <1>3 DEF ProcessDone
<1>5. OriginalSource \in Files /\ OriginalSource[1] = "chosen" /\ OriginalSource # None
  <2>1. CASE form.originalFile # None
    BY <1>3, <2>1 DEF OriginalSource, FormUncut
  <2>2. CASE form.originalFile = None
    <3>1. form.original # None /\ Uncut(media, form.original)
      BY <1>3, <2>2 DEF FormUncut, HasSource, UncutRow
    <3>2. OriginalSource = media[form.original].file
      BY <2>2, <3>1 DEF OriginalSource, Kept
    <3>3. form.original \in DOMAIN media /\ media[form.original].file[1] = "chosen"
      BY <3>1 DEF Uncut
    <3> QED BY <1>3, <3>2, <3>3, MediaIDs, NoneAssumption DEF Files
  <2> QED BY <2>1, <2>2
<1>6. FormUncut'
  <2> DEFINE source == OriginalSource
             shown  == IF op.mode = "restore" THEN OriginalSource ELSE File("processed")
  <2>1. form' = [form EXCEPT !.originalFile = source, !.file = shown]
    BY DEF ProcessDone
  <2>2. source \in Files /\ source[1] = "chosen" /\ source # None /\ shown \in Files
    BY <1>3, <1>5 DEF File, Files
  <2> HIDE DEF source, shown
  <2>3. /\ DOMAIN form' = DOMAIN form /\ form'.file = shown /\ form'.originalFile = source
        /\ form'.original = form.original /\ form'.photo = form.photo
    BY <1>3, <2>1 DEF FormUncut, RowFields
  <2> QED BY <1>0, <1>3, <2>2, <2>3 DEF FormUncut, UncutRow
<1> QED BY <1>1, <1>2, <1>4, <1>6 DEF UncutInv

LEMMA FormFilled ==
  ASSUME NEW row, UncutRow(media', row), form' = wardrobeFormFromItem(row)
  PROVE  FormUncut'
<1> DEFINE original == IF row.original = None THEN row.photo ELSE row.original
<1>1. original = row.original
  BY DEF UncutRow
<1>2. /\ DOMAIN form' = {"content", "file", "originalFile", "photo", "original", "from"}
      /\ form'.file = None /\ form'.originalFile = None
      /\ form'.photo = row.photo /\ form'.original = original
  BY DEF wardrobeFormFromItem, emptyWardrobeForm
<1> HIDE DEF original
<1> QED BY <1>1, <1>2 DEF FormUncut, UncutRow, RowFields

LEMMA FormEmptied ==
  ASSUME form' = emptyWardrobeForm
  PROVE  FormUncut'
BY DEF FormUncut, UncutRow, Uncut, RowFields, emptyWardrobeForm

-----------------------------------------------------------------------------
(* The server.                                                              *)

\* A new row has the photos of the request; an update that leaves one out keeps
\* the one there is.
LEMMA CarriedOut ==
  ASSUME MediaInv, ItemsUncut, NEW o, RequestUncut(media, o), Accepted(o), CarryOut(o)
  PROVE  /\ MediaInv' /\ Grows /\ ItemsUncut'
         /\ o.kind \in {"update", "reload"} => o.id \in DOMAIN items'
<1>1. MediaInv' /\ Grows
  <2>1. CASE o.kind = "complete" /\ media[o.id].status = "pending_upload"
    <3>1. media' = [media EXCEPT ![o.id].status = "uploaded"] /\ o.id \in DOMAIN media
      BY <2>1 DEF CarryOut, RequestUncut
    <3>2. "uploaded" \in Statuses
      BY DEF Statuses
    <3> QED BY <3>1, <3>2, MediaChecked
  <2>2. CASE ~(o.kind = "complete" /\ media[o.id].status = "pending_upload")
    BY <2>2, MediaUnchanged DEF CarryOut
  <2> QED BY <2>1, <2>2
<1>2. \A id \in DOMAIN items : RowFields \subseteq DOMAIN items[id] /\ UncutRow(media', items[id])
  BY <1>1, UncutStays DEF ItemsUncut
<1>3. /\ ItemsUncut'
      /\ o.kind \in {"update", "reload"} => o.id \in DOMAIN items'
  <2>1. CASE o.kind \in {"create", "sample"} /\ o.id \notin DOMAIN items
    <3>1. items' = [id \in DOMAIN items \union {o.id} |->
                      IF id = o.id THEN NewItem(o.fields) ELSE items[id]]
      BY <2>1 DEF CarryOut
    <3>2. UncutRow(media', o.fields)
      BY <1>1, <2>1, UncutStays DEF RequestUncut
    <3>3. RowFields \subseteq DOMAIN NewItem(o.fields) /\ UncutRow(media', NewItem(o.fields))
      BY <3>2 DEF NewItem, UncutRow, RowFields
    <3>4. DOMAIN items' = DOMAIN items \union {o.id}
      BY <3>1
    <3>5. \A id \in DOMAIN items' : items'[id] = IF id = o.id THEN NewItem(o.fields) ELSE items[id]
      BY <3>1
    <3> QED BY <1>2, <2>1, <3>3, <3>4, <3>5 DEF ItemsUncut
  <2>2. CASE o.kind = "update"
    <3> DEFINE row == Updated(items[o.id], o.fields)
    <3>1. o.id \in DOMAIN items /\ items' = [items EXCEPT ![o.id] = row]
      BY <2>2 DEF CarryOut, Accepted
    <3>2. UncutRow(media', o.fields) /\ UncutRow(media', items[o.id])
      BY <1>1, <1>2, <2>2, <3>1, UncutStays DEF RequestUncut
    <3>3. RowFields \subseteq DOMAIN row /\ UncutRow(media', row)
      BY <3>2 DEF Updated, Kept, UncutRow, RowFields
    <3> HIDE DEF row
    <3>4. DOMAIN items' = DOMAIN items
      BY <3>1
    <3>5. \A id \in DOMAIN items' : items'[id] = IF id = o.id THEN row ELSE items[id]
      BY <3>1
    <3> QED BY <1>2, <3>1, <3>3, <3>4, <3>5 DEF ItemsUncut
  <2>3. CASE o.kind = "delete"
    <3>1. items' = Restrict(items, DOMAIN items \ {o.id})
      BY <2>3 DEF CarryOut
    <3> QED BY <1>2, <2>3, <3>1 DEF ItemsUncut, Restrict
  <2>4. CASE /\ o.kind \notin {"update", "delete"}
             /\ ~(o.kind \in {"create", "sample"} /\ o.id \notin DOMAIN items)
    <3>1. items' = items
      BY <2>4 DEF CarryOut
    <3>2. o.kind = "reload" => o.id \in DOMAIN items
      BY DEF Accepted
    <3> QED BY <1>2, <2>4, <3>1, <3>2 DEF ItemsUncut
  <2> QED BY <2>1, <2>2, <2>3, <2>4
<1> QED BY <1>1, <1>3

LEMMA HandleUncut ==
  ASSUME UncutInv, Handle
  PROVE  UncutInv'
<1>0. /\ list' = list /\ form' = form /\ attempts' = attempts /\ late' = late
      /\ files' = files
  BY DEF Handle, draft
<1>1. /\ op # None /\ op.kind \in Requests /\ op.fate = "sent" /\ RequestUncut(media, op)
      /\ op.kind \in Uploading => form.file # None /\ UploadUncut(media, op)
  BY DEF Handle, pending, UncutInv, OpUncut, Requests
<1>2. /\ MediaInv' /\ Grows /\ ItemsUncut'
      /\ Accepted(op) /\ op.kind \in {"update", "reload"} => op.id \in DOMAIN items'
  <2>1. CASE Accepted(op)
    BY <1>1, <2>1, CarriedOut DEF Handle, UncutInv
  <2>2. CASE ~Accepted(op)
    <3>1. media' = media /\ items' = items
      BY <2>2 DEF Handle, server
    <3>2. MediaInv' /\ Grows
      BY <3>1, MediaUnchanged DEF UncutInv
    <3> QED BY <2>2, <3>1, <3>2, ItemsStay DEF UncutInv
  <2> QED BY <2>1, <2>2
<1>3. ListUncut' /\ FormUncut' /\ AttemptsInv' /\ LateUncut'
  BY <1>0, <1>2, ListStays, FormStays, AttemptsStay, LateStays DEF UncutInv
<1>4. /\ DOMAIN op' = DOMAIN op /\ op'.kind = op.kind /\ op'.id = op.id /\ op'.fields = op.fields
      /\ op'.goal = op.goal /\ op'.original = op.original /\ op'.fate \in {"done", "refused"}
  BY <1>1 DEF Handle, RequestUncut, Shape
<1>5. RequestUncut(media', op') /\ (op.kind \in Uploading => UploadUncut(media', op'))
  <2>1. RequestUncut(media', op) /\ (op.kind \in Uploading => UploadUncut(media', op))
    BY <1>1, <1>2, UncutStays
  <2> QED BY <1>4, <2>1 DEF RequestUncut, UploadUncut
<1>6. op.kind \in {"update", "reload"} /\ op'.fate = "done" => UncutRow(media', op'.reply)
  <2> SUFFICES ASSUME op.kind \in {"update", "reload"}, op'.fate = "done"
               PROVE  UncutRow(media', op'.reply)
    OBVIOUS
  <2>1. Accepted(op)
    BY <1>1 DEF Handle, RequestUncut, Shape
  <2>2. op.id \in DOMAIN items'
    BY <1>2, <2>1
  <2>3. op'.reply = items'[op.id]
    BY <1>1, <2>1, <2>2 DEF Handle, RequestUncut, Shape
  <2> QED BY <1>2, <2>2, <2>3 DEF ItemsUncut
<1>7. OpUncut'
  BY <1>0, <1>1, <1>4, <1>5, <1>6 DEF OpUncut, Requests
<1> QED BY <1>0, <1>2, <1>3, <1>7 DEF UncutInv

LEMMA ArriveUncut ==
  ASSUME UncutInv, NEW o, Arrive(o)
  PROVE  UncutInv'
<1>0. /\ list' = list /\ form' = form /\ attempts' = attempts /\ late' \subseteq late
      /\ files' = files /\ op' = op
  BY DEF Arrive, draft
<1>1. MediaInv' /\ Grows /\ ItemsUncut'
  <2>1. CASE Accepted(o)
    BY <2>1, CarriedOut DEF Arrive, UncutInv, LateUncut
  <2>2. CASE ~Accepted(o)
    <3>1. media' = media /\ items' = items
      BY <2>2 DEF Arrive, server
    <3>2. MediaInv' /\ Grows
      BY <3>1, MediaUnchanged DEF UncutInv
    <3> QED BY <3>1, <3>2, ItemsStay DEF UncutInv
  <2> QED BY <2>1, <2>2
<1>2. ListUncut' /\ FormUncut' /\ AttemptsInv' /\ LateUncut' /\ OpUncut'
  BY <1>0, <1>1, ListStays, FormStays, AttemptsStay, LateStays, OpStays DEF UncutInv
<1> QED BY <1>0, <1>1, <1>2 DEF UncutInv

\* The worker, and the same account elsewhere.
LEMMA OthersUncut ==
  ASSUME UncutInv, Elsewhere \/ \E id \in DOMAIN media : CheckMedia(id)
  PROVE  UncutInv'
<1>0. /\ list' = list /\ form' = form /\ attempts' = attempts /\ late' = late
      /\ files' = files /\ op' = op
  BY DEF Elsewhere, CheckMedia, draft
<1>1. MediaInv' /\ Grows /\ ItemsUncut'
  <2>1. ASSUME NEW id \in DOMAIN media, CheckMedia(id)
        PROVE  MediaInv' /\ Grows /\ ItemsUncut'
    <3>1. PICK status \in {"ready", "rejected"} : media' = [media EXCEPT ![id].status = status]
      BY <2>1 DEF CheckMedia
    <3>2. status \in Statuses
      BY DEF Statuses
    <3>3. MediaInv' /\ Grows
      BY <3>1, <3>2, MediaChecked DEF UncutInv
    <3> QED BY <2>1, <3>3, ItemsStay DEF CheckMedia, UncutInv
  <2>2. CASE Elsewhere
    <3>1. MediaInv' /\ Grows /\ media' = media
      BY <2>2, MediaUnchanged DEF Elsewhere, UncutInv
    <3>2. PICK id \in DOMAIN items : ChangeItemElsewhere(id)
      BY <2>2 DEF Elsewhere
    <3>3. ItemsUncut
      BY DEF UncutInv
    <3>4. CASE items' = [items EXCEPT ![id].revision = @ + 1]
      <4> DEFINE row == [items[id] EXCEPT !.revision = @ + 1]
      <4>1. items' = [items EXCEPT ![id] = row]
        BY <3>4
      <4>2. DOMAIN row = DOMAIN items[id] /\ row.photo = items[id].photo
            /\ row.original = items[id].original
        BY <3>3 DEF ItemsUncut, RowFields
      <4>3. RowFields \subseteq DOMAIN row /\ UncutRow(media, row)
        BY <3>3, <4>2 DEF ItemsUncut, UncutRow
      <4> HIDE DEF row
      <4> QED BY <3>1, <3>3, <4>1, <4>3 DEF ItemsUncut
    <3>5. CASE items' = Restrict(items, DOMAIN items \ {id})
      BY <3>1, <3>3, <3>5 DEF ItemsUncut, Restrict
    <3>6. CASE items' = items
      BY <3>1, <3>3, <3>6 DEF ItemsUncut
    <3> QED BY <3>1, <3>2, <3>4, <3>5, <3>6 DEF ChangeItemElsewhere
  <2> QED BY <2>1, <2>2
<1>2. ListUncut' /\ FormUncut' /\ AttemptsInv' /\ LateUncut' /\ OpUncut'
  BY <1>0, <1>1, ListStays, FormStays, AttemptsStay, LateStays, OpStays DEF UncutInv
<1> QED BY <1>0, <1>1, <1>2 DEF UncutInv

-----------------------------------------------------------------------------
(* The other steps of the page leave media and items alone.                 *)

LEMMA PageStep ==
  ASSUME UncutInv, media' = media, items' = items, attempts' = attempts, late' \subseteq late,
         list' = list \/ list' \in {items', None},
         files' \in Nat, FormUncut', OpUncut'
  PROVE  UncutInv'
<1>1. MediaInv' /\ Grows
  BY MediaUnchanged DEF UncutInv
<1>2. ItemsUncut' /\ ListUncut' /\ AttemptsInv' /\ LateUncut'
  BY <1>1, ItemsStay, ListStays, AttemptsStay, LateStays DEF UncutInv
<1> QED BY <1>1, <1>2 DEF UncutInv

\* While nothing is asked the form is the owner's.
LEMMA FormUsed ==
  ASSUME UncutInv, ChangeContent \/ ChoosePhoto \/ CancelEdit \/ \E id \in Listed : SelectEdit(id)
  PROVE  UncutInv'
<1>0. /\ media' = media /\ items' = items /\ attempts' = attempts /\ late' = late
      /\ list' = list /\ op' = None
  BY DEF ChangeContent, ChoosePhoto, CancelEdit, SelectEdit, Idle, pending, server
<1>1. FormUncut /\ files \in Nat
  BY DEF UncutInv
<1>2. FormUncut' /\ files' \in Nat
  <2>1. CASE ChangeContent
    <3>1. PICK content : form' = [form EXCEPT !.content = content]
      BY <2>1 DEF ChangeContent
    <3>2. /\ DOMAIN form' = DOMAIN form /\ form'.file = form.file
          /\ form'.originalFile = form.originalFile /\ form'.photo = form.photo
          /\ form'.original = form.original
      BY <1>1, <3>1 DEF FormUncut, RowFields
    <3>3. files' = files
      BY <2>1 DEF ChangeContent
    <3> QED BY <1>0, <1>1, <3>2, <3>3 DEF FormUncut, UncutRow
  <2>2. CASE ChoosePhoto
    <3>1. files' \in Nat
      BY <1>1, <2>2 DEF ChoosePhoto
    <3>2. File("chosen") \in Files /\ File("chosen")[1] = "chosen"
      BY <1>1 DEF File, Files
    <3>3. /\ DOMAIN form' = DOMAIN form
          /\ form'.file = File("chosen") /\ form'.originalFile = File("chosen")
          /\ form'.photo = None /\ form'.original = None
      BY <1>1, <2>2 DEF ChoosePhoto, FormUncut, RowFields
    <3> QED BY <1>1, <3>1, <3>2, <3>3 DEF FormUncut, UncutRow, Uncut
  <2>3. CASE CancelEdit
    BY <1>1, <2>3, FormEmptied DEF CancelEdit, CloseEditor
  <2>4. ASSUME NEW id \in Listed, SelectEdit(id) PROVE FormUncut' /\ files' \in Nat
    <3>1. UncutRow(media', list[id])
      BY <1>0 DEF UncutInv, ListUncut
    <3> QED BY <1>1, <2>4, <3>1, FormFilled DEF SelectEdit
  <2> QED BY <2>1, <2>2, <2>3, <2>4
<1>3. OpUncut'
  BY <1>0, OpEnds
<1> QED BY <1>0, <1>2, <1>3, PageStep

\* What the page begins, and what ends without a result.
LEMMA StepBegunOrFailed ==
  ASSUME UncutInv,
         \/ \E mode \in {"make", "restore"} : Process(mode)
         \/ \E id \in Listed : InspectDelete(id)
         \/ ReloadEditing \/ Remove \/ AddSamples \/ ProcessFails \/ PollFails
  PROVE  UncutInv'
<1>0. /\ media' = media /\ items' = items /\ attempts' = attempts /\ late' = late
      /\ list' = list /\ form' = form /\ files' = files
  BY DEF Process, InspectDelete, ReloadEditing, Remove, AddSamples, ProcessFails, PollFails,
         draft, server
<1>1. Grows /\ FormUncut' /\ files' \in Nat
  BY <1>0, MediaUnchanged, FormStays DEF UncutInv
<1>2. OpUncut'
  <2>1. ASSUME NEW mode, Process(mode) PROVE OpUncut'
    <3>1. op' = [kind |-> "process", mode |-> mode] /\ HasSource
      BY <2>1 DEF Process
    <3> QED BY <1>0, <3>1 DEF OpUncut, HasSource, Uploading
  <2>2. ASSUME NEW id, InspectDelete(id) PROVE OpUncut'
    BY <2>2, RequestSent DEF InspectDelete, Ask, Uploading
  <2>3. CASE ReloadEditing
    BY <2>3, RequestSent DEF ReloadEditing, Ask, Uploading
  <2>4. CASE Remove
    <3>1. /\ Shape \subseteq DOMAIN op' /\ op'.kind = "delete"
      BY <2>4 DEF Remove, Ask, Request, Shape
    <3> QED BY <3>1 DEF OpUncut, RequestUncut, Uploading
  <2>5. CASE AddSamples
    <3> DEFINE id     == FirstOf(Missing(0))
               fields == [content |-> "sample", photo |-> None, original |-> None]
    <3>1. op' = Request("sample", id, None, fields)
      BY <2>5 DEF AddSamples, Ask, SampleRequest
    <3>2. UncutRow(media', fields)
      BY DEF UncutRow, Uncut
    <3> QED BY <3>1, <3>2, RequestSent DEF Uploading
  <2>6. CASE ProcessFails \/ PollFails
    BY <2>6, OpEnds DEF ProcessFails, PollFails
  <2> QED BY <2>1, <2>2, <2>3, <2>4, <2>5, <2>6
<1> QED BY <1>0, <1>1, <1>2, PageStep

LEMMA PutFailsUncut ==
  ASSUME UncutInv, PutFails
  PROVE  UncutInv'
<1>0. /\ items' = items /\ list' = list /\ form' = form /\ attempts' = attempts /\ late' = late
      /\ files' = files /\ op' = None
  BY DEF PutFails, draft
<1>1. MediaInv' /\ Grows
  <2>1. CASE media' = media
    BY <2>1, MediaUnchanged DEF UncutInv
  <2>2. CASE media' = NewMedia(op.id)
    <3>1. op.id \in Files
      BY DEF PutFails, pending, UncutInv, OpUncut, UploadUncut, Uploading
    <3> QED BY <2>2, <3>1, MediaAppended DEF UncutInv
  <2> QED BY <2>1, <2>2 DEF PutFails
<1>2. /\ ItemsUncut' /\ ListUncut' /\ FormUncut' /\ AttemptsInv' /\ LateUncut' /\ OpUncut'
  BY <1>0, <1>1, ItemsStay, ListStays, FormStays, AttemptsStay, LateStays, OpEnds DEF UncutInv
<1> QED BY <1>0, <1>1, <1>2 DEF UncutInv

LEMMA ReplyShownUncut ==
  ASSUME UncutInv, ReplyShown
  PROVE  UncutInv'
<1>0. /\ media' = media /\ items' = items /\ attempts' = attempts /\ late' = late
      /\ files' = files /\ (list' = list \/ list' \in {items', None})
  BY DEF ReplyShown, server, Refreshed
<1>1. /\ op # None /\ op.kind \in Requests /\ op.fate = "done" /\ RequestUncut(media, op)
      /\ op.kind \in Uploading => form.file # None /\ UploadUncut(media, op)
      /\ op.kind \in {"update", "reload"} => UncutRow(media, op.reply)
      /\ FormUncut /\ files' \in Nat
  BY <1>0 DEF ReplyShown, pending, UncutInv, OpUncut, Requests
<1>2. Grows
  BY <1>0, MediaUnchanged DEF UncutInv
<1>3. FormUncut' /\ (op.kind = "complete" => form' = form)
  <2>1. CASE op.kind \in {"update", "reload"} /\ form' = wardrobeFormFromItem(op.reply)
    <3>1. UncutRow(media', op.reply)
      BY <1>0, <1>1, <2>1
    <3> QED BY <2>1, <3>1, FormFilled
  <2>2. CASE op.kind = "create" /\ form' = emptyWardrobeForm
    BY <2>2, FormEmptied
  <2>3. CASE Closes(op) /\ CloseEditor
    BY <2>3, FormEmptied DEF CloseEditor, Closes
  <2>4. CASE form' = form
    BY <1>1, <1>2, <2>4, FormStays
  <2> QED BY <2>1, <2>2, <2>3, <2>4 DEF ReplyShown, draft
<1>4. OpUncut'
  <2>1. CASE op.kind = "complete"
    <3>1. op' = [op EXCEPT !.kind = "poll"]
      BY <2>1 DEF ReplyShown
    <3>2. /\ DOMAIN op' = DOMAIN op /\ op'.kind = "poll" /\ op'.id = op.id
          /\ op'.goal = op.goal /\ op'.original = op.original
      BY <1>1, <3>1 DEF RequestUncut, Shape
    <3>3. RequestUncut(media', op') /\ UploadUncut(media', op')
      BY <1>0, <1>1, <2>1, <3>2 DEF RequestUncut, UploadUncut, Uploading
    <3> QED BY <1>1, <1>3, <2>1, <3>2, <3>3 DEF OpUncut, Uploading
  <2>2. CASE op.kind = "sample" /\ list # None /\ Missing(op.id) # {}
    <3> DEFINE id     == FirstOf(Missing(op.id))
               fields == [content |-> "sample", photo |-> None, original |-> None]
    <3>1. op' = Request("sample", id, None, fields)
      BY <2>2 DEF ReplyShown, SampleRequest
    <3>2. UncutRow(media', fields)
      BY DEF UncutRow, Uncut
    <3> QED BY <3>1, <3>2, RequestSent DEF Uploading
  <2>3. CASE ~(op.kind = "complete") /\ ~(op.kind = "sample" /\ list # None /\ Missing(op.id) # {})
    BY <2>3, OpEnds DEF ReplyShown
  <2> QED BY <2>1, <2>2, <2>3
<1> QED BY <1>0, <1>1, <1>3, <1>4, PageStep

LEMMA ReplyFailsUncut ==
  ASSUME UncutInv, ReplyFails
  PROVE  UncutInv'
<1>0. /\ media' = media /\ items' = items /\ attempts' = attempts /\ form' = form
      /\ files' = files /\ op' = None /\ (list' = list \/ list' \in {items', None})
  BY DEF ReplyFails, draft, server, Refreshed
<1>1. RequestUncut(media, op)
  BY DEF ReplyFails, pending, UncutInv, OpUncut, Requests
<1>2. MediaInv' /\ Grows
  BY <1>0, MediaUnchanged DEF UncutInv
<1>3. LateUncut'
  <2>1. late' \subseteq late \union {op}
    BY DEF ReplyFails
  <2> QED BY <1>0, <1>1, <2>1 DEF LateUncut, UncutInv
<1>4. /\ ItemsUncut' /\ ListUncut' /\ FormUncut' /\ AttemptsInv' /\ OpUncut'
  BY <1>0, <1>2, ItemsStay, ListStays, FormStays, AttemptsStay, OpEnds DEF UncutInv
<1> QED BY <1>0, <1>2, <1>3, <1>4 DEF UncutInv

LEMMA UncutInitially == Init => UncutInv
<1> SUFFICES ASSUME Init PROVE UncutInv
  OBVIOUS
<1> DEFINE row == [file |-> <<"chosen", 0>>, status |-> "ready"]
<1>1. media = <<row>>
  BY DEF Init
<1>2. row \in MediaRow /\ row.file[1] = "chosen"
  BY DEF MediaRow, Files, Statuses
<1> HIDE DEF row
<1>3. MediaInv /\ 1 \in DOMAIN media /\ media[1].file[1] = "chosen"
  BY <1>1, <1>2 DEF MediaInv
<1>4. ItemsUncut
  <2>1. PICK photo \in {1, None} :
          items = [id \in {SampleCount + 1} |->
            [content |-> CHOOSE c \in Contents : TRUE, photo |-> photo, original |-> photo,
             revision |-> 1]]
    BY DEF Init
  <2>2. \A id \in DOMAIN items : /\ DOMAIN items[id] = {"content", "photo", "original", "revision"}
                                 /\ items[id].photo = photo /\ items[id].original = photo
    BY <2>1
  <2>3. Uncut(media, photo)
    BY <1>3, <2>1 DEF Uncut
  <2> QED BY <2>2, <2>3 DEF ItemsUncut, UncutRow, RowFields
<1>5. ListUncut
  BY <1>4 DEF Init, ItemsUncut, ListUncut, Listed
<1>6. FormUncut
  BY DEF Init, FormUncut, UncutRow, Uncut, RowFields, emptyWardrobeForm
<1>7. AttemptsInv /\ LateUncut /\ OpUncut /\ files \in Nat
  BY DEF Init, AttemptsInv, LateUncut, OpUncut
<1> QED BY <1>3, <1>4, <1>5, <1>6, <1>7 DEF UncutInv

LEMMA UncutStep == UncutInv /\ [Next]_vars => UncutInv'
<1> SUFFICES ASSUME UncutInv, [Next]_vars PROVE UncutInv'
  OBVIOUS
<1>1. CASE ChangeContent \/ ChoosePhoto \/ CancelEdit \/ \E id \in Listed : SelectEdit(id)
  BY <1>1, FormUsed
<1>2. CASE \/ \E mode \in {"make", "restore"} : Process(mode)
           \/ \E id \in Listed : InspectDelete(id)
           \/ ReloadEditing \/ Remove \/ AddSamples \/ ProcessFails \/ PollFails
  BY <1>2, StepBegunOrFailed
<1>3. CASE Save \/ ProcessDone \/ PutDone \/ PutFails \/ PollReady
  BY <1>3, SaveUncut, ProcessDoneUncut, PutDoneUncut, PutFailsUncut, PollReadyUncut
<1>4. CASE Handle \/ ReplyShown \/ ReplyFails \/ \E o \in late : Arrive(o)
  BY <1>4, HandleUncut, ReplyShownUncut, ReplyFailsUncut, ArriveUncut
<1>5. CASE Elsewhere \/ \E id \in DOMAIN media : CheckMedia(id)
  BY <1>5, OthersUncut
<1>6. CASE ChoosePolicy \/ KeepItem \/ RetryList \/ UNCHANGED vars
  <2>0. /\ media' = media /\ items' = items /\ attempts' = attempts /\ late' = late
        /\ form' = form /\ files' = files /\ op' = op /\ (list' = list \/ list' \in {items', None})
    BY <1>6 DEF ChoosePolicy, KeepItem, RetryList, vars, draft, server
  <2>1. Grows /\ FormUncut' /\ files' \in Nat
    BY <2>0, MediaUnchanged, FormStays DEF UncutInv
  <2>2. OpUncut'
    BY <2>0, <2>1, OpStays DEF UncutInv
  <2> QED BY <2>0, <2>1, <2>2, PageStep
<1> QED BY <1>1, <1>2, <1>3, <1>4, <1>5, <1>6 DEF Next

\* The original an item keeps has never been cut, however often its photo was
\* chosen, cropped, restored, uploaded or saved again.
THEOREM OriginalIsUntouchedAlways == Spec => []OriginalIsUntouched
<1>1. UncutInv => OriginalIsUntouched
  BY DEF UncutInv, ItemsUncut, UncutRow, Uncut, OriginalIsUntouched
<1> QED BY <1>1, UncutInitially, UncutStep, PTL DEF Spec

-----------------------------------------------------------------------------
(* Photos: what is in the form, what is on its way up, and what has been    *)
(* uploaded before.                                                         *)

\* The photo of the item the owner has at first; the page never uploads it.
First == <<"chosen", 0>>

\* A media id under which this very photo is stored.
Stores(rows, id, file) == id \in DOMAIN rows /\ rows[id].file = file

\* The original of the form is the one its media id stores, or a new photo; the
\* photo shown is the original itself or has been made of it.
FormChosen ==
  /\ form.originalFile # None =>
       IF form.original # None THEN Stores(media, form.original, form.originalFile)
       ELSE form.originalFile # First
  /\ form.file # None => form.file = form.originalFile \/ form.file[1] = "processed"

\* An upload brings the original, or the photo shown after its original.
Brings(rows, f, o) ==
  LET file == IF o.goal = "original" THEN f.originalFile ELSE f.file
  IN  /\ IF o.kind = "put" THEN o.id = file ELSE Stores(rows, o.id, file)
      /\ o.goal # "original" => Stores(rows, o.original, f.originalFile)

OpChosen ==
  op # None =>
    /\ op.kind \in Uploading => Brings(media, form, op)
    /\ op.kind = "put" => op.id \notin DOMAIN attempts /\ op.id # First
    /\ op.kind \in {"create", "update"} /\ form.file # None
         => /\ Stores(media, op.fields.photo, form.file)
            /\ Stores(media, op.fields.original, form.originalFile)

\* The media id an upload is remembered under.
Remembered(rows, uploads, id) ==
  \E f \in DOMAIN uploads : uploads[f] = id /\ Stores(rows, id, f)

Pending(rows, id) == rows[id].status = "pending_upload"

\* What is completed is remembered, and so is all that has been, the first
\* photo apart.
CompletedInv ==
  /\ First \notin DOMAIN attempts
  /\ \A o \in late \union ({op} \ {None}) : o.kind = "complete" => Remembered(media, attempts, o.id)
  /\ \A id \in DOMAIN media :
       Pending(media, id) \/ Remembered(media, attempts, id) \/ (id = 1 /\ media[id].file = First)

PhotoInv == FormChosen /\ OpChosen /\ CompletedInv

\* Media rows keep their photos, and a photo uploaded stays remembered.
Keeps ==
  /\ Grows
  /\ \A f \in DOMAIN attempts : f \in DOMAIN attempts' /\ attempts'[f] = attempts[f]

LEMMA StoresStay ==
  ASSUME Grows
  PROVE  /\ \A id, file : Stores(media, id, file) => Stores(media', id, file)
         /\ \A f, o : Brings(media, f, o) => Brings(media', f, o)
BY DEF Grows, Stores, Brings

LEMMA RememberedStay ==
  ASSUME Keeps
  PROVE  \A id : Remembered(media, attempts, id) => Remembered(media', attempts', id)
BY StoresStay DEF Keeps, Remembered

LEMMA FormChosenStays ==
  ASSUME Grows, FormChosen,
         form'.file = form.file, form'.originalFile = form.originalFile,
         form'.original = form.original
  PROVE  FormChosen'
BY StoresStay DEF FormChosen

LEMMA FormLeft ==
  ASSUME form' = emptyWardrobeForm \/ \E row : form' = wardrobeFormFromItem(row)
  PROVE  FormChosen'
<1>1. ASSUME NEW row, form' = wardrobeFormFromItem(row)
      PROVE  form'.file = None /\ form'.originalFile = None
  <2> DEFINE original == IF row.original = None THEN row.photo ELSE row.original
  <2>1. form' = [emptyWardrobeForm EXCEPT !.content = row.content, !.photo = row.photo,
                                          !.original = original, !.from = row]
    BY <1>1 DEF wardrobeFormFromItem
  <2> HIDE DEF original
  <2> QED BY <2>1 DEF emptyWardrobeForm
<1>2. form' = emptyWardrobeForm => form'.file = None /\ form'.originalFile = None
  BY DEF emptyWardrobeForm
<1> QED BY <1>1, <1>2 DEF FormChosen

\* The handlers that ask for something else, or for nothing.
LEMMA OpOther ==
  ASSUME op' # None => op'.kind \notin Uploading \union {"create", "update"}
  PROVE  OpChosen'
BY DEF OpChosen, Uploading

LEMMA OpChosenStays ==
  ASSUME Grows, OpChosen, op' = op, form' = form, attempts' = attempts
  PROVE  OpChosen'
BY StoresStay DEF OpChosen, Brings

\* Nothing is completed that is not on its way already.
LEMMA CompletedStays ==
  ASSUME Keeps, CompletedInv, First \notin DOMAIN attempts',
         \A o \in late' \union ({op'} \ {None}) :
           o.kind = "complete" => \/ o \in late \union ({op} \ {None})
                                  \/ Remembered(media', attempts', o.id),
         \A id \in DOMAIN media' : \/ Pending(media', id) \/ Remembered(media', attempts', id)
                                   \/ id \in DOMAIN media /\ ~Pending(media, id)
  PROVE  CompletedInv'
BY RememberedStay DEF CompletedInv, Keeps, Grows

\* Steps that leave photos, media and uploads alone.
LEMMA PhotosStay ==
  ASSUME PhotoInv, media' = media, attempts' = attempts, late' \subseteq late \union ({op} \ {None}),
         op' # None => op'.kind # "complete" \/ op' = op, FormChosen', OpChosen'
  PROVE  PhotoInv'
<1>1. Keeps
  BY DEF Keeps, Grows
<1>2. CompletedInv'
  BY <1>1, CompletedStays DEF PhotoInv, CompletedInv
<1> QED BY <1>2 DEF PhotoInv

-----------------------------------------------------------------------------
(* Saving: the uploads and the item itself.                                 *)

LEMMA UploadChosen ==
  ASSUME CompletedInv, AttemptsInv, NEW file, NEW goal, NEW original,
         op' = Upload(file, goal, original), media' = media, attempts' = attempts,
         file # First,
         file = IF goal = "original" THEN form'.originalFile ELSE form'.file,
         goal # "original" => Stores(media, original, form'.originalFile)
  PROVE  OpChosen' /\ (op'.kind = "complete" => Remembered(media, attempts, op'.id))
<1> DEFINE known == file \in DOMAIN attempts
           id    == IF known THEN attempts[file] ELSE file
<1>1. op' = [Request(IF known THEN "complete" ELSE "put", id, None, None)
               EXCEPT !.goal = goal, !.original = original]
  BY DEF Upload
<1>2. known => Stores(media, id, file) /\ Remembered(media, attempts, id)
  BY DEF AttemptsInv, Stores, Remembered
<1>3. ~known => id = file /\ id \notin DOMAIN attempts
  OBVIOUS
<1> HIDE DEF known, id
<1>4. /\ op'.kind = IF known THEN "complete" ELSE "put"
      /\ op'.id = id /\ op'.goal = goal /\ op'.original = original
  BY <1>1 DEF Request
<1>5. Brings(media', form', op')
  BY <1>2, <1>3, <1>4 DEF Brings
<1> QED BY <1>2, <1>3, <1>4, <1>5 DEF OpChosen

LEMMA WriteChosen ==
  ASSUME NEW photo, NEW original, Write(photo, original),
         form'.file # None => /\ Stores(media', photo, form'.file)
                              /\ Stores(media', original, form'.originalFile)
  PROVE  OpChosen' /\ op'.kind # "complete"
<1> DEFINE fields == [content |-> form.content, photo |-> photo, original |-> original]
<1>1. fields.photo = photo /\ fields.original = original
  OBVIOUS
<1>2. \/ op' = Request("update", editing.id, editing.row, fields)
      \/ op' = Request("create", DraftID, None, fields)
  BY DEF Write
<1> HIDE DEF fields
<1>3. op'.kind \in {"create", "update"} /\ op'.fields = fields
  BY <1>2 DEF Request
<1> QED BY <1>1, <1>3 DEF OpChosen, Uploading

LEMMA SaveChosen ==
  ASSUME UncutInv, PhotoInv, Save
  PROVE  PhotoInv'
<1>0. /\ media' = media /\ attempts' = attempts /\ late' = late
  BY DEF Save, server
<1>1. FormUncut /\ AttemptsInv /\ FormChosen /\ CompletedInv /\ Keeps
  BY <1>0 DEF UncutInv, PhotoInv, Keeps, Grows
<1>2. /\ FormChosen' /\ OpChosen'
      /\ op'.kind = "complete" => Remembered(media, attempts, op'.id)
  <2>1. CASE form.file = None /\ Write(form.photo, form.original) /\ form' = form
    BY <1>1, <2>1, WriteChosen, FormChosenStays DEF Keeps
  <2>2. CASE /\ form.file # None /\ form.original = None
             /\ op' = Upload(form.originalFile, "original", None) /\ form' = form
    <3>1. form.originalFile # First
      BY <1>1, <2>2 DEF FormUncut, FormChosen
    <3> QED BY <1>0, <1>1, <2>2, <3>1, UploadChosen, FormChosenStays DEF Keeps
  <2>3. CASE /\ form.file # None /\ form.original # None /\ form.file = form.originalFile
             /\ form' = [form EXCEPT !.photo = form.original]
             /\ Write(form.original, form.original)
    <3>1. /\ form'.file = form.file /\ form'.originalFile = form.originalFile
          /\ form'.original = form.original
      BY <1>1, <2>3 DEF FormUncut
    <3>2. Stores(media, form.original, form.originalFile)
      BY <1>1, <2>3 DEF FormUncut, FormChosen
    <3> QED BY <1>0, <1>1, <2>3, <3>1, <3>2, WriteChosen, FormChosenStays DEF Keeps
  <2>4. CASE /\ form.file # None /\ form.original # None /\ form.file # form.originalFile
             /\ op' = Upload(form.file, "shown", form.original) /\ form' = form
    <3>1. form.file # First /\ Stores(media, form.original, form.originalFile)
      BY <1>1, <2>4 DEF FormUncut, FormChosen, First
    <3> QED BY <1>0, <1>1, <2>4, <3>1, UploadChosen, FormChosenStays DEF Keeps
  <2> QED BY <2>1, <2>2, <2>3, <2>4 DEF Save
<1>3. CompletedInv'
  <2>1. Remembered(media, attempts, op'.id) => Remembered(media', attempts', op'.id)
    BY <1>0 DEF Remembered
  <2> QED BY <1>0, <1>1, <1>2, <2>1, CompletedStays DEF CompletedInv
<1> QED BY <1>2, <1>3 DEF PhotoInv

\* The photo just checked is the original, or what is shown of it.
LEMMA PollReadyChosen ==
  ASSUME UncutInv, PhotoInv, PollReady
  PROVE  PhotoInv'
<1>0. media' = media /\ attempts' = attempts /\ late' = late
  BY DEF PollReady, server
<1>1. FormUncut /\ AttemptsInv /\ FormChosen /\ CompletedInv /\ Keeps
  BY <1>0 DEF UncutInv, PhotoInv, Keeps, Grows
<1>2. /\ op # None /\ op.kind = "poll" /\ Brings(media, form, op)
      /\ form.file # None /\ op.id # None
      /\ op.goal # "original" => op.original # None
  BY MediaIDs DEF PollReady, pending, PhotoInv, OpChosen, UncutInv, OpUncut, UploadUncut, Uploading
<1>3. /\ FormChosen' /\ OpChosen'
      /\ op'.kind = "complete" => Remembered(media, attempts, op'.id)
  <2>1. CASE op.goal = "original" /\ form.file # form.originalFile
    <3>1. op' = Upload(form.file, "shown", op.id) /\ form' = form
      BY <2>1 DEF PollReady
    <3>2. form.file # First /\ Stores(media, op.id, form.originalFile)
      BY <1>1, <1>2, <2>1 DEF FormChosen, First, Brings
    <3> QED BY <1>0, <1>1, <3>1, <3>2, UploadChosen, FormChosenStays DEF Keeps
  <2>2. CASE ~(op.goal = "original" /\ form.file # form.originalFile)
    <3> DEFINE original == IF op.goal = "original" THEN op.id ELSE op.original
    <3>1. form' = [form EXCEPT !.photo = op.id, !.original = original] /\ Write(op.id, original)
      BY <2>2 DEF PollReady
    <3>2. /\ Stores(media, op.id, form.file) /\ Stores(media, original, form.originalFile)
          /\ original # None
      BY <1>2, <2>2 DEF Brings
    <3> HIDE DEF original
    <3>3. /\ form'.file = form.file /\ form'.originalFile = form.originalFile
          /\ form'.original = original
      BY <1>1, <3>1 DEF FormUncut, RowFields
    <3>4. FormChosen'
      BY <1>0, <1>1, <3>2, <3>3 DEF FormChosen
    <3> QED BY <1>0, <3>1, <3>2, <3>3, <3>4, WriteChosen
  <2> QED BY <2>1, <2>2
<1>4. CompletedInv'
  <2>1. Remembered(media, attempts, op'.id) => Remembered(media', attempts', op'.id)
    BY <1>0 DEF Remembered
  <2> QED BY <1>0, <1>1, <1>3, <2>1, CompletedStays DEF CompletedInv
<1> QED BY <1>3, <1>4 DEF PhotoInv

\* The row appended is pending, and the others are as they were.
LEMMA AppendedLast ==
  ASSUME MediaInv, NEW file \in Files, media' = NewMedia(file)
  PROVE  \A i \in DOMAIN media' : Pending(media', i) \/ (i \in DOMAIN media /\ media'[i] = media[i])
<1> DEFINE row == [file |-> file, status |-> "pending_upload"]
<1>1. row \in MediaRow /\ row.status = "pending_upload"
  BY DEF MediaRow, Statuses
<1>2. media' = Append(media, row) /\ media \in Seq(MediaRow)
  BY DEF NewMedia, MediaInv
<1> HIDE DEF row
<1>3. /\ Append(media, row) \in Seq(MediaRow)
      /\ Len(Append(media, row)) = Len(media) + 1
      /\ Append(media, row)[Len(media) + 1] = row
      /\ \A i \in 1 .. Len(media) : Append(media, row)[i] = media[i]
  BY <1>1, <1>2, AppendProperties
<1>4. Len(media) \in Nat /\ DOMAIN media = 1 .. Len(media) /\ DOMAIN media' = 1 .. Len(media) + 1
  BY <1>2, <1>3, LenProperties
<1> QED BY <1>1, <1>2, <1>3, <1>4 DEF Pending

\* The media row of a photo put into the store is new, and so is its photo.
LEMMA PutDoneChosen ==
  ASSUME UncutInv, PhotoInv, PutDone
  PROVE  PhotoInv'
<1>0. form' = form /\ late' = late
  BY DEF PutDone, draft
<1> DEFINE id == Len(media')
<1>1. /\ op # None /\ op.kind = "put" /\ op.id \in Files /\ RequestUncut(media, op)
      /\ Brings(media, form, op) /\ op.id \notin DOMAIN attempts /\ op.id # First
      /\ FormChosen /\ CompletedInv /\ MediaInv
  BY DEF PutDone, pending, UncutInv, OpUncut, UploadUncut, PhotoInv, OpChosen, Uploading
<1>2. Grows /\ id \in DOMAIN media' /\ media'[id].file = op.id
  BY <1>1, MediaAppended DEF PutDone
<1>3. attempts' = [f \in DOMAIN attempts \union {op.id} |-> IF f = op.id THEN id ELSE attempts[f]]
  BY DEF PutDone
<1>4. \A i \in DOMAIN media' : Pending(media', i) \/ (i \in DOMAIN media /\ media'[i] = media[i])
  BY <1>1, AppendedLast DEF PutDone
<1>5. op' = [op EXCEPT !.kind = "complete", !.id = id]
  BY DEF PutDone
<1> HIDE DEF id
<1>6. Keeps /\ First \notin DOMAIN attempts' /\ Remembered(media', attempts', id)
  BY <1>1, <1>2, <1>3 DEF Keeps, CompletedInv, Remembered, Stores
<1>7. /\ op'.kind = "complete" /\ op'.id = id
      /\ op'.goal = op.goal /\ op'.original = op.original
  BY <1>1, <1>5 DEF RequestUncut, Shape
<1>8. OpChosen'
  <2>1. Stores(media', id, op.id)
    BY <1>2 DEF Stores
  <2>2. Brings(media', form, op)
    BY <1>1, <1>2, StoresStay
  <2>3. Brings(media', form', op')
    BY <1>0, <1>1, <1>7, <2>1, <2>2 DEF Brings
  <2> QED BY <1>7, <2>3 DEF OpChosen
<1>9. FormChosen'
  BY <1>0, <1>1, <1>2, FormChosenStays
<1>10. CompletedInv'
  BY <1>0, <1>1, <1>4, <1>6, <1>7, CompletedStays DEF Pending
<1> QED BY <1>8, <1>9, <1>10 DEF PhotoInv

LEMMA PutFailsChosen ==
  ASSUME UncutInv, PhotoInv, PutFails
  PROVE  PhotoInv'
<1>0. form' = form /\ late' = late /\ attempts' = attempts /\ op' = None
  BY DEF PutFails, draft
<1>1. /\ op.id \in Files /\ MediaInv /\ FormChosen /\ CompletedInv
  BY DEF PutFails, pending, UncutInv, OpUncut, UploadUncut, Uploading, PhotoInv
<1>2. /\ Grows
      /\ \A i \in DOMAIN media' : Pending(media', i) \/ (i \in DOMAIN media /\ media'[i] = media[i])
  <2>1. CASE media' = media
    BY <2>1 DEF Grows
  <2>2. CASE media' = NewMedia(op.id)
    BY <1>1, <2>2, MediaAppended, AppendedLast
  <2> QED BY <2>1, <2>2 DEF PutFails
<1>3. Keeps
  BY <1>0, <1>2 DEF Keeps
<1>4. CompletedInv'
  BY <1>0, <1>1, <1>2, <1>3, CompletedStays DEF Pending, CompletedInv
<1>5. FormChosen' /\ OpChosen'
  BY <1>0, <1>1, <1>2, FormChosenStays, OpOther
<1> QED BY <1>4, <1>5 DEF PhotoInv

-----------------------------------------------------------------------------
(* The server and the worker.                                               *)

\* Only a photo that is completed, or has been before, is no longer pending.
LEMMA CompletedByUse ==
  ASSUME MediaInv, CompletedInv, late' \subseteq late, attempts' = attempts,
         op' # None /\ op'.kind = "complete" =>
           op # None /\ op.kind = "complete" /\ op'.id = op.id,
         NEW id \in DOMAIN media, NEW status \in Statuses,
         Remembered(media, attempts, id) \/ ~Pending(media, id),
         media' = [media EXCEPT ![id].status = status]
  PROVE  Keeps /\ CompletedInv'
<1>1. Grows
  BY MediaChecked
<1>2. Keeps
  BY <1>1 DEF Keeps
<1>3. DOMAIN media' = DOMAIN media /\ \A i \in DOMAIN media : i # id => media'[i] = media[i]
  OBVIOUS
<1>4. \A i : Remembered(media, attempts, i) => Remembered(media', attempts', i)
  BY <1>2, RememberedStay
<1>5. \A o \in late' \union ({op'} \ {None}) : o.kind = "complete" => Remembered(media', attempts', o.id)
  BY <1>4 DEF CompletedInv
<1>6. \A i \in DOMAIN media' : \/ Pending(media', i) \/ Remembered(media', attempts', i)
                               \/ i \in DOMAIN media /\ ~Pending(media, i)
  BY <1>3, <1>4 DEF CompletedInv, Pending
<1> QED BY <1>2, <1>5, <1>6, CompletedStays DEF CompletedInv

LEMMA CompletedByNone ==
  ASSUME CompletedInv, late' \subseteq late, attempts' = attempts, media' = media,
         op' # None /\ op'.kind = "complete" =>
           op # None /\ op.kind = "complete" /\ op'.id = op.id
  PROVE  Keeps /\ CompletedInv'
BY DEF Keeps, Grows, CompletedInv, Remembered, Pending

LEMMA CarriedOutChosen ==
  ASSUME MediaInv, CompletedInv, late' \subseteq late, attempts' = attempts,
         op' # None /\ op'.kind = "complete" =>
           op # None /\ op.kind = "complete" /\ op'.id = op.id,
         NEW o \in late \union ({op} \ {None}), CarryOut(o)
  PROVE  Keeps /\ CompletedInv'
<1>1. CASE o.kind = "complete" /\ media[o.id].status = "pending_upload"
  <2>1. Remembered(media, attempts, o.id) /\ o.id \in DOMAIN media /\ "uploaded" \in Statuses
    BY <1>1 DEF CompletedInv, Remembered, Stores, Statuses
  <2>2. media' = [media EXCEPT ![o.id].status = "uploaded"]
    BY <1>1 DEF CarryOut
  <2> QED BY <2>1, <2>2, CompletedByUse
<1>2. CASE ~(o.kind = "complete" /\ media[o.id].status = "pending_upload")
  BY <1>2, CompletedByNone DEF CarryOut
<1> QED BY <1>1, <1>2

LEMMA HandleChosen ==
  ASSUME UncutInv, PhotoInv, Handle
  PROVE  PhotoInv'
<1>0. form' = form /\ late' = late /\ attempts' = attempts
  BY DEF Handle, draft
<1>1. /\ op # None /\ op.kind \in Requests /\ RequestUncut(media, op) /\ MediaInv
      /\ FormChosen /\ OpChosen /\ CompletedInv
  BY DEF Handle, pending, UncutInv, OpUncut, Requests, PhotoInv
<1>2. /\ op'.kind = op.kind /\ op'.id = op.id /\ op'.fields = op.fields
      /\ op'.goal = op.goal /\ op'.original = op.original
  BY <1>1 DEF Handle, RequestUncut, Shape
<1>3. Keeps /\ CompletedInv'
  <2>1. CASE Accepted(op)
    BY <1>0, <1>1, <1>2, <2>1, CarriedOutChosen DEF Handle
  <2>2. CASE ~Accepted(op)
    <3>1. media' = media
      BY <2>2 DEF Handle, server
    <3> QED BY <1>0, <1>1, <1>2, <3>1, CompletedByNone
  <2> QED BY <2>1, <2>2
<1>4. FormChosen'
  BY <1>0, <1>1, <1>3, FormChosenStays DEF Keeps
<1>5. OpChosen'
  <2>1. op.kind \in Uploading => Brings(media', form, op)
    BY <1>1, <1>3, StoresStay DEF OpChosen, Keeps
  <2>2. op.kind \in Uploading => Brings(media', form', op')
    BY <1>0, <1>2, <2>1 DEF Brings
  <2>3. op.kind \in {"create", "update"} /\ form.file # None
          => /\ Stores(media', op.fields.photo, form.file)
             /\ Stores(media', op.fields.original, form.originalFile)
    BY <1>1, <1>3, StoresStay DEF OpChosen, Keeps
  <2> QED BY <1>0, <1>1, <1>2, <2>2, <2>3 DEF OpChosen
<1> QED BY <1>3, <1>4, <1>5 DEF PhotoInv

LEMMA ArriveChosen ==
  ASSUME UncutInv, PhotoInv, NEW o, Arrive(o)
  PROVE  PhotoInv'
<1>0. form' = form /\ late' \subseteq late /\ attempts' = attempts /\ op' = op /\ o \in late
  BY DEF Arrive, draft
<1>1. MediaInv /\ FormChosen /\ OpChosen /\ CompletedInv
  BY DEF UncutInv, PhotoInv
<1>2. Keeps /\ CompletedInv'
  <2>1. CASE Accepted(o)
    BY <1>0, <1>1, <2>1, CarriedOutChosen DEF Arrive
  <2>2. CASE ~Accepted(o)
    <3>1. media' = media
      BY <2>2 DEF Arrive, server
    <3> QED BY <1>0, <1>1, <3>1, CompletedByNone
  <2> QED BY <2>1, <2>2
<1>3. FormChosen' /\ OpChosen'
  BY <1>0, <1>1, <1>2, FormChosenStays, OpChosenStays DEF Keeps
<1> QED BY <1>2, <1>3 DEF PhotoInv

LEMMA CheckMediaChosen ==
  ASSUME UncutInv, PhotoInv, NEW id \in DOMAIN media, CheckMedia(id)
  PROVE  PhotoInv'
<1>0. /\ form' = form /\ late' = late /\ attempts' = attempts /\ op' = op
      /\ media[id].status = "uploaded"
  BY DEF CheckMedia, draft
<1>1. MediaInv /\ FormChosen /\ OpChosen /\ CompletedInv
  BY DEF UncutInv, PhotoInv
<1>2. PICK status \in {"ready", "rejected"} : media' = [media EXCEPT ![id].status = status]
  BY DEF CheckMedia
<1>3. status \in Statuses /\ ~Pending(media, id)
  BY <1>0 DEF Statuses, Pending
<1>4. Keeps /\ CompletedInv'
  BY <1>0, <1>1, <1>2, <1>3, CompletedByUse
<1>5. FormChosen' /\ OpChosen'
  BY <1>0, <1>1, <1>4, FormChosenStays, OpChosenStays DEF Keeps
<1> QED BY <1>4, <1>5 DEF PhotoInv

-----------------------------------------------------------------------------
(* The steps of the page that leave the media alone.                        *)

\* A photo chosen, cut or restored, and a form filled, emptied or changed.
LEMMA FormUsedChosen ==
  ASSUME UncutInv, PhotoInv,
         \/ ChangeContent \/ ChoosePhoto \/ ProcessDone \/ CancelEdit
         \/ \E id \in Listed : SelectEdit(id)
  PROVE  PhotoInv'
<1>0. media' = media /\ attempts' = attempts /\ late' = late /\ op' = None
  BY DEF ChangeContent, ChoosePhoto, ProcessDone, CancelEdit, SelectEdit, Idle, pending, server
<1>1. FormUncut /\ FormChosen /\ files \in Nat
  BY DEF UncutInv, PhotoInv
<1>2. CASE ChangeContent
  <2>1. PICK content : form' = [form EXCEPT !.content = content]
    BY <1>2 DEF ChangeContent
  <2>2. /\ form'.file = form.file /\ form'.originalFile = form.originalFile
        /\ form'.original = form.original
    BY <1>1, <2>1 DEF FormUncut
  <2>3. Grows
    BY <1>0 DEF Grows
  <2>4. FormChosen'
    BY <1>1, <2>2, <2>3, FormChosenStays
  <2> QED BY <1>0, <2>4, OpOther, PhotosStay
<1>3. CASE ChoosePhoto
  <2>1. /\ form'.file = File("chosen") /\ form'.originalFile = File("chosen")
        /\ form'.original = None
    BY <1>1, <1>3 DEF ChoosePhoto, FormUncut, RowFields
  <2>2. File("chosen") # First
    BY <1>1 DEF File, First
  <2>3. FormChosen'
    BY <2>1, <2>2 DEF FormChosen
  <2> QED BY <1>0, <2>3, OpOther, PhotosStay
<1>4. CASE ProcessDone
  <2> DEFINE source == OriginalSource
             shown  == IF op.mode = "restore" THEN OriginalSource ELSE File("processed")
  <2>1. form' = [form EXCEPT !.originalFile = source, !.file = shown]
    BY <1>4 DEF ProcessDone
  <2>2. shown = source \/ shown[1] = "processed"
    BY DEF File
  <2>3. IF form.original # None THEN Stores(media, form.original, source) ELSE source # First
    <3>1. CASE form.originalFile # None
      BY <1>1, <3>1 DEF OriginalSource, FormChosen
    <3>2. CASE form.originalFile = None
      <4>1. HasSource
        BY <1>4 DEF ProcessDone, pending, UncutInv, OpUncut
      <4>2. form.original # None /\ form.original \in DOMAIN media
        BY <1>1, <3>2, <4>1 DEF FormUncut, HasSource, UncutRow, Uncut
      <4> QED BY <3>2, <4>2 DEF OriginalSource, Kept, Stores
    <3> QED BY <3>1, <3>2
  <2> HIDE DEF source, shown
  <2>4. form'.originalFile = source /\ form'.file = shown /\ form'.original = form.original
    BY <1>1, <2>1 DEF FormUncut, RowFields
  <2>5. FormChosen'
    BY <1>0, <2>2, <2>3, <2>4 DEF FormChosen
  <2> QED BY <1>0, <2>5, OpOther, PhotosStay
<1>5. CASE CancelEdit \/ \E id \in Listed : SelectEdit(id)
  <2>1. form' = emptyWardrobeForm \/ \E row : form' = wardrobeFormFromItem(row)
    BY <1>5 DEF CancelEdit, CloseEditor, SelectEdit
  <2> QED BY <1>0, <2>1, FormLeft, OpOther, PhotosStay
<1> QED BY <1>2, <1>3, <1>4, <1>5

LEMMA OthersChosen ==
  ASSUME PhotoInv,
         \/ \E mode \in {"make", "restore"} : Process(mode)
         \/ \E id \in Listed : InspectDelete(id)
         \/ ReloadEditing \/ Remove \/ AddSamples \/ ProcessFails \/ PollFails
         \/ ChoosePolicy \/ KeepItem \/ RetryList \/ Elsewhere \/ UNCHANGED vars
  PROVE  PhotoInv'
<1>0. media' = media /\ attempts' = attempts /\ late' = late /\ form' = form
  BY DEF Process, InspectDelete, ReloadEditing, Remove, AddSamples, ProcessFails, PollFails,
         ChoosePolicy, KeepItem, RetryList, Elsewhere, vars, draft, server
<1>1. Grows
  BY <1>0 DEF Grows
<1>2. FormChosen'
  BY <1>0, <1>1, FormChosenStays DEF PhotoInv
<1>3. CASE /\ op' # None
           /\ op'.kind \in {"process", "impact", "reload", "delete", "sample"}
  BY <1>0, <1>2, <1>3, OpOther, PhotosStay DEF Uploading
<1>4. CASE op' = None
  BY <1>0, <1>2, <1>4, OpOther, PhotosStay
<1>5. CASE op' = op
  BY <1>0, <1>1, <1>2, <1>5, OpChosenStays, PhotosStay DEF PhotoInv
<1>6. CASE \/ \E mode \in {"make", "restore"} : Process(mode)
           \/ \E id \in Listed : InspectDelete(id)
           \/ ReloadEditing \/ Remove \/ AddSamples
  <2>1. op' # None => op'.kind \in {"process", "impact", "reload", "delete", "sample"}
    BY <1>6 DEF Process, InspectDelete, ReloadEditing, Remove, AddSamples, SampleRequest, Ask, Request
  <2> QED BY <1>3, <1>4, <2>1
<1>7. CASE ProcessFails \/ PollFails
  BY <1>4, <1>7 DEF ProcessFails, PollFails
<1>8. CASE ChoosePolicy \/ KeepItem \/ RetryList \/ Elsewhere \/ UNCHANGED vars
  BY <1>5, <1>8 DEF ChoosePolicy, KeepItem, RetryList, Elsewhere, vars
<1> QED BY <1>6, <1>7, <1>8

LEMMA ReplyChosen ==
  ASSUME UncutInv, PhotoInv, ReplyShown \/ ReplyFails
  PROVE  PhotoInv'
<1>0. media' = media /\ attempts' = attempts /\ late' \subseteq late \union ({op} \ {None})
  BY DEF ReplyShown, ReplyFails, pending, server
<1>1. /\ op # None /\ op.kind \in Requests /\ RequestUncut(media, op)
      /\ FormChosen /\ OpChosen /\ Grows
  BY <1>0 DEF ReplyShown, ReplyFails, pending, UncutInv, OpUncut, Requests, PhotoInv, Grows
<1>2. CASE ReplyShown /\ op.kind = "complete"
  <2>1. op' = [op EXCEPT !.kind = "poll"] /\ form' = form
    BY <1>2 DEF ReplyShown, Closes, draft
  <2>2. /\ op'.kind = "poll" /\ op'.id = op.id
        /\ op'.goal = op.goal /\ op'.original = op.original
    BY <1>1, <2>1 DEF RequestUncut, Shape
  <2>3. Brings(media', form', op')
    BY <1>0, <1>1, <1>2, <2>1, <2>2 DEF OpChosen, Brings, Uploading
  <2>4. OpChosen'
    BY <2>2, <2>3 DEF OpChosen
  <2>5. FormChosen'
    BY <1>1, <2>1, FormChosenStays
  <2> QED BY <1>0, <2>2, <2>4, <2>5, PhotosStay
<1>3. CASE ReplyShown /\ op.kind # "complete"
  <2>1. op' # None => op'.kind = "sample"
    BY <1>3 DEF ReplyShown, SampleRequest, Request
  <2>2. OpChosen'
    BY <2>1, OpOther DEF Uploading
  <2>3. FormChosen'
    <3>1. CASE form' = form
      BY <1>1, <3>1, FormChosenStays
    <3>2. CASE form' = emptyWardrobeForm \/ form' = wardrobeFormFromItem(op.reply)
      BY <3>2, FormLeft
    <3> QED BY <1>3, <3>1, <3>2 DEF ReplyShown, CloseEditor, draft
  <2> QED BY <1>0, <2>1, <2>2, <2>3, PhotosStay
<1>4. CASE ReplyFails
  <2>1. op' = None /\ form' = form
    BY <1>4 DEF ReplyFails, draft
  <2>2. FormChosen'
    BY <1>1, <2>1, FormChosenStays
  <2> QED BY <1>0, <2>1, <2>2, OpOther, PhotosStay
<1> QED BY <1>2, <1>3, <1>4

LEMMA PhotosInitially == Init => PhotoInv
<1> SUFFICES ASSUME Init PROVE PhotoInv
  OBVIOUS
<1>1. FormChosen
  BY DEF Init, FormChosen, emptyWardrobeForm
<1>2. OpChosen
  BY DEF Init, OpChosen
<1>3. CompletedInv
  <2>1. DOMAIN media = {1} /\ media[1].file = First
    BY DEF Init, First
  <2>2. DOMAIN attempts = {} /\ late = {} /\ {op} \ {None} = {}
    BY DEF Init
  <2> QED BY <2>1, <2>2 DEF CompletedInv
<1> QED BY <1>1, <1>2, <1>3 DEF PhotoInv

LEMMA PhotosStep == UncutInv /\ PhotoInv /\ [Next]_vars => PhotoInv'
<1> SUFFICES ASSUME UncutInv, PhotoInv, [Next]_vars PROVE PhotoInv'
  OBVIOUS
<1>1. CASE \/ ChangeContent \/ ChoosePhoto \/ ProcessDone \/ CancelEdit
           \/ \E id \in Listed : SelectEdit(id)
  BY <1>1, FormUsedChosen
<1>2. CASE \/ \E mode \in {"make", "restore"} : Process(mode)
           \/ \E id \in Listed : InspectDelete(id)
           \/ ReloadEditing \/ Remove \/ AddSamples \/ ProcessFails \/ PollFails
           \/ ChoosePolicy \/ KeepItem \/ RetryList \/ Elsewhere \/ UNCHANGED vars
  BY <1>2, OthersChosen
<1>3. CASE Save \/ PutDone \/ PutFails \/ PollReady
  BY <1>3, SaveChosen, PutDoneChosen, PutFailsChosen, PollReadyChosen
<1>4. CASE Handle \/ ReplyShown \/ ReplyFails \/ \E o \in late : Arrive(o)
  BY <1>4, HandleChosen, ReplyChosen, ArriveChosen
<1>5. CASE \E id \in DOMAIN media : CheckMedia(id)
  BY <1>5, CheckMediaChosen
<1> QED BY <1>1, <1>2, <1>3, <1>4, <1>5 DEF Next

\* Whatever was chosen, cut, restored and uploaded in whatever attempts, an item
\* is saved with the photo of the form, and with the original of that photo.
THEOREM SavedPhotoIsTheChosenOneAlways == Spec => []SavedPhotoIsTheChosenOne
<1>1. PhotoInv => SavedPhotoIsTheChosenOne
  BY DEF PhotoInv, OpChosen, Stores, SavedPhotoIsTheChosenOne, pending
<1> QED BY <1>1, UncutInitially, UncutStep, PhotosInitially, PhotosStep, PTL DEF Spec

\* A photo is completed under one media id only, however often its save is
\* repeated and whatever was still on its way when it was.
THEOREM UploadedOnceAlways == Spec => []UploadedOnce
<1>1. PhotoInv => UploadedOnce
  <2> SUFFICES ASSUME PhotoInv, NEW a \in DOMAIN media, NEW b \in DOMAIN media,
                      media[a].file = media[b].file, ~Pending(media, a), ~Pending(media, b)
               PROVE  a = b
    BY DEF UploadedOnce, Pending
  <2> QED BY DEF PhotoInv, CompletedInv, Remembered, Stores
<1> QED BY <1>1, UncutInitially, UncutStep, PhotosInitially, PhotosStep, PTL DEF Spec

-----------------------------------------------------------------------------
(* Items: a draft has one id until it is saved or left.                     *)

OneID ==
  /\ nextID \in Nat
  /\ createID = None => tried = {}
  /\ createID # None => tried \subseteq {createID}

LEMMA WriteKeepsID ==
  ASSUME OneID, NEW photo, NEW original, Write(photo, original)
  PROVE  OneID'
<1>1. CASE editing # None
  BY <1>1 DEF Write, OneID
<1>2. CASE editing = None
  <2>1. createID' = DraftID /\ tried' = tried \union {DraftID} /\ nextID' \in Nat
    BY <1>2 DEF Write, OneID
  <2>2. CASE createID = None
    <3>1. createID' = nextID /\ tried' = {nextID}
      BY <2>1, <2>2 DEF DraftID, OneID
    <3> QED BY <2>1, <3>1, NoneAssumption DEF OneID
  <2>3. CASE createID # None
    BY <2>1, <2>3 DEF DraftID, OneID
  <2> QED BY <2>2, <2>3
<1> QED BY <1>1, <1>2

LEMMA OneIDStep == OneID /\ [Next]_vars => OneID'
<1> SUFFICES ASSUME OneID, [Next]_vars PROVE OneID'
  OBVIOUS
<1>1. CASE Save
  BY <1>1, WriteKeepsID DEF Save, OneID
<1>2. CASE PollReady
  BY <1>2, WriteKeepsID DEF PollReady, OneID
<1>3. CASE CancelEdit \/ ReplyShown
  BY <1>3 DEF CancelEdit, ReplyShown, CloseEditor, draft, OneID
<1>4. CASE ChangeContent \/ ChoosePhoto \/ ProcessDone \/ \E id \in Listed : SelectEdit(id)
  BY <1>4 DEF ChangeContent, ChoosePhoto, ProcessDone, SelectEdit, OneID
<1>5. CASE \/ \E mode \in {"make", "restore"} : Process(mode)
           \/ \E id \in Listed : InspectDelete(id)
           \/ ReloadEditing \/ Remove \/ AddSamples \/ ProcessFails \/ PollFails
  BY <1>5 DEF Process, InspectDelete, ReloadEditing, Remove, AddSamples, ProcessFails, PollFails,
              draft, OneID
<1>6. CASE PutDone \/ PutFails \/ Handle \/ ReplyFails \/ Elsewhere
  BY <1>6 DEF PutDone, PutFails, Handle, ReplyFails, Elsewhere, draft, OneID
<1>7. ASSUME NEW o, Arrive(o) PROVE OneID'
  BY <1>7 DEF Arrive, draft, OneID
<1>8. ASSUME NEW id, CheckMedia(id) PROVE OneID'
  BY <1>8 DEF CheckMedia, draft, OneID
<1>9. CASE ChoosePolicy \/ KeepItem \/ RetryList \/ UNCHANGED vars
  BY <1>9 DEF ChoosePolicy, KeepItem, RetryList, vars, draft, OneID
<1> QED BY <1>1, <1>2, <1>3, <1>4, <1>5, <1>6, <1>7, <1>8, <1>9 DEF Next

\* However often a draft is saved again, wherever the save stopped and whenever
\* each attempt arrives, it is one item at most.
THEOREM OneItemPerDraftAlways == Spec => []OneItemPerDraft
<1>1. Init => OneID
  BY BoundAssumption DEF Init, OneID
<1>2. OneID => OneItemPerDraft
  <2> SUFFICES ASSUME OneID PROVE OneItemPerDraft
    OBVIOUS
  <2> DEFINE stored == tried \intersect (DOMAIN items \union deleted)
  <2>1. stored \subseteq {createID}
    BY DEF OneID
  <2>2. IsFiniteSet({createID}) /\ Cardinality({createID}) = 1
    BY FS_Singleton
  <2>3. Cardinality(stored) <= 1
    BY <2>1, <2>2, FS_Subset
  <2> QED BY <2>3 DEF OneItemPerDraft
<1> QED BY <1>1, <1>2, OneIDStep, PTL DEF Spec

-----------------------------------------------------------------------------
(* The items of the server: a revision names one content of one item.       *)

ServerInv ==
  /\ \A id \in DOMAIN items : "revision" \in DOMAIN items[id] /\ items[id].revision \in Nat
  /\ "disturbances" \in DOMAIN bounds /\ bounds.disturbances \in Nat

\* How a step may change the items.
Onward ==
  /\ DOMAIN items \union deleted \subseteq DOMAIN items' \union deleted'
  /\ \A id \in DOMAIN items' :
       \/ id \notin DOMAIN items \union deleted
       \/ id \in DOMAIN items /\ items'[id] = items[id]
       \/ id \in DOMAIN items /\ items'[id].revision = items[id].revision + 1

Bounded == "disturbances" \in DOMAIN bounds /\ bounds.disturbances \in Nat

LEMMA BoundSpent ==
  ASSUME Bounded, NEW what \in {"changes", "requests", "disturbances"}, Spends(what)
  PROVE  Bounded' /\ (what = "disturbances" => bounds'.disturbances # bounds.disturbances)
<1>1. bounds' = [bounds EXCEPT ![what] = bounds[what] - 1] /\ bounds[what] > 0
  BY DEF Spends
<1>2. CASE what = "disturbances"
  <2> DEFINE less == bounds.disturbances - 1
  <2>1. less \in Nat /\ less # bounds.disturbances
    BY <1>1, <1>2 DEF Bounded
  <2>2. bounds' = [bounds EXCEPT !["disturbances"] = less]
    BY <1>1, <1>2
  <2> HIDE DEF less
  <2>3. DOMAIN bounds' = DOMAIN bounds /\ bounds'.disturbances = less
    BY <2>2 DEF Bounded
  <2> QED BY <2>1, <2>3 DEF Bounded
<1>3. CASE what # "disturbances"
  <2>1. DOMAIN bounds' = DOMAIN bounds /\ bounds'.disturbances = bounds.disturbances
    BY <1>1, <1>3 DEF Bounded
  <2> QED BY <1>3, <2>1 DEF Bounded
<1> QED BY <1>2, <1>3

LEMMA ServerInitially == Init => ServerInv
<1> SUFFICES ASSUME Init PROVE ServerInv
  OBVIOUS
<1>1. \A id \in DOMAIN items : "revision" \in DOMAIN items[id] /\ items[id].revision \in Nat
  BY DEF Init
<1>2. "disturbances" \in DOMAIN bounds /\ bounds.disturbances \in Nat
  BY BoundAssumption DEF Init
<1> QED BY <1>1, <1>2 DEF ServerInv

\* A row replaced under its id by one with the next revision.
LEMMA ReplacedOnward ==
  ASSUME ServerInv, Bounded', NEW id \in DOMAIN items, NEW row,
         "revision" \in DOMAIN row, row.revision = items[id].revision + 1,
         items' = [items EXCEPT ![id] = row], deleted' = deleted
  PROVE  ServerInv' /\ Onward
<1>1. row.revision \in Nat
  BY DEF ServerInv
<1>2. DOMAIN items' = DOMAIN items /\ items'[id] = row
  OBVIOUS
<1>3. \A other \in DOMAIN items : other # id => items'[other] = items[other]
  OBVIOUS
<1>4. \A other \in DOMAIN items' :
        "revision" \in DOMAIN items'[other] /\ items'[other].revision \in Nat
  BY <1>1, <1>2, <1>3 DEF ServerInv
<1>5. Onward
  BY <1>2, <1>3 DEF Onward
<1> QED BY <1>4, <1>5 DEF ServerInv, Bounded

LEMMA RemovedOnward ==
  ASSUME ServerInv, Bounded', NEW id,
         items' = Restrict(items, DOMAIN items \ {id}), deleted' = deleted \union {id}
  PROVE  ServerInv' /\ Onward
<1>1. items' = [other \in DOMAIN items \ {id} |-> items[other]]
  BY DEF Restrict
<1>2. Onward
  BY <1>1 DEF Onward
<1>3. \A other \in DOMAIN items' :
        "revision" \in DOMAIN items'[other] /\ items'[other].revision \in Nat
  BY <1>1 DEF ServerInv
<1> QED BY <1>2, <1>3 DEF ServerInv, Bounded

LEMMA ItemsUnchanged ==
  ASSUME ServerInv, Bounded', items' = items, deleted' = deleted
  PROVE  ServerInv' /\ Onward
BY DEF ServerInv, Onward, Bounded

LEMMA CarryOutOnward ==
  ASSUME ServerInv, Bounded', NEW o, Accepted(o), CarryOut(o)
  PROVE  ServerInv' /\ Onward
<1>1. CASE o.kind \in {"create", "sample"} /\ o.id \notin DOMAIN items
  <2> DEFINE new == NewItem(o.fields)
  <2>1. new.revision = 1 /\ "revision" \in DOMAIN new
    BY DEF NewItem
  <2>2. items' = [id \in DOMAIN items \union {o.id} |-> IF id = o.id THEN new ELSE items[id]]
    BY <1>1 DEF CarryOut
  <2>3. deleted' = deleted
    BY <1>1 DEF CarryOut
  <2>4. o.id \notin deleted
    BY <1>1 DEF Accepted, CreateAccepted
  <2> HIDE DEF new
  <2>5. \A id \in DOMAIN items' : "revision" \in DOMAIN items'[id] /\ items'[id].revision \in Nat
    BY <2>1, <2>2 DEF ServerInv
  <2>6. Onward
    BY <1>1, <2>2, <2>3, <2>4 DEF Onward
  <2> QED BY <2>5, <2>6 DEF ServerInv, Bounded
<1>2. CASE o.kind = "update"
  <2> DEFINE new == Updated(items[o.id], o.fields)
  <2>1. o.id \in DOMAIN items
    BY <1>2 DEF Accepted
  <2>2. items' = [items EXCEPT ![o.id] = new] /\ deleted' = deleted
    BY <1>2 DEF CarryOut
  <2>3. "revision" \in DOMAIN new /\ new.revision = items[o.id].revision + 1
    BY DEF Updated
  <2> HIDE DEF new
  <2> QED BY <2>1, <2>2, <2>3, ReplacedOnward
<1>3. CASE o.kind = "delete"
  <2>1. items' = Restrict(items, DOMAIN items \ {o.id}) /\ deleted' = deleted \union {o.id}
    BY <1>3 DEF CarryOut
  <2> QED BY <2>1, RemovedOnward
<1>4. CASE /\ ~(o.kind \in {"create", "sample"} /\ o.id \notin DOMAIN items)
           /\ o.kind \notin {"update", "delete"}
  <2>1. items' = items /\ deleted' = deleted
    BY <1>4 DEF CarryOut
  <2> QED BY <2>1, ItemsUnchanged
<1> QED BY <1>1, <1>2, <1>3, <1>4

LEMMA ElsewhereOnward ==
  ASSUME ServerInv, Elsewhere
  PROVE  ServerInv' /\ Onward
<1>1. Bounded'
  BY BoundSpent DEF Elsewhere, Disturbed, ServerInv, Bounded
<1>2. PICK id \in DOMAIN items : ChangeItemElsewhere(id)
  BY DEF Elsewhere
<1>3. CASE /\ items' = [items EXCEPT ![id].revision = @ + 1]
           /\ UNCHANGED <<deleted, impact>>
  <2> DEFINE next == items[id].revision + 1
             new  == [items[id] EXCEPT !.revision = next]
  <2>1. items' = [items EXCEPT ![id] = new] /\ deleted' = deleted
    BY <1>3
  <2>2. "revision" \in DOMAIN items[id]
    BY DEF ServerInv
  <2> HIDE DEF next
  <2>3. "revision" \in DOMAIN new /\ new.revision = next
    BY <2>2
  <2> HIDE DEF new
  <2>4. new.revision = items[id].revision + 1
    BY <2>3 DEF next
  <2> QED BY <1>1, <2>1, <2>3, <2>4, ReplacedOnward
<1>4. CASE items' = Restrict(items, DOMAIN items \ {id}) /\ deleted' = deleted \union {id}
  BY <1>1, <1>4, RemovedOnward
<1>5. CASE items' = items /\ deleted' = deleted
  BY <1>1, <1>5, ItemsUnchanged
<1> QED BY <1>2, <1>3, <1>4, <1>5 DEF ChangeItemElsewhere

LEMMA BoundedStep == Bounded /\ [Next]_vars => Bounded'
<1> SUFFICES ASSUME Bounded, [Next]_vars PROVE Bounded'
  OBVIOUS
<1>1. CASE ChangeContent \/ Save \/ ReloadEditing \/ Remove \/ AddSamples
           \/ \E id \in Listed : InspectDelete(id)
  BY <1>1, BoundSpent DEF ChangeContent, Save, ReloadEditing, Remove, AddSamples, InspectDelete, Ask
<1>2. CASE ProcessFails \/ PutFails \/ Elsewhere
  BY <1>2, BoundSpent DEF ProcessFails, PutFails, Elsewhere, Disturbed
<1>3. CASE ReplyFails
  <2>1. CASE UNCHANGED bounds
    BY <2>1 DEF Bounded
  <2>2. CASE Disturbed
    BY <2>2, BoundSpent DEF Disturbed
  <2> QED BY <1>3, <2>1, <2>2 DEF ReplyFails
<1>4. CASE bounds' = bounds
  BY <1>4 DEF Bounded
<1>5. CASE ChoosePhoto \/ ProcessDone \/ CancelEdit \/ ChoosePolicy \/ KeepItem
           \/ (\E mode \in {"make", "restore"} : Process(mode))
           \/ (\E id \in Listed : SelectEdit(id))
  BY <1>4, <1>5 DEF ChoosePhoto, ProcessDone, CancelEdit, ChoosePolicy, KeepItem, Process, SelectEdit
<1>6. CASE PutDone \/ PollReady \/ PollFails \/ Handle \/ ReplyShown \/ RetryList
           \/ (\E o \in late : Arrive(o)) \/ (\E id \in DOMAIN media : CheckMedia(id))
           \/ UNCHANGED vars
  BY <1>4, <1>6 DEF PutDone, PollReady, PollFails, Handle, ReplyShown, RetryList, Arrive,
                    CheckMedia, vars
<1> QED BY <1>1, <1>2, <1>3, <1>5, <1>6 DEF Next

\* Only requests carried out and other devices change items.
LEMMA ItemsStep ==
  ASSUME Next
  PROVE  \/ items' = items /\ deleted' = deleted
         \/ Handle /\ op # None /\ op.kind \in Requests /\ Accepted(op) /\ CarryOut(op)
         \/ \E o \in late : Arrive(o) /\ Accepted(o) /\ CarryOut(o)
         \/ Elsewhere
<1> USE DEF server
<1>1. CASE ChangeContent \/ Save \/ ReloadEditing \/ Remove \/ AddSamples
           \/ \E id \in Listed : InspectDelete(id)
  BY <1>1 DEF ChangeContent, Save, ReloadEditing, Remove, AddSamples, InspectDelete
<1>2. CASE ProcessFails \/ PutFails \/ ReplyFails
  BY <1>2 DEF ProcessFails, PutFails, ReplyFails
<1>3. CASE ChoosePhoto \/ ProcessDone \/ CancelEdit \/ ChoosePolicy \/ KeepItem
           \/ (\E mode \in {"make", "restore"} : Process(mode))
           \/ (\E id \in Listed : SelectEdit(id))
  BY <1>3 DEF ChoosePhoto, ProcessDone, CancelEdit, ChoosePolicy, KeepItem, Process, SelectEdit
<1>4. CASE PutDone \/ PollReady \/ PollFails \/ ReplyShown \/ RetryList
           \/ (\E id \in DOMAIN media : CheckMedia(id))
  BY <1>4 DEF PutDone, PollReady, PollFails, ReplyShown, RetryList, CheckMedia
<1>5. CASE Handle
  BY <1>5 DEF Handle, pending
<1>6. CASE \E o \in late : Arrive(o)
  BY <1>6 DEF Arrive
<1> QED BY <1>1, <1>2, <1>3, <1>4, <1>5, <1>6 DEF Next

LEMMA ServerStep == ServerInv /\ [Next]_vars => ServerInv' /\ Onward
<1> SUFFICES ASSUME ServerInv, [Next]_vars PROVE ServerInv' /\ Onward
  OBVIOUS
<1>0. Bounded'
  BY BoundedStep DEF ServerInv, Bounded
<1>1. CASE items' = items /\ deleted' = deleted
  BY <1>0, <1>1, ItemsUnchanged
<1>2. CASE Handle /\ Accepted(op) /\ CarryOut(op)
  BY <1>0, <1>2, CarryOutOnward
<1>3. CASE \E o \in late : Arrive(o) /\ Accepted(o) /\ CarryOut(o)
  BY <1>0, <1>3, CarryOutOnward
<1>4. CASE Elsewhere
  BY <1>4, ElsewhereOnward
<1>5. CASE UNCHANGED vars
  BY <1>1, <1>5 DEF vars, server
<1> QED BY <1>1, <1>2, <1>3, <1>4, <1>5, ItemsStep

-----------------------------------------------------------------------------
(* Rows: every row of an item that the page holds, wherever it holds it, was *)
(* that item at its revision, and is that item as long as the revision is.   *)

Known(rows, dead, id, row) ==
  /\ id \in DOMAIN rows \union dead
  /\ row.revision \in Nat
  /\ id \in DOMAIN rows => /\ row.revision <= rows[id].revision
                           /\ row.revision = rows[id].revision => row = rows[id]

KnownNow(id, row) == Known(items, deleted, id, row)

\* The requests that stand on a row.
Based == {"update", "reload", "impact", "delete"}

StandsOn(rows, dead, o) ==
  /\ Shape \subseteq DOMAIN o
  /\ o.kind \in Based => Known(rows, dead, o.id, o.base)

ListKnown     == \A id \in Listed : KnownNow(id, list[id])
EditingKnown  == editing # None => KnownNow(editing.id, editing.row)
DeletionKnown == deletion # None => KnownNow(deletion.id, deletion.row)
OpKnown ==
  op # None /\ op.kind # "process" =>
    /\ StandsOn(items, deleted, op)
    /\ op.fate = "done" /\ op.kind \in {"update", "reload"} => KnownNow(op.id, op.reply)
LateKnown ==
  \A o \in late : o # None /\ o.kind \in Requests /\ StandsOn(items, deleted, o)

PageInv == ListKnown /\ EditingKnown /\ DeletionKnown /\ OpKnown /\ LateKnown

LEMMA KnownStays ==
  ASSUME ServerInv, ServerInv', Onward
  PROVE  /\ \A id, row : Known(items, deleted, id, row) => Known(items', deleted', id, row)
         /\ \A o : StandsOn(items, deleted, o) => StandsOn(items', deleted', o)
<1>1. ASSUME NEW id, NEW row, Known(items, deleted, id, row)
      PROVE  Known(items', deleted', id, row)
  <2>1. id \in DOMAIN items' \union deleted' /\ row.revision \in Nat
    BY <1>1 DEF Known, Onward
  <2>2. ASSUME id \in DOMAIN items'
        PROVE  /\ row.revision <= items'[id].revision
               /\ row.revision = items'[id].revision => row = items'[id]
    <3>1. id \in DOMAIN items
      BY <1>1, <2>2 DEF Onward, Known
    <3>2. items[id].revision \in Nat /\ row.revision <= items[id].revision
      BY <1>1, <3>1 DEF ServerInv, Known
    <3>3. CASE items'[id] = items[id]
      BY <1>1, <3>1, <3>3 DEF Known
    <3>4. CASE items'[id].revision = items[id].revision + 1
      BY <2>1, <3>2, <3>4
    <3> QED BY <1>1, <2>2, <3>1, <3>3, <3>4 DEF Onward, Known
  <2> QED BY <2>1, <2>2 DEF Known
<1> QED BY <1>1 DEF StandsOn

LEMMA StoredIsKnown ==
  ASSUME ServerInv'
  PROVE  \A id \in DOMAIN items' : Known(items', deleted', id, items'[id])
BY DEF ServerInv, Known

\* The parts of the page that a step leaves alone, and the list read again.
LEMMA ListKnownStays ==
  ASSUME ServerInv, ServerInv', Onward, ListKnown, list' = list \/ list' \in {items', None}
  PROVE  ListKnown'
BY KnownStays, StoredIsKnown DEF ListKnown, Listed, KnownNow

LEMMA EditingKnownStays ==
  ASSUME ServerInv, ServerInv', Onward, EditingKnown, editing' = editing
  PROVE  EditingKnown'
BY KnownStays DEF EditingKnown, KnownNow

LEMMA DeletionKnownStays ==
  ASSUME ServerInv, ServerInv', Onward, DeletionKnown,
         \/ deletion' = deletion
         \/ deletion' = None
         \/ deletion' # None /\ deletion # None /\ deletion'.id = deletion.id /\ deletion'.row = deletion.row
  PROVE  DeletionKnown'
BY KnownStays DEF DeletionKnown, KnownNow

LEMMA OpKnownStays ==
  ASSUME ServerInv, ServerInv', Onward, OpKnown, op' = op
  PROVE  OpKnown'
BY KnownStays DEF OpKnown, KnownNow

LEMMA LateKnownStays ==
  ASSUME ServerInv, ServerInv', Onward, LateKnown, late' \subseteq late
  PROVE  LateKnown'
BY KnownStays DEF LateKnown

\* What is sent stands on a row the page holds.
LEMMA RequestKnown ==
  ASSUME NEW kind, NEW id, NEW base, NEW fields, op' = Request(kind, id, base, fields),
         kind \in Based => Known(items', deleted', id, base)
  PROVE  OpKnown'
<1>1. /\ Shape \subseteq DOMAIN op' /\ op'.kind = kind /\ op'.id = id /\ op'.base = base
      /\ op'.fate = "sent"
  BY DEF Request, Shape
<1> QED BY <1>1 DEF OpKnown, StandsOn, KnownNow

LEMMA UploadKnown ==
  ASSUME NEW file, NEW goal, NEW original, op' = Upload(file, goal, original)
  PROVE  OpKnown'
<1>1. Shape \subseteq DOMAIN op' /\ op'.kind \in {"put", "complete"}
  BY DEF Upload, Request, Shape
<1> QED BY <1>1 DEF OpKnown, StandsOn, Based

LEMMA WriteKnown ==
  ASSUME ServerInv, ServerInv', Onward, EditingKnown, NEW photo, NEW original, Write(photo, original)
  PROVE  OpKnown'
<1>1. CASE editing # None
  <2>1. Known(items', deleted', editing.id, editing.row)
    BY <1>1, KnownStays DEF EditingKnown, KnownNow
  <2>2. PICK fields : op' = Request("update", editing.id, editing.row, fields)
    BY <1>1 DEF Write
  <2> QED BY <2>1, <2>2, RequestKnown
<1>2. CASE editing = None
  <2>1. PICK fields : op' = Request("create", DraftID, None, fields)
    BY <1>2 DEF Write
  <2> QED BY <2>1, RequestKnown DEF Based
<1> QED BY <1>1, <1>2

LEMMA PageInitially == Init => PageInv
<1> SUFFICES ASSUME Init PROVE PageInv
  OBVIOUS
<1>1. \A id \in DOMAIN items : items[id].revision \in Nat
  BY ServerInitially DEF ServerInv
<1>2. ListKnown
  BY <1>1 DEF Init, ListKnown, Listed, KnownNow, Known
<1> QED BY <1>2 DEF Init, PageInv, EditingKnown, DeletionKnown, OpKnown, LateKnown

-----------------------------------------------------------------------------
(* The rows the page holds, step by step.                                   *)

LEMMA KnownAfterUse ==
  ASSUME ServerInv, ServerInv', Onward, PageInv,
         \/ ChangeContent \/ ChoosePhoto \/ CancelEdit \/ ChoosePolicy \/ KeepItem \/ RetryList
         \/ ProcessDone \/ ProcessFails \/ PutFails \/ PollFails \/ PutDone
         \/ \E id \in Listed : SelectEdit(id)
         \/ \E mode \in {"make", "restore"} : Process(mode)
         \/ \E id \in DOMAIN media : CheckMedia(id)
  PROVE  PageInv'
<1>1. late' = late
  BY DEF ChangeContent, ChoosePhoto, CancelEdit, ChoosePolicy, KeepItem, RetryList, ProcessDone,
         ProcessFails, PutFails, PollFails, PutDone, SelectEdit, Process, CheckMedia
<1>2. list' = list \/ list' \in {items', None}
  BY DEF ChangeContent, ChoosePhoto, CancelEdit, ChoosePolicy, KeepItem, RetryList, ProcessDone,
         ProcessFails, PutFails, PollFails, PutDone, SelectEdit, Process, CheckMedia, server
<1>3. EditingKnown'
  <2>1. CASE editing' = editing
    BY <2>1, EditingKnownStays DEF PageInv
  <2>2. CASE CancelEdit
    BY <2>2 DEF CancelEdit, CloseEditor, EditingKnown
  <2>3. ASSUME NEW id \in Listed, SelectEdit(id) PROVE EditingKnown'
    <3>1. editing' = [id |-> id, row |-> list[id]]
      BY <2>3 DEF SelectEdit, Row
    <3>2. Known(items', deleted', id, list[id])
      BY KnownStays DEF PageInv, ListKnown, KnownNow
    <3> QED BY <3>1, <3>2 DEF EditingKnown, KnownNow
  <2> QED BY <2>1, <2>2, <2>3
          DEF ChangeContent, ChoosePhoto, ChoosePolicy, KeepItem, RetryList, ProcessDone,
              ProcessFails, PutFails, PollFails, PutDone, Process, CheckMedia, draft
<1>4. DeletionKnown'
  <2>1. CASE deletion' = deletion \/ deletion' = None
    BY <2>1, DeletionKnownStays DEF PageInv
  <2>2. CASE ChoosePolicy
    <3>1. PICK policy : deletion' = [deletion EXCEPT !.policy = policy]
      BY <2>2 DEF ChoosePolicy
    <3>2. deletion # None
      BY <2>2 DEF ChoosePolicy
    <3>3. deletion'.id = deletion.id /\ deletion'.row = deletion.row
      BY <3>1
    <3> QED BY <3>2, <3>3, KnownStays DEF PageInv, DeletionKnown, KnownNow
  <2> QED BY <2>1, <2>2
          DEF ChangeContent, ChoosePhoto, CancelEdit, KeepItem, RetryList, ProcessDone,
              ProcessFails, PutFails, PollFails, PutDone, SelectEdit, Process, CheckMedia
<1>5. OpKnown'
  <2>1. CASE op' = op
    BY <2>1, OpKnownStays DEF PageInv
  <2>2. CASE op' = None
    BY <2>2 DEF OpKnown
  <2>3. ASSUME NEW mode, Process(mode) PROVE OpKnown'
    <3>1. op' = [kind |-> "process", mode |-> mode]
      BY <2>3 DEF Process
    <3> QED BY <3>1 DEF OpKnown
  <2>4. CASE PutDone
    <3>1. op # None /\ op.kind = "put" /\ Shape \subseteq DOMAIN op
      BY <2>4 DEF PutDone, pending, PageInv, OpKnown, StandsOn
    <3> DEFINE id == Len(media')
    <3>2. op' = [op EXCEPT !.kind = "complete", !.id = id]
      BY <2>4 DEF PutDone
    <3> HIDE DEF id
    <3>3. Shape \subseteq DOMAIN op' /\ op'.kind = "complete"
      BY <3>1, <3>2 DEF Shape
    <3> QED BY <3>3 DEF OpKnown, StandsOn, Based
  <2> QED BY <2>1, <2>2, <2>3, <2>4
          DEF ChangeContent, ChoosePhoto, CancelEdit, ChoosePolicy, KeepItem, RetryList,
              ProcessDone, ProcessFails, PutFails, PollFails, SelectEdit, CheckMedia
<1> QED BY <1>1, <1>2, <1>3, <1>4, <1>5, ListKnownStays, LateKnownStays DEF PageInv

LEMMA KnownAfterAsking ==
  ASSUME ServerInv, ServerInv', Onward, PageInv,
         \/ Save \/ PollReady \/ ReloadEditing \/ Remove \/ AddSamples
         \/ \E id \in Listed : InspectDelete(id)
  PROVE  PageInv'
<1>1. /\ list' = list /\ editing' = editing /\ deletion' = deletion /\ late' = late
  BY DEF Save, PollReady, ReloadEditing, Remove, AddSamples, InspectDelete, draft
<1>2. OpKnown'
  <2>1. CASE Save
    <3>1. \/ \E photo, original : Write(photo, original)
          \/ \E file, goal, original : op' = Upload(file, goal, original)
      BY <2>1 DEF Save
    <3> QED BY <3>1, WriteKnown, UploadKnown DEF PageInv
  <2>2. CASE PollReady
    <3>1. \/ \E photo, original : Write(photo, original)
          \/ \E file, goal, original : op' = Upload(file, goal, original)
      BY <2>2 DEF PollReady
    <3> QED BY <3>1, WriteKnown, UploadKnown DEF PageInv
  <2>3. CASE ReloadEditing
    <3>1. editing # None /\ op' = Request("reload", editing.id, editing.row, None)
      BY <2>3 DEF ReloadEditing, Ask
    <3>2. Known(items', deleted', editing.id, editing.row)
      BY <3>1, KnownStays DEF PageInv, EditingKnown, KnownNow
    <3> QED BY <3>1, <3>2, RequestKnown
  <2>4. ASSUME NEW id \in Listed, InspectDelete(id) PROVE OpKnown'
    <3>1. op' = Request("impact", id, list[id], None)
      BY <2>4 DEF InspectDelete, Ask
    <3>2. Known(items', deleted', id, list[id])
      BY KnownStays DEF PageInv, ListKnown, KnownNow
    <3> QED BY <3>1, <3>2, RequestKnown
  <2>5. CASE Remove
    <3>1. /\ deletion # None
          /\ op' = [Request("delete", deletion.id, deletion.row, None)
                      EXCEPT !.impact = deletion.impact]
      BY <2>5 DEF Remove, Ask
    <3>2. Known(items', deleted', deletion.id, deletion.row)
      BY <3>1, KnownStays DEF PageInv, DeletionKnown, KnownNow
    <3>3. /\ Shape \subseteq DOMAIN op' /\ op'.kind = "delete" /\ op'.id = deletion.id
          /\ op'.base = deletion.row
      BY <3>1 DEF Request, Shape
    <3> QED BY <3>2, <3>3 DEF OpKnown, StandsOn, KnownNow
  <2>6. CASE AddSamples
    <3>1. \E id, fields : op' = Request("sample", id, None, fields)
      BY <2>6 DEF AddSamples, Ask, SampleRequest
    <3> QED BY <3>1, RequestKnown DEF Based
  <2> QED BY <2>1, <2>2, <2>3, <2>4, <2>5, <2>6
<1> QED BY <1>1, <1>2, ListKnownStays, EditingKnownStays, DeletionKnownStays, LateKnownStays
        DEF PageInv

LEMMA KnownAfterHandlingRest ==
  ASSUME ServerInv, ServerInv', Onward, PageInv, Handle, OpKnown'
  PROVE  PageInv'
<1>1. list' = list /\ editing' = editing /\ deletion' = deletion /\ late' = late
  BY DEF Handle, draft
<1> QED BY <1>1, ListKnownStays, EditingKnownStays, DeletionKnownStays, LateKnownStays DEF PageInv

\* The server's answer: the row it has by now.
LEMMA KnownAfterHandling ==
  ASSUME ServerInv, ServerInv', Onward, PageInv, Handle
  PROVE  PageInv'
<1>0. /\ op # None /\ op.kind \in Requests /\ op.kind # "process" /\ op.fate = "sent"
      /\ StandsOn(items', deleted', op) /\ Shape \subseteq DOMAIN op
  BY KnownStays DEF Handle, pending, PageInv, OpKnown, StandsOn, Requests
<1>1. CASE Accepted(op)
  <2> DEFINE answer == IF op.kind # "complete" /\ op.id \in DOMAIN items' THEN items'[op.id] ELSE None
             digest == IF op.kind = "impact" THEN impact ELSE op.impact
  <2>1. op' = [op EXCEPT !.fate = "done", !.impact = digest, !.reply = answer]
    BY <1>1 DEF Handle
  <2>2. op.kind \in {"update", "reload"} => op.id \in DOMAIN items'
    <3>1. op.kind = "update" => op.id \in DOMAIN items /\ DOMAIN items' = DOMAIN items
      BY <1>1 DEF Accepted, Handle, CarryOut
    <3>2. op.kind = "reload" => op.id \in DOMAIN items /\ items' = items
      BY <1>1 DEF Accepted, Handle, CarryOut
    <3> QED BY <3>1, <3>2
  <2>3. op.kind \in {"update", "reload"} => Known(items', deleted', op.id, answer)
    BY <2>2, StoredIsKnown
  <2> HIDE DEF answer, digest
  <2>4. /\ DOMAIN op' = DOMAIN op /\ op'.kind = op.kind /\ op'.id = op.id /\ op'.base = op.base
        /\ op'.reply = answer
    BY <1>0, <2>1 DEF Shape
  <2>5. OpKnown'
    BY <1>0, <2>3, <2>4 DEF OpKnown, StandsOn, KnownNow
  <2> QED BY <2>5, KnownAfterHandlingRest
<1>2. CASE ~Accepted(op)
  <2>1. op' = [op EXCEPT !.fate = "refused"]
    BY <1>2 DEF Handle
  <2>2. /\ DOMAIN op' = DOMAIN op /\ op'.kind = op.kind /\ op'.id = op.id /\ op'.base = op.base
        /\ op'.fate = "refused"
    BY <1>0, <2>1 DEF Shape
  <2>3. OpKnown'
    BY <1>0, <2>2 DEF OpKnown, StandsOn, KnownNow
  <2> QED BY <2>3, KnownAfterHandlingRest
<1> QED BY <1>1, <1>2

LEMMA KnownAfterReply ==
  ASSUME ServerInv, ServerInv', Onward, PageInv, ReplyShown
  PROVE  PageInv'
<1>0. /\ op # None /\ op.kind \in Requests /\ op.kind # "process" /\ op.fate = "done"
      /\ Shape \subseteq DOMAIN op /\ StandsOn(items', deleted', op)
      /\ op.kind \in {"update", "reload"} => Known(items', deleted', op.id, op.reply)
  BY KnownStays DEF ReplyShown, pending, PageInv, OpKnown, StandsOn, Requests, KnownNow
<1>1. items' = items /\ late' = late /\ (list' = list \/ list' \in {items', None})
  BY DEF ReplyShown, server, Refreshed
<1>2. OpKnown'
  <2>1. CASE op.kind = "complete"
    <3>1. op' = [op EXCEPT !.kind = "poll"]
      BY <2>1 DEF ReplyShown
    <3>2. Shape \subseteq DOMAIN op' /\ op'.kind = "poll"
      BY <1>0, <3>1 DEF Shape
    <3> QED BY <3>2 DEF OpKnown, StandsOn, Based
  <2>2. CASE op.kind = "sample" /\ list # None /\ Missing(op.id) # {}
    <3>1. \E id, fields : op' = Request("sample", id, None, fields)
      BY <2>2 DEF ReplyShown, SampleRequest
    <3> QED BY <3>1, RequestKnown DEF Based
  <2>3. CASE ~(op.kind = "complete") /\ ~(op.kind = "sample" /\ list # None /\ Missing(op.id) # {})
    <3>1. op' = None
      BY <2>3 DEF ReplyShown
    <3> QED BY <3>1 DEF OpKnown
  <2> QED BY <2>1, <2>2, <2>3
<1>3. EditingKnown'
  <2>1. CASE op.kind \in {"update", "reload"} /\ editing' = [id |-> op.id, row |-> op.reply]
    BY <1>0, <2>1 DEF EditingKnown, KnownNow
  <2>2. CASE editing' = editing
    BY <2>2, EditingKnownStays DEF PageInv
  <2>3. CASE CloseEditor
    BY <2>3 DEF CloseEditor, EditingKnown
  <2> QED BY <2>1, <2>2, <2>3 DEF ReplyShown, draft
<1>4. DeletionKnown'
  <2>1. CASE op.kind = "impact"
    <3>1. deletion' = [id |-> op.id, row |-> op.base, impact |-> op.impact,
                       policy |-> "redact_snapshots"]
      BY <2>1 DEF ReplyShown
    <3>2. Known(items', deleted', op.id, op.base)
      BY <1>0, <2>1 DEF StandsOn, Based
    <3> QED BY <3>1, <3>2 DEF DeletionKnown, KnownNow
  <2>2. CASE op.kind # "impact"
    <3>1. deletion' = deletion \/ deletion' = None
      BY <2>2 DEF ReplyShown
    <3> QED BY <3>1, DeletionKnownStays DEF PageInv
  <2> QED BY <2>1, <2>2
<1> QED BY <1>1, <1>2, <1>3, <1>4, ListKnownStays, LateKnownStays DEF PageInv

LEMMA KnownAfterFailure ==
  ASSUME ServerInv, ServerInv', Onward, PageInv, ReplyFails
  PROVE  PageInv'
<1>0. op # None /\ op.kind \in Requests /\ StandsOn(items', deleted', op)
  BY KnownStays DEF ReplyFails, pending, PageInv, OpKnown, Requests
<1>1. /\ items' = items /\ editing' = editing /\ op' = None
      /\ list' = list \/ list' \in {items', None}
      /\ deletion' = deletion \/ deletion' = None
      /\ late' \subseteq late \union {op}
  BY DEF ReplyFails, draft, server, Refreshed
<1>2. LateKnown'
  BY <1>0, <1>1, KnownStays DEF PageInv, LateKnown
<1>3. OpKnown'
  BY <1>1 DEF OpKnown
<1> QED BY <1>1, <1>2, <1>3, ListKnownStays, EditingKnownStays, DeletionKnownStays DEF PageInv

Inv == ServerInv /\ PageInv

LEMMA InvStep == Inv /\ [Next]_vars => Inv'
<1> SUFFICES ASSUME ServerInv, PageInv, [Next]_vars PROVE Inv'
  BY DEF Inv
<1>0. ServerInv' /\ Onward
  BY ServerStep
<1> SUFFICES PageInv'
  BY <1>0 DEF Inv
<1>1. CASE \/ ChangeContent \/ ChoosePhoto \/ CancelEdit \/ ChoosePolicy \/ KeepItem \/ RetryList
           \/ ProcessDone \/ ProcessFails \/ PutFails \/ PollFails \/ PutDone
           \/ \E id \in Listed : SelectEdit(id)
           \/ \E mode \in {"make", "restore"} : Process(mode)
           \/ \E id \in DOMAIN media : CheckMedia(id)
  BY <1>0, <1>1, KnownAfterUse
<1>2. CASE \/ Save \/ PollReady \/ ReloadEditing \/ Remove \/ AddSamples
           \/ \E id \in Listed : InspectDelete(id)
  BY <1>0, <1>2, KnownAfterAsking
<1>3. CASE Handle \/ ReplyShown \/ ReplyFails
  BY <1>0, <1>3, KnownAfterHandling, KnownAfterReply, KnownAfterFailure
<1>4. CASE Elsewhere \/ (\E o \in late : Arrive(o)) \/ UNCHANGED vars
  <2>1. /\ list' = list /\ editing' = editing /\ deletion' = deletion /\ op' = op
        /\ late' \subseteq late
    BY <1>4 DEF Elsewhere, Arrive, vars, draft
  <2> QED BY <1>0, <2>1, ListKnownStays, EditingKnownStays, DeletionKnownStays, OpKnownStays,
             LateKnownStays DEF PageInv
<1> QED BY <1>1, <1>2, <1>3, <1>4 DEF Next

-----------------------------------------------------------------------------
(* No change is overwritten unseen.                                         *)

\* What a request does, it does to the row it stands on.
LEMMA CarryOutIsSeen ==
  ASSUME NEW o, StandsOn(items, deleted, o), Accepted(o), CarryOut(o),
         NEW id \in DOMAIN items, ~(id \in DOMAIN items' /\ items'[id] = items[id])
  PROVE  o.id = id /\ o.base = items[id] /\ (o.kind = "delete" => o.impact = impact)
<1>1. o.kind \in {"update", "delete"}
  <2>1. ASSUME o.kind \notin {"update", "delete"} PROVE FALSE
    BY <2>1 DEF CarryOut
  <2> QED BY <2>1
<1>2. o.id = id
  <2>1. CASE o.kind = "delete"
    BY <2>1 DEF CarryOut, Restrict
  <2>2. CASE o.kind = "update"
    BY <2>2 DEF CarryOut
  <2> QED BY <1>1, <2>1, <2>2
<1>3. items[id].revision = o.base.revision /\ (o.kind = "delete" => o.impact = impact)
  BY <1>1, <1>2 DEF Accepted, ImpactMatches
<1>4. Known(items, deleted, id, o.base)
  BY <1>1, <1>2 DEF StandsOn, Based
<1> QED BY <1>2, <1>3, <1>4 DEF Known

LEMMA StepIsSeen == Inv /\ [Next]_vars => [EveryChangeIsSeen]_vars
<1> SUFFICES ASSUME ServerInv, PageInv, Next PROVE EveryChangeIsSeen
  BY DEF Inv
<1>1. CASE items' = items
  BY <1>1 DEF EveryChangeIsSeen
<1>2. CASE Elsewhere
  <2>1. bounds'.disturbances # bounds.disturbances /\ op' = op
    BY <1>2, BoundSpent DEF Elsewhere, Disturbed, ServerInv, Bounded
  <2> QED BY <2>1 DEF EveryChangeIsSeen
<1>3. ASSUME NEW o \in late \union {op}, o # None, o.kind \in Requests,
             StandsOn(items, deleted, o), Accepted(o), CarryOut(o)
      PROVE  EveryChangeIsSeen
  <2>1. \A id \in DOMAIN items :
          \/ id \in DOMAIN items' /\ items'[id] = items[id]
          \/ o.id = id /\ o.base = items[id] /\ (o.kind = "delete" => o.impact = impact)
    BY <1>3, CarryOutIsSeen
  <2> QED BY <1>3, <2>1 DEF EveryChangeIsSeen
<1>4. CASE Handle /\ op # None /\ op.kind \in Requests /\ Accepted(op) /\ CarryOut(op)
  <2>1. StandsOn(items, deleted, op)
    BY <1>4 DEF PageInv, OpKnown, Requests
  <2> QED BY <1>3, <1>4, <2>1
<1>5. ASSUME NEW o \in late, Accepted(o), CarryOut(o) PROVE EveryChangeIsSeen
  BY <1>3, <1>5 DEF PageInv, LateKnown
<1> QED BY <1>1, <1>2, <1>4, <1>5, ItemsStep

\* A change made elsewhere is never overwritten or deleted unseen, however many
\* items, devices, lost replies and late requests there are: the revision a
\* request carries names the very row its owner had before their eyes, and a
\* deletion takes with it what its owner was shown, and nothing else.
THEOREM NothingIsOverwrittenUnseenAlways == Spec => NothingIsOverwrittenUnseen
<1>1. Init => Inv
  BY ServerInitially, PageInitially DEF Inv
<1> QED BY <1>1, InvStep, StepIsSeen, PTL DEF Spec, NothingIsOverwrittenUnseen

=============================================================================
