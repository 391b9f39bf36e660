-------------------------- MODULE FittingRoom_proofs --------------------------
(***************************************************************************)
(* Theorems about FittingRoom, for any tabs, any drafts and any number of  *)
(* photos, decodes and steps of the owner.                                 *)
(***************************************************************************)
EXTENDS FittingRoom, TLAPS

-----------------------------------------------------------------------------
(* The entry and the tabs: a tab shows the entry, or is about to read it.   *)

DraftInv ==
  /\ storage \in [key : Drafts \union {None}, legacyKey : Drafts \union {None, Broken}]
  /\ dialog \in [Tabs -> [open : BOOLEAN, fields : Drafts \union {Blank}, error : BOOLEAN]]
  /\ shown \in [Tabs -> Drafts \union {None, Broken}]
  /\ told = Draft(Snapshot)
  /\ \A t \in Tabs : t \in notified \/ shown[t] = Snapshot

-----------------------------------------------------------------------------
(* The photos: whose URL a decode's is, and what the current decode means.  *)

FilesAreDecodedOnce ==
  \A c \in checks : /\ \A d \in checks : c.file = d.file => c = d
                    /\ c.file # person.file

\* A current decode is of the photo chosen last, which the dialog waits for.
CurrentIsWanted ==
  view # "looks" =>
    \A c \in checks : Current(c) =>
      view = "room" /\ person.open /\ person.file = None /\ wanted = c.file

\* A photo can be used, and is previewed, in the open dialog of the room.
PreviewIsOfTheFile ==
  /\ person.file = None => person.preview = None
  /\ person.file # None => person.open /\ view = "room"

PhotoIsTheRooms == photo # None => photo.by = "room"

PhotoInv ==
  /\ TypeOK
  /\ FilesAreDecodedOnce
  /\ CurrentIsWanted
  /\ PreviewIsOfTheFile
  /\ PhotoIsTheRooms
  /\ ConfirmedIsTheLastChosen
  /\ PhotosAreHeldWhileShown

-----------------------------------------------------------------------------

LEMMA DraftStart == Init => DraftInv
<1> SUFFICES ASSUME Init PROVE DraftInv
  OBVIOUS
<1>1. storage.key = None /\ storage.legacyKey \in Drafts \union {None, Broken}
  BY DEF Init, DraftInit
<1>2. Snapshot = storage.legacyKey
  BY <1>1 DEF Snapshot
<1> QED BY <1>1, <1>2, DraftAssumption DEF Init, DraftInit, DraftInv, NewDialog

\* A tab that renders reads the entry as it is; the others know it or hear of it.
LEMMA RenderedKeeps ==
  ASSUME DraftInv, NEW t \in Tabs, Rendered(t), storage' = storage, told' = told,
         notified' = notified,
         dialog' \in [Tabs -> [open : BOOLEAN, fields : Drafts \union {Blank}, error : BOOLEAN]]
  PROVE  DraftInv'
<1>1. Snapshot' = Snapshot /\ Snapshot \in Drafts \union {None, Broken}
  BY DEF Snapshot, DraftInv
<1> QED BY <1>1 DEF DraftInv, Rendered, Draft

LEMMA DraftStays ==
  ASSUME DraftInv, UNCHANGED draftVars
  PROVE  DraftInv'
BY DEF DraftInv, draftVars, Draft, Snapshot

LEMMA NotifyKeeps ==
  ASSUME DraftInv, NEW t \in Tabs, Notify(t)
  PROVE  DraftInv'
<1>1. Snapshot' = Snapshot /\ Snapshot \in Drafts \union {None, Broken}
  BY DEF Snapshot, DraftInv, Notify
<1> QED BY <1>1 DEF DraftInv, Notify, Rendered, Draft

LEMMA SaveKeeps ==
  ASSUME DraftInv, NEW t \in Tabs, SaveDraft(t)
  PROVE  DraftInv'
<1> DEFINE fields == dialog[t].fields
<1>1. fields \in Drafts /\ fields \notin {None, Broken}
  BY DraftAssumption DEF DraftInv, SaveDraft
<1>2. /\ storage'.key = fields
      /\ storage' \in [key : Drafts \union {None}, legacyKey : Drafts \union {None, Broken}]
  BY <1>1 DEF DraftInv, SaveDraft, Stored
<1>3. Snapshot' = fields /\ told' = Draft(Snapshot)'
  BY <1>1, <1>2 DEF Snapshot, Draft, SaveDraft
<1>4. \A s \in Tabs : s \in notified' \/ shown'[s] = Snapshot'
  <2>1. CASE storage' = storage
    BY <2>1 DEF DraftInv, SaveDraft, Stored, Rendered, Snapshot
  <2>2. CASE storage' # storage
    BY <2>2 DEF DraftInv, SaveDraft, Stored, Rendered
  <2> QED BY <2>1, <2>2
<1>5. shown' \in [Tabs -> Drafts \union {None, Broken}]
  BY <1>1, <1>3 DEF DraftInv, SaveDraft, Rendered
<1>6. dialog' \in [Tabs -> [open : BOOLEAN, fields : Drafts \union {Blank}, error : BOOLEAN]]
  BY DEF DraftInv, SaveDraft
<1> QED BY <1>2, <1>3, <1>4, <1>5, <1>6 DEF DraftInv

LEMMA DialogKeeps ==
  ASSUME DraftInv, NEW t \in Tabs, DialogStep(t)
  PROVE  DraftInv'
<1> DEFINE Dialog == [open : BOOLEAN, fields : Drafts \union {Blank}, error : BOOLEAN]
<1>0. dialog[t] \in Dialog /\ dialog \in [Tabs -> Dialog]
  BY DEF DraftInv
<1>1. CASE OpenDialog(t)
  <2>1. Draft(shown[t]) # None => Draft(shown[t]) \in Drafts
    BY DEF DraftInv, Draft
  <2>2. dialog' \in [Tabs -> Dialog]
    BY <1>0, <1>1, <2>1 DEF OpenDialog
  <2> QED BY <1>1, <2>2, RenderedKeeps DEF OpenDialog
<1>2. CASE CloseDialog(t)
  <2>1. dialog' \in [Tabs -> Dialog]
    BY <1>0, <1>2 DEF CloseDialog
  <2> QED BY <1>2, <2>1, RenderedKeeps DEF CloseDialog
<1>3. CASE TypeDraft(t)
  <2>1. dialog' \in [Tabs -> Dialog]
    <3>1. PICK fields \in Drafts \union {Blank} :
            dialog' = [dialog EXCEPT ![t].fields = fields, ![t].error = FALSE]
      BY <1>3 DEF TypeDraft
    <3> QED BY <1>0, <3>1
  <2> QED BY <1>3, <2>1, RenderedKeeps DEF TypeDraft
<1>4. CASE SaveFails(t)
  <2>1. dialog' \in [Tabs -> Dialog]
    BY <1>0, <1>4 DEF SaveFails
  <2> QED BY <1>4, <2>1, RenderedKeeps DEF SaveFails
<1>5. CASE SaveDraft(t)
  BY <1>5, SaveKeeps
<1> QED BY <1>1, <1>2, <1>3, <1>4, <1>5 DEF DialogStep

\* The page shows the entry anew, or leaves it; a view's dialog begins anew.
LEMMA PageKeepsDraft ==
  ASSUME DraftInv, UNCHANGED <<storage, notified, told>>,
         \/ UNCHANGED <<shown, dialog>>
         \/ /\ Rendered(Here)
            /\ dialog' = dialog \/ dialog' = [dialog EXCEPT ![Here] = NewDialog]
  PROVE  DraftInv'
<1>1. CASE UNCHANGED <<shown, dialog>>
  BY <1>1, DraftStays DEF draftVars
<1>2. CASE /\ Rendered(Here)
           /\ dialog' = dialog \/ dialog' = [dialog EXCEPT ![Here] = NewDialog]
  <2>1. dialog' \in [Tabs -> [open : BOOLEAN, fields : Drafts \union {Blank}, error : BOOLEAN]]
    <3>1. NewDialog \in [open : BOOLEAN, fields : Drafts \union {Blank}, error : BOOLEAN]
      BY DraftAssumption DEF NewDialog
    <3> QED BY <1>2, <3>1 DEF DraftInv
  <2> QED BY <1>2, <2>1, HereAssumption, RenderedKeeps
<1> QED BY <1>1, <1>2

LEMMA DraftStep == DraftInv /\ [Next]_vars => DraftInv'
<1> SUFFICES ASSUME DraftInv, [Next]_vars PROVE DraftInv'
  OBVIOUS
<1>1. CASE OpenPerson \/ ClosePerson \/ ChooseValid \/ ChooseInvalid
  BY <1>1, PageKeepsDraft
     DEF OpenPerson, ClosePerson, ChooseValid, ChooseInvalid, ChooseFile, InDialog, InRoom
<1>2. CASE \E c \in checks : Decoded(c) \/ DecodeFails(c)
  BY <1>2, DraftStays DEF Decoded, DecodeFails
<1>3. CASE UsePhoto \/ ResetPhoto
  BY <1>3, PageKeepsDraft DEF UsePhoto, ResetPhoto, InRoom
<1>4. CASE Navigate \/ Leave
  BY <1>4, PageKeepsDraft DEF Navigate, Leave
<1>5. CASE \E t \in Tabs : SaveLook(t) \/ Hear(t)
  BY <1>5, DialogKeeps, NotifyKeeps DEF SaveLook, Hear
<1>6. CASE UNCHANGED vars
  BY <1>6, DraftStays DEF vars
<1> QED BY <1>1, <1>2, <1>3, <1>4, <1>5, <1>6 DEF Next

\* Every tab shows the draft last reported as saved, or is about to hear of it,
\* whatever the tabs save and in whatever order they hear (useLookDraft).
THEOREM NewestDraftIsShownAlways == Spec => []NewestDraftIsShown
<1>1. DraftInv => NewestDraftIsShown
  <2> SUFFICES ASSUME DraftInv, NEW t \in Tabs, t \notin notified
               PROVE  Draft(shown[t]) = told
    BY DEF NewestDraftIsShown
  <2>1. shown[t] = Snapshot /\ told = Draft(Snapshot)
    BY DEF DraftInv
  <2> QED BY <2>1
<1> QED BY <1>1, DraftStart, DraftStep, PTL DEF Spec

-----------------------------------------------------------------------------

LEMMA PhotoStart == Init => PhotoInv
BY StepsAssumption DEF Init, PhotoInv, TypeOK, Files, URLs, NewPerson, FilesAreDecodedOnce,
   CurrentIsWanted, PreviewIsOfTheFile, PhotoIsTheRooms, ConfirmedIsTheLastChosen,
   PhotosAreHeldWhileShown

LEMMA PhotosStay ==
  ASSUME PhotoInv, UNCHANGED <<view, photoVars>>, steps' \in 0 .. MaxSteps
  PROVE  PhotoInv'
BY DEF PhotoInv, photoVars, TypeOK, Files, URLs, FilesAreDecodedOnce, Current,
   CurrentIsWanted, PreviewIsOfTheFile, PhotoIsTheRooms, ConfirmedIsTheLastChosen,
   PhotosAreHeldWhileShown

LEMMA StepCounts ==
  ASSUME TypeOK, Step
  PROVE  steps' \in 0 .. MaxSteps
BY StepsAssumption DEF TypeOK, Step

LEMMA IsURL ==
  ASSUME TypeOK, NEW f \in Files, NEW by \in {"dialog", "room"}
  PROVE  URL(f, by) \in URLs /\ URL(f, by) # None /\ f # None
BY NoneAssumption DEF TypeOK, Files, URLs, URL

\* A URL is the room's, the preview's or one decode's, never two of them.
LEMMA URLsDiffer ==
  ASSUME PhotoInv, NEW c \in checks
  PROVE  /\ URL(c.file, "dialog") \in URLs
         /\ URL(c.file, "dialog") \notin {None, photo, person.preview}
         /\ \A d \in checks : URL(d.file, "dialog") = URL(c.file, "dialog") => d = c
<1>1. c.file \in Files
  BY DEF PhotoInv, TypeOK
<1>2. URL(c.file, "dialog") \in URLs /\ URL(c.file, "dialog") # None
  BY <1>1, IsURL DEF PhotoInv
<1>3. photo # URL(c.file, "dialog")
  BY <1>2 DEF PhotoInv, PhotoIsTheRooms, URL
<1>4. person.preview # URL(c.file, "dialog")
  BY <1>2 DEF PhotoInv, PreviewIsOfTheFile, ConfirmedIsTheLastChosen, FilesAreDecodedOnce, URL
<1>5. \A d \in checks : URL(d.file, "dialog") = URL(c.file, "dialog") => d = c
  BY DEF PhotoInv, FilesAreDecodedOnce, URL
<1> QED BY <1>2, <1>3, <1>4, <1>5

\* The URLs of the decodes under way.
Decoding == {URL(c.file, "dialog") : c \in checks}

LEMMA PreviewApart ==
  ASSUME PhotoInv
  PROVE  /\ person.preview \notin Decoding /\ photo \notin Decoding
         /\ person.preview # None => person.preview # photo
         /\ None \notin live /\ None \notin Decoding
         /\ view # "looks" => live = ({photo, person.preview} \ {None}) \union Decoding
<1>1. person.preview \notin Decoding /\ photo \notin Decoding /\ None \notin Decoding
  BY URLsDiffer DEF Decoding
<1>2. person.preview # None => person.preview # photo
  BY DEF PhotoInv, PreviewIsOfTheFile, ConfirmedIsTheLastChosen, PhotoIsTheRooms, URL
<1>3. None \notin live
  BY NoneAssumption DEF PhotoInv, TypeOK, URLs, Files
<1> QED BY <1>1, <1>2, <1>3 DEF PhotoInv, PhotosAreHeldWhileShown, Decoding

LEMMA NewPersonTyped ==
  ASSUME TypeOK
  PROVE  NewPerson \in [open : BOOLEAN, file : Files \union {None},
                        preview : URLs \union {None}, error : BOOLEAN, checking : BOOLEAN]
BY DEF NewPerson

LEMMA OpenPersonKeeps == PhotoInv /\ OpenPerson => PhotoInv'
<1> SUFFICES ASSUME PhotoInv, OpenPerson PROVE PhotoInv'
  OBVIOUS
<1>1. /\ UNCHANGED <<view, photo, sequence, checks, live, files, wanted>>
      /\ person' = [person EXCEPT !.open = TRUE]
  BY DEF OpenPerson, InDialog, InRoom
<1>2. /\ person'.file = person.file /\ person'.preview = person.preview /\ person'.open
      /\ person' \in [open : BOOLEAN, file : Files \union {None}, preview : URLs \union {None},
                      error : BOOLEAN, checking : BOOLEAN]
  BY <1>1 DEF PhotoInv, TypeOK
<1>3. TypeOK'
  BY <1>1, <1>2, StepCounts DEF PhotoInv, TypeOK, Files, URLs, OpenPerson, InDialog, InRoom
<1> QED BY <1>1, <1>2, <1>3
        DEF PhotoInv, FilesAreDecodedOnce, CurrentIsWanted, Current, PreviewIsOfTheFile,
            PhotoIsTheRooms, ConfirmedIsTheLastChosen, PhotosAreHeldWhileShown

\* Closing makes every decode an outdated one, and drops the preview.
LEMMA ClosePersonKeeps == PhotoInv /\ ClosePerson => PhotoInv'
<1> SUFFICES ASSUME PhotoInv, ClosePerson PROVE PhotoInv'
  OBVIOUS
<1>1. /\ UNCHANGED <<view, photo, checks, files>>
      /\ sequence' = sequence + 1 /\ wanted' = None /\ person' = NewPerson
      /\ live' = live \ {person.preview} /\ view = "room"
  BY DEF ClosePerson, InDialog, InRoom
<1>2. TypeOK'
  BY <1>1, StepCounts, NewPersonTyped
     DEF PhotoInv, TypeOK, Files, URLs, ClosePerson, InDialog, InRoom
<1>3. \A c \in checks' : ~Current(c)'
  BY <1>1 DEF PhotoInv, TypeOK, Current
<1>4. person'.file = None /\ person'.preview = None
  BY <1>1 DEF NewPerson
<1>5. live' = ({photo} \ {None}) \union Decoding
  BY <1>1, PreviewApart
<1>6. FilesAreDecodedOnce'
  <2>1. \A c \in checks : c.file # None
    BY NoneAssumption DEF PhotoInv, TypeOK, Files
  <2> QED BY <1>1, <1>4, <2>1 DEF PhotoInv, FilesAreDecodedOnce
<1>7. PhotosAreHeldWhileShown'
  BY <1>1, <1>4, <1>5 DEF PhotosAreHeldWhileShown, Decoding
<1> QED BY <1>1, <1>2, <1>3, <1>4, <1>6, <1>7
        DEF PhotoInv, CurrentIsWanted, PreviewIsOfTheFile, PhotoIsTheRooms,
            ConfirmedIsTheLastChosen

\* A chosen file is a new one: no decode and no URL is of it.
LEMMA ChosenIsNew ==
  ASSUME PhotoInv, ChooseFile
  PROVE  /\ files' = files + 1 /\ files' \in Nat /\ Files \subseteq Files'
         /\ files' \in Files' /\ files' \notin Files /\ files' # None
         /\ sequence' = sequence + 1 /\ sequence' \in Nat
         /\ URLs \subseteq URLs' /\ wanted' = files' /\ photo' = photo
         /\ view = "room" /\ view' = view /\ person.open /\ steps' \in 0 .. MaxSteps
         /\ \A c \in checks : c.file \in Files /\ c.request \in 1 .. sequence
         /\ checks \subseteq [file : Files', request : 1 .. sequence']
         /\ URL(files', "dialog") \in URLs' /\ URL(files', "dialog") # None
<1>1. /\ files' = files + 1 /\ sequence' = sequence + 1 /\ wanted' = files + 1
      /\ photo' = photo /\ view' = view /\ view = "room" /\ person.open
  BY DEF ChooseFile, InDialog, InRoom
<1>2. files \in Nat /\ sequence \in Nat /\ checks \subseteq [file : Files, request : 1 .. sequence]
  BY DEF PhotoInv, TypeOK
<1>3. Files \subseteq Files' /\ files' \in Files' /\ files' \notin Files
  BY <1>1, <1>2 DEF Files
<1>4. URLs \subseteq URLs' /\ URL(files', "dialog") \in URLs'
  BY <1>3 DEF URLs, URL
<1>5. files' # None /\ URL(files', "dialog") # None
  BY <1>1, <1>2, NoneAssumption DEF URL
<1>6. steps' \in 0 .. MaxSteps
  BY StepCounts DEF PhotoInv, ChooseFile, InDialog, InRoom
<1>7. checks \subseteq [file : Files', request : 1 .. sequence']
  <2>1. 1 .. sequence \subseteq 1 .. sequence'
    BY <1>1, <1>2
  <2> QED BY <1>2, <1>3, <2>1
<1>8. \A c \in checks : c.file \in Files /\ c.request \in 1 .. sequence
  BY <1>2
<1> QED BY <1>1, <1>2, <1>3, <1>4, <1>5, <1>6, <1>7, <1>8

LEMMA ChooseValidKeeps == PhotoInv /\ ChooseValid => PhotoInv'
<1> SUFFICES ASSUME PhotoInv, ChooseValid PROVE PhotoInv'
  OBVIOUS
<1> DEFINE c0 == [file |-> files', request |-> sequence']
           url == URL(files', "dialog")
<1>1. ChooseFile
  BY DEF ChooseValid
<1>2. /\ person' = [NewPerson EXCEPT !.open = TRUE, !.checking = TRUE]
      /\ live' = (live \ {person.preview}) \union {url}
      /\ checks' = checks \union {c0}
  BY DEF ChooseValid
<1>3. /\ person' \in [open : BOOLEAN, file : Files' \union {None},
                      preview : URLs' \union {None}, error : BOOLEAN, checking : BOOLEAN]
      /\ person'.open /\ person'.file = None /\ person'.preview = None
  BY <1>2 DEF NewPerson
<1>4. TypeOK'
  <2>1. c0 \in [file : Files', request : 1 .. sequence']
    <3>1. files' \in Files' /\ sequence' = sequence + 1
      BY <1>1, ChosenIsNew
    <3>2. sequence' \in 1 .. sequence'
      BY <3>1 DEF PhotoInv, TypeOK
    <3> QED BY <3>1, <3>2
  <2>2. checks' \subseteq [file : Files', request : 1 .. sequence']
    BY <1>1, <1>2, <2>1, ChosenIsNew
  <2>3. live' \subseteq URLs' /\ photo' \in URLs' \union {None}
    BY <1>1, <1>2, ChosenIsNew DEF PhotoInv, TypeOK
  <2> QED BY <1>1, <1>3, <2>2, <2>3, ChosenIsNew DEF TypeOK
<1>5. FilesAreDecodedOnce'
  <2>1. \A c \in checks : c.file # c0.file /\ c.file # None
    BY <1>1, ChosenIsNew, NoneAssumption DEF PhotoInv, TypeOK, Files
  <2>2. c0.file # None
    BY <1>1, ChosenIsNew
  <2> QED BY <1>2, <1>3, <2>1, <2>2 DEF PhotoInv, FilesAreDecodedOnce
<1>6. CurrentIsWanted'
  <2>1. \A c \in checks : c.request # sequence'
    BY <1>1, ChosenIsNew DEF PhotoInv, TypeOK
  <2>2. c0.file = wanted'
    BY <1>1, ChosenIsNew
  <2> QED BY <1>1, <1>2, <1>3, <2>1, <2>2, ChosenIsNew DEF CurrentIsWanted, Current
<1>7. PhotosAreHeldWhileShown'
  <2>1. live = ({photo, person.preview} \ {None}) \union Decoding
    BY <1>1, ChosenIsNew, PreviewApart
  <2>2. Decoding' = Decoding \union {url}
    <3>1. \A u : u \in Decoding' <=> \E c \in checks' : u = URL(c.file, "dialog")
      BY DEF Decoding
    <3>2. \A u : u \in Decoding <=> \E c \in checks : u = URL(c.file, "dialog")
      BY DEF Decoding
    <3>3. checks' = checks \union {c0} /\ c0.file = files'
      BY <1>2
    <3> HIDE DEF c0
    <3>4. \A u : u \in Decoding' <=> u \in Decoding \/ u = url
      BY <3>1, <3>2, <3>3
    <3> QED BY <3>4
  <2>3. live' = ({photo} \ {None}) \union Decoding \union {url}
    BY <1>2, <2>1, PreviewApart
  <2>4. live' = ({photo', person'.preview} \ {None}) \union Decoding'
    BY <1>1, <1>3, <2>2, <2>3, ChosenIsNew
  <2> QED BY <2>4 DEF PhotosAreHeldWhileShown, Decoding
<1> QED BY <1>1, <1>3, <1>4, <1>5, <1>6, <1>7, ChosenIsNew
        DEF PhotoInv, PreviewIsOfTheFile, PhotoIsTheRooms, ConfirmedIsTheLastChosen

LEMMA ChooseInvalidKeeps == PhotoInv /\ ChooseInvalid => PhotoInv'
<1> SUFFICES ASSUME PhotoInv, ChooseInvalid PROVE PhotoInv'
  OBVIOUS
<1>1. ChooseFile
  BY DEF ChooseInvalid
<1>2. /\ person' = [person EXCEPT !.file = None, !.preview = None, !.error = TRUE]
      /\ live' = live \ {person.preview} /\ checks' = checks
  BY DEF ChooseInvalid
<1>3. /\ person' \in [open : BOOLEAN, file : Files' \union {None},
                      preview : URLs' \union {None}, error : BOOLEAN, checking : BOOLEAN]
      /\ person'.file = None /\ person'.preview = None
  BY <1>2 DEF PhotoInv, TypeOK
<1>4. TypeOK'
  <2>1. live' \subseteq URLs' /\ photo' \in URLs' \union {None}
    BY <1>1, <1>2, ChosenIsNew DEF PhotoInv, TypeOK
  <2> QED BY <1>1, <1>2, <1>3, <2>1, ChosenIsNew DEF TypeOK
<1>5. FilesAreDecodedOnce'
  <2>1. \A c \in checks : c.file # None
    BY NoneAssumption DEF PhotoInv, TypeOK, Files
  <2> QED BY <1>2, <1>3, <2>1 DEF PhotoInv, FilesAreDecodedOnce
<1>6. CurrentIsWanted'
  <2>1. \A c \in checks : c.request # sequence'
    BY <1>1, ChosenIsNew DEF PhotoInv, TypeOK
  <2> QED BY <1>2, <2>1 DEF CurrentIsWanted, Current
<1>7. PhotosAreHeldWhileShown'
  <2>1. live' = ({photo} \ {None}) \union Decoding
    BY <1>1, <1>2, ChosenIsNew, PreviewApart
  <2> QED BY <1>1, <1>2, <1>3, <2>1, ChosenIsNew DEF PhotosAreHeldWhileShown, Decoding
<1> QED BY <1>1, <1>3, <1>4, <1>5, <1>6, <1>7, ChosenIsNew
        DEF PhotoInv, PreviewIsOfTheFile, PhotoIsTheRooms, ConfirmedIsTheLastChosen

\* A decode that has ended takes its URL along, and no other.
LEMMA DecodingEnds ==
  ASSUME PhotoInv, NEW c \in checks, checks' = checks \ {c}
  PROVE  Decoding' = Decoding \ {URL(c.file, "dialog")}
<1>1. \A u : u \in Decoding' <=> \E d \in checks : d # c /\ u = URL(d.file, "dialog")
  BY DEF Decoding
<1>2. \A u : u \in Decoding <=> \E d \in checks : u = URL(d.file, "dialog")
  BY DEF Decoding
<1>3. \A d \in checks : URL(d.file, "dialog") = URL(c.file, "dialog") => d = c
  BY URLsDiffer
<1>4. \A u : u \in Decoding' <=> u \in Decoding /\ u # URL(c.file, "dialog")
  BY <1>1, <1>2, <1>3
<1> QED BY <1>4

LEMMA DecodedKeeps == \A c \in checks : PhotoInv /\ Decoded(c) => PhotoInv'
<1> SUFFICES ASSUME NEW c \in checks, PhotoInv, Decoded(c) PROVE PhotoInv'
  OBVIOUS
<1> DEFINE url == URL(c.file, "dialog")
           Person == [open : BOOLEAN, file : Files \union {None},
                      preview : URLs \union {None}, error : BOOLEAN, checking : BOOLEAN]
<1>1. /\ checks' = checks \ {c} /\ steps' = steps
      /\ UNCHANGED <<view, photo, sequence, files, wanted>>
      /\ live' = IF Current(c) THEN live ELSE live \ {url}
  BY DEF Decoded
<1>2. c.file \in Files /\ c.file # None /\ url \in URLs /\ url # None
  BY IsURL DEF PhotoInv, TypeOK
<1>3. Decoding' = Decoding \ {url} /\ url \in Decoding
  BY <1>1, DecodingEnds DEF Decoding
<1>4. TypeOK' <=> person' \in Person
  BY <1>1 DEF PhotoInv, TypeOK, Files, URLs
<1>5. CASE Current(c) /\ view # "looks"
  <2>1. person' = [person EXCEPT !.file = c.file, !.checking = FALSE, !.preview = url]
    BY <1>5 DEF Decoded
  <2>2. /\ person' \in Person /\ person'.file = c.file /\ person'.preview = url
        /\ person'.open = person.open
    BY <1>2, <2>1 DEF PhotoInv, TypeOK
  <2>3. view = "room" /\ person.open /\ person.file = None /\ wanted = c.file
    BY <1>5 DEF PhotoInv, CurrentIsWanted
  <2>4. FilesAreDecodedOnce'
    BY <1>1, <2>2 DEF PhotoInv, FilesAreDecodedOnce
  <2>5. CurrentIsWanted'
    BY <1>1, <1>5, <2>3 DEF PhotoInv, CurrentIsWanted, FilesAreDecodedOnce, Current
  <2>6. PreviewIsOfTheFile' /\ ConfirmedIsTheLastChosen' /\ PhotoIsTheRooms'
    BY <1>1, <1>2, <2>2, <2>3
       DEF PhotoInv, PreviewIsOfTheFile, ConfirmedIsTheLastChosen, PhotoIsTheRooms
  <2>7. PhotosAreHeldWhileShown'
    <3>1. person.preview = None
      BY <2>3 DEF PhotoInv, PreviewIsOfTheFile
    <3>2. live' = ({photo} \ {None}) \union Decoding
      BY <1>1, <1>5, <3>1, PreviewApart
    <3>3. live' = ({photo', person'.preview} \ {None}) \union Decoding'
      BY <1>1, <1>2, <1>3, <2>2, <3>2
    <3> QED BY <3>3 DEF PhotosAreHeldWhileShown, Decoding
  <2> QED BY <1>4, <2>2, <2>4, <2>5, <2>6, <2>7 DEF PhotoInv
<1>6. CASE ~(Current(c) /\ view # "looks")
  <2>1. person' = person
    BY <1>6 DEF Decoded
  <2>2. person' \in Person
    BY <2>1 DEF PhotoInv, TypeOK
  <2>3. FilesAreDecodedOnce' /\ CurrentIsWanted'
    BY <1>1, <2>1 DEF PhotoInv, FilesAreDecodedOnce, CurrentIsWanted, Current
  <2>4. PreviewIsOfTheFile' /\ ConfirmedIsTheLastChosen' /\ PhotoIsTheRooms'
    BY <1>1, <2>1 DEF PhotoInv, PreviewIsOfTheFile, ConfirmedIsTheLastChosen, PhotoIsTheRooms
  <2>5. PhotosAreHeldWhileShown'
    <3>1. CASE view = "looks"
      BY <1>1, <3>1 DEF PhotosAreHeldWhileShown
    <3>2. CASE view # "looks"
      <4>1. url \notin {photo, person.preview}
        BY URLsDiffer
      <4>2. live' = ({photo, person.preview} \ {None}) \union Decoding'
        BY <1>1, <1>3, <1>6, <3>2, <4>1, PreviewApart
      <4> QED BY <1>1, <2>1, <4>2 DEF PhotosAreHeldWhileShown, Decoding
    <3> QED BY <3>1, <3>2
  <2> QED BY <1>4, <2>2, <2>3, <2>4, <2>5 DEF PhotoInv
<1> QED BY <1>5, <1>6

LEMMA DecodeFailsKeeps == \A c \in checks : PhotoInv /\ DecodeFails(c) => PhotoInv'
<1> SUFFICES ASSUME NEW c \in checks, PhotoInv, DecodeFails(c) PROVE PhotoInv'
  OBVIOUS
<1> DEFINE url == URL(c.file, "dialog")
           Person == [open : BOOLEAN, file : Files \union {None},
                      preview : URLs \union {None}, error : BOOLEAN, checking : BOOLEAN]
<1>1. /\ checks' = checks \ {c} /\ steps' = steps
      /\ UNCHANGED <<view, photo, sequence, files, wanted>>
      /\ live' = live \ {url}
      /\ \/ person' = person
         \/ person' = [person EXCEPT !.error = TRUE, !.checking = FALSE]
  BY DEF DecodeFails
<1>2. Decoding' = Decoding \ {url}
  BY <1>1, DecodingEnds
<1>3. /\ person' \in Person /\ person'.file = person.file
      /\ person'.preview = person.preview /\ person'.open = person.open
  BY <1>1 DEF PhotoInv, TypeOK
<1>4. TypeOK'
  BY <1>1, <1>3 DEF PhotoInv, TypeOK, Files, URLs
<1>5. FilesAreDecodedOnce' /\ CurrentIsWanted'
  BY <1>1, <1>3 DEF PhotoInv, FilesAreDecodedOnce, CurrentIsWanted, Current
<1>6. PreviewIsOfTheFile' /\ ConfirmedIsTheLastChosen' /\ PhotoIsTheRooms'
  BY <1>1, <1>3 DEF PhotoInv, PreviewIsOfTheFile, ConfirmedIsTheLastChosen, PhotoIsTheRooms
<1>7. PhotosAreHeldWhileShown'
  <2>1. CASE view = "looks"
    BY <1>1, <2>1 DEF PhotosAreHeldWhileShown
  <2>2. CASE view # "looks"
    <3>1. url \notin {photo, person.preview}
      BY URLsDiffer
    <3>2. live' = ({photo, person.preview} \ {None}) \union Decoding'
      BY <1>1, <1>2, <2>2, <3>1, PreviewApart
    <3> QED BY <1>1, <1>3, <3>2 DEF PhotosAreHeldWhileShown, Decoding
  <2> QED BY <2>1, <2>2
<1> QED BY <1>4, <1>5, <1>6, <1>7 DEF PhotoInv

-----------------------------------------------------------------------------

\* The room takes the photo under a URL of its own, and drops the dialog's.
LEMMA UsePhotoKeeps == PhotoInv /\ UsePhoto => PhotoInv'
<1> SUFFICES ASSUME PhotoInv, UsePhoto PROVE PhotoInv'
  OBVIOUS
<1> DEFINE url == URL(person.file, "room")
<1>1. /\ UNCHANGED <<view, sequence, checks, files>>
      /\ person.file # None /\ view = "room" /\ photo' = url /\ wanted' = None
      /\ live' = (live \ {photo, person.preview}) \union {photo'}
      /\ person' = [person EXCEPT !.open = FALSE, !.file = None, !.preview = None]
  BY DEF UsePhoto, InRoom
<1>2. url \in URLs /\ url # None /\ url.by = "room"
  BY <1>1, IsURL DEF PhotoInv, TypeOK, URL
<1>3. person'.file = None /\ person'.preview = None
  BY <1>1 DEF PhotoInv, TypeOK
<1>4. TypeOK'
  <2>1. person' \in [open : BOOLEAN, file : Files \union {None}, preview : URLs \union {None},
                     error : BOOLEAN, checking : BOOLEAN]
    BY <1>1 DEF PhotoInv, TypeOK
  <2>2. steps' \in 0 .. MaxSteps
    BY StepCounts DEF PhotoInv, UsePhoto, InRoom
  <2> QED BY <1>1, <1>2, <2>1, <2>2 DEF PhotoInv, TypeOK, Files, URLs
<1>5. FilesAreDecodedOnce'
  <2>1. \A c \in checks : c.file # None
    BY NoneAssumption DEF PhotoInv, TypeOK, Files
  <2> QED BY <1>1, <1>3, <2>1 DEF PhotoInv, FilesAreDecodedOnce
<1>6. CurrentIsWanted'
  BY <1>1 DEF PhotoInv, CurrentIsWanted, Current
<1>7. PhotosAreHeldWhileShown'
  <2>1. live' = {photo'} \union Decoding
    BY <1>1, PreviewApart
  <2> QED BY <1>1, <1>2, <1>3, <2>1 DEF PhotosAreHeldWhileShown, Decoding
<1> QED BY <1>1, <1>2, <1>3, <1>4, <1>5, <1>6, <1>7
        DEF PhotoInv, PreviewIsOfTheFile, PhotoIsTheRooms, ConfirmedIsTheLastChosen

LEMMA ResetPhotoKeeps == PhotoInv /\ ResetPhoto => PhotoInv'
<1> SUFFICES ASSUME PhotoInv, ResetPhoto PROVE PhotoInv'
  OBVIOUS
<1>1. /\ UNCHANGED <<view, person, sequence, checks, files, wanted>> /\ view = "room"
      /\ photo # None /\ photo' = None /\ live' = live \ {photo}
  BY DEF ResetPhoto, InRoom
<1>2. TypeOK'
  BY <1>1, StepCounts DEF PhotoInv, TypeOK, Files, URLs, ResetPhoto, InRoom
<1>3. live' = ({photo', person'.preview} \ {None}) \union Decoding
  BY <1>1, PreviewApart
<1>4. PhotosAreHeldWhileShown'
  BY <1>1, <1>3 DEF PhotosAreHeldWhileShown, Decoding
<1> QED BY <1>1, <1>2, <1>4
        DEF PhotoInv, FilesAreDecodedOnce, CurrentIsWanted, Current, PreviewIsOfTheFile,
            PhotoIsTheRooms, ConfirmedIsTheLastChosen

\* With its dialog closed the room waits for no decode.
LEMMA NavigateKeeps == PhotoInv /\ Navigate => PhotoInv'
<1> SUFFICES ASSUME PhotoInv, Navigate PROVE PhotoInv'
  OBVIOUS
<1>1. /\ UNCHANGED <<photo, sequence, checks, live, files, wanted>>
      /\ view # "looks" /\ view' \in {"room", "result"} /\ ~person.open
      /\ person' = NewPerson
  BY DEF Navigate
<1>2. person.file = None /\ person.preview = None
  BY <1>1 DEF PhotoInv, PreviewIsOfTheFile
<1>3. person'.file = None /\ person'.preview = None
  BY <1>1 DEF NewPerson
<1>4. TypeOK'
  BY <1>1, StepCounts, NewPersonTyped DEF PhotoInv, TypeOK, Files, URLs, Navigate
<1>5. FilesAreDecodedOnce' /\ CurrentIsWanted'
  BY <1>1, <1>2, <1>3 DEF PhotoInv, FilesAreDecodedOnce, CurrentIsWanted, Current
<1>6. PhotosAreHeldWhileShown'
  BY <1>1, <1>2, <1>3 DEF PhotoInv, PhotosAreHeldWhileShown
<1> QED BY <1>1, <1>3, <1>4, <1>5, <1>6
        DEF PhotoInv, PreviewIsOfTheFile, PhotoIsTheRooms, ConfirmedIsTheLastChosen

LEMMA LeaveKeeps == PhotoInv /\ Leave => PhotoInv'
<1> SUFFICES ASSUME PhotoInv, Leave PROVE PhotoInv'
  OBVIOUS
<1>1. /\ UNCHANGED <<sequence, checks, files>>
      /\ view' = "looks" /\ photo' = None /\ person' = NewPerson /\ wanted' = None
      /\ live' = live \ {photo, person.preview}
  BY DEF Leave
<1>2. person'.file = None /\ person'.preview = None
  BY <1>1 DEF NewPerson
<1>3. TypeOK'
  BY <1>1, StepCounts, NewPersonTyped DEF PhotoInv, TypeOK, Files, URLs, Leave
<1>4. FilesAreDecodedOnce'
  <2>1. \A c \in checks : c.file # None
    BY NoneAssumption DEF PhotoInv, TypeOK, Files
  <2> QED BY <1>1, <1>2, <2>1 DEF PhotoInv, FilesAreDecodedOnce
<1> QED BY <1>1, <1>2, <1>3, <1>4
        DEF PhotoInv, CurrentIsWanted, PreviewIsOfTheFile, PhotoIsTheRooms,
            ConfirmedIsTheLastChosen, PhotosAreHeldWhileShown

\* The draft's dialog and the other tabs have no part in the photos.
LEMMA DraftsKeepPhotos ==
  ASSUME PhotoInv, NEW t \in Tabs, SaveLook(t) \/ Hear(t)
  PROVE  PhotoInv'
<1>1. UNCHANGED <<view, photoVars>>
  BY DEF SaveLook, Hear
<1>2. steps' \in 0 .. MaxSteps
  <2>1. Step \/ steps' = steps
    BY DEF SaveLook, Hear, Notify, DialogStep, OpenDialog, CloseDialog, TypeDraft, SaveFails,
           SaveDraft
  <2> QED BY <2>1, StepCounts DEF PhotoInv, TypeOK
<1> QED BY <1>1, <1>2, PhotosStay

LEMMA PhotoStep == PhotoInv /\ [Next]_vars => PhotoInv'
<1> SUFFICES ASSUME PhotoInv, [Next]_vars PROVE PhotoInv'
  OBVIOUS
<1>1. CASE OpenPerson \/ ClosePerson \/ ChooseValid \/ ChooseInvalid
  BY <1>1, OpenPersonKeeps, ClosePersonKeeps, ChooseValidKeeps, ChooseInvalidKeeps
<1>2. CASE \E c \in checks : Decoded(c) \/ DecodeFails(c)
  BY <1>2, DecodedKeeps, DecodeFailsKeeps
<1>3. CASE UsePhoto \/ ResetPhoto \/ Navigate \/ Leave
  BY <1>3, UsePhotoKeeps, ResetPhotoKeeps, NavigateKeeps, LeaveKeeps
<1>4. CASE \E t \in Tabs : SaveLook(t) \/ Hear(t)
  BY <1>4, DraftsKeepPhotos
<1>5. CASE UNCHANGED vars
  BY <1>5, PhotosStay DEF vars, PhotoInv, TypeOK
<1> QED BY <1>1, <1>2, <1>3, <1>4, <1>5 DEF Next

\* The photo that can be used is the one chosen last since the dialog opened,
\* in whatever order the decodes end (sequence in choosePhoto).
THEOREM ConfirmedIsTheLastChosenAlways == Spec => []ConfirmedIsTheLastChosen
<1>1. PhotoInv => ConfirmedIsTheLastChosen
  BY DEF PhotoInv
<1> QED BY <1>1, PhotoStart, PhotoStep, PTL DEF Spec

\* While the page is there, what it shows can be read and nothing else is kept,
\* for any number of photos and decodes.
THEOREM PhotosAreHeldWhileShownAlways == Spec => []PhotosAreHeldWhileShown
<1>1. PhotoInv => PhotosAreHeldWhileShown
  BY DEF PhotoInv
<1> QED BY <1>1, PhotoStart, PhotoStep, PTL DEF Spec
=============================================================================
