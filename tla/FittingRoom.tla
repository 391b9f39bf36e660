----------------------------- MODULE FittingRoom -----------------------------
(***************************************************************************)
(* The fitting room (components/fitting-room/fitting-room-view.tsx) with   *)
(* the dialog for one's own photo (components/person/person-photo-dialog)  *)
(* and, in the result view, the dialog for the look draft of LookDraft.    *)
(* A chosen photo is decoded while the owner goes on: decodes end in any   *)
(* order, after a newer choice, after the dialog was closed or the page    *)
(* left.  Photos are shown through object URLs, which the browser keeps    *)
(* until they are revoked.                                                 *)
(*                                                                         *)
(* Files are numbered as they are chosen.  A file has at most two URLs:    *)
(* the dialog's, made to decode it, and the room's, made when it is used.  *)
(***************************************************************************)
EXTENDS LookDraft

CONSTANT Here         \* the tab with the fitting room

ASSUME HereAssumption == Here \in Tabs
ASSUME NoneAssumption == None \notin Nat /\ None \notin [file : Nat, by : {"dialog", "room"}]

VARIABLES view,      \* "room", "result", or "looks" once the page is left
          photo,     \* the URL shown in the room, None for the sample
          person,    \* the photo dialog: open, file, preview, error, checking
          sequence,  \* sequence.current of the dialog
          checks,    \* decodes under way, each with its request
          live,      \* the object URLs not revoked yet
          files,     \* files chosen so far
          wanted     \* the file chosen last in the dialog since it opened

photoVars == <<photo, person, sequence, checks, live, files, wanted>>
vars      == <<draftVars, steps, view, photoVars>>

NewPerson == [open |-> FALSE, file |-> None, preview |-> None,
              error |-> FALSE, checking |-> FALSE]
URL(file, by) == [file |-> file, by |-> by]

Init ==
  /\ DraftInit
  /\ steps = MaxSteps
  /\ view = "room"
  /\ photo = None /\ person = NewPerson
  /\ sequence = 0 /\ checks = {} /\ live = {}
  /\ files = 0 /\ wanted = None

-----------------------------------------------------------------------------
(* The dialog for a photo.  Dialogs are modal: the page waits for them. *)

InRoom   == view = "room" /\ Step /\ UNCHANGED <<storage, notified, dialog, told, view>>
InDialog == InRoom /\ UNCHANGED shown

OpenPerson ==
  /\ InDialog /\ ~person.open
  /\ person' = [person EXCEPT !.open = TRUE]
  /\ UNCHANGED <<photo, sequence, checks, live, files, wanted>>

\* Closing outdates the decode under way.
ClosePersonUncounted ==   \* mutant: the decode under way stays current
  /\ InDialog /\ person.open
  /\ person' = NewPerson
  /\ live' = live \ {person.preview}
  /\ wanted' = None
  /\ UNCHANGED <<photo, sequence, checks, files>>

ClosePerson ==
  /\ InDialog /\ person.open
  /\ person' = NewPerson
  /\ sequence' = sequence + 1
  /\ live' = live \ {person.preview}
  /\ wanted' = None
  /\ UNCHANGED <<photo, checks, files>>

\* A file that passes photoValidationError is decoded; any other only shows
\* the error, and leaves `checking` as it is.
ChooseFile ==
  /\ InDialog /\ person.open
  /\ sequence' = sequence + 1
  /\ files' = files + 1 /\ wanted' = files + 1
  /\ UNCHANGED photo

ChooseValid ==
  /\ ChooseFile
  /\ person' = [NewPerson EXCEPT !.open = TRUE, !.checking = TRUE]
  /\ live' = (live \ {person.preview}) \union {URL(files', "dialog")}
  /\ checks' = checks \union {[file |-> files', request |-> sequence']}

ChooseInvalid ==
  /\ ChooseFile
  /\ person' = [person EXCEPT !.file = None, !.preview = None, !.error = TRUE]
  /\ live' = live \ {person.preview}
  /\ UNCHANGED checks

Current(c) == c.request = sequence

\* On a page that was left, the state set is nobody's; sequence is as it was.
Decoded(c) ==
  /\ checks' = checks \ {c}
  /\ live' = IF Current(c) THEN live ELSE live \ {URL(c.file, "dialog")}
  /\ person' = IF Current(c) /\ view # "looks"
               THEN [person EXCEPT !.file = c.file, !.checking = FALSE,
                                   !.preview = URL(c.file, "dialog")]
               ELSE person
  /\ UNCHANGED <<draftVars, steps, view, photo, sequence, files, wanted>>

DecodeFails(c) ==
  /\ checks' = checks \ {c}
  /\ live' = live \ {URL(c.file, "dialog")}
  /\ person' = IF Current(c) /\ view # "looks"
               THEN [person EXCEPT !.error = TRUE, !.checking = FALSE]
               ELSE person
  /\ UNCHANGED <<draftVars, steps, view, photo, sequence, files, wanted>>

UsePreview ==   \* mutant: the room takes over the dialog's URL
  /\ InRoom /\ person.file # None /\ ~person.checking
  /\ photo' = person.preview
  /\ live' = live \ {photo, person.preview}
  /\ person' = [person EXCEPT !.open = FALSE, !.file = None, !.preview = None]
  /\ wanted' = None
  /\ UNCHANGED <<sequence, checks, files>>
  /\ Rendered(Here)

\* The room makes a URL of its own (ownPhoto); the dialog's goes with it.
\* Closing from here does not go through onOpenChange.
UsePhoto ==
  /\ InRoom /\ person.file # None /\ ~person.checking
  /\ photo' = URL(person.file, "room")
  /\ live' = (live \ {photo, person.preview}) \union {photo'}
  /\ person' = [person EXCEPT !.open = FALSE, !.file = None, !.preview = None]
  /\ wanted' = None
  /\ UNCHANGED <<sequence, checks, files>>
  /\ Rendered(Here)

ResetPhoto ==
  /\ InRoom /\ ~person.open /\ photo # None
  /\ photo' = None
  /\ live' = live \ {photo}
  /\ UNCHANGED <<person, sequence, checks, files, wanted>>
  /\ Rendered(Here)

-----------------------------------------------------------------------------
(* The page *)

\* Each view has its dialog, which begins anew with it.  A new photo dialog
\* counts requests anew and is not asked about the old one's, so that going on
\* counting makes no difference.
Navigate ==
  /\ view # "looks" /\ ~person.open /\ ~dialog[Here].open
  /\ Step
  /\ view' = IF view = "room" THEN "result" ELSE "room"
  /\ person' = NewPerson
  /\ dialog' = [dialog EXCEPT ![Here] = NewDialog]
  /\ UNCHANGED <<storage, notified, told, photo, sequence, checks, live, files, wanted>>
  /\ Rendered(Here)

\* The owner goes to the saved looks, or back in the browser's history, which
\* no dialog stops: the effects revoke what is shown.
Leave ==
  /\ view # "looks"
  /\ Step
  /\ view' = "looks"
  /\ photo' = None /\ person' = NewPerson /\ wanted' = None
  /\ live' = live \ {photo, person.preview}
  /\ dialog' = [dialog EXCEPT ![Here] = NewDialog]
  /\ UNCHANGED <<storage, notified, told, sequence, checks, files>>
  /\ Rendered(Here)

\* The save dialog is in the result view and on the page of a saved look.
SaveLook(t) ==
  /\ DialogStep(t)
  /\ t = Here => \/ view = "result"
                 \/ view = "looks" /\ (dialog[t].open \/ Draft(shown[t]) # None)
  /\ UNCHANGED <<view, photoVars>>

Hear(t) == Notify(t) /\ UNCHANGED <<view, photoVars>>

Next ==
  \/ OpenPerson \/ ClosePerson \/ ChooseValid \/ ChooseInvalid
  \/ \E c \in checks : Decoded(c) \/ DecodeFails(c)
  \/ UsePhoto \/ ResetPhoto \/ Navigate \/ Leave
  \/ \E t \in Tabs : SaveLook(t) \/ Hear(t)

Spec == Init /\ [][Next]_vars

-----------------------------------------------------------------------------

Files == 1 .. files
URLs  == [file : Files, by : {"dialog", "room"}]

TypeOK ==
  /\ view \in {"room", "result", "looks"}
  /\ files \in Nat /\ sequence \in Nat
  /\ checks \subseteq [file : Files, request : 1 .. sequence]
  /\ live \subseteq URLs /\ photo \in URLs \union {None}
  /\ person \in [open : BOOLEAN, file : Files \union {None}, preview : URLs \union {None},
                 error : BOOLEAN, checking : BOOLEAN]
  /\ wanted \in Files \union {None}
  /\ steps \in 0 .. MaxSteps

\* The photo that can be used, and the one previewed, is the file chosen last
\* since the dialog opened: a decode that ends after a newer choice, or after
\* the dialog was closed, changes nothing (sequence in choosePhoto).
ConfirmedIsTheLastChosen ==
  person.file # None => person.file = wanted /\ person.preview = URL(wanted, "dialog")

\* What is shown can be read, and what is not shown is not kept: while the page
\* is there, the object URLs are those of the room, of the preview and of the
\* decodes under way (the effects on photo and preview, and the revocations in
\* choosePhoto).
PhotosAreHeldWhileShown ==
  view # "looks" =>
    live = ({photo, person.preview} \ {None})
             \union {URL(c.file, "dialog") : c \in checks}

\* The same once the page is left and no decode is under way: nothing is kept.
LeavingReleasesPhotos == view = "looks" /\ checks = {} => live = {}

\* The dialog says it is checking only while the file chosen last is decoded
\* ("checking the photo", person-photo-dialog.tsx).
CheckingIsTrue == person.checking => \E c \in checks : Current(c)
=============================================================================
