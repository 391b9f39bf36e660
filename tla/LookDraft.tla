------------------------------ MODULE LookDraft ------------------------------
(***************************************************************************)
(* The look draft the browser keeps (hooks/look/use-look-draft.ts) and the *)
(* dialog that saves it (components/look/save-look-dialog.tsx).  It is one *)
(* entry of localStorage, shared by all tabs of the browser; an entry of   *)
(* the previous brand is read until a save replaces it.  A tab shows what  *)
(* it read last: it reads again when it renders and when a storage event   *)
(* of another tab arrives.  FittingRoom composes this with the page.       *)
(***************************************************************************)
EXTENDS Naturals

CONSTANTS Tabs,       \* tabs of one browser
          Drafts,     \* names and scenes a draft may have
          Default,    \* the ones the dialog starts with
          Blank,      \* typed, but a name of spaces only
          Broken,     \* an entry that is no draft
          None,       \* no entry, nothing shown
          MaxSteps    \* bound on what the owner does

ASSUME DraftAssumption == Default \in Drafts /\ {Blank, Broken, None} \cap Drafts = {}
ASSUME StepsAssumption == MaxSteps \in Nat

VARIABLES storage,   \* the entries of localStorage under key and legacyKey
          shown,     \* per tab: the entry it read last
          notified,  \* tabs a storage event is on its way to
          dialog,    \* per tab: the save dialog
          told,      \* the draft last reported as saved (before: the legacy one)
          steps      \* what the owner may still do

draftVars == <<storage, shown, notified, dialog, told>>

NewDialog == [open |-> FALSE, fields |-> Default, error |-> FALSE]

\* The raw entry (snapshot) and the draft in it (parseDraft).
SnapshotLegacyFirst ==   \* mutant: the previous brand's entry is read first
  IF storage.legacyKey # None THEN storage.legacyKey ELSE storage.key

Snapshot == IF storage.key # None THEN storage.key ELSE storage.legacyKey
Draft(raw) == IF raw = Broken THEN None ELSE raw

DraftInit ==
  /\ storage \in [key : {None}, legacyKey : Drafts \union {None, Broken}]
  /\ shown = [t \in Tabs |-> Snapshot]
  /\ notified = {}
  /\ dialog = [t \in Tabs |-> NewDialog]
  /\ told = Draft(storage.legacyKey)

Step == steps > 0 /\ steps' = steps - 1

-----------------------------------------------------------------------------

\* What a tab does renders it, and that reads the entry.
Rendered(t) == shown' = [shown EXCEPT ![t] = Snapshot']

\* Opening takes the draft the tab shows; without one, what was typed stays.
OpenDialog(t) ==
  /\ Step /\ ~dialog[t].open
  /\ dialog' = [dialog EXCEPT ![t] =
       [open   |-> TRUE,
        fields |-> IF Draft(shown[t]) # None THEN Draft(shown[t]) ELSE @.fields,
        error  |-> FALSE]]
  /\ UNCHANGED <<storage, notified, told>>
  /\ Rendered(t)

CloseDialog(t) ==
  /\ Step /\ dialog[t].open
  /\ dialog' = [dialog EXCEPT ![t].open = FALSE, ![t].error = FALSE]
  /\ UNCHANGED <<storage, notified, told>>
  /\ Rendered(t)

TypeDraft(t) ==
  /\ Step /\ dialog[t].open
  /\ \E fields \in (Drafts \union {Blank}) \ {dialog[t].fields} :
       dialog' = [dialog EXCEPT ![t].fields = fields, ![t].error = FALSE]
  /\ UNCHANGED <<storage, notified, told>>
  /\ Rendered(t)

\* The entry is written first; the legacy one may refuse to go.  Other tabs
\* hear of it if an entry changed.
Stored(t, fields) ==
  /\ \E legacy \in {None, storage.legacyKey} :
       storage' = [key |-> fields, legacyKey |-> legacy]
  /\ notified' = notified \union (IF storage' # storage THEN Tabs \ {t} ELSE {})

\* A blank name, or a browser that does not store: the dialog stays with what
\* was typed and nothing is reported as saved.
SaveFails(t) ==
  /\ Step /\ dialog[t].open
  /\ dialog' = [dialog EXCEPT ![t].error = TRUE]
  /\ UNCHANGED <<storage, notified, told>>
  /\ Rendered(t)

SaveDraft(t) ==
  /\ Step /\ dialog[t].open /\ dialog[t].fields # Blank
  /\ Stored(t, dialog[t].fields)
  /\ dialog' = [dialog EXCEPT ![t].open = FALSE]
  /\ told' = dialog[t].fields
  /\ Rendered(t)

\* A storage event arrives; the handler reads the entry as it is by then.
Notify(t) ==
  /\ t \in notified
  /\ notified' = notified \ {t}
  /\ UNCHANGED <<storage, dialog, told, steps>>
  /\ Rendered(t)

DialogStep(t) ==
  OpenDialog(t) \/ CloseDialog(t) \/ TypeDraft(t) \/ SaveFails(t) \/ SaveDraft(t)

-----------------------------------------------------------------------------

\* A tab shows the draft last reported as saved, by whichever tab, or is about
\* to hear of it: a draft of the previous brand never comes back over a newer
\* one, and a save that fails loses nothing (snapshot and save in useLookDraft;
\* "the draft under the previous brand survives and migrates on save",
\* tests/e2e/fitting-room.spec.ts).
NewestDraftIsShown == \A t \in Tabs : t \in notified \/ Draft(shown[t]) = told
=============================================================================
