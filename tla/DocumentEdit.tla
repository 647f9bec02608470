----------------------------- MODULE DocumentEdit -----------------------------
(***************************************************************************)
(* The document editor of one tab on one synced Tower document: typing,    *)
(* the draft kept in document_drafts, the saves and what happens when the  *)
(* saved document has moved on (src/docs-manager.js).  Other people edit   *)
(* the document too, the user closes and reopens it or hides the tab, and  *)
(* the page may be lost at any moment.                                     *)
(*                                                                         *)
(* A text is a number, given out as texts are typed; 1 is the body the     *)
(* document starts with.  Of the edit lease there is only whether the tab  *)
(* has one and whether it is still good: its requests are EditLease's.     *)
(* The tab is online and has the whole body: the offline editor, promotion *)
(* of a recovery and comments are not modelled.                            *)
(***************************************************************************)
EXTENDS Integers, Sequences, FiniteSets, Functions

CONSTANTS
  Patient,    \* whether the user keeps from typing while a draft is on offer or a discard runs,
              \* and from resuming a draft that has become the saved text
  MaxTexts,   \* bound: texts typed, by anyone
  MaxVersions,\* bound: versions the document gets
  MaxVisits   \* bound: times the document is opened

ASSUME PatientAssumption == Patient \in BOOLEAN
ASSUME BoundAssumption == {MaxTexts, MaxVersions} \subseteq Nat \ {0} /\ MaxVisits \in Nat

VARIABLES
  heads,     \* Tower: the accepted bodies, oldest first; a version is an index
  recs,      \* Tower: texts ever preserved as a recovery version
  row,       \* version of the document's row, in Dexie and in memory
  draft,     \* document_drafts
  ed,        \* the editor
  session,   \* whether pgEditLeaseSessions has a lease; Tower may no longer honour it
  acq,       \* the visit that acquires the lease, or 0
  save,      \* the save under way
  disc,      \* the discard under way
  last,      \* history: the latest text typed, unless given up or left unguarded
  anc,       \* history: the texts each text was made from
  texts, visits  \* counters

tower == <<heads, recs>>
leasing == <<session, acq>>
history == <<last, anc>>
counters == <<texts, visits>>
vars == <<tower, row, draft, ed, leasing, save, disc, history, counters>>

NoDraft == [text |-> 0, base |-> 0, rec |-> FALSE, sig |-> 0, saved |-> FALSE]
\* what the editor asks of the draft it last wrote: selectedDocLocalDraft
Local(d) == [is |-> d # NoDraft, rec |-> d.rec, sig |-> d.sig]
NoLocal == Local(NoDraft)
Closed == [open |-> FALSE, text |-> 0, base |-> 0, dirty |-> FALSE, edit |-> FALSE, access |-> "ready", busy |-> FALSE,
           timer |-> FALSE, disk |-> FALSE, offer |-> NoDraft, read |-> FALSE, local |-> NoLocal, rec |-> FALSE]
NoSave == [pc |-> "none", visit |-> 0, text |-> 0, base |-> 0, needs |-> FALSE, exit |-> FALSE]

Newest == Len(heads)
Offering == ed.offer # NoDraft \/ ed.read
Undisturbed == Patient => disc = "none" /\ ~Offering

----------------------------------------------------------------------------
(* What the handlers do to the editor's fields.                             *)

\* buildSelectedDocDraftRow
DraftRow(e) == [text |-> e.text, base |-> e.base, rec |-> e.rec \/ e.local.rec, sig |-> e.local.sig,
                saved |-> ~e.dirty /\ e.rec]
\* cancelDocAutosave and cancelDocLocalDraftPersistence
Untimed(e) == [e EXCEPT !.timer = FALSE, !.disk = FALSE]
\* clearSelectedDocDraft, as far as the editor goes
Cleared(e) == [e EXCEPT !.disk = FALSE, !.local = NoLocal]

\* scheduleDocAutosave
Schedule(e) ==
  LET ok == e.offer = NoDraft /\ ~e.read /\ e.access \in {"editing", "recovery"}
  IN  [e EXCEPT !.disk = TRUE, !.timer = @ \/ ok, !.busy = @ \/ ok]

Applied_Predicts(e, v) == [e EXCEPT !.text = heads[v], !.base = v + 1, !.dirty = FALSE, !.read = FALSE, !.rec = FALSE, !.busy = FALSE]
\* applySelectedDocAuthoritativeContent
Applied(e, v) == [e EXCEPT !.text = heads[v], !.base = v, !.dirty = FALSE, !.read = FALSE, !.rec = FALSE, !.busy = FALSE]

Observed_Rebases(e, v) ==
  IF v <= e.base THEN e
  ELSE IF ~e.dirty /\ ~e.local.is /\ e.offer = NoDraft THEN Applied(e, v)
  ELSE [e EXCEPT !.base = v]
\* observeSelectedDocAuthoritativeVersion
Observed(e, v) ==
  IF v <= e.base THEN e
  ELSE IF ~e.dirty /\ ~e.local.is /\ e.offer = NoDraft THEN Applied(e, v)
  ELSE IF e.access = "recovery" THEN e
  ELSE Schedule([e EXCEPT !.access = "recovery", !.edit = TRUE])

\* refreshOpenDocFromLatestDocument, after the row of version v has been put in place
Refreshed(e, v) == IF e.open /\ (e.dirty \/ ~e.busy) THEN Observed(e, v) ELSE e
Diverges(e, f) == e.access # "recovery" /\ f.access = "recovery"
\* A newer version leaves a draft that is on offer, or put aside, unguarded: the next
\* Persist is not kept from writing over it (OfferedKept).
Guarded(f) ==
  LET loses == (ed.offer # NoDraft /\ Diverges(ed, f)) \/ (ed.read /\ ~f.read)
      d == IF ed.read THEN draft ELSE ed.offer
  IN  last' = IF loses /\ last = d.text THEN 0 ELSE last

\* releasePgEditLeaseForRecord: the session is cleared, at once or by Lapse
Release(wanted) == session' = (session /\ ~wanted)
\* the end of saveAndExitSelectedDocEditMode
ExitDone(e) == [e EXCEPT !.access = "ready", !.edit = e.open /\ e.offer = NoDraft /\ ~e.read]

\* beginSelectedDocLeaseAcquisition: a lease of the session is used again, and a
\* request under way is shared
Begins(e) ==
  LET asks == e.access # "editing" /\ acq = 0
      f == [e EXCEPT !.access = IF session THEN "editing" ELSE "acquiring", !.edit = TRUE]
  IN  /\ ed' = IF ~asks THEN e ELSE IF session /\ f.dirty THEN Schedule(f) ELSE f
      /\ acq' = IF asks /\ ~session THEN visits ELSE acq

\* Text t is from now on one that has seen text s.
Seen(t, s) == [anc EXCEPT ![t] = @ \cup anc[s] \cup {s}]

Stays == UNCHANGED <<tower, row>>

----------------------------------------------------------------------------
(* Other people, and the row.                                               *)

\* under a lease of their own: this tab has none, or Tower no longer honours it
OthersSave ==
  /\ texts < MaxTexts /\ Newest < MaxVersions
  /\ heads' = Append(heads, texts + 1) /\ texts' = texts + 1
  /\ anc' = Seen(texts + 1, heads[Newest])
  /\ UNCHANGED <<recs, row, draft, ed, leasing, save, disc, last, visits>>

\* applyDocuments, when the live query reports any document's row
Sync ==
  \E v \in row..Newest :
    LET e == Refreshed(ed, v)
    IN  /\ <<v, e>> # <<row, ed>>
        /\ row' = v /\ ed' = e
        /\ Release(Diverges(ed, e))
        /\ Guarded(e)
        /\ UNCHANGED <<tower, draft, acq, save, disc, anc, counters>>

----------------------------------------------------------------------------
(* Opening, closing and hiding the document.                                *)

\* openDoc: loadDocEditorFromSelection and restoreSelectedDocDraft, input being
\* gated until the draft has been looked up.
Open ==
  /\ ~ed.open /\ visits < MaxVisits /\ (Patient => disc = "none")
  /\ visits' = visits + 1
  /\ LET same == draft.text = heads[row] /\ ~draft.rec
         offered == draft # NoDraft /\ ~same
     IN  /\ ed' = [Closed EXCEPT !.open = TRUE, !.text = heads[row], !.base = row, !.edit = ~offered,
                                 !.offer = IF offered THEN draft ELSE NoDraft]
         /\ draft' = IF same THEN NoDraft ELSE draft
  /\ UNCHANGED <<leasing, save, disc, history, texts>> /\ Stays

Close_TrustsTimer ==
  /\ ed.open
  /\ ed' = Closed
  /\ draft' = IF ed.dirty /\ ~ed.disk THEN DraftRow(ed) ELSE draft
  /\ UNCHANGED <<leasing, save, disc, history, texts, visits>> /\ Stays
\* closeDocEditor, and openDoc of another document
Close ==
  /\ ed.open
  /\ ed' = Closed
  /\ draft' = IF ed.dirty THEN DraftRow(ed) ELSE draft
  /\ UNCHANGED <<leasing, save, disc, history, texts, visits>> /\ Stays

\* handleDocEditLeaseLifecycleExit
Hide ==
  /\ ed.open
  /\ LET d == IF ed.dirty THEN DraftRow(ed) ELSE draft
     IN  /\ draft' = d
         /\ ed' = [Untimed(ed) EXCEPT !.access = "ready", !.edit = FALSE, !.local = IF ed.dirty THEN Local(d) ELSE @]
  /\ UNCHANGED <<leasing, save, disc, history, texts, visits>> /\ Stays

\* readSelectedDocSavedVersion
ReadSaved ==
  /\ ed.open /\ ed.offer # NoDraft
  /\ ed' = [ed EXCEPT !.offer = NoDraft, !.read = TRUE, !.edit = FALSE]
  /\ UNCHANGED <<draft, leasing, save, disc, history, texts, visits>> /\ Stays

\* resumeSelectedDocDraft, from its button: restoreSelectedDocDraft with resume
Resume ==
  /\ ed.open /\ Offering
  /\ LET d == IF ed.offer # NoDraft THEN ed.offer ELSE draft
         resumed == [ed EXCEPT !.offer = NoDraft, !.read = FALSE, !.text = d.text, !.base = d.base, !.rec = d.rec,
                               !.local = Local(IF d.saved /\ d.sig = 0 THEN [d EXCEPT !.sig = d.text] ELSE d),
                               !.dirty = ~d.saved, !.busy = ~d.saved]
         apart == [resumed EXCEPT !.access = "recovery", !.edit = TRUE]
     IN  \/ /\ ed.dirty \/ d = NoDraft
            /\ ed' = [ed EXCEPT !.read = FALSE, !.offer = d]
            /\ UNCHANGED <<draft, acq>>
         \/ /\ ~ed.dirty /\ d # NoDraft /\ ~d.rec /\ d.text = heads[row]
            /\ Patient => ed.text = d.text
            /\ ed' = [Cleared(ed) EXCEPT !.base = row, !.rec = FALSE, !.read = FALSE, !.busy = FALSE, !.offer = d]
            /\ draft' = NoDraft
            /\ UNCHANGED acq
         \/ /\ ~ed.dirty /\ d # NoDraft /\ (d.rec \/ d.text # heads[row])
            /\ IF d.rec \/ d.base # row
               THEN ed' = (IF d.saved THEN apart ELSE Schedule(apart)) /\ UNCHANGED acq
               ELSE Begins([resumed EXCEPT !.disk = TRUE])
            /\ UNCHANGED draft
  /\ UNCHANGED <<session, save, disc, history, texts, visits>> /\ Stays

----------------------------------------------------------------------------
(* Typing.                                                                  *)

\* handleDocRichEditorUpdate with handleDocRichEditIntent
Type ==
  /\ ed.open /\ ed.edit /\ texts < MaxTexts /\ Undisturbed
  /\ LET t == texts + 1
         shown == [ed EXCEPT !.text = t]
         typed == [shown EXCEPT !.dirty = TRUE, !.disk = TRUE]
     IN  /\ texts' = t /\ last' = t
         /\ anc' = Seen(t, ed.text)
         /\ IF ~Offering /\ ed.access = "ready" THEN Begins(typed)
            ELSE /\ ed' = IF Offering THEN shown
                          ELSE IF ed.access \in {"editing", "recovery"} THEN Schedule(typed)
                          ELSE typed
                 /\ UNCHANGED acq
  /\ UNCHANGED <<draft, session, save, disc, visits>> /\ Stays

\* the same, when the text is the saved document's again: checkpointSelectedDocUndo
Undo ==
  /\ ed.open /\ ed.edit /\ ed.dirty /\ ~Offering /\ ed.access # "recovery" /\ ed.text # heads[row] /\ Undisturbed
  /\ ed' = [Cleared(Untimed(ed)) EXCEPT !.text = heads[row], !.dirty = FALSE, !.busy = FALSE]
  /\ draft' = NoDraft
  /\ anc' = Seen(heads[row], ed.text)
  /\ last' = 0
  /\ UNCHANGED <<leasing, save, disc, texts, visits>> /\ Stays

\* and when it is a recovery Tower has already preserved
UndoToRecovery ==
  /\ ed.open /\ ed.edit /\ ed.dirty /\ ~Offering /\ ed.access = "recovery" /\ ed.local.sig \notin {0, ed.text} /\ Undisturbed
  /\ LET e == [Untimed(ed) EXCEPT !.text = ed.local.sig, !.dirty = FALSE, !.busy = FALSE]
         d == [DraftRow(e) EXCEPT !.saved = TRUE]
     IN  /\ ed' = [e EXCEPT !.local = Local(d)]
         /\ draft' = d
         /\ anc' = Seen(e.text, ed.text)
  /\ last' = 0
  /\ UNCHANGED <<leasing, save, disc, texts, visits>> /\ Stays

\* scheduleDocLocalDraftPersistence's timer: persistSelectedDocDraft
Persist ==
  /\ ed.open /\ ed.disk
  /\ draft' = DraftRow(ed)
  /\ ed' = [ed EXCEPT !.disk = FALSE, !.local = Local(DraftRow(ed))]
  /\ UNCHANGED <<leasing, save, disc, history, texts, visits>> /\ Stays

----------------------------------------------------------------------------
(* The lease.                                                               *)

\* The Edit button, or Retry: retrySelectedDocEditAccess
Edit ==
  /\ ed.open /\ ed.access \in {"ready", "blocked"} /\ Undisturbed
  /\ Begins([ed EXCEPT !.access = "ready", !.edit = TRUE])
  /\ UNCHANGED <<draft, session, save, disc, history, texts, visits>> /\ Stays

\* The rest of beginSelectedDocLeaseAcquisition, when Tower has answered; a lease
\* for an editor that has gone is given back.
Acquired(granted) ==
  /\ acq # 0 /\ acq' = 0
  /\ LET current == ed.open /\ acq = visits
         held == [ed EXCEPT !.access = "editing", !.edit = TRUE]
     IN  /\ session' = (granted /\ current)
         /\ ed' = IF ~current THEN ed
                  ELSE IF ~granted THEN [ed EXCEPT !.access = "blocked", !.edit = FALSE, !.timer = FALSE]
                  ELSE IF ed.dirty THEN Schedule(held)
                  ELSE held
  /\ UNCHANGED <<draft, save, disc, history, texts, visits>> /\ Stays

\* A release that was under way has ended.
Lapse ==
  /\ session /\ session' = FALSE
  /\ UNCHANGED <<draft, ed, acq, save, disc, history, texts, visits>> /\ Stays

\* startPgEditLeaseRenewal, when Tower refuses
RenewalRefused ==
  /\ session /\ ed.open /\ ed.access # "blocked"
  /\ ed' = [ed EXCEPT !.access = "blocked", !.edit = FALSE, !.timer = FALSE]
  /\ UNCHANGED <<draft, leasing, save, disc, history, texts, visits>> /\ Stays

----------------------------------------------------------------------------
(* Saving.                                                                  *)

\* saveSelectedPgDocItem against the row it finds: what it makes of editor e
Looked(e) ==
  LET apart == row > e.base
      f == IF apart THEN [e EXCEPT !.access = "recovery", !.edit = TRUE] ELSE e
  IN  IF apart /\ ~e.dirty THEN Applied(e, row)
      ELSE IF f.text # heads[row] THEN f
      ELSE IF f.rec \/ f.local.rec THEN [f EXCEPT !.dirty = FALSE]
      ELSE [f EXCEPT !.dirty = FALSE, !.base = row, !.access = IF @ = "recovery" THEN "ready" ELSE @]

\* nothing to save
SaveClean(e, exit) ==
  LET f == [Looked(e) EXCEPT !.busy = FALSE]
      g == IF f.rec THEN f ELSE Cleared(f)
      exits == exit /\ (f.access # "recovery" \/ (row > e.base /\ ~e.dirty))
  IN  /\ ~f.dirty
      /\ ed' = IF exits THEN ExitDone(g) ELSE g
      /\ draft' = IF ~f.rec THEN NoDraft ELSE IF exit THEN DraftRow(e) ELSE draft
      /\ Release(exits)
      /\ UNCHANGED save

Preserved_Any(e) == e.access = "recovery" /\ e.rec
\* the text is the recovery's Tower has already preserved
Preserved(e) == e.access = "recovery" /\ e.rec /\ e.local.sig = e.text

\* the draft is written down first; a save against the saved version needs the lease
SaveDirty(e, exit) ==
  LET f == IF Preserved(Looked(e)) THEN [Looked(e) EXCEPT !.dirty = FALSE, !.busy = FALSE] ELSE Looked(e)
      needs == row <= e.base /\ e.access # "recovery"
      sends == f.dirty /\ (needs => session)
  IN  /\ Looked(e).dirty
      /\ draft' = DraftRow(f)
      /\ ed' = [f EXCEPT !.local = Local(DraftRow(f)), !.busy = IF f.dirty THEN sends ELSE @]
      /\ save' = IF sends
                 THEN [pc |-> "upload", visit |-> visits, text |-> f.text, base |-> e.base, needs |-> needs, exit |-> exit]
                 ELSE save
      /\ UNCHANGED session

\* scheduleDocAutosave's timer, and the wait for the save before
Autosave ==
  /\ ed.open /\ ed.timer /\ save = NoSave
  /\ LET e == [ed EXCEPT !.timer = FALSE]
     IN  IF Offering THEN ed' = e /\ UNCHANGED <<draft, session, save>>
         ELSE SaveClean(e, FALSE) \/ SaveDirty(e, FALSE)
  /\ UNCHANGED <<acq, disc, history, texts, visits>> /\ Stays

\* saveAndExitSelectedDocEditMode, the Save button: the draft is written down before
SaveAndExit ==
  /\ ed.open /\ ed.access \in {"editing", "recovery"} /\ ~Offering /\ save = NoSave /\ Undisturbed
  /\ LET e == [ed EXCEPT !.local = Local(DraftRow(ed))]
     IN  SaveClean(e, TRUE) \/ SaveDirty(e, TRUE)
  /\ UNCHANGED <<acq, disc, history, texts, visits>> /\ Stays

\* The body is in storage, and the request is made with the token of that moment.
\* Tower accepts a save of its newest version under the lease in force; one of an
\* older version it keeps as a recovery, or refuses as stale.
SaveSubmit ==
  /\ save.pc = "upload"
  /\ \/ /\ save.base = Newest /\ save.needs /\ session /\ Newest < MaxVersions
        /\ heads' = Append(heads, save.text) /\ UNCHANGED recs
        /\ save' = [save EXCEPT !.pc = "accepted", !.base = Newest + 1, !.needs = FALSE]
     \/ /\ save.base < Newest
        /\ recs' = recs \cup {save.text} /\ UNCHANGED heads
        /\ save' = [save EXCEPT !.pc = "preserved", !.needs = FALSE]
     \/ /\ UNCHANGED <<heads, recs>>
        /\ save' = [save EXCEPT !.pc = IF save.base < Newest THEN "stale" ELSE "error", !.needs = FALSE]
  /\ UNCHANGED <<row, draft, ed, leasing, disc, history, counters>>

Current == ed.open /\ save.visit = visits

\* acceptSelectedPgDocSaveCanonical and what follows the acknowledgement
SaveAccepted ==
  LET v == save.base
      based == IF Current /\ row <= v
               THEN [ed EXCEPT !.base = v, !.rec = FALSE, !.dirty = ed.text # save.text]
               ELSE ed
      after == IF row <= v THEN v ELSE row
      seen == Refreshed(based, after)
      d == DraftRow(seen)
      e == IF ~Current THEN seen
           ELSE IF seen.dirty THEN Schedule([seen EXCEPT !.local = Local(d), !.busy = TRUE])
           ELSE Cleared([seen EXCEPT !.busy = FALSE])
  IN  /\ save.pc = "accepted"
      /\ row' = after
      /\ ed' = IF save.exit THEN ExitDone(e) ELSE e
      /\ draft' = IF ~Current THEN draft ELSE IF seen.dirty THEN d ELSE NoDraft
      /\ Release(save.exit \/ Diverges(based, seen))
      /\ Guarded(seen)

\* isPgDocumentRecoveryCreatedError
SavePreserved ==
  LET dirty == ed.text # save.text
      e == [ed EXCEPT !.rec = TRUE, !.access = "recovery", !.edit = TRUE, !.dirty = dirty,
                      !.busy = dirty]
      d == [DraftRow(e) EXCEPT !.sig = save.text]
      old == IF draft # NoDraft THEN draft ELSE [NoDraft EXCEPT !.text = save.text, !.base = save.base]
      f == [e EXCEPT !.local = Local(d)]
  IN  /\ save.pc = "preserved"
      /\ ed' = IF ~Current THEN ed ELSE IF dirty THEN Schedule(f) ELSE f
      /\ draft' = IF Current THEN d ELSE [old EXCEPT !.rec = TRUE, !.saved = FALSE]
      /\ Release(Current)
      /\ UNCHANGED <<row, last>>

\* isPgStaleRowVersionError, and any other error
SaveFailed ==
  LET e == IF save.pc = "stale" THEN [ed EXCEPT !.access = "recovery", !.edit = TRUE] ELSE ed
  IN  /\ save.pc \in {"stale", "error"}
      /\ ed' = IF Current THEN [e EXCEPT !.local = Local(DraftRow(e)), !.busy = FALSE] ELSE ed
      /\ draft' = IF Current THEN DraftRow(e) ELSE draft
      /\ Release(Current /\ save.pc = "stale")
      /\ UNCHANGED <<row, last>>

SaveAnswer ==
  /\ SaveAccepted \/ SavePreserved \/ SaveFailed
  /\ save' = NoSave
  /\ UNCHANGED <<tower, acq, disc, anc, counters>>

----------------------------------------------------------------------------
(* Discarding.                                                              *)

GiveUp(t) == /\ last' = IF last = t THEN 0 ELSE last
             /\ UNCHANGED anc

\* discardSelectedDocDraft, up to the hydration of the saved document
DiscardLocal ==
  /\ disc = "none" /\ ed.open /\ ed.dirty /\ ~ed.rec /\ ed.access \in {"blocked", "recovery"}
  /\ disc' = "local"
  /\ ed' = Cleared(Untimed(ed))
  /\ draft' = NoDraft
  /\ GiveUp(ed.text)
  /\ UNCHANGED <<leasing, save, texts, visits>> /\ Stays

\* the rest: the lease is forgotten, and whether somebody holds it looked up
DiscardLocalDone ==
  /\ disc = "local" /\ disc' = "none"
  /\ \E v \in row..Newest, access \in {"ready", "blocked"} :
       /\ row' = v
       /\ ed' = IF ~ed.open THEN ed
                ELSE LET e == [Applied(ed, v) EXCEPT !.local = NoLocal, !.access = access]
                     IN  [e EXCEPT !.edit = e.offer = NoDraft /\ access = "ready"]
       /\ anc' = IF ed.open THEN Seen(heads[v], ed.text) ELSE anc
  /\ session' = (session /\ ~ed.open)
  /\ UNCHANGED <<tower, draft, acq, save, last, counters>>

\* discardSelectedDocRecovery, up to the request
DiscardRecovery ==
  /\ disc = "none" /\ ed.open /\ ed.rec /\ ~ed.dirty /\ ed.access \in {"blocked", "recovery"}
  /\ disc' = "recovery"
  /\ GiveUp(ed.text)
  /\ UNCHANGED <<draft, ed, leasing, save, texts, visits>> /\ Stays

\* the rest, whatever is open by now
DiscardRecoveryDone ==
  /\ disc = "recovery" /\ disc' = "none"
  /\ \E v \in row..Newest :
       /\ row' = v
       /\ ed' = IF ed.open THEN [Applied(Cleared(ed), v) EXCEPT !.access = "ready"] ELSE ed
       /\ anc' = IF ed.open THEN Seen(heads[v], ed.text) ELSE anc
  /\ draft' = NoDraft
  /\ UNCHANGED <<tower, leasing, save, last, counters>>

----------------------------------------------------------------------------
(* Faults.                                                                  *)

\* A request or its answer is lost: the caller sees an error.
Lose ==
  /\ \/ save.pc \in {"upload", "accepted", "preserved", "stale"} /\ save' = [save EXCEPT !.pc = "error"] /\ UNCHANGED disc
     \/ disc = "recovery" /\ disc' = "none" /\ UNCHANGED save
  /\ UNCHANGED <<tower, row, draft, ed, leasing, history, texts, visits>>

Durable(t) == draft.text = t \/ t \in Range(heads) \/ t \in recs

\* The page is gone without a word; what had not reached the disk is lost.
Crash ==
  /\ ed' = Closed /\ session' = FALSE /\ acq' = 0 /\ save' = NoSave /\ disc' = "none"
  /\ last' = IF Durable(last) THEN last ELSE 0
  /\ UNCHANGED <<tower, row, draft, anc, texts, visits>>

----------------------------------------------------------------------------

Init ==
  /\ heads = <<1>> /\ recs = {} /\ row = 1 /\ draft = NoDraft /\ ed = Closed
  /\ session = FALSE /\ acq = 0
  /\ save = NoSave /\ disc = "none"
  /\ last = 0 /\ anc = [t \in 1..MaxTexts |-> {}]
  /\ texts = 1 /\ visits = 0

Answers ==
  \/ (\E granted \in BOOLEAN : Acquired(granted)) \/ Lapse \/ RenewalRefused
  \/ SaveSubmit \/ SaveAnswer
  \/ DiscardLocalDone \/ DiscardRecoveryDone

User ==
  \/ Open \/ Close \/ Hide \/ ReadSaved \/ Resume
  \/ Type \/ Undo \/ UndoToRecovery \/ Edit \/ SaveAndExit \/ DiscardLocal \/ DiscardRecovery

Next == Answers \/ User \/ OthersSave \/ Sync \/ Persist \/ Autosave \/ Lose \/ Crash

Spec == Init /\ [][Next]_vars

----------------------------------------------------------------------------
(* Properties.                                                              *)

Text == 0..MaxTexts
Version == Nat
DraftType == [text : Text, base : Version, rec : BOOLEAN, sig : Text, saved : BOOLEAN]
LocalType == [is : BOOLEAN, rec : BOOLEAN, sig : Text]
EditorType ==
  [open : BOOLEAN, text : Text, base : Version, dirty : BOOLEAN, edit : BOOLEAN,
   access : {"ready", "acquiring", "editing", "blocked", "recovery"}, busy : BOOLEAN,
   timer : BOOLEAN, disk : BOOLEAN, offer : DraftType, read : BOOLEAN, local : LocalType, rec : BOOLEAN]
SaveType == [pc : {"none", "upload", "accepted", "preserved", "stale", "error"}, visit : 0..MaxVisits, text : Text,
             base : Version, needs : BOOLEAN, exit : BOOLEAN]

\* Every variable holds a value the code can store in it, and the editor is
\* based on a version the document has had.
TypeOK ==
  /\ heads \in Seq(Text \ {0}) /\ recs \subseteq Text \ {0}
  /\ row \in 1..Newest /\ draft \in DraftType /\ ed \in EditorType /\ ed.base <= Newest
  /\ session \in BOOLEAN /\ acq \in 0..MaxVisits
  /\ save \in SaveType /\ save.base <= Newest
  /\ disc \in {"none", "local", "recovery"} /\ last \in Text
  /\ anc \in [1..MaxTexts -> SUBSET Text]

\* The latest text the user typed, and has not undone or discarded, is never
\* lost: not by a reopened document, a late answer, a newer saved version, a
\* recovery or a page that goes away after it has been written down.  (A draft on
\* offer when a newer version comes may be: OfferedKept.)
LatestKept == last # 0 => Durable(last) \/ (ed.open /\ ed.dirty /\ ed.text = last /\ ed.disk)

\* No accepted save covers up a version its text was not made from.
NoBlindOverwrite == \A i \in 2..Newest : heads[i - 1] \in anc[heads[i]]

\* An editor with nothing left to save shows a text Tower has.
CleanIsSaved == ed.open /\ ~ed.dirty /\ disc = "none" => ed.text \in Range(heads) \cup recs

\* The user's draft that was offered stays until the offer is answered
\* (document-body-loading.md: "without deleting either copy").
OfferedKept == ed.offer # NoDraft => Durable(ed.offer.text)
=============================================================================
