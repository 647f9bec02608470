------------------------------ MODULE EditLease ------------------------------
(***************************************************************************)
(* The edit lease of one document in one tab (src/pg-edit-session.js, and  *)
(* the calls of src/docs-manager.js): asked for when editing begins,       *)
(* renewed while it lasts, given back when the document is closed, hidden  *)
(* or saved, each by a request of its own whose answer comes when it will. *)
(* Of the editor there is what the lease depends on; what it does with     *)
(* texts and drafts is DocumentEdit's.                                     *)
(*                                                                         *)
(* A lease is a number, in the order Tower gives them out.                 *)
(***************************************************************************)
EXTENDS Integers

CONSTANTS
  MaxLeases,  \* bound: leases Tower gives to this user
  MaxVisits,  \* bound: times the document is opened
  MaxFaults   \* bound: lost answers, reloads, expired leases

ASSUME BoundAssumption == {MaxLeases, MaxVisits, MaxFaults} \subseteq Nat

VARIABLES
  lease,     \* Tower: the lease in force: 0 none, Theirs, or one of ours
  behind,    \* Tower: whether somebody else has saved since the document was opened
  ed,        \* the editor: [open, access, dirty]
  session,   \* pgEditLeaseSessions of the document: [lease, held]
  renewing,  \* whether its renewal timer runs
  acq, ren, rel,  \* the acquire, renew and release requests under way
  leaving,   \* whether releaseSelectedDocLeaseWhenSafe waits
  save,      \* the save under way
  astray,    \* history: an answer was lost or late, or the session dropped without a release
  leases, visits, faults  \* counters

requests == <<acq, ren, rel, leaving>>
local == <<session, renewing>>
counters == <<leases, visits, faults>>
vars == <<lease, behind, ed, local, requests, save, astray, counters>>

Theirs == -1
Closed == [open |-> FALSE, access |-> "ready", dirty |-> FALSE]
NoSession == [lease |-> 0, held |-> FALSE]
NoAcq == [pc |-> "none", visit |-> 0, lease |-> 0]
NoRen == [pc |-> "none", lease |-> 0]
NoRel == [pc |-> "none", lease |-> 0, exit |-> FALSE]
NoSave == [pc |-> "none", lease |-> 0, exit |-> FALSE, visit |-> 0]

\* releasePgEditLeaseForRecord; exit: saveAndExitSelectedDocEditMode waits for it
Release(exit) ==
  /\ renewing' = FALSE
  /\ rel' = IF session.lease = 0 THEN rel
            ELSE IF rel.pc = "none" THEN [pc |-> "sent", lease |-> session.lease, exit |-> exit]
            ELSE [rel EXCEPT !.exit = @ \/ exit]

\* releaseSelectedDocLeaseWhenSafe, up to the saves it waits for
Leave == IF save = NoSave THEN Release(FALSE) /\ UNCHANGED leaving
         ELSE leaving' = TRUE /\ UNCHANGED <<renewing, rel>>

Begins_Shares(e) ==
  LET asks == e.access # "editing"
      has == session.lease # 0
  IN  /\ ed' = IF ~asks THEN e ELSE [e EXCEPT !.access = IF has THEN "editing" ELSE "acquiring"]
      /\ acq' = IF asks /\ ~has /\ acq = NoAcq THEN [pc |-> "sent", visit |-> visits, lease |-> 0] ELSE acq
      /\ renewing' = (renewing \/ (asks /\ has))
\* beginSelectedDocLeaseAcquisition: a lease of the session is used again, and a
\* request still under way is shared
Begins(e) ==
  LET asks == e.access # "editing" /\ acq = NoAcq
      has == session.lease # 0
  IN  /\ ed' = IF ~asks THEN e ELSE [e EXCEPT !.access = IF has THEN "editing" ELSE "acquiring"]
      /\ acq' = IF asks /\ ~has THEN [pc |-> "sent", visit |-> visits, lease |-> 0] ELSE acq
      /\ renewing' = (renewing \/ (asks /\ has))

----------------------------------------------------------------------------
(* Other people, who save under leases of their own.                        *)

OthersTake ==
  /\ lease = 0 /\ lease' = Theirs
  /\ UNCHANGED <<behind, ed, local, requests, save, astray, counters>>

OthersLeave ==
  /\ lease = Theirs /\ lease' = 0
  /\ behind' = ed.open
  /\ UNCHANGED <<ed, local, requests, save, astray, counters>>

----------------------------------------------------------------------------
(* The user.                                                                *)

Open ==
  /\ ~ed.open /\ visits < MaxVisits
  /\ visits' = visits + 1 /\ ed' = [Closed EXCEPT !.open = TRUE] /\ behind' = FALSE
  /\ UNCHANGED <<lease, local, requests, save, astray, leases, faults>>

\* closeDocEditor: the renewal goes on until the release is made
Close ==
  /\ ed.open /\ ed' = Closed
  /\ Leave
  /\ UNCHANGED <<lease, behind, session, acq, ren, save, astray, counters>>

\* handleDocEditLeaseLifecycleExit
Hide ==
  /\ ed.open /\ ed' = [ed EXCEPT !.access = "ready"]
  /\ IF save = NoSave THEN Leave ELSE renewing' = FALSE /\ leaving' = TRUE /\ UNCHANGED rel
  /\ UNCHANGED <<lease, behind, session, acq, ren, save, astray, counters>>

\* handleDocRichEditIntent, the Edit button, and Retry: retrySelectedDocEditAccess
Edit ==
  /\ ed.open /\ ed.access \in {"ready", "blocked"}
  /\ \E typed \in BOOLEAN :
       /\ typed => ed.access = "ready"
       /\ Begins([ed EXCEPT !.access = "ready", !.dirty = @ \/ typed])
  /\ UNCHANGED <<lease, behind, session, ren, rel, leaving, save, astray, counters>>

Type ==
  /\ ed.open /\ ed.access \in {"acquiring", "editing"} /\ ~ed.dirty
  /\ ed' = [ed EXCEPT !.dirty = TRUE]
  /\ UNCHANGED <<lease, behind, local, requests, save, astray, counters>>

\* observeSelectedDocAuthoritativeVersion, of an editor with changes
Diverge ==
  /\ ed.open /\ behind /\ ed.dirty /\ ed.access # "recovery"
  /\ ed' = [ed EXCEPT !.access = "recovery"]
  /\ Release(FALSE)
  /\ UNCHANGED <<lease, behind, session, acq, ren, leaving, save, astray, counters>>

\* discardSelectedDocDraft, which then looks who holds the lease
Discard ==
  /\ ed.open /\ ed.dirty /\ ed.access \in {"blocked", "recovery"}
  /\ session' = NoSession
  /\ ed' = [ed EXCEPT !.dirty = FALSE, !.access = IF lease # 0 THEN "blocked" ELSE "ready"]
  /\ behind' = FALSE
  /\ astray' = (astray \/ session # NoSession)
  /\ UNCHANGED <<lease, renewing, requests, save, counters>>

----------------------------------------------------------------------------
(* Acquiring.  Whether Tower gives another lease to a user who holds one is *)
(* not known here: both.                                                    *)

AcquireArrive ==
  /\ acq.pc = "sent"
  /\ \/ /\ lease # Theirs /\ leases < MaxLeases
        /\ lease' = leases + 1 /\ leases' = leases + 1
        /\ acq' = [acq EXCEPT !.pc = "granted", !.lease = leases + 1]
     \/ /\ lease # 0 \/ leases = MaxLeases
        /\ acq' = [acq EXCEPT !.pc = "refused"]
        /\ UNCHANGED <<lease, leases>>
  /\ UNCHANGED <<behind, ed, local, ren, rel, leaving, save, astray, visits, faults>>

Granted_Drops(current) ==
  /\ session' = IF current THEN [lease |-> acq.lease, held |-> TRUE] ELSE session
  /\ renewing' = current
  /\ UNCHANGED rel
\* acquirePgEditLeaseForRecord returns; for an editor that has gone it is given back
Granted(current) ==
  /\ session' = [lease |-> acq.lease, held |-> TRUE]
  /\ renewing' = current
  /\ rel' = IF current \/ rel # NoRel THEN rel ELSE [pc |-> "sent", lease |-> acq.lease, exit |-> FALSE]

Refused_Holds == session' = [session EXCEPT !.held = TRUE] /\ UNCHANGED <<renewing, rel>>
Refused == session' = NoSession /\ UNCHANGED <<renewing, rel>>

\* the rest of beginSelectedDocLeaseAcquisition
AcquireAnswer ==
  /\ acq.pc \in {"granted", "refused"}
  /\ acq' = NoAcq
  /\ LET current == ed.open /\ acq.visit = visits
     IN  /\ IF acq.pc = "granted" THEN Granted(current) ELSE Refused
         /\ ed' = IF ~current THEN ed
                  ELSE [ed EXCEPT !.access = IF acq.pc = "granted" THEN "editing" ELSE "blocked"]
  /\ UNCHANGED <<lease, behind, ren, leaving, save, astray, counters>>

----------------------------------------------------------------------------
(* Renewing.                                                                *)

\* startPgEditLeaseRenewal's interval; a request reaches Tower as it is made
Renew ==
  /\ renewing /\ ren = NoRen
  /\ IF session.lease # 0
     THEN /\ ren' = [pc |-> IF lease = session.lease THEN "renewed" ELSE "refused", lease |-> session.lease]
          /\ UNCHANGED renewing
     ELSE renewing' = FALSE /\ UNCHANGED ren
  /\ UNCHANGED <<lease, behind, ed, session, acq, rel, leaving, save, astray, counters>>

\* A refusal stops the timer and blocks the editor; the session keeps the lease.
RenewAnswer ==
  /\ ren # NoRen /\ ren' = NoRen
  /\ astray' = (astray \/ ren.lease # session.lease)
  /\ IF ren.pc = "renewed"
     THEN session' = [lease |-> ren.lease, held |-> TRUE] /\ UNCHANGED <<ed, renewing>>
     ELSE /\ session' = [session EXCEPT !.held = FALSE]
          /\ renewing' = FALSE
          /\ ed' = IF ed.open THEN [ed EXCEPT !.access = "blocked"] ELSE ed
  /\ UNCHANGED <<lease, behind, acq, rel, leaving, save, counters>>

----------------------------------------------------------------------------
(* Giving back.                                                             *)

\* releaseSelectedDocLeaseWhenSafe goes on, the saves being over
ReleaseWhenSafe ==
  /\ leaving /\ save = NoSave
  /\ leaving' = FALSE
  /\ Release(FALSE)
  /\ UNCHANGED <<lease, behind, ed, session, acq, ren, save, astray, counters>>

ReleaseArrive ==
  /\ rel.pc = "sent"
  /\ rel' = [rel EXCEPT !.pc = "released"]
  /\ lease' = IF lease = rel.lease THEN 0 ELSE lease
  /\ UNCHANGED <<behind, ed, local, acq, ren, leaving, save, astray, counters>>

\* the end of saveAndExitSelectedDocEditMode
ExitDone(e) == [e EXCEPT !.access = "ready"]

\* whatever the answer: clearPgEditLeaseSession
ReleaseAnswer ==
  /\ rel.pc = "released"
  /\ rel' = NoRel /\ session' = NoSession
  /\ ed' = IF rel.exit THEN ExitDone(ed) ELSE ed
  /\ astray' = (astray \/ session.lease \notin {0, rel.lease})
  /\ UNCHANGED <<lease, behind, renewing, acq, ren, leaving, save, counters>>

----------------------------------------------------------------------------
(* Saving.                                                                  *)

\* addPgEditLeaseToSaveBody: a save of the saved version goes with the lease of the session
SaveBegin ==
  /\ ed.open /\ ed.dirty /\ ed.access = "editing" /\ session.lease # 0 /\ save = NoSave
  /\ \E exit \in BOOLEAN : save' = [pc |-> "sent", lease |-> session.lease, exit |-> exit, visit |-> visits]
  /\ UNCHANGED <<lease, behind, ed, local, requests, astray, counters>>

SaveArrive ==
  /\ save.pc = "sent"
  /\ save' = [save EXCEPT !.pc = IF lease = save.lease THEN "accepted" ELSE "refused"]
  /\ UNCHANGED <<lease, behind, ed, local, requests, astray, counters>>

Over_WhenAccepted == IF save.pc = "accepted" THEN NoSave ELSE save
\* pgDocSavePromises forgets the save, however it ended
Over == NoSave

\* the answer; the user may have typed on
SaveAnswer ==
  /\ save.pc \in {"accepted", "refused"}
  /\ save' = Over
  /\ LET accepted == save.pc = "accepted"
         exits == accepted /\ save.exit
         current == ed.open /\ save.visit = visits
     IN  /\ \E typed \in BOOLEAN :
              LET e == IF accepted /\ current THEN [ed EXCEPT !.dirty = typed] ELSE ed
              IN  ed' = IF exits /\ session.lease = 0 THEN ExitDone(e) ELSE e
         /\ IF exits THEN Release(TRUE) ELSE UNCHANGED <<renewing, rel>>
  /\ UNCHANGED <<lease, behind, session, acq, ren, leaving, astray, counters>>

----------------------------------------------------------------------------
(* Faults.                                                                  *)

Fault == faults < MaxFaults /\ faults' = faults + 1 /\ UNCHANGED <<behind, leases, visits>>

Expire ==
  /\ Fault /\ lease # 0
  /\ lease' = 0
  /\ UNCHANGED <<ed, local, requests, save, astray>>

\* An answer is lost: the caller sees an error.
Lose ==
  /\ Fault
  /\ \/ acq.pc = "granted" /\ acq' = [acq EXCEPT !.pc = "refused", !.lease = 0] /\ UNCHANGED <<ren, save>>
     \/ ren.pc = "renewed" /\ ren' = [ren EXCEPT !.pc = "refused"] /\ UNCHANGED <<acq, save>>
     \/ save.pc = "accepted" /\ save' = [save EXCEPT !.pc = "refused"] /\ UNCHANGED <<acq, ren>>
  /\ astray' = TRUE
  /\ UNCHANGED <<lease, ed, local, rel, leaving>>

Crash ==
  /\ Fault
  /\ ed' = Closed /\ session' = NoSession /\ renewing' = FALSE
  /\ acq' = NoAcq /\ ren' = NoRen /\ rel' = NoRel /\ leaving' = FALSE /\ save' = NoSave
  /\ astray' = TRUE
  /\ UNCHANGED lease

----------------------------------------------------------------------------

Init ==
  /\ lease = 0 /\ behind = FALSE /\ ed = Closed /\ session = NoSession /\ renewing = FALSE
  /\ acq = NoAcq /\ ren = NoRen /\ rel = NoRel /\ leaving = FALSE /\ save = NoSave
  /\ astray = FALSE
  /\ leases = 0 /\ visits = 0 /\ faults = 0

Next ==
  \/ OthersTake \/ OthersLeave
  \/ Open \/ Close \/ Hide \/ Edit \/ Type \/ Diverge \/ Discard
  \/ AcquireArrive \/ AcquireAnswer \/ Renew \/ RenewAnswer
  \/ ReleaseWhenSafe \/ ReleaseArrive \/ ReleaseAnswer
  \/ SaveBegin \/ SaveArrive \/ SaveAnswer
  \/ Expire \/ Lose \/ Crash

Spec == Init /\ [][Next]_vars

\* Saves are answered in the end, and a wait that is over is noticed; the user, other
\* people and the renewal timer need not do anything.
FairSpec ==
  /\ Spec
  /\ WF_vars(ReleaseWhenSafe) /\ WF_vars(SaveArrive) /\ WF_vars(SaveAnswer)

----------------------------------------------------------------------------
(* Properties.                                                              *)

EditorType == [open : BOOLEAN, access : {"ready", "acquiring", "editing", "blocked", "recovery"}, dirty : BOOLEAN]
SessionType == [lease : 0..MaxLeases, held : BOOLEAN]
AcquireType == [pc : {"none", "sent", "granted", "refused"}, visit : 0..MaxVisits, lease : 0..MaxLeases]
RenewType == [pc : {"none", "renewed", "refused"}, lease : 0..MaxLeases]
ReleaseType == [pc : {"none", "sent", "released"}, lease : 0..MaxLeases, exit : BOOLEAN]
SaveType == [pc : {"none", "sent", "accepted", "refused"}, lease : 0..MaxLeases, exit : BOOLEAN, visit : 0..MaxVisits]

\* Every variable holds a value the code can store in it, and a session that is held
\* has a lease.
TypeOK ==
  /\ lease \in Theirs..MaxLeases /\ behind \in BOOLEAN
  /\ ed \in EditorType
  /\ session \in SessionType /\ (session.held => session.lease # 0) /\ renewing \in BOOLEAN
  /\ acq \in AcquireType /\ ren \in RenewType /\ rel \in ReleaseType /\ leaving \in BOOLEAN
  /\ save \in SaveType
  /\ astray \in BOOLEAN /\ leases \in 0..MaxLeases /\ visits \in 0..MaxVisits /\ faults \in 0..MaxFaults

\* Tower never keeps a lease for this tab that the tab has forgotten, whatever
\* requests cross, unless an answer was lost or overtaken or a draft discarded.
LeaseKnown == astray \/ lease \in {0, Theirs, session.lease, acq.lease, rel.lease}

\* The lease of a document that is closed is renewed at most until the saves have
\* ended, and they do end.
RenewalEnds == renewing /\ ~ed.open ~> ~renewing \/ ed.open

\* An editor that waits for edit access waits for an answer that will be its own, also
\* when it was closed and opened again while an earlier request was under way.
AcquiringIsAnswered == ed.access = "acquiring" => acq.pc # "none" /\ acq.visit = visits

\* An editor in edit mode has a lease that Tower, as far as the tab was told, honours
\* (pg-edit-leases-and-offline-editing.md: "must acquire a Tower PG edit lease first").
EditingIsLeased == ed.access = "editing" => session.held

\* A save is refused only when its lease has expired.
SaveOwnsLease == save.pc = "refused" => faults > 0
=============================================================================
