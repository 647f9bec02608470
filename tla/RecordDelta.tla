---------------------------- MODULE RecordDelta ----------------------------
(***************************************************************************)
(* The browser's replica of a Tower workspace: the download loop of        *)
(* syncTowerPgRecordWorkspace (src/pg-read-hydrator.js), the transactions  *)
(* of src/pg-record-delta.js that apply what it reads, and the optimistic  *)
(* writes of src/tower-command-port.js that land in the same tables.       *)
(*                                                                         *)
(* A change is named by its position in Tower's journal, which is also its *)
(* version: the record and the operation are looked up there, so a version *)
(* of 0 means "no row".  A generation tag is the localGeneration it was    *)
(* made under; -1 is "no tag".  One transaction of the code is one action. *)
(***************************************************************************)
EXTENDS Integers, Sequences

CONSTANTS
  NumRecords,   \* records of the workspace, 1..NumRecords in Tower's page order
  PageSize,     \* changes Tower puts in one page (200 in the code)
  SubSize,      \* changes committed by one transaction (32 in the code)
  Tabs,         \* tabs that run the download loop on the shared database
  Existing,     \* records Tower holds when the cache is first opened
  MaxJournal,   \* bound: changes Tower ever makes, those of Existing included
  MaxResets,    \* bound: authority resets; below the loop's own limit of 2
  MaxEdits,     \* bound: optimistic commands
  MaxFaults     \* bound: failed requests and browser restarts

ASSUME SizeAssumption ==
  /\ NumRecords \in Nat \ {0} /\ PageSize \in Nat \ {0} /\ SubSize \in Nat \ {0}
ASSUME BoundAssumption ==
  /\ Existing \in 0..NumRecords /\ MaxJournal \in Nat /\ Existing <= MaxJournal
  /\ MaxResets \in 0..2 /\ MaxEdits \in Nat /\ MaxFaults \in Nat

VARIABLES
  journal,    \* Tower: the changes made so far, [id, op]
  pinned,     \* Tower: journal position at which a generation's snapshot began, or -1
  state,      \* sync_state row: cursor, generation and handover flags
  raw,        \* pg_record_rows: canonical version and tag of each record
  view,       \* the family tables the user interface reads
  conflict,   \* pg_record_conflicts under the record's own key
  saved,      \* a 'reset:' conflict or pg_command_recovery entry holds a local edit
  cmd,        \* the command in flight on each record
  pull,       \* each tab's download loop
  late,       \* history: a command's put replaced a newer row, or a removed one
  edits, faults  \* counters for the bounds

vars == <<journal, pinned, state, raw, view, conflict, saved, cmd, pull, late, edits, faults>>

Records == 1..NumRecords
Version == 0..MaxJournal
Generation == -1..MaxResets

----------------------------------------------------------------------------
(* Rows, cursors, pages.                                                    *)

NoCursor == [kind |-> "none", at |-> 0, since |-> 0]
SnapshotCursor(at, since) == [kind |-> "snapshot", at |-> at, since |-> since]
DeltaCursor(at) == [kind |-> "delta", at |-> at, since |-> 0]

Cursor == [kind : {"none", "snapshot", "delta"}, at : Nat, since : Version]

Absent == [ver |-> 0, status |-> "absent", gen |-> -1]
NoRow == [ver |-> 0, gen |-> -1]
Row == [ver : Version, status : {"absent", "synced", "pending"}, gen : Generation]

\* base is history: the canonical version that was stored when the edit was made.
NoCommand == [phase |-> "none", ver |-> 0, prev |-> Absent, base |-> 0]

\* A page covers the positions from+1..to of the journal (delta) or of the
\* record order (snapshot, whose rows are what Tower held when it was read).
NoPage == [mode |-> "delta", from |-> 0, to |-> 0, rows |-> [r \in Records |-> 0],
           next |-> NoCursor, hasMore |-> FALSE, complete |-> FALSE]
Page == [mode : {"snapshot", "delta"}, from : Nat, to : Nat, rows : [Records -> Version],
         next : Cursor, hasMore : BOOLEAN, complete : BOOLEAN]

Idle == [phase |-> "idle", cursor |-> NoCursor, gen |-> 0, page |-> NoPage, off |-> 0,
         again |-> FALSE, hide |-> FALSE]

NoRetirement == [next |-> NoCursor, at |-> 0]

FreshState(g) ==
  [cursor |-> NoCursor, localGeneration |-> g, generation |-> -1, snapshotComplete |-> FALSE,
   handover |-> FALSE, retirement |-> NoRetirement, converged |-> FALSE]

----------------------------------------------------------------------------
(* Tower.                                                                   *)

\* The last change to r among positions a+1..b of the journal, 0 if none.
LastIn(r, a, b) ==
  LET S == {i \in 1..Len(journal) : a < i /\ i <= b /\ journal[i].id = r}
  IN  IF S = {} THEN 0 ELSE CHOOSE m \in S : \A i \in S : i <= m

Latest(r) == LastIn(r, 0, Len(journal))
Deleted(v) == journal[v].op = "delete"
Live(r) == Latest(r) # 0 /\ ~Deleted(Latest(r))

\* Another client changes record r, or Tower changes who may see it.
TowerWrite(r, op) ==
  /\ Len(journal) < MaxJournal
  /\ op = "delete" => Live(r)
  /\ journal' = Append(journal, [id |-> r, op |-> op])
  /\ UNCHANGED <<pinned, state, raw, view, conflict, saved, cmd, pull, late, edits, faults>>

SnapshotPage(at, since) ==
  LET to == at + PageSize
      last == to >= NumRecords
  IN  [mode |-> "snapshot", from |-> at, to |-> IF last THEN NumRecords ELSE to,
       rows |-> [r \in Records |-> IF at < r /\ r <= to /\ Live(r) THEN Latest(r) ELSE 0],
       next |-> IF last THEN DeltaCursor(since) ELSE SnapshotCursor(to, since),
       hasMore |-> TRUE, complete |-> last]

DeltaPage(at) ==
  LET more == at + PageSize < Len(journal)
      to == IF more THEN at + PageSize ELSE Len(journal)
  IN  [mode |-> "delta", from |-> at, to |-> to, rows |-> [r \in Records |-> 0],
       next |-> DeltaCursor(to), hasMore |-> more, complete |-> FALSE]

----------------------------------------------------------------------------
(* applyRecordPage: what one change does to its record.                     *)

\* The version a page brings for r within positions a+1..b, 0 if none.  Within
\* a slice the last change of a record decides: the skip rules compare versions.
Change(page, r, a, b) ==
  IF page.mode = "delta" THEN LastIn(r, a, b)
  ELSE IF a < r /\ r <= b THEN page.rows[r] ELSE 0

\* Mutant: the generation is not compared.
Skipped_AnyGeneration(r, v, mode, gen) == raw[r].ver # 0 /\ raw[r].ver >= v

\* Mutant: a row that is stored in a newer version is no reason to skip.
Skipped_SameOnly(r, v, mode, gen) == raw[r].ver = v /\ raw[r].gen = gen

\* Already stored: under this generation, or (delta) by a newer version.
Skipped(r, v, mode, gen) ==
  \/ raw[r].ver # 0 /\ raw[r].gen = gen /\ raw[r].ver >= v
  \/ mode = "delta" /\ raw[r].ver > v

\* materialize: the view row after canonical version v reaches it.
Materialized(row, v, gen) ==
  IF Deleted(v) THEN Absent
  ELSE IF row.status = "pending" \/ row.ver > v THEN [row EXCEPT !.gen = gen]
  ELSE [ver |-> v, status |-> "synced", gen |-> gen]

\* Mutant: a pending row raises no warning.
Conflicted_OnlyKept(row, v, had) == had /\ (Deleted(v) \/ row.ver > v)

\* materialize: a pending row keeps its intent as a conflict; only the normal
\* put clears one (the delete and newer-local branches return before it).
Conflicted(row, v, had) ==
  row.status = "pending" \/ (had /\ (Deleted(v) \/ row.ver > v))

----------------------------------------------------------------------------
(* The download loop.                                                       *)

\* An omission walk is unfinished.
Retiring == state.retirement.next.kind # "none"

\* Mutant: an unfinished walk is not resumed.
Resumes_Never == FALSE
Resumes == Retiring

\* A sync attempt starts from the committed cursor; an unfinished omission walk
\* is resumed first, through an empty terminal page.
Begin(t) ==
  /\ pull[t].phase = "idle"
  /\ pull' = [pull EXCEPT ![t] =
       [Idle EXCEPT !.phase = IF Resumes THEN "apply" ELSE "read",
                    !.cursor = state.cursor, !.gen = state.localGeneration,
                    !.page = IF Resumes THEN [NoPage EXCEPT !.next = state.retirement.next] ELSE NoPage,
                    !.again = Resumes]]
  /\ UNCHANGED <<journal, pinned, state, raw, view, conflict, saved, cmd, late, edits, faults>>

\* Tower answers a read.  A read without cursor opens the snapshot of its
\* generation, or resumes the one already opened for it.
Read(t) ==
  /\ pull[t].phase = "read"
  /\ LET c == pull[t].cursor
         since == IF pinned[pull[t].gen] = -1 THEN Len(journal) ELSE pinned[pull[t].gen]
         page == IF c.kind = "delta" THEN DeltaPage(c.at)
                 ELSE SnapshotPage(c.at, IF c.kind = "none" THEN since ELSE c.since)
     IN  /\ pinned' = IF c.kind = "none" THEN [pinned EXCEPT ![pull[t].gen] = since] ELSE pinned
         /\ pull' = [pull EXCEPT ![t] = [@ EXCEPT !.phase = "apply", !.page = page,
                                                    !.off = page.from, !.again = page.hasMore]]
  /\ UNCHANGED <<journal, state, raw, view, conflict, saved, cmd, late, edits, faults>>

\* Tower refuses the read: reset_required keeps the views, revocation hides them.
Denied(t, hide) ==
  /\ pull[t].phase = "read"
  /\ state.localGeneration < MaxResets
  /\ pull' = [pull EXCEPT ![t] = [@ EXCEPT !.phase = "reset", !.hide = hide]]
  /\ UNCHANGED <<journal, pinned, state, raw, view, conflict, saved, cmd, late, edits, faults>>

\* Every commit compares the generation and cursor the page was read under.  The
\* cursor may instead be the page's own next one: another tab has applied it.  A
\* delta is refused before the snapshot is complete.
Replayed(t) == /\ pull[t].gen = state.localGeneration
               /\ state.cursor # pull[t].cursor /\ state.cursor = pull[t].page.next

\* Mutant: the cursor is not compared.
Held_AnyCursor(t) == pull[t].gen = state.localGeneration
Held(t) == pull[t].gen = state.localGeneration /\ pull[t].cursor = state.cursor
Incomplete(t) == pull[t].page.mode = "delta" /\ state.handover /\ ~state.snapshotComplete

\* resetPgRecordAuthority: compare-and-swap on cursor and generation.
Reset(t) ==
  /\ pull[t].phase = "reset" /\ Held(t)
  /\ state.localGeneration < MaxResets
  /\ state' = FreshState(state.localGeneration + 1)
  /\ IF pull[t].hide
     THEN /\ saved' = [r \in Records |-> saved[r] \/ view[r].status = "pending"]
          /\ view' = [r \in Records |-> Absent]
          /\ raw' = [r \in Records |-> NoRow]
          /\ pull' = [pull EXCEPT ![t] = Idle]
     ELSE /\ pull' = [pull EXCEPT ![t] = [Idle EXCEPT !.phase = "read", !.gen = state.localGeneration + 1]]
          /\ UNCHANGED <<raw, view, saved>>
  /\ UNCHANGED <<journal, pinned, conflict, cmd, late, edits, faults>>

\* A slice ends SubSize positions on, or with the page.
Partial(p) == p.off + SubSize < p.page.to
SliceEnd(p) == IF Partial(p) THEN p.off + SubSize ELSE p.page.to
Tag(p) == IF p.page.mode = "snapshot" THEN state.localGeneration ELSE state.generation

\* The slice ends a delta, and with it perhaps a handover, whose omission walk
\* must come before the cursor.
Ends(p) == p.page.mode = "delta" /\ ~p.page.hasMore /\ ~Partial(p)
Retires(p) == Ends(p) /\ state.snapshotComplete /\ state.handover

\* Mutant: every slice moves the cursor.
CommittedCursor_EverySlice(p) == IF Retires(p) THEN state.cursor ELSE p.page.next
CommittedCursor(p) == IF Partial(p) \/ Retires(p) THEN state.cursor ELSE p.page.next

\* applyRecordPage: one slice of the page in one transaction.  Rows and flags
\* commit together; the cursor moves with the last slice only.
Apply(t) ==
  LET p == pull[t]
      brings == [r \in Records |-> Change(p.page, r, p.off, SliceEnd(p))]
      changed == {r \in Records : brings[r] # 0 /\ ~Skipped(r, brings[r], p.page.mode, Tag(p))}
  IN
  /\ p.phase = "apply" /\ Held(t) /\ ~Incomplete(t)
  /\ raw' = [r \in Records |-> IF r \in changed THEN [ver |-> brings[r], gen |-> Tag(p)] ELSE raw[r]]
  /\ view' = [r \in Records |-> IF r \in changed THEN Materialized(view[r], brings[r], Tag(p)) ELSE view[r]]
  /\ conflict' = [r \in Records |-> IF r \in changed THEN Conflicted(view[r], brings[r], conflict[r]) ELSE conflict[r]]
  /\ state' = [state EXCEPT
       !.cursor = CommittedCursor(p),
       !.generation = Tag(p),
       !.snapshotComplete = @ \/ (p.page.complete /\ ~Partial(p)),
       !.handover = p.page.mode = "snapshot" \/ (@ /\ (~Ends(p) \/ Retires(p))),
       !.retirement = IF ~Retires(p) THEN NoRetirement
                      ELSE IF Retiring THEN @ ELSE [next |-> p.page.next, at |-> 0],
       !.converged = Ends(p) /\ ~Retires(p)]
  /\ pull' = [pull EXCEPT ![t] =
       [p EXCEPT !.off = SliceEnd(p),
                 !.phase = IF Partial(p) THEN "apply" ELSE IF Retires(p) THEN "walk" ELSE "settle"]]
  /\ UNCHANGED <<journal, pinned, saved, cmd, late, edits, faults>>

\* Another tab has committed this very page: go on from its cursor.
Replay(t) ==
  /\ pull[t].phase = "apply" /\ Replayed(t)
  /\ pull' = [pull EXCEPT ![t] = [@ EXCEPT !.phase = "settle",
                                             !.again = pull[t].again \/ pull[t].off + SubSize < pull[t].page.to]]
  /\ UNCHANGED <<journal, pinned, state, raw, view, conflict, saved, cmd, late, edits, faults>>

\* retireSnapshotOmissions: one row of the view tables, then of pg_record_rows.
Confirmed(r) == raw[r].ver # 0 /\ raw[r].gen = state.generation /\ ~Deleted(raw[r].ver)
LocalCreation(r) == view[r].status = "pending" /\ view[r].gen = -1 /\ raw[r].ver = 0
Omitted(r) == /\ view[r].status # "absent" /\ view[r].gen # state.generation
              /\ ~Confirmed(r) /\ ~LocalCreation(r)

WalkHeld(t) == /\ pull[t].gen = state.localGeneration
               /\ Retiring /\ state.retirement.next = pull[t].page.next

\* Mutant: one step past the last row.
WalkGoesOn_OneMore == state.retirement.at <= 2 * NumRecords
WalkGoesOn == state.retirement.at < 2 * NumRecords

WalkRow == (state.retirement.at % NumRecords) + 1

\* One transaction of the walk takes one row, and remembers it as "after".
Walk(t) ==
  /\ pull[t].phase = "walk" /\ WalkHeld(t) /\ WalkGoesOn
  /\ LET r == WalkRow
     IN  IF state.retirement.at < NumRecords
         THEN /\ view' = IF Omitted(r) THEN [view EXCEPT ![r] = Absent] ELSE view
              /\ saved' = IF Omitted(r) /\ view[r].status = "pending" THEN [saved EXCEPT ![r] = TRUE] ELSE saved
              /\ UNCHANGED raw
         ELSE /\ raw' = IF raw[r].gen # state.generation THEN [raw EXCEPT ![r] = NoRow] ELSE raw
              /\ UNCHANGED <<view, saved>>
  /\ state' = [state EXCEPT !.retirement.at = @ + 1]
  /\ UNCHANGED <<journal, pinned, conflict, cmd, pull, late, edits, faults>>

\* The walk has ended: only now does the terminal cursor commit.
FinishWalk(t) ==
  /\ pull[t].phase = "walk" /\ WalkHeld(t)
  /\ state.retirement.at = 2 * NumRecords
  /\ state' = [state EXCEPT !.cursor = state.retirement.next, !.handover = FALSE, !.converged = TRUE,
                            !.retirement = NoRetirement]
  /\ pull' = [pull EXCEPT ![t].phase = "settle"]
  /\ UNCHANGED <<journal, pinned, raw, view, conflict, saved, cmd, late, edits, faults>>

\* A failed compare-and-swap throws out of the attempt.
Reject(t) ==
  /\ \/ pull[t].phase = "apply" /\ ~Replayed(t) /\ (~Held(t) \/ Incomplete(t))
     \/ pull[t].phase = "walk" /\ ~WalkHeld(t)
     \/ pull[t].phase = "reset" /\ ~Held(t)
  /\ pull' = [pull EXCEPT ![t] = Idle]
  /\ UNCHANGED <<journal, pinned, state, raw, view, conflict, saved, cmd, late, edits, faults>>

----------------------------------------------------------------------------
(* reconcilePgRecordConflicts.                                              *)

\* Mutant: the canonical row may be of a generation that is being replaced.
Settleable_AnyGeneration(r) == state.cursor.kind # "none" /\ conflict[r] /\ raw[r].ver # 0

\* The conflict's canonical row belongs to the generation being downloaded.
Settleable(r) == /\ state.cursor.kind # "none" /\ conflict[r] /\ raw[r].ver # 0
                 /\ state.handover => raw[r].gen = state.generation

Reconciled(r) == Settleable(r) /\ view[r].status = "synced"

\* A newer acknowledged row just drops its warning; any other is rematerialized.
Newer(r) == view[r].ver > raw[r].ver /\ ~Deleted(raw[r].ver)

ReconcileConflicts ==
  LET again == {r \in Records : Reconciled(r) /\ ~Newer(r)}
  IN  /\ raw' = [r \in Records |-> IF r \in again THEN [ver |-> raw[r].ver, gen |-> state.generation] ELSE raw[r]]
      /\ view' = [r \in Records |-> IF r \in again THEN Materialized(view[r], raw[r].ver, state.generation) ELSE view[r]]
      /\ conflict' = [r \in Records |-> IF r \in again THEN Conflicted(view[r], raw[r].ver, TRUE)
                                        ELSE conflict[r] /\ ~Reconciled(r)]

\* Mutant: an applied page is not followed by a reconciliation.
Settle_WithoutReconcile(t) ==
  /\ pull[t].phase = "settle"
  /\ pull' = [pull EXCEPT ![t] =
       IF pull[t].again THEN [Idle EXCEPT !.phase = "read", !.cursor = pull[t].page.next, !.gen = pull[t].gen]
       ELSE Idle]
  /\ UNCHANGED <<journal, pinned, state, raw, view, conflict, saved, cmd, late, edits, faults>>

\* hydrateTowerPgSyncBundle reconciles after every applied page, then the loop
\* reads the next page or ends.
Settle(t) ==
  /\ pull[t].phase = "settle"
  /\ ReconcileConflicts
  /\ pull' = [pull EXCEPT ![t] =
       IF pull[t].again THEN [Idle EXCEPT !.phase = "read", !.cursor = pull[t].page.next, !.gen = pull[t].gen]
       ELSE Idle]
  /\ UNCHANGED <<journal, pinned, state, saved, cmd, late, edits, faults>>

\* The user takes Tower's version: the local row is kept for recovery and
\* replaced by the canonical one.
AcceptRemote(r) ==
  /\ Settleable(r)
  /\ saved' = [saved EXCEPT ![r] = TRUE]
  /\ raw' = [raw EXCEPT ![r].gen = state.generation]
  /\ view' = [view EXCEPT ![r] = Materialized(Absent, raw[r].ver, state.generation)]
  /\ conflict' = [conflict EXCEPT ![r] = Conflicted(Absent, raw[r].ver, TRUE)]
  /\ UNCHANGED <<journal, pinned, state, cmd, pull, late, edits, faults>>

----------------------------------------------------------------------------
(* An optimistic command on one record: applyTaskPatch (src/app.js) around   *)
(* the descriptor of tower-command-port.  Every write below is a blind put.  *)

\* The patched row is shown, marked pending, and the command goes out; a row that
\* is not synced takes another path (TaskPatch).
LocalEdit(r) ==
  /\ edits < MaxEdits
  /\ cmd[r].phase = "none" /\ view[r].status = "synced"
  /\ cmd' = [cmd EXCEPT ![r] = [phase |-> "sent", ver |-> 0, prev |-> view[r], base |-> raw[r].ver]]
  /\ view' = [view EXCEPT ![r].status = "pending"]
  /\ edits' = edits + 1
  /\ UNCHANGED <<journal, pinned, state, raw, conflict, saved, pull, late, faults>>

TowerAccept(r) ==
  /\ cmd[r].phase = "sent" /\ Live(r)
  /\ Len(journal) < MaxJournal
  /\ journal' = Append(journal, [id |-> r, op |-> "upsert"])
  /\ cmd' = [cmd EXCEPT ![r] = [@ EXCEPT !.phase = "accepted", !.ver = Len(journal) + 1]]
  /\ UNCHANGED <<pinned, state, raw, view, conflict, saved, pull, late, edits, faults>>

Accepted(r) == [ver |-> cmd[r].ver, status |-> "synced", gen |-> -1]

\* A put overtakes when it replaces a newer row, or brings back a removed one,
\* and no warning is left that would have it rematerialized.
Overtakes(row, r) == /\ row.status = "synced" /\ ~conflict[r]
                     /\ view[r].status = "absent" \/ view[r].ver > row.ver

Put(row, r) == /\ view' = [view EXCEPT ![r] = row]
               /\ late' = [late EXCEPT ![r] = @ \/ Overtakes(row, r)]

\* reconcile of the descriptor: the row of the answer is put.
Acknowledge(r) ==
  /\ cmd[r].phase = "accepted"
  /\ Put(Accepted(r), r)
  /\ cmd' = [cmd EXCEPT ![r].phase = "acknowledged"]
  /\ UNCHANGED <<journal, pinned, state, raw, conflict, saved, pull, edits, faults>>

\* commandTowerWorkspace then has the withheld conflicts reconciled.  (The phase
\* remembers whether a row of r was withheld; the code does not need to.)
AcknowledgedReconcile(r) ==
  /\ cmd[r].phase = "acknowledged"
  /\ ReconcileConflicts
  /\ cmd' = [cmd EXCEPT ![r].phase = IF conflict[r] THEN "rematerialized" ELSE "reconciled"]
  /\ UNCHANGED <<journal, pinned, state, saved, pull, late, edits, faults>>

\* and applyTaskPatch puts the row of the answer once more.
Republish(r) ==
  /\ cmd[r].phase \in {"reconciled", "rematerialized"}
  /\ Put(Accepted(r), r)
  /\ cmd' = [cmd EXCEPT ![r] = NoCommand]
  /\ UNCHANGED <<journal, pinned, state, raw, conflict, saved, pull, edits, faults>>

\* fail of the descriptor: refused, or the answer was lost; the previous row is put.
Fail(r) ==
  /\ \/ cmd[r].phase = "sent" /\ UNCHANGED faults
     \/ cmd[r].phase = "accepted" /\ faults < MaxFaults /\ faults' = faults + 1
  /\ Put(cmd[r].prev, r)
  /\ cmd' = [cmd EXCEPT ![r].phase = "failed"]
  /\ UNCHANGED <<journal, pinned, state, raw, conflict, saved, pull, edits>>

\* applyTaskPatch then puts the previous row again, or the edit marked failed
\* (which the download treats like pending).
GiveUp(r, rollback) ==
  /\ cmd[r].phase = "failed"
  /\ Put(IF rollback THEN cmd[r].prev ELSE [cmd[r].prev EXCEPT !.status = "pending"], r)
  /\ cmd' = [cmd EXCEPT ![r] = NoCommand]
  /\ UNCHANGED <<journal, pinned, state, raw, conflict, saved, pull, edits, faults>>

----------------------------------------------------------------------------
(* Faults.                                                                  *)

\* A request of the loop fails, or its tab closes.
Abort(t) ==
  /\ pull[t].phase # "idle" /\ faults < MaxFaults
  /\ faults' = faults + 1
  /\ pull' = [pull EXCEPT ![t] = Idle]
  /\ UNCHANGED <<journal, pinned, state, raw, view, conflict, saved, cmd, late, edits>>

\* The browser restarts: the database survives, loops and commands do not.
Restart ==
  /\ faults < MaxFaults
  /\ faults' = faults + 1
  /\ pull' = [t \in Tabs |-> Idle]
  /\ cmd' = [r \in Records |-> NoCommand]
  /\ UNCHANGED <<journal, pinned, state, raw, view, conflict, saved, late, edits>>

----------------------------------------------------------------------------
Init ==
  /\ journal = [i \in 1..Existing |-> [id |-> i, op |-> "upsert"]]
  /\ pinned = [g \in 0..MaxResets |-> -1]
  /\ state = FreshState(0)
  /\ raw = [r \in Records |-> NoRow]
  /\ view = [r \in Records |-> Absent]
  /\ conflict = [r \in Records |-> FALSE]
  /\ saved = [r \in Records |-> FALSE]
  /\ cmd = [r \in Records |-> NoCommand]
  /\ pull = [t \in Tabs |-> Idle]
  /\ late = [r \in Records |-> FALSE]
  /\ edits = 0 /\ faults = 0

Download(t) ==
  \/ Begin(t) \/ Read(t) \/ Reset(t) \/ Apply(t) \/ Replay(t)
  \/ Walk(t) \/ FinishWalk(t) \/ Reject(t) \/ Settle(t)

Next ==
  \/ \E t \in Tabs : Download(t) \/ Abort(t) \/ Denied(t, TRUE) \/ Denied(t, FALSE)
  \/ \E r \in Records : \/ TowerWrite(r, "upsert") \/ TowerWrite(r, "delete")
                        \/ LocalEdit(r) \/ TowerAccept(r) \/ AcceptRemote(r)
                        \/ Acknowledge(r) \/ AcknowledgedReconcile(r) \/ Republish(r)
                        \/ Fail(r) \/ GiveUp(r, TRUE) \/ GiveUp(r, FALSE)
  \/ Restart

Spec == Init /\ [][Next]_vars

\* Each tab's loop keeps running: its steps are awaits that return, and a timer
\* or the event stream starts the next attempt.
Fairness == \A t \in Tabs : WF_vars(Download(t))
FairSpec == Spec /\ Fairness

----------------------------------------------------------------------------
(* Properties.                                                              *)

ChangeType == [id : Records, op : {"upsert", "delete"}]
StateType == [cursor : Cursor, localGeneration : 0..MaxResets, generation : Generation,
              snapshotComplete : BOOLEAN, handover : BOOLEAN,
              retirement : [next : Cursor, at : 0..2 * NumRecords], converged : BOOLEAN]
RawType == [ver : Version, gen : Generation]
CommandType == [phase : {"none", "sent", "accepted", "acknowledged", "reconciled",
                         "rematerialized", "failed"}, ver : Version, prev : Row, base : Version]
PullType == [phase : {"idle", "read", "apply", "walk", "settle", "reset"}, cursor : Cursor,
             gen : 0..MaxResets, page : Page, off : Nat, again : BOOLEAN, hide : BOOLEAN]

\* Every variable holds a value the code can store in it.
TypeOK ==
  /\ journal \in Seq(ChangeType) /\ Len(journal) <= MaxJournal
  /\ pinned \in [0..MaxResets -> -1..MaxJournal]
  /\ state \in StateType
  /\ raw \in [Records -> RawType]
  /\ view \in [Records -> Row]
  /\ conflict \in [Records -> BOOLEAN] /\ saved \in [Records -> BOOLEAN]
  /\ cmd \in [Records -> CommandType]
  /\ pull \in [Tabs -> PullType]
  /\ late \in [Records -> BOOLEAN]
  /\ edits \in 0..MaxEdits /\ faults \in 0..MaxFaults

\* The delta cursor skips nothing.  For every record whose last change lies
\* behind the committed cursor the canonical table holds exactly that change:
\* the row itself if it lives, and if it was deleted no live row, except one an
\* unfinished handover has still to retire.
CursorCoversRows ==
  state.cursor.kind = "delta" =>
    \A r \in Records : LET v == Latest(r) IN
      v # 0 /\ v <= state.cursor.at =>
        IF Deleted(v)
        THEN raw[r].ver = 0 \/ raw[r].ver = v \/ (state.handover /\ raw[r].gen # state.generation)
        ELSE raw[r].ver = v

\* No command or warning of r is still to be worked off.
Quiet(r) == cmd[r].phase = "none" /\ view[r].status # "pending" /\ ~conflict[r]

ShowsTower(r) ==
  IF Live(r) THEN view[r].status = "synced" /\ view[r].ver = Latest(r)
  ELSE view[r].status = "absent"

CaughtUp == state.converged /\ state.cursor = DeltaCursor(Len(journal))

\* When the loop reports convergence at the end of the journal, a record that
\* lives at Tower is shown at its last version, and no deleted record is shown,
\* except where a command's put came late.
ConvergedIsTower == CaughtUp => \A r \in Records : Quiet(r) /\ ~late[r] => ShowsTower(r)

\* A completed command leaves the canonical row that was withheld for it
\* rematerialized: its last put does not bring back an older version.
WithheldRowStays ==
  [][\A r \in Records : cmd[r].phase = "rematerialized" /\ Republish(r) =>
       view'[r].ver >= view[r].ver]_vars

\* While a command is unanswered its edit can be recovered: the optimistic row
\* is still shown, or a warning, a reset entry or a recovery entry holds it.  The
\* warning goes only if Tower deletes the record and then brings it back, both after
\* the canonical row the edit was made over: the edit of the deleted row is withheld,
\* and the restored row replaces it.
Restored(r, since) == \E i, j \in 1..Len(journal) :
  since < i /\ i < j /\ journal[i] = [id |-> r, op |-> "delete"] /\ journal[j].id = r
EditRecoverable ==
  \A r \in Records : cmd[r].phase \in {"sent", "accepted"} =>
    view[r].status = "pending" \/ conflict[r] \/ saved[r] \/ Restored(r, cmd[r].base)

\* Between resets the committed cursor moves forward only: none, through the
\* snapshot, then along the journal, whichever tab commits.
Behind(c, d) ==
  \/ c = d \/ c.kind = "none"
  \/ c.kind = "snapshot" /\ (d.kind = "delta" \/ (d.kind = "snapshot" /\ c.at <= d.at))
  \/ c.kind = "delta" /\ d.kind = "delta" /\ c.at <= d.at
CursorForward == [][state'.localGeneration = state.localGeneration => Behind(state.cursor, state'.cursor)]_vars

\* Why it does: every cursor a tab or the walk is about to commit lies ahead of
\* the one it will be compared with, and none points past the journal's end.
InJournal(c) == c.since <= Len(journal) /\ (c.kind = "delta" => c.at <= Len(journal))
PullAhead(t) == /\ InJournal(pull[t].cursor) /\ InJournal(pull[t].page.next)
                /\ pull[t].phase = "apply" => Behind(pull[t].cursor, pull[t].page.next)
CursorInv ==
  /\ InJournal(state.cursor) /\ InJournal(state.retirement.next)
  /\ Retiring => Behind(state.cursor, state.retirement.next)
  /\ \A g \in 0..MaxResets : pinned[g] <= Len(journal)
  /\ \A t \in Tabs : PullAhead(t)

\* A row that is on screen is taken away only when access was revoked or Tower
\* did delete that record: a stale page, a replay or the omission walk of a
\* fuzzy snapshot never removes a row that lived all the time.
LiveRowsStay ==
  [][\A r \in Records : view[r].status # "absent" /\ view'[r].status = "absent" =>
       \/ state'.localGeneration > state.localGeneration
       \/ \E i \in 1..Len(journal) : journal[i].id = r /\ Deleted(i) /\ i > raw[r].ver
       \/ raw[r].ver # 0 /\ Deleted(raw[r].ver)]_vars

\* Rows return to the screen only with canonical authority behind them.
ShownWithAuthority ==
  [][\A r \in Records : view[r].status = "absent" /\ view'[r].status # "absent" => raw'[r].ver # 0]_vars

\* Taking Tower's version of a record resolves its warning.
AcceptResolves ==
  [][\A r \in Records : AcceptRemote(r) => ~conflict'[r]]_vars

\* Once Tower is quiet and faults cease, the cache converges and stays so.
EventuallyConverged == <>[]CaughtUp

\* A withheld change is not withheld for ever: in the end every record without
\* command, failed edit or late put is shown as Tower has it, and no warning is
\* left on a live one.  A warning whose canonical row was retired is excepted:
\* reconciliation passes it over.
Orphaned(r) == conflict[r] /\ raw[r].ver = 0
EventuallyShown ==
  <>[](\A r \in Records :
         cmd[r].phase = "none" /\ view[r].status # "pending" /\ ~late[r] /\ ~Orphaned(r) =>
           ShowsTower(r) /\ (Live(r) => ~conflict[r]))

\* The abstract replica: what the canonical table holds of each record, and the
\* committed delta cursor once no handover is under way.
Feed == INSTANCE ChangeFeed WITH
  feed <- journal,
  held <- [r \in Records |-> IF raw[r].ver = 0 \/ Deleted(raw[r].ver) THEN 0 ELSE raw[r].ver],
  cut  <- IF state.cursor.kind = "delta" /\ ~state.handover THEN state.cursor.at ELSE -1

\* The cache is a replica of Tower's feed of changes.  Pages read before other
\* changes, slices, two tabs, omission walks and authority resets together never
\* move a record back along the feed, never declare a handover over while a
\* record is behind the cursor, and take a record away only where Tower did.
Replica == Feed!Spec
=============================================================================
