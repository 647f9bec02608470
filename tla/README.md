# Flight Deck: a verification development

Flight Deck (`src/`) is the browser client of Tower, a Postgres-backed workspace
server. It keeps a replica of the workspace in IndexedDB, shows the replica,
writes to it optimistically, and reconciles it with Tower over an incremental
record protocol and an event stream. This directory holds TLA+ models of that
replica, TLC configurations that check them on small instances, and proofs
checked by TLAPS.

## 1. The system

| Component | State it keeps | Operations | Made hard by |
|---|---|---|---|
| Record-delta cache `pg-record-delta.js` | `pg_record_rows` (canonical rows, tagged by generation), the family tables the UI reads, `pg_record_conflicts`, `sync_state` (cursor, generation, handover) | apply a page in transactions of 32, omission walk, authority reset, conflict reconciliation, accept remote | several tabs, restarts between transactions, fuzzy snapshots, local edits in the way |
| Download loop `pg-read-hydrator.js` | cursor, generation and resets of one attempt | read page, apply, resume retirement, reset on `reset_required` or revocation | lost requests, another tab committing the same page |
| Device checkpoints (protocol v2) `pg-device-checkpoints.js` | device identity, pending acknowledgement, cache lease | register, acknowledge, retire, lease | lost answers, paused owners, expired leases |
| Tower sync service `tower-sync-service.js` | in-flight and completed commands, generations per entity, freshness, fallback timer | `command`, `ensureLoaded`, `materialize`, `dispose` | overlapping commands, workspace switches |
| Command intents and descriptors `tower-command-intents.js`, `tower-command-port.js` | none | optimistic put, execute, reconcile, fail | blind puts |
| Task editing `app.js` | task rows, background task queue | `applyTaskPatch`, `saveEditingTask`, queue | a crash between puts, retries, stale row versions |
| File and channel managers | UI copies of rows | edits that end in commands, each with a put of its own | results that come back late |
| Sync manager `sync-manager.js` | service, SSE state, polling | `commandTowerWorkspace`, hydration targets, SSE hand-over | ordering of events and loads |
| Sync worker `worker/sync-worker-runner.js`, `sync-worker-client.js`, `sse-stream-protocol.js` | SSE connection, unacknowledged batches, flush flag | connect, acknowledge batch, flush, run | reconnects, out-of-order acknowledgements |
| Legacy outbox `worker/sync-worker.js` | `pending_writes` | push, pull | crash between push and delete |
| Materialisation worker client | one worker, pending requests | post, settle, destroy | worker failure |
| Edit leases `pg-edit-session.js` | lease sessions per record | acquire, renew, release | renewals racing releases |
| Document editor `docs-manager.js` | editor fields, `document_drafts`, recoveries, timers | type, persist, autosave, save and exit, resume, discard | a lost page, late answers, other people's versions |
| Chat `chat-message-manager.js` | optimistic rows under client ids, the list on the screen, composer drafts | send, resend, edit, refresh | one message under two identities, three ways it comes back |
| Unread projection, feeds, drive, editor, translators, crypto, API client | see PROJECT.json | | presentation, I/O or pure data |

How they interact: the UI managers call a command intent; `commandTowerWorkspace`
takes it to the service of the selected workspace, whose descriptor puts the
optimistic row in Dexie, sends the request and puts the answer; afterwards the
withheld conflicts are reconciled in the materialisation worker. Independently the
download loop (a timer, an event or a user action starts it) reads pages from
Tower and applies them to the same tables. Nothing locks the two against each
other except the transactions of IndexedDB, and the family tables are written by
both. A workspace switch disposes of the service and opens another database.

What each part must get right:

- cache: the cursor skips no change; a converged cache shows what Tower has; an
  edit in the way of a change is not lost; nothing that lives is taken off the
  screen, and nothing is shown without authority;
- loop: it converges after any finite trouble; the cursor moves forward only;
- service: one request per mutation; answers of one record settle in order; no
  answer crosses a workspace; every call comes back; what is reported as done was
  done;
- tasks: an edit reaches Tower at most once, a task is created once, queued edits
  survive a restart;
- event stream: the persisted event cursor passes no unapplied event;
- device checkpoints: Tower is told of nothing that is not committed, and no
  registration is left behind;
- leases: no lease is forgotten, no renewal outlives its editor;
- documents: the latest text is not lost, and no save covers up a version it has not
  seen;
- chat: a message is kept, and kept once.

`PROJECT.json` lists every component with its status, and under "hazards" the
lines where these properties could break.

## 2. Modules

| Module | Models |
|---|---|
| `RecordDelta` | the v1 download loop, the transactions of `pg-record-delta.js` and one optimistic command per record, over one shared database and several tabs |
| `MCRecordDelta` | its instances for TLC |
| `RecordDeltaCover`, `RecordDeltaView` | the inductive invariants of `RecordDelta`: what a cursor covers, what is shown |
| `TowerCommand` | `TowerSyncService.command`, its callers in the file and channel managers, Tower, and workspace switches |
| `MCTowerCommand` | its instance for TLC |
| `ChangeFeed` | what the cache promises: a replica of a feed of changes (implemented by `RecordDelta`) |
| `DeviceCheckpoint`, `MCDeviceCheckpoint` | protocol v2: registration, acknowledgement, replacement and retirement of device identities, the database lease |
| `EventStream`, `MCEventStream` | the worker's stream connection, its batches, the page's queue of materialisations, the acknowledged cursor |
| `DocumentEdit`, `MCDocumentEdit` | the document editor, its drafts, saves, recoveries and discards |
| `EditLease`, `MCEditLease` | the requests for a document's edit lease and everything that starts them |
| `ChatSend`, `MCChatSend` | a chat message from the composer to Tower and back |
| `TaskPatch` | edits of tasks: `applyTaskPatch`, the persisted background queue, the commands they share, reloads, lost answers, other clients |
| `MCTaskPatch` | its instances for TLC |
| `RecordDeltaProofs`, `DeviceCheckpointProofs`, `EventStreamProofs`, `DocumentEditProofs`, `EditLeaseProofs`, `ChatSendProofs`, `TowerCommandProofs`, `TaskPatchProofs` | the theorems about each of them, for all constants, and (`RecordDelta` apart) the invariants they rest on |

### RecordDelta

State and code:

- `journal` is Tower's record journal. A change is named by its position, which
  also serves as the record's version (`row_version` and the change version rise
  together). `pinned` is the position at which Tower began a generation's snapshot.
  Both are external: they are modelled from what the client may expect of pages.
- `state` is the `sync_state` row: cursor, `localGeneration`, `generation`,
  `snapshotComplete`, `snapshotReconciliationPending` (`handover`),
  `snapshotRetirement` (`retirement`) and `converged`.
- `raw` is `pg_record_rows`, `view` the family tables, `conflict` the warning of
  `pg_record_conflicts` under the record's own key, `saved` the entries that keep a
  local row under another key (`reset:` conflicts, `pg_command_recovery`).
- `pull[t]` is tab t's attempt: what it has read, under which cursor and
  generation, and how far it has applied it. `cmd[r]` is the command out on r.
- `late[r]` is history: a command's put replaced a newer row or brought back a
  removed one.

One IndexedDB transaction is one action; everything between two transactions may
interleave. `Begin`, `Read`, `Denied`, `Reset`, `Apply`, `Replay`, `Walk`,
`FinishWalk`, `Reject` and `Settle` are the loop; `Apply` is one slice of a page with
skip rules, materialisation, conflicts and cursor in one step, as in
`applyRecordPage`. `LocalEdit`, `TowerAccept`, `Acknowledge`,
`AcknowledgedReconcile`, `Republish`, `Fail`, `GiveUp` are `applyTaskPatch` around
the descriptor, one action per await; `AcceptRemote` is the user's choice in the
conflict banner; `Abort` and `Restart` lose a request, a tab or the browser.

Abstractions: a row is its version, its status and its generation tag. A failed
row counts as pending, as `pending()` in the code does. Families, the mapping of
rows, actors, summaries and attention counts are data of the same transactions and
left out; so are `pending_writes` of compatibility families (a command out is `cmd`)
and client-generated record ids.

The abstract specification is `ChangeFeed`. `Feed` in `RecordDelta` instantiates it
with `feed <- journal`, `held` the change each row of `pg_record_rows` shows and `cut`
the committed cursor (`Open` while a snapshot is under way); `Replica`, checked in
`tabs` and proved (section 4), says that every step of two tabs is a step of the feed's replica or a
stutter. What it adds to `CursorCoversRows` is that no record ever goes back.

### DeviceCheckpoint

- `state` has a state row for each scope (a signer at a backend and workspace),
  `owner` is the row that says whose records the tables hold, `rows` the tables,
  `lease` the lease row of browsers without Web Locks.
- `run[t]` is tab t's pass of `syncDeviceRecords`, one action per await. `st` is its
  copy of the state row; a commit is accepted only while the tab holds the lease and
  the row is the one it read (`Commit`), as `commitDeviceMetadata` has it.
- `devices` is Tower's table of registered clients with revision and position;
  `acks` are acknowledgements on their way, which may arrive late, more than once
  after a retry, or not at all.
- Registration, retirement and reading are requests without a fence in the code; `late`
  notes the clients a pass registered after it had lost its lease.

Slices of a page and the omission walk are `RecordDelta`'s and one transaction here.

### EventStream

- The worker's part is `key`, `cursor`, `conn`, `token`, `source`, `stale`, `batches`,
  `writing`; the page's is `active`, `queue`, `work`, `retry`, `deferred`. They
  exchange token requests, batches and acknowledgements (`acks`).
- A materialisation is a read of the records an event names (`Targeted`), a workspace
  sync (`WorkspaceSync`), or nothing at all because a sync has run within 30 seconds
  (`Suppressed`). `Fail` retries and then defers a batch; a later sync takes it up.
- A cursor carries the workspace it came from, so that one restored for the wrong
  workspace can be seen.
- `Reselect` is a second selection of the same workspace, which changes the
  generation without disposing of the stream; the batches it passes over (`passed`)
  stay unacknowledged and hold the cursor back.

The legacy record and group events are left out, and a crash of the worker alone is:
`Reload` loses both. The page's status may stay `connected` when only the worker dies.

### DocumentEdit

- `heads` are the accepted bodies, `recs` the recoveries Tower preserves, `draft` the
  row of `document_drafts`, `row` the document's row. A text is a number.
- `ed` is the editor: text, base version, dirty flag, the two timers (`timer`:
  autosave, `disk`: the draft's write), the draft on offer, whether the saved version
  is being read, and what it remembers of its draft (`selectedDocLocalDraft`).
- `SaveClean`, `SaveDirty`, `SaveSubmit`, `SaveAnswer` are `saveSelectedPgDocItem` by
  its awaits; a save that finds a newer head preserves its text as a recovery.
- `last` and `anc` are history: the latest text, and the texts each was made from.
- `Patient` restricts the user, not the code: he keeps from typing while a draft is on
  offer or a discard runs, and from resuming a draft that has become the saved text.
  With `Patient = FALSE` the code breaks its promises (section 6).

### EditLease

- `lease` is Tower's: none, somebody else's or a numbered one of this tab's; `session`
  is `pgEditLeaseSessions`, `renewing` its timer.
- `acq`, `ren`, `rel` and `save` are the requests under way, each with the lease or the
  visit it belongs to; answers come in any order. `leaving` is
  `releaseSelectedDocLeaseWhenSafe` waiting for saves.
- `astray` is history: an answer was lost or overtaken, or a draft was discarded (which
  clears the session without a release), so that Tower may keep a lease unknown here
  until it expires.

### ChatSend

- `local[m]` and `row[m]` are the two rows of `chat_messages` a message may have, under
  the client's id and under Tower's; `raw` and `withheld` are the record delta's;
  `list[m]` is what the page shows of the two.
- `call[m]` is the request under way. `here` says whether a reply is still in the
  thread it was sent from. `kind[m]` decides who keeps the row when it fails: a new
  thread's row is removed and its text stays in the composer (`returned`).
- `CreateAnswer` is `replaceMessageRecord` with its rule that a materialised revision
  wins; `CommitPage` is `materialize` for messages; `CommitTyped` is
  `replacePgMessagesForChannel`; `Refresh` is `applyMessages`, which keeps pending rows
  the database no longer has.
- `cut`, `blind`, `revived`, `astray` are history and mark what section 5 excepts.

### TowerCommand

- `calls[i]` is one command: the record, the row it replaced, the service it was
  given to, its generation, its leader (itself, or the call whose promise or kept
  acknowledgement it took) and how it ended. `phase` walks through the awaits.
- `generation` is `commandGenerations`, cleared by disposal. `completedCommands` and
  `inFlight` are not kept twice: they are the calls that satisfy `Completed` and
  `InFlight`.
- `db[w]` is the database of workspace w. Every put goes to `db[current]`, as
  `wsDb()` does.
- A file is edited through `updateFileBrowserRow`: a put of its own, a command whose
  mutation id names the edit, a put of the result. A channel is edited through
  `renameSettingsChannel` or `saveChannelBasePrompt`: the mutation id is the channel's.
- Tower checks a file edit's row version and applies a channel edit always.

### TaskPatch

- `edits` holds every call of `applyTaskPatch` and how far it has come (`phase`); the
  value an edit gives a field is its number. `queue` is `pgTaskWriteQueue`, `saved` its
  copy in `sync_state`, `batch` the items being processed.
- `db` is the table of task rows, `tasks` the list on the screen, from which every
  edit starts. `LiveQuery` is `applyTasks`, which takes a pending row without an entry
  in `pending_writes` for a synced one; PG tasks never have such an entry.
- `Branch` is the choice of `applyTaskPatch` between the queue, a direct update and
  the creation of a task. `Command` is the command service as these callers use it:
  `newest` is its generation per task, `Commands(key)` what runs or is complete under
  a mutation id. An update's id is made of the row it sends, so two edits can have
  the same one.
- `tower` keeps every version Tower held of a task, with the edit that made it.
  An update is accepted at the version it names; an update of state and other
  fields is two requests. A create has no identity that Tower would recognise.
- `Reload` ends the page: requests on their way become `stray` and may arrive later,
  the queue in memory is gone, and edits of the new page may begin before `Resume`.

Simplifications: an edit's put and its display are one step, as are an item's read of
the stored row and the optimistic put of its command; a workspace switch during a
batch (`detached`), the deferral of processing and the editor's copy of the row are
left out; `saveEditingTask` (app.js:7027-7045) has the same three branches and is not
a second actor; withheld conflicts are in `RecordDelta`.

## 3. Runs

Every configuration says `CHECK_DEADLOCK FALSE`: the bounds end every behaviour,
and a browser in which nobody does anything is at rest.

| Run | Question |
|---|---|
| `commands` | Does the cache show Tower's rows when it has converged, with a command in the way? Does an edit survive until it is answered? Does a living row stay? Does the cache converge in the end, and is each withheld change shown? |
| `tabs` | Two tabs, two transactions per page: does the cursor cover its rows and move forward only? Is the canonical table a replica of the feed? |
| `device` | Two tabs under the database lease: is Tower told only of what is committed, are identities retired, does the checkpoint settle? |
| `stream` | Does the acknowledged cursor pass no event that is not in the cache? Does each workspace keep its own cursor? Is every event cached and committed in the end? |
| `calls` | Does the service keep order and stay in its workspace? Is every synced row one Tower had? Does every call come back? |
| `task_queue` | Is an edit applied once, and is no row left pending, through a reload and other clients' edits? |
| `task_drafts` | Is a task made offline created once, however often it is edited, and is the saved queue worked off? |
| `document` | Is the latest text kept? Does no save cover up a version its text has not seen? Is what is marked clean Tower's? |
| `lease` | Is no lease forgotten, is each wait for edit access answered, does each renewal end with its editor? |
| `chat` | Is a message kept, and kept once? Is it never shown older than the cache? Does everything settle? |
| `cached`, `task_create` | Two statements of documents and tests that the code does not keep (section 6) |

What the properties of the passing runs say is written above each definition;
`PROJECT.json` pairs each with the mutant of the code it catches.

Bounds of `RecordDelta`: two records, journals of three changes, one reset, one
command, one fault. Two records are needed for a page to hold more than one change
and for a snapshot to be fuzzy (one record changes while the other is read); three
changes let a record be created, deleted and restored or changed twice under one
page; one reset gives two generations, which is all that any comparison in the
code distinguishes. `commands` has pages of one change, so that a snapshot takes two
reads; `tabs` cuts one page into two transactions. A second tab, a
second fault and a second edit multiply the states without a new kind of
interleaving in `commands` and are exercised by `tabs` (tabs) and in `TowerCommand`
(overlapping commands).
Bounds of `TowerCommand`: a file and a channel of one workspace, another workspace,
three calls (an older, a newer and one that joins or reuses), two switches (away and
back), so that a call of the first service can come back under the third.

Bounds of `TaskPatch`: `task_queue` has two edits of one task, each of two fields, so
that a request may be cut in half, with a reload, after which a request may have been
applied, may still arrive or may be gone, and a foreign edit, which moves the row's
version; edits go by the queue, directly, or directly with rollback. 1.9 million states. `task_drafts` has a task of Tower's and a draft, so that an edit is
queued or creates, with a reload, a failed request and a lost answer. `PatchInv` held in
both and with more of each.

Bounds of `DeviceCheckpoint`: two tabs, so that one can lose its lease to the other;
two users on one database; pages of one change and journals of two changes in all, so
that there is a page before the last; one fault (a crash, an expired lease, a lost
answer, a forgotten or revoked registration) and one change of user. Five identities
are more than that can use up. 457,462 states; with two faults `DeviceInv` held in 7.2
million.

Bounds of `EventStream`: two events of one workspace and another workspace without
any, so that a switch away and its cursor exist; one reconnect before polling takes over
and two quick attempts before a batch is deferred (five and three in the code: the
limits are compared, never computed with); two faults and one switch. 1.2 million
states, in which `StreamInv` held as well.

Bounds of `DocumentEdit`: three texts, three versions, two visits, so that somebody
else's version can come before and after one's own, and a late answer can find the
document reopened. Faults need no bound: lost requests and lost pages do not count up.
3.7 million states. `EditLease` has two leases, two visits and a fault;
`LeaseKnown` was also checked with three leases (4.1 million states).

Bounds of `ChatSend`: one message, three versions (created, edited here, edited or
deleted elsewhere), two faults, so that a send can fail, be sent again and fail
again or lose the page, and one switch away (a reload comes back; with two switches the
properties held in 1.8 million states). Messages meet only in the lock of the
composer. 0.7 million states; `TypeOK` held there as well.

Fairness. `FairSpec` of `RecordDelta` asks weak fairness of each tab's loop: its
steps are promise continuations and requests with a time limit, and the fallback
timer of the service starts the next attempt. Nothing is asked of Tower's writers,
of edits or faults, which are bounded, nor of a command's answer.
`Spec` of `TaskPatch` asks it of each edit's steps, of the batch loop, which a timer
starts, and of `Resume`; a request that Tower does not answer ends by the time limit
of `api.js:17`.
`FairSpec` of `TowerCommand` asks weak fairness of each call's own steps, and that a
request that was sent is answered or fails, which its time limit guarantees.
`FairSpec` of `DeviceCheckpoint` asks it of each tab's pass, which the same timers
start, of requests by their time limit and of the lease's expiry by the clock.
`FairSpec` of `EventStream` asks it of the worker and of the page as two threads whose
timers fire and whose database writes end; `Reselect`, events and faults are bounded.
`FairSpec` of `EditLease` asks it of answers and of the wait for saves.
`FairSpec` of `ChatSend` asks it of each request's steps (the time limit again), of the
download loop and of the conflict reconciliation that follows each of its pages;
`EventuallySettled` assumes that the user stops editing in the end, since a refused
edit can be repeated for ever.

## 4. Theorems

Every theorem holds for all values of the constants that satisfy the assumptions of
its model, which TLC evaluates in every run. Each is proved in the same way: an inductive
invariant that contains the property, Init implies it, each action keeps it (one
lemma per action), and PTL combines the two. Each invariant was first checked by TLC
on an instance as large as its run's, or larger.

| Module | Theorems | Invariant |
|---|---|---|
| `RecordDeltaProofs` | `TypeCorrect`, `CursorInvariant`, `CursorMovesForward` | `CursorInv` |
| | `CoverInvariant`, `CursorSkipsNothing`, `CacheIsReplica` | `CoverInv` |
| | `ViewInvariant`, `ConvergedShowsTower`, `EditsAreRecoverable`, `LiveRowsRemain` | `ViewInv` |
| `DeviceCheckpointProofs` | `DeviceInvariant`, `TypeCorrect`, `ResumableIsCovered`, `TowerIsNotAhead`, `SettledAgrees`, `RegistrationsAreKnown` | `DeviceInv` |
| `EventStreamProofs` | `StreamInvariant`, `TypeCorrect`, `CursorsAreOwn`, `CursorPassesNothing` | `StreamInv` |
| `TaskPatchProofs` | `PatchInvariant`, `TypeCorrect`, `AppliedAtMostOnce`, `PendingRowsAreOwed`, `CreatedOnce` | `PatchInv` |
| `TowerCommandProofs` | `CommandInvariant`, `TypeCorrect`, `SyncedIsTowers`, `AnswersCrossNoWorkspace`, `AnswersComeInOrder` | `CommandInv` |
| `EditLeaseProofs` | `LeaseInvariant`, `TypeCorrect`, `WaitingIsAnswered`, `LeaseIsKnown` | `LeaseInv` |
| `ChatSendProofs` | `ChatInvariant`, `TypeCorrect`, `KeptOnce`, `RowsKeepUp` | `ChatInv` |
| `DocumentEditProofs` | `DocumentInvariant`, `TypeCorrect`, `NothingIsCoveredUp`, `CleanShowsSaved`, `LatestIsKept` | `DocumentInv` |

**The forward cursor.** `CursorForward` is not inductive by itself: that a commit moves
the cursor forward needs that the page about to be committed lies ahead of the cursor
it was read under (`PullAhead`), that the walk's terminal cursor lies ahead of the
committed one, and that no cursor points past the journal. `CursorInv` states these;
the compare-and-swap (`Held`, `WalkHeld`) carries them from the tab to the committed
state.

**What a cursor covers.** `CursorCoversRows` speaks of delta cursors outside a handover
only. `CoverInv` (`RecordDeltaCover`) says of *every* cursor that is committed, or that
a tab may still commit, how far the canonical table has come: a snapshot cursor covers
the records before it as of the snapshot's beginning, a delta cursor all records, a page in
the middle of its slices the records before the slice, an interrupted walk the cursor it
will set. `Reached` has three ways for a record to be covered; the third, a record
deleted after the snapshot began whose row of an earlier generation is still there, is
what a fuzzy snapshot and the walk make necessary. `RowInv` separates the generations
(rows of an older one are no newer than the snapshot), without which a row left over
could be taken for a covered one.

**The refinement.** `CacheIsReplica` is `Spec => Replica`: the initial states map to
`ChangeFeed`'s, and each action of any number of tabs to one of its steps or a stutter.
`Emit`, `Reset` and an applied slice are the steps that show; that a slice is an
`Advance` needs `CoverInv` for the cut that is announced and `CursorInv` for its
direction, and that no record goes back needs that rows of the generation are at least
as new as the snapshot.

**What is shown.** `ViewInv` (`RecordDeltaView`) relates, record by record, the row on the
screen to the canonical row (`Follows`), to the command out on it and the row that
command would put back (`CommandOf`), to a walk that has already passed it (`Walked`),
and to what it was made over (`Recoverable`). `EditRecoverable` was first stated with a narrower
exception; the proof failed where a record is deleted, then restored, by
changes that come after the row the edit was made over, and TLC confirmed the
counterexample. `cmd[r].base` is the history variable that names that row.

**Device checkpoints.** Only the tab that holds the lease writes, and it holds it once
per pass; so `PassSound` can say that its copy of the state row *is* the row, and
`ClientSound` can compare the row with Tower: neither the registration nor an
acknowledgement on its way is ahead of the committed cursor, and both are equal once
nothing is left to acknowledge. Tabs without the lease still register, retire and have
acknowledgements out, which is why the invariant speaks of every acknowledgement and of
`late` registrations, not of the holder's alone. The proof found that `AckOutcome` was
written as a CASE with overlapping guards, of which TLA+ may take any; it is now an IF in
the order of Tower's checks. `Position` is `Nat` in the types: the bound on the sum of all
journals is a fold over `head`, about which nothing is proved.

**Commands.** `AnswersInOrder` needs that generations count the calls of a record in the
order they were made *within one service*, that a disposed service's calls belong to the
workspace of their time (`ServiceInv`), and that leaders are calls that ran themselves
(`LeaderInv`): an answer passed on to a call that joined is the leader's.
`SyncedIsTowers` needs the same of the rows that failing calls put back (`RowInv`).

**Leases.** `LeaseKnown` is inductive with two facts about crossing requests: a lease whose
release has arrived is not in force any more, and none is asked for while the
session holds one, answers lost or overtaken apart.

**Chat.** `ChatInv` says of each message that everything read, stored, shown or answered
is a version Tower had (`PastInv`), which requests can be under way beside which rows
(`CallInv`), and that a row on the screen is stored (`StoreInv`). From that a creation
answered after the record delta brought a later version cannot put the older one.

**Documents.** The theorems have `Patient` as a hypothesis, `Patient => (Spec => ...)`:
without it `NoBlindOverwrite` is false (section 6, 16), with it the constants are those of
the run. A save that Tower can still accept (`Live`) was made from a version, and the
editor goes on from *its* text (`SaveInv`); a text that is based on a version was made from
that version's text (`Drafts`, `Editors`), whether it came from typing, from the disk or from a
recovery. `LatestInv` lists the places where the latest text can be: at Tower, in a dirty
editor whose draft is written or about to be, or in the draft.

**Event stream.** The persisted cursor is the last position of some batch, so `StreamInv` must
say of every event that is owed (neither cached nor excepted) why no cursor that may yet
be persisted has come to it (`OwedInv`): every cursor of its workspace stays below it, and
a batch that reaches it has one before it, or is one, that *blocks*: it is not
acknowledged, no acknowledgement of it is on its way, and what the page holds of it still
contains the event. This holds because what the connection brought beyond the owed event
came in order and once (`OrderInv`); an event delivered twice to one memory or skipped by
a foreign cursor is `excused`. That a new batch's id is fresh is a cardinality argument (`Fresh`), and that
the flush stops at the first batch not yet acknowledged one about a least element.

**Tasks.** An edit's two parts have fixed places among Tower's versions: what goes first
stands at the version after the row the edit began with, the rest there or one further
(`PlaceInv`). Since a request names the version it expects, whoever sends it (the page,
the queue after a reload, a stray of the page before), a part cannot have two places, and
`AppliedAtMostOnce` follows. A stray keeps what its edit began with (`StrayInv`). Of the
creates of a row, `LiveInv` says that those under way or done in one life of the page are
held by the command service or lost, so that another joins or takes the result; `born` is
injective. `Without` is a recursive function; `WithoutType` proves what it
returns by a least counterexample, and `FilterExists` that it exists. The property was
first stated without the last exception of section 5; TLC refuted it when edits with rollback
were added to the run.

Left to TLC:

- liveness under fairness (`EventuallyConverged`, `EventuallyShown`, `EveryCallSettles`,
  `SavedDrains`, `EventuallyCaughtUp`, `RenewalEnds`, both `EventuallySettled`) and
  anything with ENABLED, which are out of the prover's reach;
- what a fold over a function or a sequence computes for every input (induction over
  data). No module declares a RECURSIVE operator.

Every other property of a passing run is proved.

## 5. Exceptions the properties make

They mark places where the code promises less than one might wish:

- `ConvergedIsTower` and `EventuallyShown` except a record whose row was put late by a
  command (`late`, the history variable), because every put of `applyTaskPatch` is blind;
- `EditRecoverable` excepts a record that Tower deleted and then restored, both after the
  canonical row the edit was made over: the first change withholds the edit and removes its row, the second
  finds no pending row and clears the warning;
- `EventuallyShown` excepts a warning whose canonical row a handover has retired
  (`Orphaned`): `reconcileConflictBatch` passes it over for ever;
- `PendingIsOwed` excepts an edit kept offline and one that a reload cut short: the row
  is put before the edit is queued or sent, and nothing looks for pending rows later; and
  the pending row of an earlier edit that a later one, failing, has put there again
  (`RolledBack`: `rollbackOnFailure` puts back what it found, `app.js:6344`);
- `AcknowledgedIsCached` and `EventuallyCaughtUp` except events acknowledged on the
  strength of a recent workspace sync (`unread`), and delivered twice to one memory or
  skipped by a foreign cursor (`excused`); the latter also batches passed over by a
  reselection (`passed`);
- `SettledIsTowers`, `RegistrationsKnown` and `EventuallySettled` of `DeviceCheckpoint`
  except a client registered by a pass that had lost its lease (`late`): only the
  acknowledgement asserts the lease, and the list of obsolete devices of a scope that
  is not the owner is passed over;
- the properties of `DocumentEdit` are checked for a patient user; `LatestKept` does not
  count a draft left on offer when a newer version comes;
- `LeaseKnown` excepts a lost or overtaken answer and a discarded draft (`astray`);
- `WrittenOnce` excepts a message sent again from a list that did not yet show Tower's
  row (`blind`: `resendFailedMessage` looks in the list first); `RowKeepsUp` and
  `EventuallySettled` of `ChatSend` except a row put by an answer older than what the
  cache holds (`revived`: the creation of a message whose deletion was already applied,
  and every answer to an edit, which is put as it is); the latter also a send cut off by
  a lost page or answered in another workspace (`cut`): its row stays pending, and only
  failed messages are sent again;
- `OneCreatePerSession` excepts a creation whose answer was lost: Tower is given no
  identity to recognise the second attempt by.

## 6. Where code and documents disagree

Two have a run that shows them:

1. *A second edit of a channel is not sent* (`cached`). `channel.update` uses the
   channel's id as mutation id, and the service keeps acknowledgements by that id.
2. *An edit creates a second task* (`task_create`). The documents let only a row Tower
   has not accepted be edited as a local creation; `isUnsyncedLocalPgRecord` takes
   every row that is not synced for one.

The others are stated in the modules and have no run of their own. To see one fail,
put its name in the place of the properties of the configuration named, with the
constants given (the rest unchanged), and `SPECIFICATION Spec`. Those marked [][] are
action properties and the one marked ~> a temporal one (`PROPERTY`), the others
invariants.

`RecordDelta`, with the constants of `MCRecordDelta_commands` and `PageSize = 2`:

3. `AcceptResolves` [][]: *an accepted deletion keeps its warning*.
   `tests/pg-record-delta.test.js:132` expects no conflict after an accepted choice;
   the delete branch of `materialize` returns before the warning is deleted.
4. `WithheldRowStays` [][]: *a withheld row is shown and then replaced*.
   `docs/design/incremental-cache-and-bounded-views.md:59-61` has withheld rows
   rematerialized when a command completes; `app.js:6338` puts the answer again after.
5. `ShownWithAuthority` [][]: *rows without authority*.
   `docs/design/pg-workspace-cursor-sync.md:50-52` hides everything on revocation; a
   command answered later puts its row back.

`TowerCommand`, with the constants of `MCTowerCommand_cached`:

6. `RowsStayHome`: *a row in the wrong database*: the failure path of
   `confirmFileBrowserRowUpdate`, after a workspace switch (`files-manager.js:1598`).
7. `OlderAckStaysBehind` [][]: *an older acknowledgement replaces a newer file edit*:
   the put of `confirmFileBrowserRowUpdate` comes after the service's guard.

`TaskPatch`, with the constants of `MCTaskPatch_create`, `Patches <- Single`,
`MaxFails = 0` and those named:

8. `SavedIsResumed` ~> (`Patches <- Title`, `Shared = {t1, t2}`, `MaxReloads = 1`): *an
   edit made before the resume drops the saved queue* (`app.js:6439`).
9. `SyncedEditArrived`: *a queued edit is lost and reported as synced*: an item sends
   the row as stored, and the answer before it has replaced that row (`app.js:6497`).
10. `SyncedRowIsTowers` (`Ways = {"background", "rollback"}`, `MaxFails = 1`): *a synced
    row Tower never held*. `applyTasks` shows a pending row as synced, and
    `rollbackOnFailure` stores what was shown
    (`docs/pg-migration/pg-edit-leases-and-offline-editing.md:61`).
11. `SharedCommandCarriesEdit` (`Ways = {"background", "direct"}`): *a direct edit answered from a queued one's command*, or
    the other way round: the mutation id names the row, not the patch
    (`tower-command-intents.js:15-17`).

`EventStream`, with the constants of `MCEventStream_stream` and those named:

12. `AckAfterHydration` (`MaxFaults = 0`, `MaxSwitches = 0`): *an event is acknowledged
    without a read* if a sync ran in the last 30 seconds, as one always has just after
    the stream connected (`sync-manager.js:3239`). `docs/design/sse-updates.md:155-157`
    has the cursor acknowledged after materialisation.
13. `AckNeverSkips` (`MaxFaults = 3`, `MaxSwitches = 0`): *a batch is taken for an
    earlier one*. After a reconnect the replay may be grouped differently, and a batch
    that ends in a known cursor reuses that batch's acknowledgement
    (`sync-worker-runner.js:604`; `docs/design/pg-workspace-cursor-sync.md:396`).
14. `CursorStaysHome` (`MaxFaults = 1`, `MaxSwitches = 2`): *a stream is asked for at
    another workspace's cursor*, restored after a disconnect
    (`sync-worker-runner.js:263`; `docs/design/sse-updates.md:163-165`).

`DeviceCheckpoint`, with the constants of `MCDeviceCheckpoint_device`:

15. `UnrelatedIsHidden`: *rows of another user stay* when the first use of protocol 2
    finds rows of protocol 1 (`pg-device-checkpoints.js:130`, the comment above it, and
    `docs/design/device-checkpoints.md`: "Switching scope replaces ownership and hides
    unrelated authority").

`DocumentEdit`, with the constants of `MCDocumentEdit_document` and `Patient = FALSE`:

16. `NoBlindOverwrite`: *a save covers up a version its text was not made from*. When a
    draft on offer has become the saved text, Resume sets the base to the newest
    version without putting that version's text into the editor
    (`docs-manager.js:1493-1503`); edited from there, the older text is accepted over it.
    `docs/design/document-body-loading.md:94-96`: "frontend optimism cannot bypass Tower
    concurrency enforcement".
17. `OfferedKept`: *the draft on offer is overwritten*. A newer version seen while a draft
    is on offer schedules a write of the draft (`docs-manager.js:2116`), and
    `persistSelectedDocDraft` does not ask whether an offer stands
    (`document-body-loading.md:84-86`).

   The two discards also lack the guards of generation and dirtiness that the document
   asks of asynchronous results (`docs-manager.js:2039-2073`, `4995-5023`;
   `document-body-loading.md:70-72`): text typed while they run is dropped.

`EditLease`, with the constants of `MCEditLease_lease` and `MaxFaults = 0`:

18. `EditingIsLeased`: *an editor without its lease*. The document is hidden, its lease
    being released; the user returns, the old session is used again
    (`pg-edit-session.js:159`), and the release's answer clears it (`:296`).
    `docs/pg-migration/pg-edit-leases-and-offline-editing.md:30`.
19. `SaveOwnsLease`: *a save is refused for a lease the tab itself gave back*, against the
    comment at `docs-manager.js:1055`.

   Relatives seen on the way: Retry after a refused renewal uses the expired token
   (`pg-edit-session.js:156-159`, `244-248`); a renewal answered after the release
   revives the session (`:220`); a document hidden while it acquires keeps the lease it
   is then given (`docs-manager.js:1986-2006`).

`ChatSend`, with the constants of `MCChatSend_chat`:

20. `AnswerStaysHome`: *a message in another workspace's database*. The comment at
    `db.js:1126` says "Late send completions must never select the workspace that
    happens to be active when the response arrives"; replies capture their database,
    messages and edits do not (`chat-message-manager.js:2593`, `3207`).

## 7. Plan

What is done is in sections 2 and 4. Every safety property of the passing runs is
proved; next, in order of importance:

| Module | Content |
|---|---|
| `Unread` | unread projection and read watermarks: a watermark moves forward only |
| `FlushGuard`, `WorkerClient` | the worker's flush flag; every request of the materialisation worker settles once |

## 8. Not modelled

Live queries, translators, the rich-text editor itself, chat and feed presentation,
drive, diagnostics, identity and cryptography, request building, generated code and
build scripts: they are pure data, presentation or I/O, or have little state that
interleaves. Of modelled components are left out: the offline editor, promotion of a
recovery and comments (`DocumentEdit`); leases of tasks and scopes, which last for one
command (`EditLease`); threads as rows, branches, own deletions, attachments and the
Inbox (`ChatSend`); polling and legacy events (`EventStream`). The unread
projection, the worker's flush flag and the materialisation worker's requests are
planned (section 7). The legacy bundled sync and outbox that precede the record
protocol are left out: they are only a fallback for servers without it.
