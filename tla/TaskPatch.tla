------------------------------ MODULE TaskPatch ------------------------------
(***************************************************************************)
(* Edits of a task from the browser (src/app.js): applyTaskPatch shows an  *)
(* edit at once and sends it on by one of three branches, the background   *)
(* queue of edits kept in sync_state, a direct update, or, for a row that  *)
(* is not synced, the creation of a task.  With them the parts of the      *)
(* command service they pass through (src/tower-sync-service.js and        *)
(* src/tower-command-port.js), the requests of src/pg-write-adapter.js,    *)
(* the live query that refreshes the board (applyTasks), a reload of the   *)
(* page, and Tower, whose tasks other clients edit as well.                *)
(*                                                                         *)
(* Edits are numbered in the order they begin, and the value an edit gives *)
(* a field is its number.  A queue item is the number of its edit: what it *)
(* carries (recordId, updatedTask, previousTask, patch) is in "edits".     *)
(***************************************************************************)
EXTENDS Integers, Sequences, SequencesExt, FiniteSets

CONSTANTS
  Shared,      \* tasks Tower and the browser both hold at first
  Drafts,      \* tasks created offline: the browser alone has a row
  Fresh,       \* ids Tower gives to the tasks it creates
  Ways,        \* how edits are called: "background", "direct", "rollback"
  Patches,     \* the sets of fields edits change
  BatchSize,   \* PG_TASK_WRITE_BATCH_SIZE
  MaxEdits,    \* bound: edits
  MaxReloads,  \* bound: reloads of the page
  MaxFails,    \* bound: requests that fail before Tower sees them
  MaxLost,     \* bound: answers of Tower that are lost
  MaxOther     \* bound: edits by other clients

Ids == Shared \cup Drafts \cup Fresh
Fields == {"state", "title"}

ASSUME IdAssumption ==
  /\ Shared \cap Drafts = {} /\ Shared \cap Fresh = {} /\ Drafts \cap Fresh = {}
  /\ IsFiniteSet(Ids)
ASSUME WayAssumption ==
  Ways \subseteq {"background", "direct", "rollback"} /\ Patches \subseteq SUBSET Fields \ {{}}
ASSUME BoundAssumption ==
  /\ BatchSize \in Nat \ {0} /\ MaxEdits \in Nat /\ MaxReloads \in Nat
  /\ MaxFails \in Nat /\ MaxLost \in Nat /\ MaxOther \in Nat

VARIABLES
  tower,    \* the versions Tower has held of each task, the last one current
  db,       \* the rows of the browser's database
  canon,    \* the version of each task the last sync has stored (pg_record_rows)
  tasks,    \* the rows on the screen (this.tasks)
  edits,    \* every edit so far
  queue,    \* pgTaskWriteQueue: the items in memory
  saved,    \* the queue in sync_state
  batch,    \* the items being processed; pgTaskWriteInFlight is batch # {}
  resumed,  \* resumePgTaskWriteQueue has run since the page was loaded
  newest,   \* commandGenerations of task.update: the edit whose command is newest
  born,     \* history: the edit that made each fresh task, 0 if none
  stray,    \* requests of pages that are gone, still on their way
  reloads, fails, lost, other   \* the counters of the bounds

page == <<queue, batch, resumed, newest>>
bounds == <<reloads, fails, lost, other>>
vars == <<tower, db, canon, tasks, edits, queue, saved, batch, resumed, newest, born, stray, reloads, fails, lost, other>>

----------------------------------------------------------------------------
(* Rows and requests.                                                       *)

EditIds == 1..MaxEdits
Theirs == MaxEdits + 1
Value == [Fields -> 0..Theirs]
Original == [f \in Fields |-> 0]
Ver == Nat
\* updated_at: 0 in Tower's rows, the edit that wrote the row, or the failure of one.
Stamp == Nat

NoRow == [ver |-> 0, status |-> "none", val |-> Original, at |-> 0]
Row == [ver : Ver, status : {"none", "synced", "pending", "failed"}, val : Value, at : Stamp]
Exists(row) == row.status # "none"

Known(id) == tower[id] # <<>>
Current(id) == tower[id][Len(tower[id])]
Accepted(ver, val) == [ver |-> ver, status |-> "synced", val |-> val, at |-> 0]

\* The rows the live query shows: without a pending write, and tasks have none in
\* this mode, applyTasks takes a pending row for a synced one.
OnScreen(rows) == [id \in Ids |-> IF rows[id].status = "pending" THEN [rows[id] EXCEPT !.status = "synced"] ELSE rows[id]]

\* The branch of applyTaskPatch an edit takes, decided by the row on the screen.
Branch(c) ==
  IF c.way = "background" /\ c.prev.status = "synced" THEN "queue"
  ELSE IF c.prev.status # "synced" THEN "create"
  ELSE "update"

Patched(row, patch, n) ==
  [ver |-> row.ver + 1, status |-> "pending", val |-> [f \in Fields |-> IF f \in patch THEN n ELSE row.val[f]], at |-> n]
FailedRow(row, e) == [row EXCEPT !.status = "failed", !.at = MaxEdits * (reloads + 1) + e]

\* updateTowerPgTaskFromLocal sends a state by a request of its own, first.
NextPart(parts) == IF "state" \in parts THEN {"state"} ELSE parts

Settled(c) == c.phase \in {"done", "failed", "skipped", "kept"}
Becomes(e, c) == edits' = [edits EXCEPT ![e] = c]
Put(id, row) == db' = [db EXCEPT ![id] = row]
\* this.tasks.map: a row is replaced where there is one.
Show(id, row) == tasks' = IF Exists(tasks[id]) THEN [tasks EXCEPT ![id] = row] ELSE tasks

Init ==
  /\ tower = [id \in Ids |-> IF id \in Shared THEN <<[val |-> Original, by |-> 0, part |-> Fields]>> ELSE <<>>]
  /\ db = [id \in Ids |-> IF id \in Shared THEN [NoRow EXCEPT !.ver = 1, !.status = "synced"]
                          ELSE IF id \in Drafts THEN [NoRow EXCEPT !.ver = 1, !.status = "failed"] ELSE NoRow]
  /\ tasks = db /\ canon = [id \in Ids |-> IF id \in Shared THEN 1 ELSE 0]
  /\ edits = <<>> /\ queue = <<>> /\ saved = <<>> /\ batch = {} /\ resumed = TRUE
  /\ newest = [id \in Ids |-> 0] /\ born = [x \in Fresh |-> 0]
  /\ stray = {} /\ reloads = 0 /\ fails = 0 /\ lost = 0 /\ other = 0

----------------------------------------------------------------------------
(* applyTaskPatch.                                                          *)

NewEdit(id, way, patch) ==
  [id |-> id, way |-> way, patch |-> patch, prev |-> tasks[id], row |-> Patched(tasks[id], patch, Len(edits) + 1),
   phase |-> "shown", parts |-> {}, base |-> 0, val |-> Original, ans |-> NoRow, to |-> id, key |-> <<>>, lead |-> 0,
   lost |-> FALSE, session |-> reloads]

\* The edited row is put and shown.
Edit(id, way, patch) ==
  /\ Len(edits) < MaxEdits /\ Exists(tasks[id])
  /\ LET c == NewEdit(id, way, patch)
     IN  /\ edits' = Append(edits, c) /\ Put(id, c.row) /\ tasks' = [tasks EXCEPT ![id] = c.row]
  /\ UNCHANGED <<tower, canon, saved, page, born, stray, bounds>>

\* enqueuePgTaskPatch: the queue in memory is written over the saved one.
Enqueue(e) ==
  /\ edits[e].phase = "shown" /\ Branch(edits[e]) = "queue"
  /\ queue' = Append(queue, e) /\ saved' = queue'
  /\ Becomes(e, [edits[e] EXCEPT !.phase = "queued"])
  /\ UNCHANGED <<tower, canon, db, tasks, batch, resumed, newest, born, stray, bounds>>

\* Offline, a row that is not synced keeps its edit and its status.
KeepOffline(e) ==
  LET c == edits[e]
      row == [c.row EXCEPT !.status = c.prev.status]
  IN  /\ c.phase = "shown" /\ Branch(c) = "create"
      /\ Put(c.id, row) /\ Show(c.id, row)
      /\ Becomes(e, [c EXCEPT !.phase = "kept"])
      /\ UNCHANGED <<tower, canon, saved, page, born, stray, bounds>>

\* Mutant: the version comes from the row in the database.
RowVersion_OfRow(c) == db[c.id].ver
\* The row_version of an update: the version of the row the edit began from.
RowVersion(c) == c.prev.ver

\* mutationKey: an update is known by the row it sends, a create by the row's id.
MutationId(c, row) == IF Branch(c) = "create" THEN <<c.id>> ELSE <<c.id, row.ver, row.at>>

\* Mutant: commands have no mutation id.
Commands_None(key) == {}
\* The commands of the service under a mutation id: inFlight and completedCommands.
Commands(key) ==
  {l \in DOMAIN edits : edits[l].key = key /\ edits[l].phase \in {"sent", "answered", "refused", "settled", "done"}}

\* A command of the same mutation id that runs is joined, one that is complete is
\* reused.  Otherwise the row is put (again) and sent; the update becomes the newest
\* of its task.
Command(e, row) ==
  LET c == edits[e]
      key == MutationId(c, row)
  IN  \/ /\ Commands(key) = {} /\ Put(c.id, row)
         /\ newest' = IF Branch(c) = "create" THEN newest ELSE [newest EXCEPT ![c.id] = e]
         /\ Becomes(e, [c EXCEPT !.phase = "sent", !.key = key, !.lead = 0,
                                 !.parts = c.patch, !.base = RowVersion(c), !.val = row.val])
      \/ \E l \in Commands(key) : Becomes(e, [c EXCEPT !.phase = "joined", !.lead = l]) /\ UNCHANGED <<db, newest>>

\* The direct branches: updateTowerPgTaskFromLocal or createTowerPgTaskFromLocal.
Issue(e) ==
  /\ edits[e].phase = "shown" /\ Branch(edits[e]) # "queue" /\ Command(e, edits[e].row)
  /\ UNCHANGED <<tower, canon, tasks, queue, saved, batch, resumed, born, stray, bounds>>

\* A joined command's result is that of the one it joined.
JoinEnds(e) ==
  LET c == edits[e]
      l == edits[c.lead]
  IN  /\ c.phase = "joined"
      /\ \/ /\ l.phase \in {"settled", "done"}
            /\ Becomes(e, [c EXCEPT !.phase = "settled", !.ans = l.ans, !.to = l.to])
         \/ /\ l.phase \in {"failing", "failed"}
            /\ Becomes(e, [c EXCEPT !.phase = "failing"])
      /\ UNCHANGED <<tower, canon, db, tasks, saved, page, born, stray, bounds>>

----------------------------------------------------------------------------
(* processPgTaskWriteQueue.                                                 *)

\* Mutant: a batch is a set of tasks.
SelectBatch_Tasks(q) == {edits[q[i]].id : i \in DOMAIN q}
\* selectPgTaskWriteBatch: the first item of each task, up to the size of a batch.
SelectBatch(q) ==
  LET first == {i \in DOMAIN q : \A j \in 1..i - 1 : edits[q[j]].id # edits[q[i]].id}
  IN  {q[i] : i \in {k \in first : Cardinality({j \in first : j <= k}) <= BatchSize}}

StartBatch ==
  /\ batch = {} /\ queue # <<>>
  /\ batch' = SelectBatch(queue)
  /\ UNCHANGED <<tower, canon, db, tasks, edits, queue, saved, resumed, newest, born, stray, bounds>>

Stored(id) == IF Exists(db[id]) THEN db[id] ELSE tasks[id]

\* Mutant: only the version tells that an item is done with.
Superseded_ByVersion(row, c) == Exists(row) /\ row.ver >= c.row.ver
Superseded(row, c) == Exists(row) /\ row.status # "pending" /\ row.ver >= c.row.ver

\* processPgTaskWriteQueueItem up to its request: the patched fields are sent with
\* the values of the row as it is stored now.
ProcessItem(e) ==
  LET c == edits[e]
      row == Stored(c.id)
      local == IF Exists(row) THEN row ELSE c.row
  IN  /\ e \in batch /\ c.phase = "queued"
      /\ \/ Superseded(row, c) /\ Becomes(e, [c EXCEPT !.phase = "skipped"]) /\ UNCHANGED <<db, newest>>
         \/ ~Superseded(row, c) /\ Command(e, local)
      /\ UNCHANGED <<tower, canon, tasks, queue, saved, batch, resumed, born, stray, bounds>>

\* The items of q that are not in S.
Without(q, S) ==
  LET kept[i \in 0..Len(q)] ==
        IF i = 0 THEN <<>> ELSE IF q[i] \in S THEN kept[i - 1] ELSE Append(kept[i - 1], q[i])
  IN  kept[Len(q)]

FinishBatch ==
  /\ batch # {} /\ \A e \in batch : Settled(edits[e])
  /\ queue' = Without(queue, batch) /\ saved' = queue' /\ batch' = {}
  /\ UNCHANGED <<tower, canon, db, tasks, edits, resumed, newest, born, stray, bounds>>

----------------------------------------------------------------------------
(* Tower.                                                                   *)

\* Tower takes an update of the version it holds.
Acceptable(id, base) == Known(id) /\ base = Len(tower[id])
Merged(id, part, val) == [f \in Fields |-> IF f \in part THEN val[f] ELSE Current(id).val[f]]
AddVersion(id, val, e, part) == tower' = [tower EXCEPT ![id] = Append(@, [val |-> val, by |-> e, part |-> part])]

TowerUpdate(e) ==
  LET c == edits[e]
      part == NextPart(c.parts)
      left == c.parts \ part
      val == Merged(c.id, part, c.val)
      version == Len(tower[c.id]) + 1
  IN  /\ c.phase = "sent" /\ Branch(c) # "create"
      /\ \/ /\ Acceptable(c.id, c.base)
            /\ AddVersion(c.id, val, e, part)
            /\ Becomes(e, [c EXCEPT !.parts = left, !.base = version,
                                    !.phase = IF left = {} THEN "answered" ELSE "sent",
                                    !.ans = Accepted(version, val)])
         \/ /\ ~Acceptable(c.id, c.base) /\ UNCHANGED tower
            /\ Becomes(e, [c EXCEPT !.phase = "refused"])
      /\ UNCHANGED <<canon, db, tasks, saved, page, born, stray, bounds>>

TowerCreate(e, x) ==
  LET c == edits[e]
  IN  /\ c.phase = "sent" /\ Branch(c) = "create" /\ born[x] = 0
      /\ AddVersion(x, c.val, e, Fields) /\ born' = [born EXCEPT ![x] = e]
      /\ Becomes(e, [c EXCEPT !.phase = "answered", !.to = x, !.ans = Accepted(1, c.val)])
      /\ UNCHANGED <<canon, db, tasks, saved, page, stray, bounds>>

\* A request of a page that is gone reaches Tower after all.
StrayArrives(s) ==
  LET c == s.edit
      part == NextPart(c.parts)
  IN  /\ stray' = stray \ {s}
      /\ IF Branch(c) = "create"
         THEN \E x \in Fresh : /\ born[x] = 0 /\ born' = [born EXCEPT ![x] = s.by]
                               /\ AddVersion(x, c.val, s.by, Fields)
         ELSE /\ UNCHANGED born
              /\ IF Acceptable(c.id, c.base) THEN AddVersion(c.id, Merged(c.id, part, c.val), s.by, part)
                 ELSE UNCHANGED tower
      /\ UNCHANGED <<canon, db, tasks, edits, queue, saved, page, bounds>>

\* A request fails before Tower sees it.
Fail(e) ==
  /\ edits[e].phase = "sent" /\ fails < MaxFails
  /\ fails' = fails + 1 /\ Becomes(e, [edits[e] EXCEPT !.phase = "refused"])
  /\ UNCHANGED <<tower, canon, db, tasks, queue, saved, page, born, stray, reloads, lost, other>>

\* Tower's answer is lost: the browser sees an error.
Lose(e) ==
  /\ edits[e].phase = "answered" /\ lost < MaxLost
  /\ lost' = lost + 1 /\ Becomes(e, [edits[e] EXCEPT !.phase = "refused", !.lost = TRUE])
  /\ UNCHANGED <<tower, canon, db, tasks, queue, saved, page, born, stray, reloads, fails, other>>

OtherEdit(id, f) ==
  /\ Known(id) /\ other < MaxOther /\ other' = other + 1
  /\ AddVersion(id, [Current(id).val EXCEPT ![f] = Theirs], 0, {f})
  /\ UNCHANGED <<canon, db, tasks, edits, queue, saved, page, born, stray, reloads, fails, lost>>

----------------------------------------------------------------------------
(* The answer.                                                              *)

\* The command's end.  An answer that is no longer the newest is no row, so that
\* the put of the caller fails; an error puts the row the edit began from.
Settle(e) ==
  LET c == edits[e]
      isNewest == newest[c.id] = e
  IN  /\ \/ /\ c.phase = "answered" /\ Branch(c) # "create"
            /\ IF isNewest THEN Put(c.id, c.ans) ELSE UNCHANGED db
            /\ Becomes(e, [c EXCEPT !.phase = IF isNewest THEN "settled" ELSE "failing"])
         \/ /\ c.phase = "answered" /\ Branch(c) = "create"
            /\ db' = [db EXCEPT ![c.id] = NoRow, ![c.to] = c.ans]
            /\ Becomes(e, [c EXCEPT !.phase = "settled"])
         \/ /\ c.phase = "refused" /\ Becomes(e, [c EXCEPT !.phase = "failing"])
            /\ IF isNewest /\ Branch(c) # "create" THEN Put(c.id, c.prev) ELSE UNCHANGED db
      /\ UNCHANGED <<tower, canon, tasks, queue, saved, batch, resumed, newest, born, stray, bounds>>

\* The caller of the command puts the accepted row again and shows it; the queue
\* shows it unless the row on the screen is newer than the item.
Adopt(e) ==
  LET c == edits[e]
  IN  /\ c.phase = "settled" /\ Becomes(e, [c EXCEPT !.phase = "done"])
      /\ CASE Branch(c) = "update" -> Put(c.id, c.ans) /\ Show(c.id, c.ans)
           [] Branch(c) = "create" -> /\ db' = [db EXCEPT ![c.id] = NoRow, ![c.to] = c.ans]
                                      /\ tasks' = [tasks EXCEPT ![c.id] = NoRow, ![c.to] = c.ans]
           [] OTHER -> /\ Put(c.id, c.ans)
                       /\ tasks' = IF tasks[c.id].ver <= c.row.ver THEN [tasks EXCEPT ![c.id] = c.ans] ELSE tasks
      /\ UNCHANGED <<tower, canon, queue, saved, page, born, stray, bounds>>

\* After an error the row is put as failed, or put back.
Reject(e) ==
  LET c == edits[e]
      shown == IF Exists(tasks[c.id]) THEN tasks[c.id] ELSE c.row
      row == IF Branch(c) = "queue" THEN FailedRow(shown, e)
             ELSE IF c.way = "rollback" THEN c.prev ELSE FailedRow(c.row, e)
  IN  /\ c.phase = "failing" /\ Becomes(e, [c EXCEPT !.phase = "failed"])
      /\ Put(c.id, row) /\ Show(c.id, row)
      /\ UNCHANGED <<tower, canon, queue, saved, page, born, stray, bounds>>

----------------------------------------------------------------------------
(* Around the edits.                                                        *)

\* The live query: applyTasks.
LiveQuery ==
  /\ tasks # OnScreen(db) /\ tasks' = OnScreen(db)
  /\ UNCHANGED <<tower, canon, db, edits, queue, saved, page, born, stray, bounds>>

\* A sync stores Tower's version, and shows it unless the row is pending, failed or newer.
Pull(id) ==
  /\ canon[id] < Len(tower[id]) /\ canon' = [canon EXCEPT ![id] = Len(tower[id])]
  /\ IF db[id].status \in {"pending", "failed"} \/ db[id].ver > Len(tower[id]) THEN UNCHANGED db
     ELSE Put(id, Accepted(Len(tower[id]), Current(id).val))
  /\ UNCHANGED <<tower, tasks, edits, queue, saved, page, born, stray, bounds>>

\* The page is left and loaded again.
Reload ==
  /\ reloads < MaxReloads /\ reloads' = reloads + 1
  /\ stray' = stray \cup {[by |-> e, edit |-> edits[e]] : e \in {i \in DOMAIN edits : edits[i].phase = "sent"}}
  /\ edits' = [e \in DOMAIN edits |-> [edits[e] EXCEPT !.key = <<>>, !.phase = IF Settled(edits[e]) THEN @ ELSE "gone"]]
  /\ tasks' = [id \in Ids |-> NoRow]
  /\ queue' = <<>> /\ batch' = {} /\ resumed' = FALSE
  /\ newest' = [id \in Ids |-> 0]
  /\ UNCHANGED <<tower, canon, db, saved, born, fails, lost, other>>

\* Mutant: what was saved is not taken up.
Restored_Not(q, s) == q
\* The saved items that are not in memory join the queue.
Restored(q, s) == q \o Without(s, ToSet(q))

\* resumePgTaskWriteQueue, once Tower has answered for the workspace.
Resume ==
  /\ ~resumed /\ resumed' = TRUE
  /\ queue' = Restored(queue, saved)
  /\ edits' = [e \in DOMAIN edits |->
                 IF e \in ToSet(queue') \ ToSet(queue) THEN [edits[e] EXCEPT !.phase = "queued"] ELSE edits[e]]
  /\ UNCHANGED <<tower, canon, db, tasks, saved, batch, newest, born, stray, bounds>>

----------------------------------------------------------------------------
Step(e) ==
  \/ Enqueue(e) \/ Issue(e) \/ JoinEnds(e) \/ ProcessItem(e)
  \/ TowerUpdate(e) \/ (\E x \in Fresh : TowerCreate(e, x))
  \/ Settle(e) \/ Adopt(e) \/ Reject(e)

Next ==
  \/ \E id \in Ids, way \in Ways, patch \in Patches : Edit(id, way, patch)
  \/ \E e \in DOMAIN edits : Step(e) \/ KeepOffline(e) \/ Fail(e) \/ Lose(e)
  \/ StartBatch \/ FinishBatch \/ LiveQuery \/ Reload \/ Resume
  \/ \E s \in stray : StrayArrives(s)
  \/ \E id \in Ids : Pull(id) \/ (\E f \in Fields : OtherEdit(id, f))

\* The steps of the page run, and every request is answered in the end, by Tower
\* or by an error.  Edits, reloads, other clients, failures and refreshes may happen.
Fairness ==
  /\ \A e \in EditIds : WF_vars(e \in DOMAIN edits /\ Step(e))
  /\ WF_vars(StartBatch) /\ WF_vars(FinishBatch) /\ WF_vars(Resume)

Spec == Init /\ [][Next]_vars /\ Fairness

----------------------------------------------------------------------------
(* Properties.                                                              *)

Phase == {"shown", "queued", "sent", "joined", "answered", "refused", "settled", "failing"} \cup
         {"done", "failed", "skipped", "kept", "gone"}

Key == {<<>>} \cup {<<id>> : id \in Ids} \cup (Ids \X Ver \X Stamp)

Call == [id : Ids, way : Ways, patch : Patches, prev : Row, row : Row, phase : Phase, parts : SUBSET Fields, base : Ver,
         val : Value, ans : Row, to : Ids, lead : 0..MaxEdits,
         key : Key, lost : BOOLEAN, session : 0..MaxReloads]

Version == [val : Value, by : 0..MaxEdits, part : SUBSET Fields]

\* The types of the variables.
TypeOK ==
  /\ tower \in [Ids -> Seq(Version)]
  /\ db \in [Ids -> Row] /\ tasks \in [Ids -> Row] /\ canon \in [Ids -> Ver]
  /\ edits \in Seq(Call) /\ Len(edits) <= MaxEdits
  /\ queue \in Seq(DOMAIN edits) /\ saved \in Seq(DOMAIN edits) /\ batch \subseteq DOMAIN edits
  /\ resumed \in BOOLEAN
  /\ newest \in [Ids -> 0..MaxEdits] /\ born \in [Fresh -> 0..MaxEdits]
  /\ stray \subseteq [by : DOMAIN edits, edit : Call]
  /\ reloads \in 0..MaxReloads /\ fails \in 0..MaxFails /\ lost \in 0..MaxLost /\ other \in 0..MaxOther

\* An edit changes a field of a task of Tower's at most once, although the queue
\* sends what it had saved again after a reload, whether Tower had applied it, has
\* it still on the way, or never saw it: row_version is the version the edit began
\* from, whatever the row has become since.
AppliedOnce ==
  \A id \in Ids : \A j, k \in DOMAIN tower[id] :
    (j # k /\ tower[id][j].by = tower[id][k].by /\ tower[id][j].by # 0) => tower[id][j].part \cap tower[id][k].part = {}

\* An edit that failed and put this row back, which was there before it.
RolledBack(c, row) == c.phase = "failed" /\ c.way = "rollback" /\ c.prev = row

\* A row stays pending only while an edit of it is under way: the last answer of
\* several, whichever way they went, leaves it synced or failed.  The exceptions
\* are an edit kept offline, one that a reload cut short, and the row of an earlier
\* edit that one rolled back has put there again.
PendingIsOwed ==
  \A id \in Ids : db[id].status = "pending" =>
    \E e \in DOMAIN edits :
      edits[e].id = id /\ (edits[e].phase \notin {"done", "failed", "skipped"} \/ RolledBack(edits[e], db[id]))

Creator(x) == edits[born[x]]

\* However many edits of a row find that it is not synced, in one life of the page
\* at most one task is created for it: later ones join the command or are given its
\* result, also after the row has come back from a failed item of the queue.
\* Only a lost answer, after which the command counts as failed, makes a second.
OneCreatePerSession ==
  \A x, y \in Fresh :
    (/\ x # y /\ born[x] # 0 /\ born[y] # 0
     /\ Creator(x).id = Creator(y).id /\ Creator(x).session = Creator(y).session)
    => Creator(x).lost \/ Creator(y).lost

\* The saved queue does not stay: every item of it is worked off, through failures
\* and reloads.
SavedDrains == saved # <<>> ~> saved = <<>>

----------------------------------------------------------------------------
(* What the documents and tests say.                                        *)

\* Only a row Tower has not accepted is created there.
OnlyDraftsAreCreated ==
  [][\A x \in Fresh : born[x] = 0 /\ born'[x] # 0 => edits'[born'[x]].id \in Drafts]_vars

\* What was saved is resumed after a reload: an edit in the saved queue is worked
\* off, not forgotten.
SavedIsResumed == \A e \in EditIds : e \in ToSet(saved) ~> e \in DOMAIN edits /\ Settled(edits[e])

\* An acknowledgement preserves newer edits: of a task edited through the queue
\* alone, an edit reported as synced has reached Tower, or a later one of the same
\* field has.
SyncedEditArrived ==
  \A e \in DOMAIN edits :
    (/\ edits[e].phase = "done"
     /\ \A i \in DOMAIN edits : edits[i].id = edits[e].id => Branch(edits[i]) = "queue") =>
    \A f \in edits[e].patch : \E k \in DOMAIN tower[edits[e].id] : tower[edits[e].id][k].val[f] \in e..MaxEdits

\* The service shares a command between repetitions of one intent: an edit that is
\* answered from the command of another edit of the task is carried by it.
SharedCommandCarriesEdit ==
  \A e \in DOMAIN edits :
    (edits[e].phase = "done" /\ edits[e].lead # 0 /\ Branch(edits[e]) # "create") =>
    \A f \in edits[e].patch : f \in edits[edits[e].lead].patch /\ edits[edits[e].lead].val[f] >= e

\* A synced row has an authoritative version: it is what Tower held there.
SyncedRowIsTowers ==
  \A id \in Ids : db[id].status = "synced" =>
    db[id].ver \in DOMAIN tower[id] /\ tower[id][db[id].ver].val = db[id].val
=============================================================================
