---------------------------- MODULE TowerCommand ----------------------------
(***************************************************************************)
(* The command path of the browser: TowerSyncService.command               *)
(* (src/tower-sync-service.js) around the descriptors of                   *)
(* src/tower-command-port.js, and two callers of it that put their own row *)
(* as well: updateFileBrowserRow (src/files-manager.js), whose every edit  *)
(* is a mutation of its own, and renameSettingsChannel and its like        *)
(* (src/channels-manager.js), which issue channel.update under the id of   *)
(* the channel.  A workspace has a database; a switch disposes the         *)
(* service of the old one and every later put goes to the new one.         *)
(*                                                                         *)
(* Calls are numbered in the order they begin.  A row remembers which call *)
(* wrote its contents ("by", 0 for what Tower held at first).              *)
(***************************************************************************)
EXTENDS Integers, Sequences

CONSTANTS
  Files,        \* records edited through file.update
  Channels,     \* records edited through channel.update
  Workspaces,
  Home,         \* the workspace each record belongs to
  MaxCalls,     \* bound: commands issued
  MaxSwitches   \* bound: changes of workspace

Records == Files \cup Channels

ASSUME RecordAssumption ==
  /\ Files \cap Channels = {} /\ Home \in [Records -> Workspaces]
ASSUME BoundAssumption == MaxCalls \in Nat /\ MaxSwitches \in Nat

VARIABLES
  current,     \* the selected workspace: its database is the one wsDb() returns
  service,     \* the number of the service in use
  disposed,    \* the services that have been disposed of
  generation,  \* commandGenerations of each service
  calls,       \* every command so far
  db,          \* the rows of each workspace's database
  tower,       \* Tower's rows
  applied      \* history: the calls whose request Tower has applied

vars == <<current, service, disposed, generation, calls, db, tower, applied>>

Services == 0..MaxSwitches
CallIds == 1..MaxCalls
Content == 0..MaxCalls
Ver == 0..MaxCalls + 1

NoRow == [by |-> 0, ver |-> 0, status |-> "none"]
Row == {NoRow} \cup [by : Content, ver : Ver \ {0}, status : {"synced", "pending", "failed"}]

----------------------------------------------------------------------------
(* The service.                                                             *)

\* assertActive passes: the service that runs call i has not been disposed of.
Live(i) == calls[i].service \notin disposed

\* Mutant: any acknowledgement counts as the newest.
Latest_Any(i) == TRUE
\* Call i is the newest of its entity; disposal has cleared the map.
Latest(i) == generation[calls[i].service][calls[i].record] = calls[i].gen

\* Call i has the mutation id a new command on r would have: a file edit's holds
\* its own time stamp, a channel's is the id of the channel.
SameMutation(i, r) == r \in Channels /\ calls[i].record = r

\* completedCommands and inFlight, the keys of call i.
Completed(i) == calls[i].result = "answered" /\ calls[i].leader = i
InFlight(i) == /\ calls[i].leader = i /\ calls[i].result = "none" /\ calls[i].phase # "edited"

Joinable(i, r, n) == i # n /\ InFlight(i) /\ SameMutation(i, r) /\ calls[i].service = service
Reusable(i, r, n) == i # n /\ Completed(i) /\ SameMutation(i, r) /\ calls[i].service = service

Pending(n, row) == [by |-> n, ver |-> row.ver, status |-> "pending"]
Synced(n, ver) == [by |-> n, ver |-> ver, status |-> "synced"]
Failed(n, row) == [by |-> n, ver |-> row.ver, status |-> "failed"]

\* A put goes to whichever database is open.
Put(r, row) == db' = [db EXCEPT ![current][r] = row]

NewCall(r) ==
  [record |-> r, phase |-> "edited", ws |-> current, prev |-> db[current][r], service |-> service, gen |-> 0,
   leader |-> Len(calls) + 1, ver |-> 0, result |-> "none"]

\* command: call n (c is its record so far) takes the result of a completed
\* command of its key, joins one that is running, or runs itself: it becomes the
\* newest of its entity and its descriptor puts the optimistic row.
Command(n, c) ==
  LET r == c.record
      reusable == {i \in 1..Len(calls) : Reusable(i, r, n)}
      joinable == {i \in 1..Len(calls) : Joinable(i, r, n)}
      gen == generation[service][r] + 1
      asked == [c EXCEPT !.service = service, !.ws = current]
      Becomes(call) == calls' = IF n > Len(calls) THEN Append(calls, call) ELSE [calls EXCEPT ![n] = call]
  IN  \/ /\ reusable # {}
         /\ \E i \in reusable :
              Becomes([asked EXCEPT !.leader = i, !.ver = calls[i].ver, !.phase = "resolved", !.result = "answered"])
         /\ UNCHANGED <<generation, db>>
      \/ /\ reusable = {} /\ joinable # {}
         /\ \E i \in joinable : Becomes([asked EXCEPT !.leader = i, !.phase = "joined"])
         /\ UNCHANGED <<generation, db>>
      \/ /\ reusable = {} /\ joinable = {}
         /\ generation' = [generation EXCEPT ![service][r] = gen]
         /\ Put(r, Pending(n, c.prev))
         /\ Becomes([asked EXCEPT !.gen = gen, !.phase = "shown"])

\* updateFileBrowserRow: the caller puts the edited row first.
EditFile(r) ==
  /\ r \in Files /\ Home[r] = current /\ Len(calls) < MaxCalls
  /\ db[current][r].status # "none"
  /\ calls' = Append(calls, NewCall(r))
  /\ Put(r, Pending(Len(calls) + 1, db[current][r]))
  /\ UNCHANGED <<current, service, disposed, generation, tower, applied>>

\* confirmFileBrowserRowUpdate then issues the command, to the service of the
\* moment.  The database completes the puts on a record in order.
IssueFile(i) ==
  /\ calls[i].phase = "edited"
  /\ \A j \in 1..i - 1 : calls[j].record = calls[i].record => calls[j].phase # "edited"
  /\ Command(i, calls[i])
  /\ UNCHANGED <<current, service, disposed, tower, applied>>

\* renameSettingsChannel and saveChannelBasePrompt issue the command at once.
UpdateChannel(r) ==
  /\ r \in Channels /\ Home[r] = current /\ Len(calls) < MaxCalls
  /\ db[current][r].status # "none"
  /\ Command(Len(calls) + 1, NewCall(r))
  /\ UNCHANGED <<current, service, disposed, tower, applied>>

\* The call has its result; its caller goes on with it.
Resolved(i, result) == calls' = [calls EXCEPT ![i] = [@ EXCEPT !.phase = "resolved", !.result = result]]

\* execute, once the optimistic row is stored, unless the service is gone.
Send(i) ==
  /\ calls[i].phase = "shown"
  /\ IF Live(i) THEN calls' = [calls EXCEPT ![i].phase = "sent"] ELSE Resolved(i, "thrown")
  /\ UNCHANGED <<current, service, disposed, generation, db, tower, applied>>

\* An answer that comes after disposal is dropped with an error; that of a
\* superseded command is not reconciled; any other is put.
Acknowledge(i) ==
  /\ calls[i].phase = "accepted"
  /\ IF Live(i) /\ Latest(i)
     THEN /\ Put(calls[i].record, Synced(i, calls[i].ver))
          /\ calls' = [calls EXCEPT ![i].phase = "reconciled"]
     ELSE /\ Resolved(i, IF Live(i) THEN "stale" ELSE "thrown")
          /\ UNCHANGED db
  /\ UNCHANGED <<current, service, disposed, generation, tower, applied>>

\* The row is stored: the acknowledgement is kept for the key.
Complete(i) ==
  /\ calls[i].phase = "reconciled"
  /\ Resolved(i, IF Live(i) THEN "answered" ELSE "thrown")
  /\ UNCHANGED <<current, service, disposed, generation, db, tower, applied>>

\* The newest command restores the row it replaced; others leave it alone.
Fail(i) ==
  /\ calls[i].phase = "refused"
  /\ IF Live(i) /\ Latest(i) THEN Put(calls[i].record, calls[i].prev) ELSE UNCHANGED db
  /\ Resolved(i, "thrown")
  /\ UNCHANGED <<current, service, disposed, generation, tower, applied>>

\* Mutant: a joined command waits for a success.
Joined_Answered(i) == calls[calls[i].leader].result = "answered"
\* The promise a call has joined is settled, whichever way.
Joined(i) == calls[calls[i].leader].result # "none"

Join(i) ==
  /\ calls[i].phase = "joined" /\ Joined(i)
  /\ calls' = [calls EXCEPT ![i] = [@ EXCEPT !.phase = "resolved", !.result = calls[calls[i].leader].result,
                                             !.ver = calls[calls[i].leader].ver]]
  /\ UNCHANGED <<current, service, disposed, generation, db, tower, applied>>

----------------------------------------------------------------------------
(* The callers, when the call has come back.                                *)

\* Mutant: an error is taken for an answer.
SettledFile_AnyResult(i) == Synced(calls[i].leader, calls[i].ver)

\* Mutant: the file's row is not marked.
SettledFile_Unmarked(i) ==
  IF calls[i].result = "answered" THEN Synced(calls[i].leader, calls[i].ver)
  ELSE [Failed(i, calls[i].prev) EXCEPT !.status = "synced"]

\* confirmFileBrowserRowUpdate puts the row of the answer, or its edit as failed.
SettledFile(i) ==
  IF calls[i].result = "answered" THEN Synced(calls[i].leader, calls[i].ver) ELSE Failed(i, calls[i].prev)

\* A stale result holds no row and is put by neither caller; an error is put by
\* the file's only.
Settle(i) ==
  /\ calls[i].phase = "resolved"
  /\ calls' = [calls EXCEPT ![i].phase = "settled"]
  /\ IF calls[i].record \in Files /\ calls[i].result # "stale" THEN Put(calls[i].record, SettledFile(i))
     ELSE IF calls[i].result = "answered" THEN Put(calls[i].record, Synced(calls[i].leader, calls[i].ver))
     ELSE UNCHANGED db
  /\ UNCHANGED <<current, service, disposed, generation, tower, applied>>

----------------------------------------------------------------------------
(* Tower, and the user.                                                     *)

\* Tower applies the request: an edit of a file only to the version it was made
\* from, an edit of a channel always.  The request goes to the workspace of the
\* service, and that must be the record's.
Apply(i) ==
  LET r == calls[i].record IN
  /\ calls[i].phase = "sent" /\ calls[i].ws = Home[r]
  /\ r \in Files => tower[r].ver = calls[i].prev.ver
  /\ tower' = [tower EXCEPT ![r] = [by |-> i, ver |-> tower[r].ver + 1]]
  /\ applied' = applied \cup {i}
  /\ calls' = [calls EXCEPT ![i] = [@ EXCEPT !.phase = "accepted", !.ver = tower[r].ver + 1]]
  /\ UNCHANGED <<current, service, disposed, generation, db>>

\* Tower refuses the request, the request or its answer is lost.
Refuse(i) ==
  /\ calls[i].phase \in {"sent", "accepted"}
  /\ calls' = [calls EXCEPT ![i].phase = "refused"]
  /\ UNCHANGED <<current, service, disposed, generation, db, tower, applied>>

\* Mutant: the old service is left running.
Switch_KeepsService(w) ==
  /\ w # current /\ service < MaxSwitches
  /\ current' = w /\ service' = service + 1
  /\ UNCHANGED <<disposed, generation, calls, db, tower, applied>>

\* The user selects another workspace: the service is disposed of and its maps
\* are cleared, then the other database is opened, all in one turn.
Switch(w) ==
  /\ w # current /\ service < MaxSwitches
  /\ current' = w /\ service' = service + 1
  /\ disposed' = disposed \cup {service}
  /\ generation' = [generation EXCEPT ![service] = [r \in Records |-> 0]]
  /\ UNCHANGED <<calls, db, tower, applied>>

----------------------------------------------------------------------------
Init ==
  /\ current \in Workspaces /\ service = 0 /\ disposed = {}
  /\ generation = [s \in Services |-> [r \in Records |-> 0]]
  /\ calls = <<>>
  /\ db = [w \in Workspaces |-> [r \in Records |-> IF Home[r] = w THEN Synced(0, 1) ELSE NoRow]]
  /\ tower = [r \in Records |-> [by |-> 0, ver |-> 1]]
  /\ applied = {}

\* What call i does by itself, and what comes back from Tower.
Step(i) == IssueFile(i) \/ Send(i) \/ Acknowledge(i) \/ Complete(i) \/ Fail(i) \/ Join(i) \/ Settle(i)
Answer(i) == Apply(i) \/ Refuse(i)

Next ==
  \/ \E r \in Files : EditFile(r)
  \/ \E r \in Channels : UpdateChannel(r)
  \/ \E i \in 1..Len(calls) : Step(i) \/ Answer(i)
  \/ \E w \in Workspaces : Switch(w)

Spec == Init /\ [][Next]_vars

\* Promises are resumed, and a request ends with an answer or its time limit.
CallStep(n) == n <= Len(calls) /\ (Step(n) \/ (calls[n].phase = "sent" /\ Answer(n)))
Fairness == \A n \in CallIds : WF_vars(CallStep(n))
FairSpec == Spec /\ Fairness

----------------------------------------------------------------------------
(* Properties.                                                              *)

CallType == [record : Records, ws : Workspaces, prev : Row, service : Services, gen : Content, leader : CallIds, ver : Ver,
             phase : {"edited", "shown", "joined", "sent", "accepted", "refused", "reconciled", "resolved", "settled"},
             result : {"none", "answered", "stale", "thrown"}]

\* Every variable holds a value the code can store in it.
TypeOK ==
  /\ current \in Workspaces /\ service \in Services /\ disposed \in SUBSET Services
  /\ generation \in [Services -> [Records -> Content]]
  /\ calls \in Seq(CallType) /\ Len(calls) <= MaxCalls
  /\ db \in [Workspaces -> [Records -> Row]]
  /\ tower \in [Records -> [by : Content, ver : Ver]]
  /\ applied \in SUBSET CallIds

\* The service alone never crosses workspaces: the answer to a command issued for
\* a record of its own workspace, good or bad, writes no other database, whatever
\* switches happened while it was out.
Returns(i) == calls[i].phase \in {"accepted", "refused"} /\ calls'[i].phase # calls[i].phase
AnswersStayHome ==
  [][\A i \in 1..Len(calls) :
       Returns(i) /\ calls[i].ws = Home[calls[i].record] =>
         \A w \in Workspaces : w # Home[calls[i].record] => db'[w] = db[w]]_vars

\* The service settles commands of one record in the order they were issued: the
\* answer to an older one never replaces the row of one that ran after it.
AnswersInOrder ==
  [][\A i \in 1..Len(calls), j \in CallIds, w \in Workspaces :
       LET r == calls[i].record IN
       Returns(i) /\ j > i /\ db[w][r].by = j /\ calls[j].gen > 0 => db'[w][r] = db[w][r]]_vars

\* A row that is shown as synced holds what Tower once held: its first contents
\* or an edit that Tower applied, through failures, rollbacks and switches alike.
SyncedWasApplied ==
  \A w \in Workspaces, r \in Records : db[w][r].status = "synced" => db[w][r].by \in {0} \cup applied

\* The same of every command: what is reported as done was carried to Tower.
AnswerIsOwn == \A i \in 1..Len(calls) : calls[i].result = "answered" => i \in applied

\* Nor does the caller of an older command: its acknowledgement, put once more
\* when the call has come back, never replaces the row of one that ran after it.
OlderAckStaysBehind ==
  [][\A i \in 1..Len(calls), j \in CallIds :
       LET r == calls[i].record IN
       Settle(i) /\ calls[i].result = "answered" /\ j > i /\ db[current][r].by = j /\ calls[j].gen > 0
         => db'[current][r] = db[current][r]]_vars

\* A row is only ever stored in the database of its own workspace.
RowsStayHome == \A w \in Workspaces, r \in Records : w # Home[r] => db[w][r].status = "none"

\* Every command comes back to its caller, also one that joined another: calls that
\* are out, however many join or follow them, come to an end.
EveryCallSettles == (\E n \in 1..Len(calls) : calls[n].phase # "settled") ~> (\A n \in 1..Len(calls) : calls[n].phase = "settled")
=============================================================================
