---------------------------- MODULE EventStream ----------------------------
(***************************************************************************)
(* The stream of Tower's change events in PG mode: the sync worker         *)
(* (src/worker/sync-worker-runner.js) receives them, gathers them in       *)
(* batches and posts those to the page; the page (src/sync-manager.js)     *)
(* brings their records into the cache and acknowledges; the worker        *)
(* persists the cursor up to which it will never ask again.                *)
(*                                                                         *)
(* Events of a workspace are numbered from 1 in stream order, and a cursor *)
(* is such a number together with the workspace it came from.  0 is where  *)
(* the stream begins for want of an acknowledgement (the workspace cursor  *)
(* handed over by connectSSEStream).  The status messages of the worker    *)
(* are handled where they are posted; acknowledgements travel, and wait    *)
(* for each other's database write.                                        *)
(***************************************************************************)
EXTENDS Integers, Sequences, SequencesExt, FiniteSets

CONSTANTS
  Workspaces,      \* connection contexts the page can select
  None,            \* no connection key
  Home,            \* the workspace the page opens in
  MaxEvents,       \* bound: events of each workspace
  ReconnectLimit,  \* failures in a row before polling takes over (5 in the code)
  MaxAttempts,     \* quick attempts at one batch before it is deferred (3 in the code)
  MaxFaults,       \* bound: dropped streams, refused tokens, failed reads and writes, reloads
  MaxSwitches      \* bound: workspace selections and stops of the service

ASSUME WorkspaceAssumption == None \notin Workspaces /\ Home \in Workspaces
ASSUME BoundAssumption ==
  /\ MaxEvents \in [Workspaces -> Nat] /\ ReconnectLimit \in Nat /\ MaxAttempts \in Nat \ {0}
  /\ MaxFaults \in Nat /\ MaxSwitches \in Nat

VARIABLES
  emitted,   \* Tower: events of each workspace so far
  stored,    \* database: acknowledged cursor of each workspace
  key,       \* worker: sseConnectionKey
  cursor,    \* worker: sseLastPgCursor
  conn,      \* worker: what the connection lifecycle waits for
  attempts,  \* worker: sseReconnectAttempts
  restore,   \* worker: the context whose stored cursor is being read, or None
  token,     \* worker: the outstanding token request [key, cursor]
  source,    \* worker: the open stream, the last position it delivered
  stale,     \* worker: sseStaleFamilies, events not yet in a batch
  batches,   \* worker: ssePendingBatches, in insertion order
  writing,   \* worker: the acknowledgement being persisted
  acks,      \* acknowledgements posted by the page and not yet handled
  active,    \* page: the selected workspace
  mainKey,   \* page: sseConnectionKey
  queue,     \* page: batches to bring into the cache
  work,      \* page: the one being worked on
  retry,     \* page: batches waiting for their retry timer
  deferred,  \* page: batches put off until a workspace sync has succeeded
  done,      \* history: events whose records the page brought into the cache
  heard,     \* history: events delivered since the worker last forgot its batches
  excused,   \* history: events delivered twice to one memory, or skipped by a foreign cursor
  unread,    \* history: events acknowledged on the strength of a recent workspace sync
  passed,    \* history: events of batches a reselection passed over
  faults, switches  \* counters for the bounds

workerVars == <<key, cursor, conn, attempts, restore, token, source, stale, batches, writing>>
pageVars == <<active, mainKey, queue, work, retry, deferred>>
history == <<done, heard, excused, unread, passed>>
vars == <<emitted, stored, workerVars, acks, pageVars, history, faults, switches>>

Event == UNION {1..MaxEvents[c] : c \in Workspaces}
Position == Event \cup {0}
Contexts == Workspaces \cup {None}
Cursor == [of : Contexts, at : Position]
NoCursor == [of |-> None, at |-> 0]
NoToken == [key |-> None, cursor |-> NoCursor]
NoSource == [of |-> None, at |-> 0]
NoItem == [key |-> None, id |-> 0, events |-> {}, attempt |-> 0]
NoWrite == [key |-> None, cursor |-> NoCursor, count |-> 0, fresh |-> FALSE]

\* A batch id nobody refers to stands for sseNextBatchId.
Ids == Nat \ {0}
Items == ToSet(queue) \cup retry \cup deferred \cup {work}
FreshId ==
  LET used == {b.id : b \in ToSet(batches)} \cup {i.id : i \in Items} \cup ToSet(acks)
  IN  CHOOSE n \in 1..Cardinality(used) + 1 : n \notin used

----------------------------------------------------------------------------
(* Tower.                                                                   *)

Emit(c) ==
  /\ emitted[c] < MaxEvents[c]
  /\ emitted' = [emitted EXCEPT ![c] = @ + 1]
  /\ UNCHANGED <<stored, workerVars, acks, pageVars, history, faults, switches>>

----------------------------------------------------------------------------
(* Worker: connecting.                                                      *)

\* requestSSEToken: the signing url carries the cursor of this moment, and a
\* newer request supersedes an older one.
Request(k, c) == token' = [key |-> k, cursor |-> c] /\ conn' = "token"

\* Mutant: after too many failures nothing probes for the stream any more.
ScheduleReconnect_GivesUp ==
  /\ attempts' = attempts + 1
  /\ conn' = IF attempts + 1 > ReconnectLimit THEN "off" ELSE "backoff"

\* scheduleReconnect: back off, or after too many failures poll and probe.
ScheduleReconnect ==
  /\ attempts' = attempts + 1
  /\ conn' = IF attempts + 1 > ReconnectLimit THEN "fallback" ELSE "backoff"

\* A change of context forgets the work of the previous one.
Forgets(c) == key \notin {None, c}

\* connectSSEStream and the worker's connectSSE: a connection that is under way
\* is left alone; a worker without cursor first reads the stored one.
Connect ==
  LET kept == IF Forgets(active) THEN NoCursor ELSE cursor
  IN
  /\ active # None
  /\ mainKey # active \/ conn = "fallback"
  /\ mainKey' = active /\ key' = active
  /\ source' = NoSource /\ cursor' = kept
  /\ stale' = IF Forgets(active) THEN <<>> ELSE stale
  /\ batches' = IF Forgets(active) THEN <<>> ELSE batches
  /\ heard' = IF Forgets(active) THEN [c \in Workspaces |-> {}] ELSE heard
  /\ writing' = [writing EXCEPT !.fresh = FALSE]
  /\ IF kept.at = 0
     THEN restore' = active /\ conn' = "restoring" /\ token' = NoToken
     ELSE restore' = None /\ Request(active, kept)
  /\ UNCHANGED <<emitted, stored, attempts, acks, active, queue, work, retry, deferred,
                 done, excused, unread, passed, faults, switches>>

\* restoreCommittedPgCursor: the read compares context generations, and a
\* disconnect does not start a new one; the request that follows compares keys.
Restored ==
  /\ restore # None
  /\ restore' = None
  /\ cursor' = IF stored[restore].at > 0 THEN stored[restore] ELSE cursor
  /\ IF key = restore THEN Request(key, cursor') ELSE UNCHANGED <<token, conn>>
  /\ UNCHANGED <<emitted, stored, key, attempts, source, stale, batches, writing, acks, pageVars,
                 history, faults, switches>>

\* The back-off timer, or the probe while polling, asks again.
RequestAgain ==
  /\ key # None /\ conn \in {"backoff", "fallback"}
  /\ Request(key, cursor)
  /\ attempts' = IF conn = "fallback" THEN 0 ELSE attempts
  /\ UNCHANGED <<emitted, stored, key, cursor, restore, source, stale, batches, writing, acks, pageVars,
                 history, faults, switches>>

\* Events of c that a stream opened at cursor k will not bring.
SkippedBy(c, k) == IF k.of \in {None, c} THEN {} ELSE 1..k.at

\* The page has signed (answerSSETokenRequest); the stream opens at the cursor
\* of the request.
Open ==
  /\ token # NoToken /\ token.key = mainKey /\ mainKey = active
  /\ source' = [of |-> key, at |-> token.cursor.at]
  /\ token' = NoToken /\ conn' = "open" /\ attempts' = 0
  /\ excused' = [excused EXCEPT ![key] = @ \cup SkippedBy(key, token.cursor)]
  /\ UNCHANGED <<emitted, stored, key, cursor, restore, stale, batches, writing, acks, pageVars,
                 done, heard, unread, passed, faults, switches>>

\* Signing fails or times out, or Tower refuses the stream.
Refused ==
  /\ token # NoToken /\ faults < MaxFaults
  /\ faults' = faults + 1
  /\ token' = NoToken
  /\ ScheduleReconnect
  /\ UNCHANGED <<emitted, stored, key, cursor, restore, source, stale, batches, writing, acks, pageVars,
                 history, switches>>

\* The stream breaks: what it brought is kept.
Drop ==
  /\ source # NoSource /\ faults < MaxFaults
  /\ faults' = faults + 1
  /\ source' = NoSource
  /\ ScheduleReconnect
  /\ UNCHANGED <<emitted, stored, key, cursor, restore, token, stale, batches, writing, acks, pageVars,
                 history, switches>>

----------------------------------------------------------------------------
(* Worker: receiving.                                                       *)

\* handleFlightDeckPgEvent.
Deliver ==
  /\ source # NoSource /\ source.at < emitted[source.of]
  /\ LET e == source.at + 1
     IN  /\ source' = [source EXCEPT !.at = e]
         /\ stale' = Append(stale, [of |-> source.of, at |-> e])
         /\ heard' = [heard EXCEPT ![source.of] = @ \cup {e}]
         /\ excused' = IF e \in heard[source.of] THEN [excused EXCEPT ![source.of] = @ \cup {e}] ELSE excused
  /\ UNCHANGED <<emitted, stored, key, cursor, conn, attempts, restore, token, batches, writing, acks,
                 pageVars, done, unread, passed, faults, switches>>

\* flushSSEStaleFamilies, when the debounce timer fires: the events become a
\* batch, or join the pending one that ends at the same cursor.
Flush ==
  LET last == stale[Len(stale)]
      same == {b \in ToSet(batches) : b.cursor = last}
      id == IF same = {} THEN FreshId ELSE (CHOOSE b \in same : TRUE).id
      item == [key |-> key, id |-> id, events |-> {s.at : s \in ToSet(stale)}, attempt |-> 0]
  IN
  /\ stale # <<>>
  /\ stale' = <<>>
  /\ batches' = IF same = {} THEN Append(batches, [id |-> id, cursor |-> last, committed |-> FALSE]) ELSE batches
  /\ queue' = IF key = active THEN Append(queue, item) ELSE queue
  /\ UNCHANGED <<emitted, stored, key, cursor, conn, attempts, restore, token, source, writing, acks,
                 active, mainKey, work, retry, deferred, history, faults, switches>>

----------------------------------------------------------------------------
(* Page: bringing batches into the cache.                                   *)

Current(i) == i.key = mainKey

\* drainTowerPgSSEHydrationQueue takes the batches one by one.
Take ==
  /\ work = NoItem /\ queue # <<>>
  /\ queue' = Tail(queue)
  /\ work' = IF Current(Head(queue)) THEN Head(queue) ELSE NoItem
  /\ UNCHANGED <<emitted, stored, workerVars, acks, active, mainKey, retry, deferred, history, faults, switches>>

\* What is done for a batch: reads aimed at its entities, or a workspace sync,
\* which brings all that Tower has journalled.  The latter is left out when one
\* has run in the last 30 seconds, as it has when the stream has just opened.
Targeted ==
  done' = [done EXCEPT ![work.key] = @ \cup work.events] /\ UNCHANGED unread
WorkspaceSync ==
  done' = [done EXCEPT ![work.key] = 1..emitted[work.key]] /\ UNCHANGED unread
Suppressed ==
  unread' = [unread EXCEPT ![work.key] = @ \cup work.events] /\ UNCHANGED done

\* The batch is acknowledged after that, unless the context has changed.
Materialise ==
  /\ work # NoItem
  /\ work' = NoItem
  /\ IF Current(work)
     THEN /\ Targeted \/ WorkspaceSync \/ Suppressed
          /\ acks' = Append(acks, work.id)
     ELSE UNCHANGED <<done, unread, acks>>
  /\ UNCHANGED <<emitted, stored, workerVars, active, mainKey, queue, retry, deferred,
                 heard, excused, passed, faults, switches>>

\* Mutant: a failed batch is acknowledged like a good one.
Fail_Acknowledged ==
  /\ work # NoItem /\ Current(work) /\ faults < MaxFaults
  /\ faults' = faults + 1
  /\ work' = NoItem
  /\ acks' = Append(acks, work.id)
  /\ UNCHANGED <<emitted, stored, workerVars, active, mainKey, queue, retry, deferred, history, switches>>

\* Mutant: a retry timer is set with the attempts it was to count.
Fail_CountsOn ==
  /\ work # NoItem /\ Current(work) /\ faults < MaxFaults
  /\ faults' = faults + 1
  /\ work' = NoItem
  /\ deferred' = deferred \cup {[work EXCEPT !.attempt = @ + MaxAttempts]}
  /\ UNCHANGED <<emitted, stored, workerVars, acks, active, mainKey, queue, retry, history, switches>>

\* A read of the batch fails: a timer tries again (one timer per batch), after
\* MaxAttempts it is deferred, replacing what was deferred under its id.
Fail ==
  /\ work # NoItem /\ Current(work) /\ faults < MaxFaults
  /\ faults' = faults + 1
  /\ work' = NoItem
  /\ IF work.attempt + 1 < MaxAttempts
     THEN /\ retry' = IF \E i \in retry : i.id = work.id THEN retry
                      ELSE retry \cup {[work EXCEPT !.attempt = @ + 1]}
          /\ UNCHANGED deferred
     ELSE /\ deferred' = {i \in deferred : i.id # work.id} \cup {[work EXCEPT !.attempt = 0]}
          /\ UNCHANGED retry
  /\ UNCHANGED <<emitted, stored, workerVars, acks, active, mainKey, queue, history, switches>>

\* The timer fires, or a background sync succeeds (retryDeferredTowerPgSSEHydrations).
Requeue(i) ==
  /\ i \in retry \cup deferred
  /\ retry' = retry \ {i} /\ deferred' = deferred \ {i}
  /\ queue' = IF Current(i) THEN Append(queue, i) ELSE queue
  /\ UNCHANGED <<emitted, stored, workerVars, acks, active, mainKey, work, history, faults, switches>>

----------------------------------------------------------------------------
(* Worker: acknowledging.                                                   *)

\* How many batches there are before the first uncommitted one.
CommittedPrefix(bs) ==
  CHOOSE n \in 0..Len(bs) : /\ \A i \in 1..n : bs[i].committed
                            /\ n < Len(bs) => ~bs[n + 1].committed

\* acknowledgeSSEBatch, one after the other: the batch is marked, and the prefix
\* of committed batches goes to the database (pending batches are all of the
\* worker's context).
Acknowledge ==
  LET Awaited == {i \in DOMAIN batches : batches[i].id = Head(acks) /\ ~batches[i].committed}
  IN
  /\ acks # <<>> /\ writing = NoWrite
  /\ acks' = Tail(acks)
  /\ IF Awaited = {} THEN UNCHANGED <<batches, writing>>
     ELSE \E i \in Awaited :
            LET marked == [batches EXCEPT ![i].committed = TRUE]
                prefix == CommittedPrefix(marked)
            IN  /\ batches' = marked
                /\ writing' = IF prefix = 0 THEN NoWrite
                              ELSE [key |-> key, cursor |-> marked[prefix].cursor,
                                    count |-> prefix, fresh |-> TRUE]
  /\ UNCHANGED <<emitted, stored, key, cursor, conn, attempts, restore, token, source, stale, pageVars,
                 history, faults, switches>>

\* Mutant: the row of the database is looked up when the write returns.
Persisted_LateKey ==
  LET here == writing.fresh /\ writing.key = key
  IN
  /\ writing # NoWrite
  /\ writing' = NoWrite
  /\ stored' = [stored EXCEPT ![key] = writing.cursor]
  /\ cursor' = IF here THEN writing.cursor ELSE cursor
  /\ batches' = IF here THEN SubSeq(batches, writing.count + 1, Len(batches)) ELSE batches
  /\ token' = IF here /\ token # NoToken THEN [token EXCEPT !.cursor = writing.cursor] ELSE token
  /\ UNCHANGED <<emitted, key, conn, attempts, restore, source, stale, acks, pageVars, history, faults, switches>>

\* The write is done.  In the same context the worker's cursor follows, the batches
\* written, which are still the first, are deleted, and a token that is still
\* outstanding is asked for again at the new cursor.
Persisted ==
  LET here == writing.fresh /\ writing.key = key
  IN
  /\ writing # NoWrite
  /\ writing' = NoWrite
  /\ stored' = [stored EXCEPT ![writing.key] = writing.cursor]
  /\ cursor' = IF here THEN writing.cursor ELSE cursor
  /\ batches' = IF here THEN SubSeq(batches, writing.count + 1, Len(batches)) ELSE batches
  /\ token' = IF here /\ token # NoToken THEN [token EXCEPT !.cursor = writing.cursor] ELSE token
  /\ UNCHANGED <<emitted, key, conn, attempts, restore, source, stale, acks, pageVars, history, faults, switches>>

\* The write fails: the stream is reopened from the last cursor.
PersistFailed ==
  /\ writing # NoWrite /\ faults < MaxFaults
  /\ faults' = faults + 1
  /\ writing' = NoWrite
  /\ source' = NoSource /\ token' = NoToken
  /\ ScheduleReconnect
  /\ UNCHANGED <<emitted, stored, key, cursor, restore, stale, batches, acks, pageVars,
                 history, switches>>

----------------------------------------------------------------------------
(* Selecting, stopping, reloading.                                          *)

\* closeSSE with resetContext.
ForgetContext ==
  /\ key' = None /\ cursor' = NoCursor /\ conn' = "off" /\ attempts' = 0
  /\ token' = NoToken /\ source' = NoSource /\ stale' = <<>> /\ batches' = <<>>
  /\ heard' = [c \in Workspaces |-> {}]

\* The service is disposed and c is selected (or the transport is reloaded): the
\* worker is told to disconnect, and batches of the service are passed over.
Select(c) ==
  /\ switches < MaxSwitches /\ active # None
  /\ switches' = switches + 1
  /\ active' = c /\ mainKey' = None
  /\ queue' = <<>> /\ work' = NoItem /\ retry' = {} /\ deferred' = {}
  /\ ForgetContext
  /\ UNCHANGED <<emitted, stored, restore, writing, acks, done, excused, unread, passed, faults>>

\* selectWorkspace for the workspace that is selected already: the selection
\* generation moves on, so the page passes over the batches at hand, but neither
\* the service nor the stream is stopped.
Reselect ==
  /\ switches < MaxSwitches /\ active = mainKey
  /\ switches' = switches + 1
  /\ queue' = <<>> /\ work' = NoItem /\ retry' = {} /\ deferred' = {}
  /\ passed' = [passed EXCEPT ![active] = @ \cup UNION {i.events : i \in Items}]
  /\ UNCHANGED <<emitted, stored, workerVars, acks, active, mainKey, done, heard, excused, unread, faults>>

\* The connection key changes under a running service.
Rekey(c) ==
  /\ switches < MaxSwitches /\ c # active
  /\ switches' = switches + 1
  /\ active' = c
  /\ UNCHANGED <<emitted, stored, workerVars, acks, mainKey, queue, work, retry, deferred, history, faults>>

\* The page reloads: only Tower and the database survive.
Reload ==
  /\ faults < MaxFaults
  /\ faults' = faults + 1
  /\ mainKey' = None
  /\ queue' = <<>> /\ work' = NoItem /\ retry' = {} /\ deferred' = {}
  /\ ForgetContext
  /\ restore' = None /\ writing' = NoWrite /\ acks' = <<>>
  /\ passed' = [c \in Workspaces |-> {}]
  /\ UNCHANGED <<emitted, stored, active, done, excused, unread, switches>>

----------------------------------------------------------------------------
Init ==
  /\ emitted = [c \in Workspaces |-> 0]
  /\ stored = [c \in Workspaces |-> NoCursor]
  /\ key = None /\ cursor = NoCursor /\ conn = "off" /\ attempts = 0 /\ restore = None
  /\ token = NoToken /\ source = NoSource /\ stale = <<>> /\ batches = <<>> /\ writing = NoWrite
  /\ acks = <<>>
  /\ active = Home /\ mainKey = None
  /\ queue = <<>> /\ work = NoItem /\ retry = {} /\ deferred = {}
  /\ unread = [c \in Workspaces |-> {}] /\ done = [c \in Workspaces |-> {}] /\ heard = [c \in Workspaces |-> {}]
  /\ excused = [c \in Workspaces |-> {}] /\ passed = [c \in Workspaces |-> {}]
  /\ faults = 0 /\ switches = 0

Worker == \/ Restored \/ RequestAgain \/ Open \/ Deliver \/ Flush \/ Acknowledge \/ Persisted
Page == Connect \/ Take \/ Materialise \/ \E i \in retry \cup deferred : Requeue(i)
Fault == Refused \/ Drop \/ Fail \/ PersistFailed \/ Reload

Next ==
  \/ Worker \/ Page \/ Fault \/ Reselect
  \/ \E c \in Workspaces : Emit(c) \/ Select(c) \/ Rekey(c)

Spec == Init /\ [][Next]_vars

\* Timers fire, database writes end, Tower answers: the two threads keep running.
FairSpec == Spec /\ WF_vars(Worker) /\ WF_vars(Page)

----------------------------------------------------------------------------
(* Properties.                                                              *)

ItemType == [key : Contexts, id : Ids \cup {0}, events : SUBSET Event, attempt : 0..MaxAttempts]
BatchType == [id : Ids, cursor : Cursor, committed : BOOLEAN]
TokenType == [key : Contexts, cursor : Cursor]
WriteType == [key : Contexts, cursor : Cursor, count : Nat, fresh : BOOLEAN]

\* Every variable holds a value the code can store in it.
TypeOK ==
  /\ emitted \in [Workspaces -> Position] /\ stored \in [Workspaces -> Cursor]
  /\ key \in Contexts /\ cursor \in Cursor /\ restore \in Contexts
  /\ conn \in {"off", "restoring", "token", "open", "backoff", "fallback"} /\ attempts \in Nat
  /\ token \in TokenType /\ source \in Cursor
  /\ stale \in Seq(Cursor) /\ batches \in Seq(BatchType)
  /\ writing \in WriteType /\ acks \in Seq(Ids)
  /\ active \in Contexts /\ mainKey \in Contexts
  /\ queue \in Seq(ItemType) /\ work \in ItemType /\ retry \subseteq ItemType /\ deferred \subseteq ItemType
  /\ {done, heard, excused, unread, passed} \subseteq [Workspaces -> SUBSET Event]

\* No event lies behind an acknowledged cursor, in the database or in the worker,
\* before its records are in the cache, whatever order batches fail and succeed
\* in and whenever the page reloads.  Three kinds of events are excepted, see
\* AckAfterHydration, AckNeverSkips and CursorStaysHome.
AcknowledgedIsCached ==
  \A c \in Workspaces : \A e \in Event :
    \/ e \in done[c] \cup excused[c] \cup unread[c]
    \/ stored[c].at < e /\ (cursor.of = c => cursor.at < e)

\* A later batch never lets the cursor pass an earlier one that has failed.
AckNeverSkips == \A c \in Workspaces : 1..stored[c].at \subseteq done[c] \cup unread[c]

\* The cursor is persisted only after the cache has been brought up to it.
AckAfterHydration == \A c \in Workspaces : 1..stored[c].at \subseteq done[c]

\* The cursor kept for a workspace is one of its own.
StoredIsOwn == \A c \in Workspaces : stored[c].of \in {None, c}

\* A stream is asked for at a cursor of its own workspace.
CursorStaysHome == token.cursor.of \in {None, token.key}

\* In the end every event of the workspace the user stays in is in the cache,
\* and no batch blocks the cursor for ever: whatever fails on the way, the page
\* acknowledges every batch.  Excepted are, besides the above, the batches a
\* reselection passed over.
EventuallyCaughtUp ==
  <>[](/\ \A c \in Workspaces :
            active = c => 1..emitted[c] \subseteq done[c] \cup excused[c] \cup unread[c] \cup passed[c]
       /\ (\A c \in Workspaces : passed[c] = {}) => \A b \in ToSet(batches) : b.committed)
=============================================================================
