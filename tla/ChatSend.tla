------------------------------- MODULE ChatSend -------------------------------
(***************************************************************************)
(* A chat message from the composer to Tower and back (sendMessageAttempt  *)
(* and sendThreadReplyAttempt of src/chat-message-manager.js).  It is put  *)
(* in the database under an identity of the client's before it is sent and *)
(* comes back under one of Tower's by three ways that race: the answer of  *)
(* the request, the record-delta page and the read of the open channel.    *)
(* Answers are lost, failed messages are sent again, messages are edited   *)
(* here and elsewhere, the workspace is switched and the page is lost.     *)
(*                                                                         *)
(* The database of the workspace the messages belong to is modelled; of    *)
(* any other there is only whether something was put there.  A message's   *)
(* content is its version.  Attachments, threads as rows, branches, own    *)
(* deletions and the Inbox are not modelled.                               *)
(***************************************************************************)
EXTENDS Integers

CONSTANTS
  Messages,     \* the messages written, each by its client record id
  MaxVersions,  \* bound: versions of a message
  MaxFaults,    \* bound: lost answers and lost pages
  MaxSwitches   \* bound: changes of workspace

ASSUME BoundAssumption == MaxVersions \in Nat \ {0} /\ {MaxFaults, MaxSwitches} \subseteq Nat

VARIABLES
  tower,    \* Tower: version of each message, and whether it was deleted
  stray,    \* creations given up by the client that Tower may still receive
  kind,     \* how the message is sent: "message", "reply", "thread"
  local,    \* chat_messages: sync_status of the row under the client's id
  row,      \* chat_messages: the row under Tower's id
  raw,      \* pg_record_rows
  withheld, \* pg_record_conflicts
  list,     \* this.messages: the same two rows, as the page shows them
  call,     \* the request under way for a message
  page, typed,  \* answers of the record-delta read and of the channel read
  home,     \* whether the messages' workspace is the current one
  returned, \* messages whose text stayed in the composer when they failed
  astray,   \* history: messages put in another workspace's database
  cut,      \* history: messages whose row nobody will settle
  blind,    \* history: messages sent again when Tower's row was already stored
  revived,  \* history: messages put again by an answer older than the cache
  faults, switches  \* counters

external == <<tower, stray>>
stored == <<local, row>>
delta == <<raw, withheld>>
reads == <<page, typed>>
history == <<astray, cut, blind, revived>>
counters == <<faults, switches>>
vars == <<external, kind, stored, delta, list, call, reads, home, returned, history, counters>>

Absent == [v |-> 0, gone |-> FALSE]
NoRow == [v |-> 0, gone |-> FALSE, pending |-> FALSE, recon |-> FALSE, delta |-> FALSE]
NoCall == [pc |-> "none", what |-> "none", at |-> 0, gone |-> FALSE, here |-> FALSE]
NoPage == [m \in Messages |-> Absent]
Unlisted == [local |-> "none", row |-> NoRow]
Visible(r) == r.v > 0 /\ ~r.gone

\* sendMessage and sendThreadReply: one send at a time for each composer
Composer(k) == IF k = "message" THEN "message" ELSE "thread"
Free(k) == \A n \in Messages : call[n].what = "create" => Composer(kind[n]) # Composer(k)

\* what the answer of m's creation can reach: a reply has kept its database
Reaches(m) == home \/ kind[m] = "reply"
\* and whether the list is still the one it was sent from
Shows(m) == home /\ (kind[m] # "reply" \/ call[m].here)

----------------------------------------------------------------------------
(* Tower and its other clients.                                             *)

OthersEdit(m) ==
  /\ tower[m].v \in 1..(MaxVersions - 1) /\ ~tower[m].gone
  /\ tower' = [tower EXCEPT ![m].v = @ + 1]
  /\ UNCHANGED <<stray, kind, stored, delta, list, call, reads, home, returned, history, counters>>

OthersDelete(m) ==
  /\ tower[m].v \in 1..(MaxVersions - 1) /\ ~tower[m].gone
  /\ tower' = [tower EXCEPT ![m] = [v |-> @.v + 1, gone |-> TRUE]]
  /\ UNCHANGED <<stray, kind, stored, delta, list, call, reads, home, returned, history, counters>>

\* client_request_id: the same creation is carried out once
Created(m) == IF tower[m] = Absent THEN [v |-> 1, gone |-> FALSE] ELSE tower[m]

StrayArrives(m) ==
  /\ m \in stray
  /\ stray' = stray \ {m} /\ tower' = [tower EXCEPT ![m] = Created(m)]
  /\ UNCHANGED <<kind, stored, delta, list, call, reads, home, returned, history, counters>>

CreateArrives(m) ==
  /\ call[m].pc = "sent" /\ call[m].what = "create"
  /\ tower' = [tower EXCEPT ![m] = Created(m)]
  /\ call' = [call EXCEPT ![m] = [@ EXCEPT !.pc = "answered", !.at = Created(m).v, !.gone = Created(m).gone]]
  /\ UNCHANGED <<stray, kind, stored, delta, list, reads, home, returned, history, counters>>

\* an edit names the version it was made from
EditArrives(m) ==
  /\ call[m].pc = "sent" /\ call[m].what = "edit"
  /\ IF tower[m].v = call[m].at /\ ~tower[m].gone
     THEN /\ tower' = [tower EXCEPT ![m].v = @ + 1]
          /\ call' = [call EXCEPT ![m] = [@ EXCEPT !.pc = "answered", !.at = call[m].at + 1]]
     ELSE call' = [call EXCEPT ![m].pc = "refused"] /\ UNCHANGED tower
  /\ UNCHANGED <<stray, kind, stored, delta, list, reads, home, returned, history, counters>>

----------------------------------------------------------------------------
(* Sending.                                                                 *)

\* the optimistic row is put, then shown
Start(m) ==
  /\ local' = [local EXCEPT ![m] = "pending"]
  /\ list' = [list EXCEPT ![m].local = "pending"]
  /\ call' = [call EXCEPT ![m] = [NoCall EXCEPT !.pc = "put", !.what = "create", !.here = TRUE]]

Compose(m) ==
  /\ home /\ kind[m] = "none"
  /\ \E k \in {"message", "reply", "thread"} : Free(k) /\ kind' = [kind EXCEPT ![m] = k]
  /\ Start(m)
  /\ UNCHANGED <<external, row, delta, reads, home, returned, history, counters>>

\* resendFailedMessage, by the user or by retryUnsyncedOutgoingMessages: the
\* message is looked for in the list first, its row put back as pending
Resend(m) ==
  /\ home /\ call[m] = NoCall /\ Free(kind[m])
  /\ "failed" \in {local[m], list[m].local}
  /\ list[m].local \in {"none", "failed"}
  /\ Start(m)
  /\ blind' = IF Visible(row[m]) THEN blind \cup {m} ELSE blind
  /\ UNCHANGED <<external, kind, row, delta, reads, home, returned, astray, cut, revived, counters>>

CreateFails_StaysPending(m) ==
  /\ call' = [call EXCEPT ![m] = NoCall]
  /\ UNCHANGED <<local, list, returned, cut>>
\* A creation fails: a reply finds its row wherever it is, another message only
\* in the current database; a new thread's row is removed, its text still being
\* in the composer.  A row already replaced by Tower's is not brought back.
CreateFails(m) ==
  LET left == IF kind[m] = "thread" THEN "none" ELSE IF local[m] = "none" THEN "none" ELSE "failed"
  IN  /\ call' = [call EXCEPT ![m] = NoCall]
      /\ local' = IF Reaches(m) THEN [local EXCEPT ![m] = left] ELSE local
      /\ list' = IF Shows(m) /\ ~(kind[m] = "reply" /\ left = "none") THEN [list EXCEPT ![m].local = left] ELSE list
      /\ returned' = IF kind[m] = "thread" THEN returned \cup {m} ELSE returned
      /\ cut' = IF Reaches(m) THEN cut ELSE cut \cup {m}

\* the request leaves for the workspace that is current by then
Send(m) ==
  /\ call[m].pc = "put"
  /\ IF home THEN call' = [call EXCEPT ![m].pc = "sent"] /\ UNCHANGED <<local, list, returned, cut>>
     ELSE CreateFails(m)
  /\ UNCHANGED <<external, kind, row, delta, reads, home, astray, blind, revived, counters>>

\* replaceMessageRecord: a revision already materialized wins over a late answer
CanonicalWins_Never(r, v) == FALSE
CanonicalWins(r, v) == r.v > 0 /\ (r.v > v \/ (r.delta /\ r.v >= v))
Accepted(m) ==
  IF CanonicalWins(row[m], call[m].at) THEN row[m]
  ELSE [NoRow EXCEPT !.v = call[m].at, !.gone = call[m].gone, !.recon = TRUE]
Older(m) == raw[m].v > call[m].at \/ row[m].v > call[m].at

CreateAnswer(m) ==
  /\ call[m].pc = "answered" /\ call[m].what = "create"
  /\ call' = [call EXCEPT ![m] = NoCall]
  /\ IF Reaches(m)
     THEN /\ local' = [local EXCEPT ![m] = "none"]
          /\ row' = [row EXCEPT ![m] = Accepted(m)]
          /\ list' = IF Shows(m) THEN [list EXCEPT ![m] = [local |-> "none", row |-> Accepted(m)]] ELSE list
          /\ revived' = IF raw[m].gone /\ row[m] = NoRow THEN revived \cup {m} ELSE revived
          /\ UNCHANGED <<astray, cut>>
     ELSE /\ astray' = astray \cup {m} /\ cut' = cut \cup {m}
          /\ UNCHANGED <<local, row, list, revived>>
  /\ UNCHANGED <<external, kind, delta, reads, home, returned, blind, counters>>

----------------------------------------------------------------------------
(* Editing: saveMessageEdit.                                                *)

\* setMessageSyncStatus on Tower's row
Marked(m, pending) ==
  LET r == IF row[m] = NoRow THEN NoRow ELSE [row[m] EXCEPT !.pending = pending]
  IN  /\ row' = [row EXCEPT ![m] = r]
      /\ list' = [list EXCEPT ![m].row = r]

Edit(m) ==
  /\ home /\ call[m] = NoCall /\ \A n \in Messages : call[n].what # "edit"
  /\ Visible(list[m].row) /\ ~list[m].row.pending /\ tower[m].v < MaxVersions
  /\ Marked(m, TRUE)
  /\ call' = [call EXCEPT ![m] = [NoCall EXCEPT !.pc = "sent", !.what = "edit", !.at = list[m].row.v, !.here = TRUE]]
  /\ UNCHANGED <<external, kind, local, delta, reads, home, returned, history, counters>>

EditFails(m) ==
  /\ call' = [call EXCEPT ![m] = NoCall]
  /\ IF home THEN Marked(m, FALSE) /\ UNCHANGED cut
     ELSE cut' = cut \cup {m} /\ UNCHANGED <<row, list>>
  /\ UNCHANGED <<local, returned>>

EditRefused(m) ==
  /\ call[m].pc = "refused" /\ EditFails(m)
  /\ UNCHANGED <<external, kind, delta, reads, home, astray, blind, revived, counters>>

\* the answer is put in the current database as it is
EditAnswer(m) ==
  LET r == [NoRow EXCEPT !.v = call[m].at]
  IN  /\ call[m].pc = "answered" /\ call[m].what = "edit"
      /\ call' = [call EXCEPT ![m] = NoCall]
      /\ IF home
         THEN /\ row' = [row EXCEPT ![m] = r] /\ list' = [list EXCEPT ![m].row = r]
              /\ revived' = IF Older(m) THEN revived \cup {m} ELSE revived
              /\ UNCHANGED <<astray, cut>>
         ELSE astray' = astray \cup {m} /\ cut' = cut \cup {m} /\ UNCHANGED <<row, list, revived>>
      /\ UNCHANGED <<external, kind, local, delta, reads, home, returned, blind, counters>>

----------------------------------------------------------------------------
(* The two reads of the replica, and what the page shows of it.             *)

ReadPage ==
  /\ home /\ page = NoPage /\ \E m \in Messages : tower[m].v > raw[m].v
  /\ page' = tower
  /\ UNCHANGED <<external, kind, stored, delta, list, call, typed, home, returned, history, counters>>

\* materialize, for the change (v, gone) of message m
Held(m, c) == IF row[m].pending \/ row[m].recon THEN c.gone \/ ~row[m].recon ELSE FALSE
Materialised(m, c) ==
  IF c.gone THEN NoRow
  ELSE IF Held(m, c) \/ row[m].v > c.v THEN row[m]
  ELSE [NoRow EXCEPT !.v = c.v, !.delta = TRUE]
\* the optimistic row goes with the first change that is shown
Superseded_Never(m, c) == local[m]
Superseded(m, c) == IF c.gone \/ Held(m, c) \/ row[m].v > c.v THEN local[m] ELSE "none"

CommitPage ==
  LET changed == {m \in Messages : page[m].v > raw[m].v}
  IN  /\ home /\ page # NoPage
      /\ raw' = [m \in Messages |-> IF m \in changed THEN page[m] ELSE raw[m]]
      /\ row' = [m \in Messages |-> IF m \in changed THEN Materialised(m, page[m]) ELSE row[m]]
      /\ local' = [m \in Messages |-> IF m \in changed THEN Superseded(m, page[m]) ELSE local[m]]
      /\ withheld' = {m \in withheld : m \notin changed \/ page[m].gone \/ row[m].v > page[m].v}
                     \cup {m \in changed : Held(m, page[m])}
      /\ page' = NoPage
      /\ typed' = NoPage  \* a channel read begun under the earlier cursor is refused
      /\ UNCHANGED <<external, kind, list, call, home, returned, history, counters>>

\* reconcileConflictBatch
Reconcile(m) ==
  /\ home /\ m \in withheld /\ row[m] # NoRow /\ ~row[m].pending
  /\ IF row[m].v > raw[m].v /\ ~raw[m].gone THEN withheld' = withheld \ {m} /\ UNCHANGED <<row, local>>
     ELSE IF raw[m].gone THEN row' = [row EXCEPT ![m] = NoRow] /\ UNCHANGED <<local, withheld>>
     ELSE /\ row' = [row EXCEPT ![m] = [NoRow EXCEPT !.v = raw[m].v, !.delta = TRUE]]
          /\ local' = [local EXCEPT ![m] = "none"]
          /\ withheld' = withheld \ {m}
  /\ UNCHANGED <<external, kind, raw, list, call, reads, home, returned, history, counters>>

OpenChannel ==
  /\ home /\ typed = NoPage
  /\ typed' = [m \in Messages |-> IF tower[m].gone THEN Absent ELSE tower[m]]
  /\ typed' # NoPage
  /\ UNCHANGED <<external, kind, stored, delta, list, call, page, home, returned, history, counters>>

\* replacePgMessagesForChannel, not authoritative
CommitTyped ==
  LET taken == {m \in Messages : typed[m].v > 0 /\ row[m].v <= typed[m].v}
      put == {m \in taken : ~raw[m].gone /\ raw[m].v <= typed[m].v}
  IN  /\ home /\ typed # NoPage
      /\ local' = [m \in Messages |-> IF m \in taken THEN "none" ELSE local[m]]
      /\ row' = [m \in Messages |-> IF m \in put THEN [NoRow EXCEPT !.v = typed[m].v] ELSE row[m]]
      /\ typed' = NoPage
      /\ UNCHANGED <<external, kind, delta, list, call, page, home, returned, history, counters>>

\* applyMessages with mergePendingPgMessages: what is stored, and the pending rows
\* of the list that the store has not
Refreshed(m) ==
  [local |-> IF list[m].local = "pending" /\ local[m] = "none" /\ ~Visible(row[m]) THEN "pending" ELSE local[m],
   row |-> IF Visible(row[m]) THEN row[m]
           ELSE IF list[m].row.pending \/ list[m].row.recon THEN list[m].row ELSE NoRow]
Refresh ==
  /\ home /\ list' = [m \in Messages |-> Refreshed(m)] /\ list' # list
  /\ UNCHANGED <<external, kind, stored, delta, call, reads, home, returned, history, counters>>

----------------------------------------------------------------------------
(* Switches and faults.                                                     *)

Switch ==
  /\ switches < MaxSwitches /\ switches' = switches + 1
  /\ home' = ~home
  /\ list' = [m \in Messages |-> Unlisted]
  /\ call' = [m \in Messages |-> [call[m] EXCEPT !.here = FALSE]]
  /\ page' = NoPage /\ typed' = NoPage
  /\ UNCHANGED <<external, kind, stored, delta, returned, history, faults>>

\* the request or its answer is lost, or the time limit ends it
Lose(m) ==
  /\ call[m].pc \in {"sent", "answered"} /\ faults < MaxFaults
  /\ faults' = faults + 1
  /\ stray' = IF call[m].pc = "sent" /\ call[m].what = "create" THEN stray \cup {m} ELSE stray
  /\ \/ call[m].what = "create" /\ CreateFails(m) /\ UNCHANGED row
     \/ call[m].what = "edit" /\ EditFails(m)
  /\ UNCHANGED <<tower, kind, delta, reads, home, astray, blind, revived, switches>>

\* the page is lost, and loaded again
Reload ==
  /\ faults < MaxFaults /\ faults' = faults + 1
  /\ stray' = stray \cup {m \in Messages : call[m].pc = "sent" /\ call[m].what = "create"}
  /\ cut' = cut \cup {m \in Messages : call[m] # NoCall}
  /\ call' = [m \in Messages |-> NoCall]
  /\ list' = [m \in Messages |-> Unlisted]
  /\ home' = TRUE
  /\ page' = NoPage /\ typed' = NoPage
  /\ UNCHANGED <<tower, kind, stored, delta, returned, astray, blind, revived, switches>>

----------------------------------------------------------------------------
Init ==
  /\ tower = [m \in Messages |-> Absent] /\ stray = {}
  /\ kind = [m \in Messages |-> "none"]
  /\ local = [m \in Messages |-> "none"] /\ row = [m \in Messages |-> NoRow]
  /\ raw = [m \in Messages |-> Absent] /\ withheld = {}
  /\ list = [m \in Messages |-> Unlisted] /\ call = [m \in Messages |-> NoCall]
  /\ page = NoPage /\ typed = NoPage /\ home = TRUE /\ returned = {}
  /\ astray = {} /\ cut = {} /\ blind = {} /\ revived = {}
  /\ faults = 0 /\ switches = 0

Own(m) == Send(m) \/ CreateArrives(m) \/ CreateAnswer(m) \/ EditArrives(m) \/ EditRefused(m) \/ EditAnswer(m)
Loop == ReadPage \/ CommitPage

Next ==
  \/ \E m \in Messages :
       \/ Compose(m) \/ Resend(m) \/ Edit(m) \/ Own(m) \/ Reconcile(m)
       \/ OthersEdit(m) \/ OthersDelete(m) \/ StrayArrives(m) \/ Lose(m)
  \/ Loop \/ OpenChannel \/ CommitTyped \/ Refresh \/ Switch \/ Reload

Spec == Init /\ [][Next]_vars

\* Requests end by their time limit, the fallback timer keeps the loop going, and
\* each of its pages is followed by the conflicts.
FairSpec == Spec /\ WF_vars(Loop) /\ \A m \in Messages : WF_vars(Own(m)) /\ WF_vars(Reconcile(m))

----------------------------------------------------------------------------
(* Properties.                                                              *)

RowType == [v : 0..MaxVersions, gone : BOOLEAN, pending : BOOLEAN, recon : BOOLEAN, delta : BOOLEAN]
Version == [v : 0..MaxVersions, gone : BOOLEAN]
Status == {"none", "pending", "failed"}
ListType == [local : Status, row : RowType]
CallType == [pc : {"none", "put", "sent", "answered", "refused"}, what : {"none", "create", "edit"},
             at : 0..MaxVersions, gone : BOOLEAN, here : BOOLEAN]

\* Every variable holds a value the code can store in it.
TypeOK ==
  /\ tower \in [Messages -> Version] /\ stray \subseteq Messages
  /\ kind \in [Messages -> {"none", "message", "reply", "thread"}]
  /\ local \in [Messages -> Status] /\ row \in [Messages -> RowType]
  /\ raw \in [Messages -> Version] /\ withheld \subseteq Messages
  /\ list \in [Messages -> ListType] /\ call \in [Messages -> CallType]
  /\ page \in [Messages -> Version] /\ typed \in [Messages -> Version]
  /\ home \in BOOLEAN /\ returned \subseteq Messages
  /\ faults \in 0..MaxFaults /\ switches \in 0..MaxSwitches

\* A message is kept, and kept once.  Until Tower has it its row is there, or its
\* text is in the composer, whatever answers, pages and reads do to the database;
\* beside Tower's row the optimistic one does not stand, unless the message was sent
\* again from a list that did not yet show Tower's row.
WrittenOnce ==
  \A m \in Messages :
    /\ kind[m] # "none" => tower[m].v > 0 \/ local[m] # "none" \/ m \in returned
    /\ (local[m] # "none" /\ Visible(row[m])) => m \in blind

\* A late answer does not take a message back behind what the record delta has
\* brought: the row shows that version or a later one, or a conflict remembers it.
\* Excepted are the answers put without a look at the row (see README).
RowKeepsUp ==
  \A m \in Messages :
    (Visible(row[m]) /\ row[m].v < raw[m].v) => m \in withheld \cup revived

\* A message's answer never lands in another workspace's database.
AnswerStaysHome == astray = {}

\* Once the user no longer edits, no message hangs as pending whose send nobody cut
\* off, and every message Tower has is shown once, in Tower's version, for good.
EventuallySettled ==
  <>[](\A m \in Messages : call[m].what # "edit") =>
  <>[](\A m \in Messages :
         /\ local[m] = "pending" => m \in cut
         /\ (home /\ tower[m].v > 0 /\ ~row[m].pending /\ m \notin revived) =>
              /\ Visible(row[m]) <=> ~tower[m].gone
              /\ Visible(row[m]) => row[m].v = tower[m].v /\ (local[m] = "none" \/ m \in blind))
=============================================================================
