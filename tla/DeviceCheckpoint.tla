-------------------------- MODULE DeviceCheckpoint --------------------------
(***************************************************************************)
(* Record download by protocol 2: a cache registers as a device at Tower,  *)
(* reads pages from its own cursor and acknowledges what it has committed  *)
(* (src/pg-device-checkpoints.js, and the transactions of                  *)
(* src/pg-record-delta.js that take part).  Tabs share one database and    *)
(* keep apart by the lease that stands in for missing Web Locks.           *)
(*                                                                         *)
(* A scope is a signer at a backend and workspace; each has a state row of *)
(* its own, and the owner row says whose records the tables hold.  The     *)
(* journal of a scope is 1..head, and a row is a record of it.  Slices of  *)
(* a page and the walk over its tables are RecordDelta's matter: here a    *)
(* page and the walk are one transaction each.                             *)
(***************************************************************************)
EXTENDS Integers, Sequences, FiniteSets, Functions

CONSTANTS
  Tabs, Scopes, None,
  Home,         \* the scope the user signs in to first
  PageSize,     \* changes of a page
  MaxHead,      \* bound: changes of the journals together
  MaxClients,   \* bound: identities the caches may take on
  MaxFaults,    \* bound: crashes, expired leases, lost answers, clients Tower forgets, memberships revoked
  MaxSwitches   \* bound: the user signs in as another

ASSUME ScopeAssumption == None \notin Scopes \cup Tabs /\ Home \in Scopes
ASSUME BoundAssumption ==
  /\ PageSize \in Nat \ {0} /\ MaxHead \in Nat /\ MaxClients \in Nat
  /\ MaxFaults \in Nat /\ MaxSwitches \in Nat

VARIABLES
  head,       \* Tower: length of each scope's journal
  member,     \* Tower: scopes whose signer is a member
  devices,    \* Tower: registered clients, [rev, pos] of each
  acks,       \* acknowledgements on their way to Tower
  state,      \* database: the state row of each scope
  owner,      \* database: the row saying whose records the tables hold
  rows,       \* database: the records, <<scope, position>>
  lease,      \* database: the lease row
  run,        \* tabs: the pass of syncDeviceRecords each is in
  session,    \* the scope the user is signed in to
  scopeOf,    \* history: the scope each client identity was made for, in order
  late,       \* history: clients registered by a pass that had lost its lease
  faults, switches  \* counters for the bounds

tower == <<head, member, devices>>
cache == <<state, owner, rows>>
env == <<session, faults, switches>>
made == <<scopeOf, late>>
vars == <<tower, acks, cache, lease, run, made, env>>

Position == Nat
Null == -1
Clients == 1..MaxClients
NoAck == [pos |-> Null, rev |-> 0]
NoState == [cursor |-> Null, gen |-> 0, client |-> 0, registered |-> FALSE, rev |-> 0, ack |-> NoAck,
            obsolete |-> {}, phase |-> "delta", ret |-> NoAck]
NoOwner == [scope |-> None, client |-> 0]
NoLease == [tab |-> None, live |-> FALSE]
NoPage == [next |-> Null, more |-> FALSE, complete |-> FALSE, rev |-> 0]
Idle == [pc |-> "idle", scope |-> None, st |-> NoState, arg |-> 0, page |-> NoPage]

At(t, pc) == run[t].pc = pc
Go(t, pc) == run' = [run EXCEPT ![t].pc = pc]
st(t) == run[t].st
scope(t) == run[t].scope

\* assertDeviceLease; a crashed tab's lease is nobody's.
Holds(t) == lease.live /\ lease.tab = t

Unregistered == [rev |-> 0, pos |-> Null]
Registered(c) == devices[c] # Unregistered

----------------------------------------------------------------------------
(* Tower and the user.                                                      *)

Emit(s) ==
  /\ FoldFunction(+, 0, head) < MaxHead
  /\ head' = [head EXCEPT ![s] = @ + 1]
  /\ UNCHANGED <<member, devices, acks, cache, lease, run, made, env>>

Switch(s) ==
  /\ s # session /\ switches < MaxSwitches
  /\ session' = s /\ switches' = switches + 1
  /\ UNCHANGED <<tower, acks, cache, lease, run, made, faults>>

\* Tower lets a client expire, or prunes the history behind its cursor.
Forget(c) ==
  /\ faults < MaxFaults /\ Registered(c)
  /\ faults' = faults + 1
  /\ devices' = [devices EXCEPT ![c] = Unregistered]
  /\ UNCHANGED <<head, member, acks, cache, lease, run, made, session, switches>>

Revoke(s) ==
  /\ faults < MaxFaults /\ s \in member
  /\ faults' = faults + 1
  /\ member' = member \ {s}
  /\ UNCHANGED <<head, devices, acks, cache, lease, run, made, session, switches>>

----------------------------------------------------------------------------
(* The lease, and the beginning and end of a pass.                          *)

\* commitDeviceLease "acquire", tried again until it succeeds: until then a pass
\* has nothing but the context it was started in.
Start(t) ==
  /\ At(t, "idle") /\ ~lease.live
  /\ lease' = [tab |-> t, live |-> TRUE]
  /\ run' = [run EXCEPT ![t] = [Idle EXCEPT !.pc = "inspect", !.scope = session]]
  /\ UNCHANGED <<tower, acks, cache, made, env>>

Orphaned(t) == {IF m.tab = t THEN [m EXCEPT !.tab = None] ELSE m : m \in acks}

\* The pass is over; the lease is given back if it is still held.
Finish(t) ==
  /\ run' = [run EXCEPT ![t] = Idle]
  /\ lease' = IF Holds(t) THEN NoLease ELSE lease
  /\ acks' = Orphaned(t)

\* A lost lease is noticed by the next commit, a changed session by assertCurrent.
Abandon(t) ==
  /\ ~At(t, "idle")
  /\ ~Holds(t) \/ scope(t) # session
  /\ Finish(t)
  /\ UNCHANGED <<tower, cache, made, env>>

\* A call fails, or its answer is lost.
Fail(t) ==
  /\ faults < MaxFaults /\ ~At(t, "idle")
  /\ faults' = faults + 1
  /\ Finish(t)
  /\ UNCHANGED <<tower, cache, made, session, switches>>

\* The tab is closed or reloaded in the middle.
Crash(t) ==
  /\ faults < MaxFaults /\ ~At(t, "idle")
  /\ faults' = faults + 1
  /\ run' = [run EXCEPT ![t] = Idle]
  /\ lease' = IF Holds(t) THEN [lease EXCEPT !.tab = None] ELSE lease
  /\ acks' = Orphaned(t)
  /\ UNCHANGED <<tower, cache, made, session, switches>>

\* 120 seconds without renewal: the owner is suspended, or gone.
Expire ==
  /\ lease.live
  /\ lease.tab # None => faults < MaxFaults
  /\ faults' = IF lease.tab # None THEN faults + 1 ELSE faults
  /\ lease' = NoLease
  /\ UNCHANGED <<tower, acks, cache, run, made, session, switches>>

----------------------------------------------------------------------------
(* Taking the cache over.                                                   *)

\* "inspect": the state row can be resumed only if the tables are its own.
CacheMatches(s) == owner = [scope |-> s, client |-> state[s].client] /\ state[s].client # 0

Inspect(t) ==
  /\ At(t, "inspect") /\ Holds(t)
  /\ run' = [run EXCEPT ![t].st = state[scope(t)],
                        ![t].pc = IF CacheMatches(scope(t)) THEN "top" ELSE "adopt"]
  /\ UNCHANGED <<tower, acks, cache, lease, made, env>>

\* First use of protocol 2 keeps what is shown, unless another scope's.
PreservesViews(t) == At(t, "adopt") /\ st(t).client = 0 /\ owner.scope \in {None, scope(t)}

\* Mutant: the tables are emptied and the cursor stays.
Replacement_KeepsCursor(s) ==
  [NoState EXCEPT !.cursor = state[s].cursor, !.gen = state[s].gen + 1, !.client = Len(scopeOf) + 1,
                  !.phase = "snapshot", !.obsolete = (state[s].obsolete \cup {state[s].client}) \ {0}]

\* Mutant: the replaced identity is not noted.
Replacement_Forgets(s) ==
  [NoState EXCEPT !.gen = state[s].gen + 1, !.client = Len(scopeOf) + 1, !.phase = "snapshot",
                  !.obsolete = state[s].obsolete]

\* Mutant: a row that had no identity yet is noted too.
Replacement_NotesNobody(s) ==
  [NoState EXCEPT !.gen = state[s].gen + 1, !.client = Len(scopeOf) + 1, !.phase = "snapshot",
                  !.obsolete = state[s].obsolete \cup {state[s].client}]

\* The new state row of resetPgRecordAuthority.  It also notes the identity of
\* the scope it takes the tables from.
Replacement(s) ==
  LET taken == IF owner.scope \in Scopes \ {s} THEN {state[owner.scope].client} ELSE {}
  IN  [NoState EXCEPT !.gen = state[s].gen + 1, !.client = Len(scopeOf) + 1, !.phase = "snapshot",
                      !.obsolete = (state[s].obsolete \cup {state[s].client} \cup taken) \ {0}]

\* The transaction compares generation, cursor and owner with what the pass read.
Unchanged(t) ==
  LET d == state[scope(t)]
  IN  /\ d.gen = st(t).gen /\ d.cursor = st(t).cursor /\ d.client = st(t).client
      /\ owner = [scope |-> scope(t), client |-> d.client]

\* resetPgRecordAuthority: on adoption, after a reset ("replace") or when the
\* membership is gone ("hide").
Replace(t) ==
  LET s == scope(t)
  IN
  /\ run[t].pc \in {"adopt", "replace", "hide"} /\ Holds(t)
  /\ state[s].gen = st(t).gen /\ state[s].cursor = st(t).cursor
  /\ Len(scopeOf) < MaxClients
  /\ state' = [state EXCEPT ![s] = Replacement(s)]
  /\ owner' = [scope |-> s, client |-> Len(scopeOf) + 1]
  /\ rows' = IF PreservesViews(t) THEN rows ELSE {}
  /\ scopeOf' = Append(scopeOf, s)
  /\ IF At(t, "hide") THEN Finish(t)
     ELSE /\ run' = [run EXCEPT ![t].pc = "top", ![t].st = Replacement(s)]
          /\ UNCHANGED <<lease, acks>>
  /\ UNCHANGED <<tower, late, env>>

\* Without membership the authority is hidden, unless there is none to hide.
Denied(t) ==
  /\ scope(t) \notin member
  /\ IF ~st(t).registered /\ st(t).cursor = Null THEN Finish(t)
     ELSE Go(t, "hide") /\ UNCHANGED <<lease, acks>>
  /\ UNCHANGED <<tower, cache, made, env>>

----------------------------------------------------------------------------
(* One round of the loop: retire, register, finish the walk, acknowledge,   *)
(* read, apply, acknowledge.                                                *)

\* Where a pass is after its state row has become d.
Onward(t, d, pc) == [run EXCEPT ![t].st = d, ![t].pc = pc, ![t].arg = 0,
                                ![t].page = [NoPage EXCEPT !.more = (pc = "end" \/ pc = "walk") /\ run[t].page.more]]

\* commitDeviceMetadata: the state row becomes d, and the pass goes on from it.
Commit(t, d, pc) ==
  /\ Holds(t) /\ Unchanged(t)
  /\ state' = [state EXCEPT ![scope(t)] = d]
  /\ run' = Onward(t, d, pc)

OwnObsolete(t) == {c \in st(t).obsolete : scopeOf[c] = scope(t) /\ c # st(t).client}

Retire(t) ==
  \E c \in OwnObsolete(t) :
    /\ At(t, "top") /\ scope(t) \in member
    /\ devices' = [devices EXCEPT ![c] = Unregistered]
    /\ run' = [run EXCEPT ![t].pc = "retired", ![t].arg = c]
    /\ UNCHANGED <<head, member, acks, cache, lease, made, env>>

CommitRetired(t) ==
  /\ At(t, "retired")
  /\ Commit(t, [state[scope(t)] EXCEPT !.obsolete = @ \ {run[t].arg}], "top")
  /\ UNCHANGED <<tower, acks, owner, rows, lease, made, env>>

\* Registering again leaves the registration as it is.
Register(t) ==
  LET c == st(t).client
      d == IF Registered(c) THEN devices[c] ELSE [rev |-> 0, pos |-> 0]
  IN
  /\ At(t, "top") /\ OwnObsolete(t) = {} /\ ~st(t).registered /\ scope(t) \in member
  /\ devices' = [devices EXCEPT ![c] = d]
  /\ late' = IF Holds(t) THEN late ELSE late \cup {c}
  /\ run' = [run EXCEPT ![t].pc = "registered", ![t].page.rev = d.rev]
  /\ UNCHANGED <<head, member, acks, cache, lease, scopeOf, env>>

CommitRegistered(t) ==
  LET d == state[scope(t)]
  IN
  /\ At(t, "registered")
  /\ Commit(t, IF d.cursor # Null \/ d.registered THEN d
               ELSE [d EXCEPT !.cursor = 0, !.registered = TRUE, !.rev = run[t].page.rev], "top")
  /\ UNCHANGED <<tower, acks, owner, rows, lease, made, env>>

Ready(t) == At(t, "top") /\ OwnObsolete(t) = {} /\ st(t).registered

\* retireSnapshotOmissions, after the last page or resumed: what the snapshot
\* did not bring goes, and only then cursor and intent move.
Walk(t) ==
  LET d == state[scope(t)]
  IN
  /\ At(t, "walk") \/ Ready(t)
  /\ d.ret # NoAck
  /\ Commit(t, [d EXCEPT !.cursor = d.ret.pos, !.ack = d.ret, !.ret = NoAck, !.phase = "delta"],
            IF At(t, "walk") THEN "end" ELSE "top")
  /\ rows' = {r \in rows : r[1] = scope(t)}
  /\ UNCHANGED <<tower, acks, owner, lease, made, env>>

\* The intent goes to Tower, before a page is read and after it is applied.
SendAck(t) ==
  /\ At(t, "end") \/ (Ready(t) /\ st(t).ret = NoAck)
  /\ st(t).ack # NoAck /\ Holds(t)
  /\ acks' = acks \cup {[tab |-> t, client |-> st(t).client, pos |-> st(t).ack.pos, rev |-> st(t).ack.rev]}
  /\ run' = [run EXCEPT ![t].pc = "waiting", ![t].arg = IF At(t, "end") THEN 1 ELSE 0]
  /\ UNCHANGED <<tower, cache, lease, made, env>>

\* After a conflict the intent stays; a page read from the committed cursor
\* replaces it.
AfterConflict(t) == IF run[t].arg = 0 THEN "read" ELSE "top"

\* What Tower makes of it: it holds that position already; or another page has
\* been acknowledged since the acknowledged one was issued; or it moves.
AckOutcome(m) ==
  LET d == devices[m.client]
  IN  IF scopeOf[m.client] \notin member THEN "denied"
      ELSE IF ~Registered(m.client) THEN "gone"
      ELSE IF d.pos = m.pos THEN "acked"
      ELSE IF d.rev # m.rev \/ m.pos < d.pos THEN "conflict"
      ELSE "moved"

\* The request arrives, and its answer reaches the pass that waits for it.
AckArrives(m) ==
  LET outcome == AckOutcome(m)
      d == IF outcome = "moved" THEN [rev |-> devices[m.client].rev + 1, pos |-> m.pos] ELSE devices[m.client]
      pc == CASE outcome = "gone" -> "replace" [] outcome = "denied" -> "denied"
              [] outcome = "conflict" -> AfterConflict(m.tab) [] OTHER -> "acked"
  IN
  /\ acks' = acks \ {m}
  /\ devices' = [devices EXCEPT ![m.client] = d]
  /\ run' = IF m.tab = None THEN run
            ELSE [run EXCEPT ![m.tab].pc = pc, ![m.tab].page.rev = IF pc = "acked" THEN d.rev ELSE 0,
                             ![m.tab].arg = IF pc = "acked" THEN @ ELSE 0]
  /\ UNCHANGED <<head, member, cache, lease, made, env>>

\* Complete, unless there are more pages.
AfterAck(t) == IF run[t].arg = 0 THEN "read" ELSE IF run[t].page.more THEN "top" ELSE "complete"

\* Mutant: whatever the intent has become, it is cleared.
CommitAcked_Unchecked(t) ==
  /\ At(t, "acked")
  /\ state' = [state EXCEPT ![scope(t)].ack = NoAck, ![scope(t)].rev = run[t].page.rev]
  /\ run' = Onward(t, [state[scope(t)] EXCEPT !.ack = NoAck, !.rev = run[t].page.rev], AfterAck(t))
  /\ UNCHANGED <<tower, acks, owner, rows, lease, made, env>>

CommitAcked(t) ==
  LET d == state[scope(t)]
  IN
  /\ At(t, "acked") /\ d.ack.pos = st(t).ack.pos /\ d.cursor = d.ack.pos
  /\ Commit(t, [d EXCEPT !.ack = NoAck, !.rev = run[t].page.rev], AfterAck(t))
  /\ UNCHANGED <<tower, acks, owner, rows, lease, made, env>>

Complete(t) ==
  /\ At(t, "complete")
  /\ Finish(t)
  /\ UNCHANGED <<tower, cache, made, env>>

Reads(t) == At(t, "read") \/ (Ready(t) /\ st(t).ret = NoAck /\ st(t).ack = NoAck)

\* Mutant: it is an error like any other.
Unknown_Fails(t) == Finish(t)

\* A client Tower does not know any more is replaced.
Unknown(t) ==
  /\ Go(t, "replace")
  /\ UNCHANGED <<lease, acks>>

\* A page from the committed cursor.  Snapshot pages always announce another:
\* a delta page hands over.
Read(t) ==
  LET s == scope(t)
      reach == st(t).cursor + PageSize
      next == IF reach < head[s] THEN reach ELSE head[s]
      snapshot == st(t).phase = "snapshot"
  IN
  /\ Reads(t) /\ s \in member
  /\ IF Registered(st(t).client)
     THEN /\ run' = [run EXCEPT ![t].pc = "page",
                       ![t].page = [next |-> next, more |-> snapshot \/ next < head[s],
                                    complete |-> snapshot /\ next = head[s], rev |-> devices[st(t).client].rev]]
          /\ UNCHANGED <<lease, acks>>
     ELSE Unknown(t)
  /\ UNCHANGED <<tower, cache, made, env>>

\* Tower's checks precede Tower's work everywhere.
CallDenied(t) == (At(t, "denied") \/ Reads(t) \/ (At(t, "top") /\ (OwnObsolete(t) # {} \/ ~st(t).registered))) /\ Denied(t)

\* The state row after a page: the page that ends the handover leaves cursor and
\* intent to the walk.
Applied(d, page) ==
  LET intent == [pos |-> page.next, rev |-> page.rev]
      base == [d EXCEPT !.rev = page.rev, !.phase = IF page.complete THEN "handover" ELSE @]
  IN  IF d.phase = "handover" /\ ~page.more
      THEN [base EXCEPT !.ret = intent, !.ack = NoAck]
      ELSE [base EXCEPT !.cursor = page.next, !.ack = intent]

\* Mutant: the page that ends the handover is acknowledged before the walk.
Apply_AckAtOnce(t) ==
  LET s == scope(t)
      applied == Applied(state[s], run[t].page)
      d == IF applied.ret # NoAck THEN [applied EXCEPT !.ack = applied.ret] ELSE applied
  IN
  /\ At(t, "page")
  /\ Commit(t, d, "end")
  /\ rows' = rows \cup {<<s, i>> : i \in state[s].cursor + 1..run[t].page.next}
  /\ UNCHANGED <<tower, acks, owner, lease, made, env>>

\* applyRecordPage.
Apply(t) ==
  LET s == scope(t)
      d == Applied(state[s], run[t].page)
  IN
  /\ At(t, "page")
  /\ Commit(t, d, IF d.ret # NoAck THEN "walk" ELSE "end")
  /\ rows' = rows \cup {<<s, i>> : i \in state[s].cursor + 1..run[t].page.next}
  /\ UNCHANGED <<tower, acks, owner, lease, made, env>>

----------------------------------------------------------------------------
\* A database without rows, or with what protocol 1 has cached for a scope.
Init ==
  \E v1 \in Scopes \cup {None} :
    /\ head = [s \in Scopes |-> IF s = v1 THEN 1 ELSE 0]
    /\ state = [s \in Scopes |-> IF s = v1 THEN [NoState EXCEPT !.cursor = 1] ELSE NoState]
    /\ rows = IF v1 = None THEN {} ELSE {<<v1, 1>>}
    /\ member = Scopes /\ devices = [c \in Clients |-> Unregistered] /\ acks = {}
    /\ owner = NoOwner /\ lease = NoLease
    /\ run = [t \in Tabs |-> Idle]
    /\ session = Home /\ scopeOf = <<>> /\ late = {}
    /\ faults = 0 /\ switches = 0

Step(t) ==
  \/ Abandon(t) \/ Inspect(t) \/ Replace(t)
  \/ Retire(t) \/ CommitRetired(t) \/ Register(t) \/ CommitRegistered(t) \/ Walk(t)
  \/ SendAck(t) \/ CommitAcked(t) \/ Complete(t) \/ Read(t) \/ CallDenied(t) \/ Apply(t)

Next ==
  \/ \E t \in Tabs : Start(t) \/ Step(t) \/ Fail(t) \/ Crash(t)
  \/ \E m \in acks : AckArrives(m)
  \/ Expire
  \/ \E s \in Scopes : Emit(s) \/ Switch(s) \/ Revoke(s)
  \/ \E c \in Clients : Forget(c)

Spec == Init /\ [][Next]_vars

\* Background sync starts a pass again and again and every pass goes on; a lease
\* nobody renews expires; requests arrive.
FairSpec ==
  /\ Spec
  /\ \A t \in Tabs : SF_vars(Start(t)) /\ WF_vars(Step(t))
  /\ WF_vars(lease.tab = None /\ Expire) /\ WF_vars(\E m \in acks : AckArrives(m))

----------------------------------------------------------------------------
(* Properties.                                                              *)

Intent == [pos : Position \cup {Null}, rev : Nat]
StateType ==
  [cursor : Position \cup {Null}, gen : Nat, client : Clients \cup {0}, registered : BOOLEAN, rev : Nat,
   ack : Intent, obsolete : SUBSET Clients, phase : {"snapshot", "handover", "delta"}, ret : Intent]
PageType == [next : Position \cup {Null}, more : BOOLEAN, complete : BOOLEAN, rev : Nat]
PC == {"idle", "inspect", "adopt", "replace", "hide", "top", "retired", "registered", "walk",
       "waiting", "acked", "denied", "complete", "read", "page", "end"}
RunType == [pc : PC, scope : Scopes \cup {None}, st : StateType, arg : Nat, page : PageType]
DeviceType == [rev : Nat, pos : Position \cup {Null}]
AckType == [tab : Tabs \cup {None}, client : Clients, pos : Position, rev : Nat]

\* Every variable holds a value the code can store in it.
TypeOK ==
  /\ head \in [Scopes -> Position] /\ member \subseteq Scopes
  /\ devices \in [Clients -> DeviceType]
  /\ acks \subseteq AckType
  /\ state \in [Scopes -> StateType]
  /\ owner \in [scope : Scopes \cup {None}, client : Clients \cup {0}]
  /\ rows \subseteq Scopes \X Position
  /\ lease \in [tab : Tabs \cup {None}, live : BOOLEAN]
  /\ run \in [Tabs -> RunType]
  /\ session \in Scopes /\ scopeOf \in Seq(Scopes) /\ late \subseteq Clients

Owns(s) == owner = [scope |-> s, client |-> state[s].client]

\* A state row that can be resumed has every record up to its cursor in the
\* tables, whoever has used them in between.
ResumableCoversRows == \A s \in Scopes : CacheMatches(s) => {<<s, i>> : i \in 1..state[s].cursor} \subseteq rows

\* Tower never believes a cache to be further than it has committed: no crash,
\* interrupted walk, late or repeated acknowledgement makes it skip a change.
CheckpointCommitted ==
  \A s \in Scopes : LET c == state[s].client IN c # 0 /\ Registered(c) /\ state[s].registered => devices[c].pos <= state[s].cursor

\* A cache that has nothing left to acknowledge stands where Tower believes it
\* to, unless a pass without its lease has registered the client anew.
SettledIsTowers ==
  \A s \in Scopes :
    LET d == state[s]
    IN  d.client \in DOMAIN devices \ late /\ Registered(d.client) /\ d.registered /\ d.ack = NoAck /\ d.ret = NoAck
          => devices[d.client].pos = d.cursor

Known(c) == LET d == state[scopeOf[c]] IN c = d.client \/ c \in d.obsolete

\* Every registration at Tower is one some state row uses or has noted to retire,
\* through crashes, resets and changes of scope; a pass that has lost its lease
\* may have left one behind.
RegistrationsKnown == \A c \in 1..Len(scopeOf) \ late : Registered(c) => Known(c)

\* The tables hold the records of the scope that owns them.
UnrelatedIsHidden == \A r \in rows : owner.scope \in {None, r[1]}

\* In the end the scope the user stays in has all of its journal, Tower knows so,
\* and no other registration of the scope is left, late ones apart.
EventuallySettled ==
  <>[](session \in member =>
         LET d == state[session]
         IN  /\ Owns(session) /\ d.cursor = head[session] /\ d.registered
             /\ Registered(d.client) /\ d.client \notin late => devices[d.client].pos = d.cursor
             /\ \A c \in 1..Len(scopeOf) \ late : scopeOf[c] = session /\ Registered(c) => c = d.client)
=============================================================================
