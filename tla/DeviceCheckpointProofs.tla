----------------------- MODULE DeviceCheckpointProofs -----------------------
(***************************************************************************)
(* What DeviceCheckpoint keeps for any number of tabs, scopes, identities  *)
(* and faults, whatever the size of a page and the bounds.                 *)
(*                                                                         *)
(* Only the tab that holds the lease writes to the database, and a tab has *)
(* it once per pass; so the pass that holds it knows the state row exactly *)
(* (PassSound), and what Tower has been told of the row's client can be    *)
(* compared with the row (ClientSound).  Everything a tab without the      *)
(* lease may still do is a registration, a retirement or a read, and an    *)
(* acknowledgement that left before.                                       *)
(***************************************************************************)
EXTENDS DeviceCheckpoint, FiniteSetTheorems, SequenceTheorems, TLAPS

\* The identities made so far.
Minted == 1..Len(scopeOf)

\* Tower knows only identities that were made.
MintedInv ==
  /\ Len(scopeOf) <= MaxClients
  /\ \A c \in Clients : Registered(c) => c \in Minted /\ devices[c].pos \in Nat
  /\ \A m \in acks : m.client \in Minted

\* A row's identity is its scope's; cursor, intent and retirement agree, and no
\* position lies past the journal.
RowSound(s) ==
  LET d == state[s]
  IN  /\ d.client # 0 => d.client \in Minted /\ scopeOf[d.client] = s
      /\ d.registered => d.client # 0 /\ d.cursor \in Nat
      /\ d.client # 0 /\ ~d.registered => d.cursor = Null
      /\ d.ack # NoAck => d.registered /\ d.ack.pos = d.cursor
      /\ d.ret # NoAck => d.registered /\ d.cursor <= d.ret.pos
      /\ d.cursor <= head[s] /\ d.ret.pos <= head[s]

\* Neither Tower nor an acknowledgement on its way is ahead of the row, and with
\* nothing left to acknowledge Tower is where the row is.
ClientSound(s) ==
  LET d == state[s]
      c == d.client
  IN  c # 0 =>
      /\ Registered(c) => devices[c].pos <= IF d.registered THEN d.cursor ELSE 0
      /\ \A m \in acks : m.client = c => d.registered /\ m.pos <= d.cursor
      /\ Registered(c) /\ c \notin late /\ d.registered /\ d.ack = NoAck /\ d.ret = NoAck => devices[c].pos = d.cursor

\* The tables of the owner have every record up to its cursor, and up to the
\* position the walk over them will set it to.
Covered(s) ==
  CacheMatches(s) => \A i \in Nat \ {0} : i <= state[s].cursor \/ i <= state[s].ret.pos => <<s, i>> \in rows

\* What a pass has heard from Tower still holds, for registrations that are not late.
Heard(t) ==
  /\ At(t, "acked") =>
       LET c == st(t).client IN Registered(c) /\ c \notin late => devices[c].pos = st(t).ack.pos
  /\ At(t, "retired") =>
       LET c == run[t].arg IN c \in Clients /\ (Registered(c) => c \in late)

\* A pass that holds the lease has an exact copy of its state row, and what it
\* has heard from Tower still holds.
PassSound(t) ==
  LET c == st(t).client
      pc == run[t].pc
  IN  /\ pc # "idle" => scope(t) \in Scopes
      /\ pc \notin {"idle", "inspect", "adopt"} => c \in Minted /\ scopeOf[c] = scope(t)
      /\ Holds(t) =>
           /\ pc # "idle"
           /\ pc # "inspect" => st(t) = state[scope(t)]
           /\ pc \notin {"inspect", "adopt"} => CacheMatches(scope(t))
           /\ pc \in {"page", "read", "waiting", "acked", "end", "complete"} => st(t).registered /\ st(t).ret = NoAck
           /\ pc \in {"waiting", "acked"} => st(t).ack # NoAck
           /\ pc = "page" => st(t).cursor <= run[t].page.next /\ run[t].page.next <= head[scope(t)]
           /\ Heard(t)

\* An acknowledgement somebody waits for is the one that tab has sent.
Awaited(m) ==
  m.tab # None =>
    LET d == st(m.tab) IN At(m.tab, "waiting") /\ m.client = d.client /\ m.pos = d.ack.pos /\ m.rev = d.ack.rev

DeviceInv ==
  /\ TypeOK
  /\ MintedInv
  /\ \A s \in Scopes : RowSound(s)
  /\ \A s \in Scopes : ClientSound(s)
  /\ \A s \in Scopes : Covered(s)
  /\ \A t \in Tabs : PassSound(t)
  /\ \A m \in acks : Awaited(m)
  /\ RegistrationsKnown

----------------------------------------------------------------------------
(* Values.                                                                  *)

\* None is no tab.
LEMMA Nobody == \A t \in Tabs : t # None
BY ScopeAssumption

\* The fields of a state row.
LEMMA StateFields ==
  ASSUME NEW d \in StateType
  PROVE  /\ d.cursor \in Int /\ d.cursor >= -1 /\ d.gen \in Nat /\ d.client \in Clients \cup {0}
         /\ d.rev \in Nat /\ d.ack \in Intent /\ d.ret \in Intent /\ d.obsolete \subseteq Clients
BY DEF StateType, Intent, Position, Null

\* The position of an intent is a number, and only NoAck has none.
LEMMA IntentFields ==
  ASSUME NEW i \in Intent
  PROVE  i.pos \in Int /\ i.pos >= -1 /\ i.rev \in Nat /\ (i.pos # Null => i.pos \in Nat /\ i # NoAck)
BY DEF Intent, Position, Null, NoAck

\* The fields of a pass.
LEMMA RunFields ==
  ASSUME NEW e \in RunType
  PROVE  /\ e.pc \in PC /\ e.scope \in Scopes \cup {None} /\ e.st \in StateType /\ e.arg \in Nat
         /\ e.page \in PageType
BY DEF RunType

\* The state a cache begins with, and a pass that is none.
LEMMA Beginnings == NoAck \in Intent /\ NoState \in StateType /\ NoPage \in PageType /\ Idle \in RunType
<1>1. NoAck \in Intent
  BY DEF NoAck, Intent
<1>2. NoState \in StateType
  BY <1>1 DEF NoState, StateType
<1>3. NoPage \in PageType
  BY DEF NoPage, PageType
<1>4. Idle \in RunType
  BY <1>2, <1>3 DEF Idle, RunType, PC
<1> QED BY <1>1, <1>2, <1>3, <1>4

\* The parts of TypeOK that proofs use.
LEMMA Typed ==
  ASSUME TypeOK
  PROVE  /\ \A s \in Scopes : head[s] \in Nat /\ state[s] \in StateType
         /\ \A t \in Tabs : run[t] \in RunType
         /\ \A c \in Clients : devices[c] \in DeviceType
         /\ \A m \in acks : m \in AckType
BY DEF TypeOK, Position

\* Every identity made is within the bound.
LEMMA MintedClients ==
  ASSUME TypeOK, MintedInv PROVE Minted \subseteq Clients /\ Len(scopeOf) \in Nat /\ 0 \notin Minted
<1>1. Len(scopeOf) \in Nat /\ Len(scopeOf) <= MaxClients /\ MaxClients \in Nat
  BY BoundAssumption DEF TypeOK, MintedInv
<1> QED BY <1>1 DEF Minted, Clients

\* Two tabs do not hold one lease.
LEMMA OneHolder == \A t, u \in Tabs : Holds(t) /\ Holds(u) => t = u
BY DEF Holds

\* A pass is known by the fields of its record.
LEMMA RunIs ==
  ASSUME NEW t \in Tabs, NEW e \in RunType, TypeOK, run' = [run EXCEPT ![t] = e]
  PROVE  /\ run' \in [Tabs -> RunType] /\ run'[t] = e
         /\ \A u \in Tabs : u # t => run'[u] = run[u]
BY DEF TypeOK

----------------------------------------------------------------------------
(* The steps by their kind.                                                 *)

\* An acknowledgement is awaited by a tab that does nothing else.
LEMMA StillAwaited ==
  ASSUME DeviceInv, NEW t \in Tabs, ~At(t, "waiting"), \A u \in Tabs : u # t => run'[u] = run[u],
         NEW m \in acks
  PROVE  Awaited(m)'
<1>1. Awaited(m) /\ m.tab \in Tabs \cup {None}
  BY DEF DeviceInv, TypeOK, AckType
<1>2. CASE m.tab = None
  BY <1>2 DEF Awaited
<1>3. CASE m.tab # None
  <2>1. m.tab \in Tabs /\ m.tab # t
    BY <1>1, <1>3 DEF Awaited, At
  <2>2. run'[m.tab] = run[m.tab]
    BY <2>1
  <2> QED BY <1>1, <2>2 DEF Awaited, At, st
<1> QED BY <1>2, <1>3

\* A pass goes on and nothing else changes.
LEMMA Passing ==
  ASSUME DeviceInv, NEW t \in Tabs, NEW e \in RunType, ~At(t, "waiting"),
         run' = [run EXCEPT ![t] = e],
         UNCHANGED <<tower, acks, cache, lease, made, session>>, PassSound(t)'
  PROVE  DeviceInv'
<1> USE DEF tower, cache, made
<1>1. /\ run' \in [Tabs -> RunType] /\ run'[t] = e /\ \A u \in Tabs : u # t => run'[u] = run[u]
  BY RunIs DEF DeviceInv
<1>2. TypeOK'
  BY <1>1 DEF DeviceInv, TypeOK
<1>3. MintedInv' /\ RegistrationsKnown'
  BY DEF DeviceInv, MintedInv, RegistrationsKnown, Registered, Minted, Known
<1>4. \A s \in Scopes : RowSound(s)' /\ ClientSound(s)' /\ Covered(s)'
  BY DEF DeviceInv, RowSound, ClientSound, Covered, Registered, Minted, CacheMatches
<1>5. ASSUME NEW u \in Tabs PROVE PassSound(u)'
  <2>1. CASE u = t
    BY <2>1
  <2>2. CASE u # t
    BY <1>1, <2>2 DEF DeviceInv, PassSound, Heard, At, Holds, Registered, Minted, CacheMatches, st, scope
  <2> QED BY <2>1, <2>2
<1>6. \A m \in acks' : Awaited(m)'
  BY <1>1, StillAwaited DEF At
<1> QED BY <1>2, <1>3, <1>4, <1>5, <1>6 DEF DeviceInv

\* The acknowledgements of a pass that is over are nobody's.
LEMMA OrphansAre ==
  ASSUME TypeOK, NEW t \in Tabs, NEW m \in Orphaned(t)
  PROVE  /\ m \in AckType /\ m.tab # t
         /\ \E n \in acks : m.client = n.client /\ m.pos = n.pos /\ (m = n \/ m.tab = None)
<1>1. PICK n \in acks : m = IF n.tab = t THEN [n EXCEPT !.tab = None] ELSE n
  BY DEF Orphaned
<1>2. n \in AckType
  BY DEF TypeOK
<1> QED BY <1>1, <1>2, Nobody DEF AckType

\* A pass is over, however it ended.
LEMMA Ending ==
  ASSUME DeviceInv, NEW t \in Tabs, run' = [run EXCEPT ![t] = Idle], acks' = Orphaned(t),
         lease' \in [tab : Tabs \cup {None}, live : BOOLEAN],
         \A u \in Tabs : Holds(u)' => u # t /\ Holds(u),
         UNCHANGED <<tower, cache, made>>, session' \in Scopes
  PROVE  DeviceInv'
<1> USE DEF tower, cache, made
<1>0. TypeOK
  BY DEF DeviceInv
<1>1. /\ run' \in [Tabs -> RunType] /\ run'[t] = Idle /\ \A u \in Tabs : u # t => run'[u] = run[u]
  BY RunIs, Beginnings DEF DeviceInv
<1>a. ASSUME NEW m \in acks'
      PROVE  /\ m \in AckType /\ m.tab # t
             /\ \E n \in acks : m.client = n.client /\ m.pos = n.pos /\ (m = n \/ m.tab = None)
  BY <1>0, OrphansAre
<1>2. TypeOK'
  BY <1>1, <1>a DEF DeviceInv, TypeOK
<1>3. MintedInv' /\ RegistrationsKnown'
  BY <1>a DEF DeviceInv, MintedInv, RegistrationsKnown, Registered, Minted, Known
<1>4. \A s \in Scopes : RowSound(s)' /\ Covered(s)'
  BY DEF DeviceInv, RowSound, Covered, Minted, CacheMatches
<1>b. ASSUME NEW s \in Scopes PROVE ClientSound(s)'
  <2>1. ClientSound(s)
    BY DEF DeviceInv
  <2> QED BY <1>a, <2>1 DEF ClientSound, Registered
<1>5. ASSUME NEW u \in Tabs PROVE PassSound(u)'
  <2>1. PassSound(u)
    BY DEF DeviceInv
  <2>2. CASE u = t
    BY <1>1, <2>2 DEF PassSound, Heard, At, Idle, scope, st
  <2>3. CASE u # t
    BY <1>1, <2>1, <2>3 DEF PassSound, Heard, At, Registered, Minted, CacheMatches, st, scope
  <2> QED BY <2>2, <2>3
<1>6. ASSUME NEW m \in acks' PROVE Awaited(m)'
  <2>1. CASE m.tab = None
    BY <2>1 DEF Awaited
  <2>2. CASE m.tab # None
    <3>1. m \in acks /\ m.tab \in Tabs /\ m.tab # t
      BY <1>a, <2>2 DEF AckType
    <3>2. Awaited(m) /\ run'[m.tab] = run[m.tab]
      BY <1>1, <3>1 DEF DeviceInv
    <3> QED BY <3>2 DEF Awaited, At, st
  <2> QED BY <2>1, <2>2
<1> QED BY <1>2, <1>3, <1>4, <1>b, <1>5, <1>6 DEF DeviceInv

\* A pass that holds the lease has committed state row d.
LEMMA Committing ==
  ASSUME DeviceInv, NEW t \in Tabs, NEW s \in Scopes, s = scope(t), NEW e \in RunType, NEW d \in StateType,
         Holds(t), run[t].pc \notin {"idle", "inspect", "adopt", "waiting"},
         e.pc \in {"top", "walk", "end", "read", "complete"}, e.st = d, e.scope = s,
         run' = [run EXCEPT ![t] = e], state' = [state EXCEPT ![s] = d],
         d.client = st(t).client, rows' \subseteq Scopes \X Position,
         UNCHANGED <<tower, acks, owner, lease, made, session>>,
         RowSound(s)', ClientSound(s)', Covered(s)',
         e.pc \in {"end", "read", "complete"} => d.registered /\ d.ret = NoAck,
         \A c \in st(t).obsolete \ d.obsolete : Registered(c) => c \in late
  PROVE  DeviceInv'
<1> USE DEF tower, made
<1>0. TypeOK /\ PassSound(t) /\ MintedInv /\ RegistrationsKnown
  BY DEF DeviceInv
<1>s. st(t) = state[s] /\ CacheMatches(s) /\ st(t).client \in Minted /\ scopeOf[st(t).client] = s
  BY <1>0 DEF PassSound, Heard, At
<1>1. /\ run' \in [Tabs -> RunType] /\ run'[t] = e /\ \A u \in Tabs : u # t => run'[u] = run[u]
  BY <1>0, RunIs
<1>2. /\ state' \in [Scopes -> StateType] /\ state'[s] = d /\ \A q \in Scopes : q # s => state'[q] = state[q]
  BY <1>0, <1>s DEF TypeOK
<1>3. TypeOK'
  BY <1>0, <1>1, <1>2 DEF TypeOK
<1>4. MintedInv'
  BY <1>0 DEF MintedInv, Registered, Minted
<1>5. ASSUME NEW q \in Scopes PROVE RowSound(q)' /\ ClientSound(q)' /\ Covered(q)'
  <2>1. CASE q = s
    BY <2>1
  <2>2. CASE q # s
    <3>1. RowSound(q) /\ ClientSound(q) /\ state'[q] = state[q]
      BY <1>2, <2>2 DEF DeviceInv
    <3>2. ~CacheMatches(q)'
      BY <1>s, <2>2 DEF CacheMatches
    <3> QED BY <3>1, <3>2 DEF RowSound, ClientSound, Covered, Registered, Minted
  <2> QED BY <2>1, <2>2
<1>6. ASSUME NEW u \in Tabs PROVE PassSound(u)'
  <2>1. PassSound(u)
    BY DEF DeviceInv
  <2>2. CASE u = t
    <3>1. CacheMatches(s)'
      BY <1>2, <1>s DEF CacheMatches
    <3> QED BY <1>1, <1>2, <1>s, <2>2, <3>1 DEF PassSound, Heard, At, Holds, Minted, st, scope
  <2>3. CASE u # t
    <3>1. ~Holds(u)'
      BY <2>3 DEF Holds
    <3> QED BY <1>1, <2>1, <2>3, <3>1 DEF PassSound, Heard, At, Minted, st, scope
  <2> QED BY <2>2, <2>3
<1>7. \A m \in acks' : Awaited(m)'
  BY <1>0, <1>1, StillAwaited DEF At
<1>8. RegistrationsKnown'
  <2> SUFFICES ASSUME NEW c \in Minted, c \notin late, Registered(c) PROVE Known(c)'
    BY DEF RegistrationsKnown, Minted, Registered
  <2>1. Known(c) /\ scopeOf[c] \in Scopes
    BY <1>0 DEF RegistrationsKnown, TypeOK, Minted
  <2>2. CASE scopeOf[c] # s
    BY <1>2, <2>1, <2>2 DEF Known
  <2>3. CASE scopeOf[c] = s
    BY <1>2, <1>s, <2>1, <2>3 DEF Known
  <2> QED BY <2>2, <2>3
<1> QED BY <1>3, <1>4, <1>5, <1>6, <1>7, <1>8 DEF DeviceInv

\* What Onward makes of a pass.
LEMMA OnwardIs ==
  ASSUME TypeOK, NEW t \in Tabs, NEW d \in StateType, NEW pc \in PC
  PROVE  \E e \in RunType : /\ Onward(t, d, pc) = [run EXCEPT ![t] = e]
                            /\ e.pc = pc /\ e.st = d /\ e.scope = scope(t)
<1>1. PICK b \in BOOLEAN : b = ((pc = "end" \/ pc = "walk") /\ run[t].page.more)
  OBVIOUS
<1> DEFINE p == [NoPage EXCEPT !.more = b]
<1> DEFINE e == [run[t] EXCEPT !.st = d, !.pc = pc, !.arg = 0, !.page = p]
<1>2. p \in PageType
  BY <1>1, Beginnings DEF PageType
<1>3. run[t] \in RunType /\ run \in [Tabs -> RunType]
  BY DEF TypeOK
<1>4. e \in RunType /\ e.pc = pc /\ e.st = d /\ e.scope = scope(t)
  BY <1>2, <1>3 DEF RunType, scope
<1>5. Onward(t, d, pc) = [run EXCEPT ![t] = e]
  BY <1>1, <1>3 DEF Onward, RunType
<1> QED BY <1>4, <1>5

----------------------------------------------------------------------------
(* The beginning.                                                           *)

LEMMA DeviceInit == Init => DeviceInv
<1> SUFFICES ASSUME Init PROVE DeviceInv
  OBVIOUS
<1>1. PICK v1 \in Scopes \cup {None} :
        /\ head = [s \in Scopes |-> IF s = v1 THEN 1 ELSE 0]
        /\ state = [s \in Scopes |-> IF s = v1 THEN [NoState EXCEPT !.cursor = 1] ELSE NoState]
        /\ rows = IF v1 = None THEN {} ELSE {<<v1, 1>>}
  BY DEF Init
<1>2. /\ member = Scopes /\ devices = [c \in Clients |-> Unregistered] /\ acks = {}
      /\ owner = NoOwner /\ lease = NoLease /\ run = [t \in Tabs |-> Idle]
      /\ session = Home /\ scopeOf = <<>> /\ late = {}
  BY DEF Init
<1>3. [NoState EXCEPT !.cursor = 1] \in StateType
  BY Beginnings DEF StateType, Position
<1>4. ASSUME NEW s \in Scopes
      PROVE  /\ state[s] \in StateType /\ state[s].client = 0 /\ state[s].ack = NoAck /\ state[s].ret = NoAck
             /\ ~state[s].registered /\ state[s].cursor <= head[s]
  BY <1>1, <1>3, Beginnings DEF NoState, Null
<1>5. TypeOK
  <2>1. head \in [Scopes -> Position] /\ state \in [Scopes -> StateType] /\ rows \subseteq Scopes \X Position
    <3>1. state \in [Scopes -> StateType]
      BY <1>1, <1>3, Beginnings
    <3>2. head \in [Scopes -> Position]
      BY <1>1 DEF Position
    <3>3. rows \subseteq Scopes \X Position
      BY <1>1 DEF Position
    <3> QED BY <3>1, <3>2, <3>3
  <2>2. devices \in [Clients -> DeviceType] /\ run \in [Tabs -> RunType]
    BY <1>2, Beginnings DEF Unregistered, DeviceType
  <2>3. lease \in [tab : Tabs \cup {None}, live : BOOLEAN] /\ owner \in [scope : Scopes \cup {None}, client : Clients \cup {0}]
    BY <1>2 DEF NoLease, NoOwner
  <2> QED BY <1>2, <2>1, <2>2, <2>3, ScopeAssumption DEF TypeOK
<1>6. Minted = {} /\ Len(scopeOf) = 0
  BY <1>2 DEF Minted
<1>7. MintedInv /\ RegistrationsKnown
  BY <1>2, <1>6, BoundAssumption DEF MintedInv, RegistrationsKnown, Registered, Unregistered, Minted
<1>8. \A s \in Scopes : RowSound(s) /\ ClientSound(s) /\ Covered(s)
  <2>1. \A s \in Scopes : head[s] \in Nat
    BY <1>5 DEF TypeOK, Position
  <2> QED BY <1>4, <2>1 DEF RowSound, ClientSound, Covered, CacheMatches, NoAck, Null
<1>9. \A t \in Tabs : PassSound(t)
  BY <1>2, Nobody DEF PassSound, Heard, At, Idle, Holds, NoLease
<1> QED BY <1>2, <1>5, <1>7, <1>8, <1>9 DEF DeviceInv

----------------------------------------------------------------------------
(* Tower and the user.                                                      *)

LEMMA DeviceEmit == ASSUME DeviceInv, NEW q \in Scopes, Emit(q) PROVE DeviceInv'
<1>1. /\ head' = [head EXCEPT ![q] = @ + 1]
      /\ UNCHANGED <<member, devices, acks, state, owner, rows, lease, run, scopeOf, late, session>>
  BY DEF Emit, cache, made, env
<1>2. TypeOK
  BY DEF DeviceInv
<1>3. head' \in [Scopes -> Nat] /\ \A s \in Scopes : head[s] \in Nat /\ head[s] <= head'[s]
  BY <1>1, <1>2 DEF TypeOK, Position
<1>4. TypeOK'
  BY <1>1, <1>2, <1>3 DEF TypeOK, Position
<1>5. MintedInv' /\ RegistrationsKnown' /\ \A m \in acks' : Awaited(m)'
  BY <1>1 DEF DeviceInv, MintedInv, RegistrationsKnown, Registered, Minted, Known, Awaited, At, st
<1>6. ASSUME NEW s \in Scopes PROVE RowSound(s)'
  <2>1. RowSound(s) /\ state'[s] = state[s] /\ state[s].cursor \in Int /\ state[s].ret.pos \in Int
    BY <1>1, <1>2, StateFields, IntentFields DEF DeviceInv, TypeOK
  <2> QED BY <1>1, <1>3, <2>1 DEF RowSound, Minted
<1>7. \A s \in Scopes : ClientSound(s)' /\ Covered(s)'
  BY <1>1 DEF DeviceInv, ClientSound, Covered, Registered, CacheMatches
<1>8. ASSUME NEW t \in Tabs PROVE PassSound(t)'
  <2>1. PassSound(t) /\ run[t] \in RunType /\ run[t].page.next \in Int
    BY <1>2, RunFields DEF DeviceInv, TypeOK, PageType, Position, Null
  <2>2. run[t].pc # "idle" /\ run[t].page.next <= head[scope(t)] => run[t].page.next <= head'[scope(t)]
    BY <1>3, <2>1 DEF PassSound, Heard, At
  <2> QED BY <1>1, <2>1, <2>2 DEF PassSound, Heard, At, Holds, Registered, Minted, CacheMatches, st, scope
<1> QED BY <1>4, <1>5, <1>6, <1>7, <1>8 DEF DeviceInv

\* A change that the invariant but its types says nothing about.
LEMMA Aside ==
  ASSUME DeviceInv, UNCHANGED <<head, devices, acks, cache, run, made>>, member' \subseteq Scopes, session' \in Scopes,
         lease' \in [tab : Tabs \cup {None}, live : BOOLEAN],
         \A u \in Tabs : Holds(u)' => Holds(u)
  PROVE  DeviceInv'
<1> USE DEF cache, made
<1>1. TypeOK'
  BY DEF DeviceInv, TypeOK
<1>2. MintedInv' /\ RegistrationsKnown' /\ \A m \in acks' : Awaited(m)'
  BY DEF DeviceInv, MintedInv, RegistrationsKnown, Registered, Minted, Known, Awaited, At, st
<1>3. \A s \in Scopes : RowSound(s)' /\ ClientSound(s)' /\ Covered(s)'
  BY DEF DeviceInv, RowSound, ClientSound, Covered, Registered, Minted, CacheMatches
<1>4. ASSUME NEW t \in Tabs PROVE PassSound(t)'
  <2>1. PassSound(t)
    BY DEF DeviceInv
  <2> QED BY <2>1 DEF PassSound, Heard, At, Registered, Minted, CacheMatches, st, scope
<1> QED BY <1>1, <1>2, <1>3, <1>4 DEF DeviceInv

LEMMA DeviceAside ==
  ASSUME DeviceInv, (\E s \in Scopes : Switch(s) \/ Revoke(s)) \/ Expire PROVE DeviceInv'
<1>1. TypeOK
  BY DEF DeviceInv
<1>2. CASE \E s \in Scopes : Switch(s) \/ Revoke(s)
  BY <1>1, <1>2, Aside DEF Switch, Revoke, tower, cache, made, env, TypeOK, Holds
<1>3. CASE Expire
  BY <1>1, <1>3, Aside DEF Expire, tower, cache, made, env, TypeOK, Holds, NoLease
<1> QED BY <1>2, <1>3

LEMMA DeviceForget == ASSUME DeviceInv, NEW c \in Clients, Forget(c) PROVE DeviceInv'
<1>1. /\ devices' = [devices EXCEPT ![c] = Unregistered]
      /\ UNCHANGED <<head, member, acks, state, owner, rows, lease, run, scopeOf, late, session>>
  BY DEF Forget, cache, made
<1>2. TypeOK
  BY DEF DeviceInv
<1>3. /\ devices' \in [Clients -> DeviceType]
      /\ \A b \in Clients : Registered(b)' => Registered(b) /\ devices'[b] = devices[b]
  BY <1>1, <1>2 DEF TypeOK, Registered, Unregistered, DeviceType
<1>4. TypeOK'
  BY <1>1, <1>2, <1>3 DEF TypeOK
<1>5. MintedInv' /\ \A m \in acks' : Awaited(m)'
  BY <1>1, <1>3 DEF DeviceInv, MintedInv, Minted, Awaited, At, st
<1>6. RegistrationsKnown'
  <2>1. Minted \subseteq Clients
    BY MintedClients DEF DeviceInv
  <2> QED BY <1>1, <1>3, <2>1 DEF DeviceInv, RegistrationsKnown, Minted, Known
<1>7. \A s \in Scopes : RowSound(s)' /\ Covered(s)'
  BY <1>1 DEF DeviceInv, RowSound, Covered, Minted, CacheMatches
<1>8. ASSUME NEW s \in Scopes PROVE ClientSound(s)'
  <2>1. ClientSound(s) /\ state[s].client \in Clients \cup {0}
    BY <1>2, StateFields DEF DeviceInv, TypeOK
  <2> QED BY <1>1, <1>3, <2>1 DEF ClientSound
<1>9. ASSUME NEW t \in Tabs PROVE PassSound(t)'
  <2>1. PassSound(t) /\ st(t).client \in Clients \cup {0}
    BY <1>2, RunFields, StateFields DEF DeviceInv, TypeOK, st
  <2>2. st(t).client = 0 => 0 \notin Minted
    BY <1>2 DEF Minted, TypeOK
  <2> QED BY <1>1, <1>3, <2>1, <2>2 DEF PassSound, Heard, At, Holds, Minted, CacheMatches, st, scope
<1> QED BY <1>4, <1>5, <1>6, <1>7, <1>8, <1>9 DEF DeviceInv

----------------------------------------------------------------------------
(* The lease, and the beginning and end of a pass.                          *)

\* Finish leaves the lease to another, or to nobody.
LEMMA FinishFrees ==
  ASSUME TypeOK, NEW t \in Tabs, Finish(t)
  PROVE  /\ run' = [run EXCEPT ![t] = Idle] /\ acks' = Orphaned(t)
         /\ lease' \in [tab : Tabs \cup {None}, live : BOOLEAN]
         /\ \A u \in Tabs : Holds(u)' => u # t /\ Holds(u)
<1>1. run' = [run EXCEPT ![t] = Idle] /\ acks' = Orphaned(t)
  BY DEF Finish
<1>2. CASE Holds(t)
  <2>1. lease' = NoLease
    BY <1>2 DEF Finish
  <2> QED BY <1>1, <2>1 DEF NoLease, Holds
<1>3. CASE ~Holds(t)
  <2>1. lease' = lease
    BY <1>3 DEF Finish
  <2> QED BY <1>1, <1>3, <2>1 DEF Holds, TypeOK
<1> QED BY <1>2, <1>3

LEMMA DeviceFinish ==
  ASSUME DeviceInv, NEW t \in Tabs, Abandon(t) \/ Fail(t) \/ Complete(t) PROVE DeviceInv'
<1>1. TypeOK /\ Finish(t) /\ UNCHANGED <<tower, cache, made, session>>
  BY DEF DeviceInv, Abandon, Fail, Complete, env
<1>2. session' \in Scopes
  BY <1>1 DEF TypeOK
<1> QED BY <1>1, <1>2, FinishFrees, Ending

LEMMA DeviceCrash == ASSUME DeviceInv, NEW t \in Tabs, Crash(t) PROVE DeviceInv'
<1>1. TypeOK
  BY DEF DeviceInv
<1>2. /\ run' = [run EXCEPT ![t] = Idle] /\ acks' = Orphaned(t)
      /\ UNCHANGED <<tower, cache, made, session>>
  BY DEF Crash
<1>3. /\ lease' \in [tab : Tabs \cup {None}, live : BOOLEAN]
      /\ \A u \in Tabs : Holds(u)' => u # t /\ Holds(u)
  <2>1. CASE Holds(t)
    <3>1. lease' = [lease EXCEPT !.tab = None]
      BY <2>1 DEF Crash
    <3> QED BY <1>1, <3>1, Nobody DEF TypeOK, Holds
  <2>2. CASE ~Holds(t)
    <3>1. lease' = lease
      BY <2>2 DEF Crash
    <3> QED BY <1>1, <2>2, <3>1 DEF TypeOK, Holds
  <2> QED BY <2>1, <2>2
<1>4. session' \in Scopes
  BY <1>1, <1>2 DEF TypeOK
<1> QED BY <1>2, <1>3, <1>4, Ending

LEMMA DeviceStart == ASSUME DeviceInv, NEW t \in Tabs, Start(t) PROVE DeviceInv'
<1> DEFINE e == [Idle EXCEPT !.pc = "inspect", !.scope = session]
<1>1. /\ At(t, "idle") /\ ~lease.live
      /\ lease' = [tab |-> t, live |-> TRUE] /\ run' = [run EXCEPT ![t] = e]
      /\ UNCHANGED <<head, member, devices, acks, state, owner, rows, scopeOf, late, session>>
  BY DEF Start, tower, cache, made, env
<1>2. TypeOK
  BY DEF DeviceInv
<1>3. e \in RunType /\ e.pc = "inspect" /\ e.scope \in Scopes
  BY <1>2, Beginnings DEF RunType, PC, TypeOK, Idle
<1>4. /\ run' \in [Tabs -> RunType] /\ run'[t] = e /\ \A u \in Tabs : u # t => run'[u] = run[u]
  BY <1>1, <1>2, <1>3, RunIs
<1>5. TypeOK'
  BY <1>1, <1>2, <1>4 DEF TypeOK
<1>6. MintedInv' /\ RegistrationsKnown'
  BY <1>1 DEF DeviceInv, MintedInv, RegistrationsKnown, Registered, Minted, Known
<1>7. \A s \in Scopes : RowSound(s)' /\ ClientSound(s)' /\ Covered(s)'
  BY <1>1 DEF DeviceInv, RowSound, ClientSound, Covered, Registered, Minted, CacheMatches
<1>8. ASSUME NEW u \in Tabs PROVE PassSound(u)'
  <2>1. CASE u = t
    BY <1>3, <1>4, <2>1 DEF PassSound, Heard, At, st, scope
  <2>2. CASE u # t
    <3>1. PassSound(u) /\ ~Holds(u)'
      BY <1>1, <2>2 DEF DeviceInv, Holds
    <3> QED BY <1>1, <1>4, <2>2, <3>1 DEF PassSound, Heard, At, Minted, st, scope
  <2> QED BY <2>1, <2>2
<1>9. \A m \in acks' : Awaited(m)'
  BY <1>1, <1>2, <1>4, StillAwaited DEF At
<1> QED BY <1>5, <1>6, <1>7, <1>8, <1>9 DEF DeviceInv

LEMMA DeviceInspect == ASSUME DeviceInv, NEW t \in Tabs, Inspect(t) PROVE DeviceInv'
<1>1. PICK pc \in {"top", "adopt"} : pc = IF CacheMatches(scope(t)) THEN "top" ELSE "adopt"
  OBVIOUS
<1>2. TypeOK /\ PassSound(t) /\ run[t] \in RunType
  BY DEF DeviceInv, TypeOK
<1>3. At(t, "inspect") /\ Holds(t) /\ UNCHANGED <<tower, acks, cache, lease, made, session>>
  BY DEF Inspect, env
<1>4. PICK s \in Scopes : s = scope(t)
  BY <1>2, <1>3 DEF PassSound, Heard, At
<1> DEFINE e == [run[t] EXCEPT !.st = state[s], !.pc = pc]
<1>5. run' = [run EXCEPT ![t] = e]
  BY <1>1, <1>2, <1>4 DEF Inspect, TypeOK
<1>6. e \in RunType /\ e.pc = pc /\ e.st = state[s] /\ e.scope = s
  BY <1>2, <1>4 DEF RunType, PC, TypeOK, scope
<1>7. run'[t] = e
  BY <1>2, <1>5, <1>6, RunIs
<1>8. RowSound(s) /\ (pc = "top" => CacheMatches(s))
  BY <1>1, <1>4 DEF DeviceInv
<1>9. PassSound(t)'
  <2>1. (st(t) = state[s] /\ scope(t) = s /\ run[t].pc = pc)'
    BY <1>3, <1>6, <1>7 DEF st, scope, cache
  <2>2. pc = "top" => st(t)'.client \in Minted' /\ scopeOf'[st(t)'.client] = s /\ CacheMatches(s)'
    BY <1>3, <1>8, <2>1 DEF CacheMatches, RowSound, Minted, cache, made
  <2> QED BY <2>1, <2>2, <1>3 DEF PassSound, Heard, At
<1> QED BY <1>3, <1>5, <1>6, <1>9, Passing DEF At

----------------------------------------------------------------------------
(* Refusals and reads.                                                      *)

\* A pass goes on at pc and forgets nothing.
LEMMA Going ==
  ASSUME DeviceInv, NEW t \in Tabs, NEW pc \in {"hide", "replace"}, Go(t, pc),
         run[t].pc \notin {"idle", "inspect", "adopt", "waiting"},
         UNCHANGED <<tower, acks, cache, lease, made, session>>
  PROVE  DeviceInv'
<1>1. TypeOK /\ PassSound(t) /\ run[t] \in RunType
  BY DEF DeviceInv, TypeOK
<1> DEFINE e == [run[t] EXCEPT !.pc = pc]
<1>2. run' = [run EXCEPT ![t] = e]
  BY <1>1 DEF Go, TypeOK
<1>3. e \in RunType /\ e.pc = pc /\ e.st = st(t) /\ e.scope = scope(t)
  BY <1>1 DEF RunType, PC, st, scope
<1>4. run'[t] = e
  BY <1>1, <1>2, <1>3, RunIs
<1>5. PassSound(t)'
  BY <1>1, <1>3, <1>4 DEF PassSound, Heard, At, Holds, Minted, CacheMatches, st, scope, cache, made
<1> QED BY <1>2, <1>3, <1>5, Passing DEF At

LEMMA DeviceDenied == ASSUME DeviceInv, NEW t \in Tabs, CallDenied(t) PROVE DeviceInv'
<1>1. run[t].pc \in {"denied", "read", "top"} /\ Denied(t) /\ TypeOK
  BY DEF CallDenied, Reads, Ready, At, DeviceInv
<1>2. UNCHANGED <<tower, cache, made, session>> /\ session' \in Scopes
  BY <1>1 DEF Denied, TypeOK, env
<1>3. CASE Finish(t)
  BY <1>1, <1>2, <1>3, FinishFrees, Ending
<1>4. CASE Go(t, "hide") /\ UNCHANGED <<lease, acks>>
  BY <1>1, <1>2, <1>4, Going
<1> QED BY <1>1, <1>3, <1>4 DEF Denied

LEMMA DeviceRead == ASSUME DeviceInv, NEW t \in Tabs, Read(t) PROVE DeviceInv'
<1>1. /\ run[t].pc \in {"read", "top"} /\ UNCHANGED <<tower, acks, cache, lease, made, session>>
      /\ At(t, "top") => st(t).registered /\ st(t).ret = NoAck
  BY DEF Read, Reads, Ready, At, env, Unknown
<1>2. TypeOK /\ PassSound(t) /\ run[t] \in RunType /\ scope(t) \in Scopes
  BY <1>1 DEF DeviceInv, TypeOK, PassSound, Heard, At
<1>3. CASE ~Registered(st(t).client)
  <2>1. Go(t, "replace")
    BY <1>3 DEF Read, Unknown
  <2> QED BY <1>1, <2>1, Going
<1>4. CASE Registered(st(t).client)
  <2>1. PICK s \in Scopes : s = scope(t)
    BY <1>2
  <2>2. /\ st(t) \in StateType /\ st(t).cursor \in Int /\ st(t).cursor >= -1 /\ st(t).client \in Clients
        /\ head[s] \in Nat /\ devices[st(t).client].rev \in Nat
    <3>1. st(t) \in StateType /\ st(t).client \in Minted
      BY <1>1, <1>2, RunFields DEF PassSound, Heard, At, st
    <3>2. st(t).client \in Clients
      BY <1>2, <3>1, MintedClients DEF DeviceInv
    <3> QED BY <1>2, <3>1, <3>2, StateFields DEF TypeOK, Position, DeviceType
  <2>3. PageSize \in Nat \ {0}
    BY BoundAssumption
  <2>4. PICK next \in Nat : next = IF st(t).cursor + PageSize < head[s] THEN st(t).cursor + PageSize ELSE head[s]
    BY <2>2, <2>3
  <2>5. PICK more \in BOOLEAN : more = (st(t).phase = "snapshot" \/ next < head[s])
    OBVIOUS
  <2>6. PICK complete \in BOOLEAN : complete = (st(t).phase = "snapshot" /\ next = head[s])
    OBVIOUS
  <2> DEFINE p == [next |-> next, more |-> more, complete |-> complete, rev |-> devices[st(t).client].rev]
  <2> DEFINE e == [run[t] EXCEPT !.pc = "page", !.page = p]
  <2>7. p \in PageType /\ p.next = next
    BY <2>2 DEF PageType, Position
  <2>8. run' = [run EXCEPT ![t] = e]
    <3>1. run' = [run EXCEPT ![t].pc = "page", ![t].page = p]
      BY <1>4, <2>1, <2>4, <2>5, <2>6 DEF Read
    <3> HIDE DEF p
    <3> QED BY <1>2, <3>1 DEF TypeOK
  <2>9. e \in RunType /\ e.pc = "page" /\ e.st = st(t) /\ e.scope = s /\ e.page.next = next
    BY <1>2, <2>1, <2>7 DEF RunType, PC, st, scope
  <2>10. run'[t] = e
    BY <1>2, <2>8, <2>9, RunIs
  <2>11. PassSound(t)'
    <3>1. (st(t)' = st(t) /\ scope(t)' = s /\ run'[t].pc = "page" /\ run'[t].page.next = next)
      BY <2>9, <2>10 DEF st, scope
    <3>2. Holds(t) => st(t).cursor <= next /\ next <= head[s]
      <4> SUFFICES ASSUME Holds(t) PROVE st(t).cursor <= next /\ next <= head[s]
        OBVIOUS
      <4>1. st(t) = state[s] /\ RowSound(s)
        BY <1>1, <1>2, <2>1 DEF PassSound, Heard, At, DeviceInv
      <4>2. st(t).cursor <= head[s]
        BY <4>1 DEF RowSound
      <4> QED BY <2>2, <2>3, <2>4, <4>2
    <3> QED BY <1>1, <1>2, <2>1, <3>1, <3>2 DEF PassSound, Heard, Holds, Minted, CacheMatches, At, tower, cache, made, st, scope
  <2> QED BY <1>1, <2>8, <2>9, <2>11, Passing DEF At
<1> QED BY <1>3, <1>4

----------------------------------------------------------------------------
(* Calls to Tower.                                                          *)

\* A call changes one identity's registration and not the database.
LEMMA Calling ==
  ASSUME DeviceInv, NEW c \in Minted, NEW d \in DeviceType,
         devices' = [devices EXCEPT ![c] = d], d # Unregistered => d.pos \in Nat,
         acks' \subseteq acks, late \subseteq late', late' \subseteq Clients, run' \in [Tabs -> RunType],
         UNCHANGED <<head, member, cache, lease, scopeOf, session>>,
         d # Unregistered => Known(c) \/ c \in late',
         \A s \in Scopes : ClientSound(s)', \A t \in Tabs : PassSound(t)', \A m \in acks' : Awaited(m)'
  PROVE  DeviceInv'
<1> USE DEF cache
<1>1. TypeOK /\ MintedInv /\ RegistrationsKnown /\ Minted \subseteq Clients
  BY MintedClients DEF DeviceInv
<1>2. /\ devices' \in [Clients -> DeviceType] /\ devices'[c] = d
      /\ \A b \in Clients : b # c => devices'[b] = devices[b]
  BY <1>1 DEF TypeOK
<1>3. TypeOK'
  BY <1>1, <1>2 DEF TypeOK
<1>4. MintedInv'
  BY <1>1, <1>2 DEF MintedInv, Registered, Minted
<1>5. RegistrationsKnown'
  <2> SUFFICES ASSUME NEW b \in Minted, b \notin late', Registered(b)' PROVE Known(b)'
    BY DEF RegistrationsKnown, Minted
  <2>1. Known(b)
    <3>1. CASE b = c
      BY <1>2, <3>1 DEF Registered
    <3>2. CASE b # c
      <4>1. Registered(b)
        BY <1>1, <1>2, <3>2 DEF Registered
      <4> QED BY <1>1, <4>1 DEF RegistrationsKnown, Minted
    <3> QED BY <3>1, <3>2
  <2> QED BY <2>1 DEF Known
<1>6. \A s \in Scopes : RowSound(s)' /\ Covered(s)'
  BY DEF DeviceInv, RowSound, Covered, Minted, CacheMatches
<1> QED BY <1>3, <1>4, <1>5, <1>6 DEF DeviceInv

\* The identity of a scope's row is no other scope's.
LEMMA OwnClient ==
  ASSUME DeviceInv, NEW s \in Scopes, NEW q \in Scopes, state[s].client # 0, state[s].client = state[q].client
  PROVE  s = q
BY DEF DeviceInv, RowSound

LEMMA DeviceRetire == ASSUME DeviceInv, NEW t \in Tabs, Retire(t) PROVE DeviceInv'
<1>0. TypeOK /\ MintedInv /\ PassSound(t) /\ run[t] \in RunType /\ run \in [Tabs -> RunType]
  BY DEF DeviceInv, TypeOK
<1>1. PICK c \in OwnObsolete(t) :
        /\ At(t, "top")
        /\ devices' = [devices EXCEPT ![c] = Unregistered]
        /\ run' = [run EXCEPT ![t].pc = "retired", ![t].arg = c]
        /\ UNCHANGED <<head, member, acks, cache, lease, made, session>>
  BY DEF Retire, env
<1>2. c \in Clients /\ c \in Nat
  <2>1. st(t).obsolete \subseteq Clients
    BY <1>0, RunFields, StateFields DEF st
  <2> QED BY <2>1 DEF OwnObsolete, Clients
<1> DEFINE e == [run[t] EXCEPT !.pc = "retired", !.arg = c]
<1>3. e \in RunType /\ e.pc = "retired" /\ e.arg = c /\ e.st = st(t) /\ e.scope = scope(t)
  BY <1>0, <1>2 DEF RunType, PC, st, scope
<1>4. run' = [run EXCEPT ![t] = e]
  BY <1>0, <1>1
<1>5. /\ run' \in [Tabs -> RunType] /\ run'[t] = e /\ \A u \in Tabs : u # t => run'[u] = run[u]
  BY <1>0, <1>3, <1>4, RunIs
<1>6. /\ devices' \in [Clients -> DeviceType] /\ ~Registered(c)'
      /\ \A b \in Clients : Registered(b)' => Registered(b) /\ devices'[b] = devices[b]
  BY <1>0, <1>1, <1>2 DEF TypeOK, Registered, Unregistered, DeviceType
<1>7. TypeOK'
  BY <1>0, <1>1, <1>5, <1>6 DEF TypeOK, cache, made
<1>8. MintedInv' /\ RegistrationsKnown'
  <2>1. Minted \subseteq Clients
    BY <1>0, MintedClients
  <2> QED BY <1>1, <1>6, <2>1 DEF DeviceInv, MintedInv, RegistrationsKnown, Minted, Known, cache, made
<1>9. \A s \in Scopes : RowSound(s)' /\ Covered(s)'
  BY <1>1 DEF DeviceInv, RowSound, Covered, Minted, CacheMatches, cache, made
<1>10. ASSUME NEW s \in Scopes PROVE ClientSound(s)'
  <2>1. ClientSound(s) /\ state[s].client \in Clients \cup {0}
    BY <1>0, StateFields DEF DeviceInv, TypeOK
  <2> QED BY <1>1, <1>6, <2>1 DEF ClientSound, cache, made
<1>11. ASSUME NEW u \in Tabs PROVE PassSound(u)'
  <2>1. PassSound(u) /\ (st(u).client \in Minted => st(u).client \in Clients)
    BY <1>0, MintedClients DEF DeviceInv
  <2>2. CASE u = t
    BY <1>1, <1>2, <1>3, <1>5, <1>6, <2>1, <2>2 DEF PassSound, Heard, At, Holds, Minted, CacheMatches, st, scope, cache, made
  <2>3. CASE u # t
    <3>1. run'[u] = run[u]
      BY <1>5, <2>3
    <3>2. run[u].pc = "acked" => st(u).client \in Clients
      BY <2>1 DEF PassSound
    <3>3. Heard(u) => Heard(u)'
      BY <1>1, <1>6, <3>1, <3>2 DEF Heard, Registered, At, st, made
    <3> QED BY <1>1, <2>1, <3>1, <3>3 DEF PassSound, Holds, Minted, CacheMatches, st, scope, cache, made
  <2> QED BY <2>2, <2>3
<1>12. \A m \in acks' : Awaited(m)'
  BY <1>0, <1>1, <1>5, StillAwaited DEF At
<1> QED BY <1>7, <1>8, <1>9, <1>10, <1>11, <1>12 DEF DeviceInv

LEMMA DeviceRegister == ASSUME DeviceInv, NEW t \in Tabs, Register(t) PROVE DeviceInv'
<1>0. TypeOK /\ MintedInv /\ PassSound(t) /\ run[t] \in RunType /\ run \in [Tabs -> RunType]
  BY DEF DeviceInv, TypeOK
<1>1. PICK c \in Minted : c = st(t).client
  BY <1>0 DEF Register, At, PassSound, Heard
<1>2. c \in Clients /\ Minted \subseteq Clients
  BY <1>0, MintedClients
<1>3. PICK d : d = IF Registered(c) THEN devices[c] ELSE [rev |-> 0, pos |-> 0]
  OBVIOUS
<1>4. d \in DeviceType /\ d.rev \in Nat /\ d # Unregistered /\ d.pos \in Nat
  <2>1. CASE Registered(c)
    BY <1>0, <1>2, <1>3, <2>1 DEF TypeOK, MintedInv, Registered, DeviceType
  <2>2. CASE ~Registered(c)
    BY <1>3, <2>2 DEF DeviceType, Position, Unregistered, Null
  <2> QED BY <2>1, <2>2
<1>5. /\ At(t, "top") /\ ~st(t).registered
      /\ devices' = [devices EXCEPT ![c] = d]
      /\ late' = IF Holds(t) THEN late ELSE late \cup {c}
      /\ run' = [run EXCEPT ![t].pc = "registered", ![t].page.rev = d.rev]
      /\ UNCHANGED <<head, member, acks, cache, lease, scopeOf, session>>
  BY <1>1, <1>3 DEF Register, env
<1>6. PICK p \in PageType : p = [run[t].page EXCEPT !.rev = d.rev]
  BY <1>0, <1>4, RunFields DEF PageType
<1> DEFINE e == [run[t] EXCEPT !.pc = "registered", !.page = p]
<1>7. e \in RunType /\ e.pc = "registered" /\ e.st = st(t) /\ e.scope = scope(t)
  BY <1>0, <1>6 DEF RunType, PC, st, scope
<1>8. run' = [run EXCEPT ![t] = e]
  BY <1>0, <1>5, <1>6 DEF RunType
<1>9. /\ run' \in [Tabs -> RunType] /\ run'[t] = e /\ \A u \in Tabs : u # t => run'[u] = run[u]
  BY <1>0, <1>7, <1>8, RunIs
<1>10. /\ devices'[c] = d /\ \A b \in Clients : b # c => devices'[b] = devices[b]
  BY <1>0, <1>2, <1>5 DEF TypeOK
<1>11. late \subseteq late' /\ late' \subseteq Clients
  BY <1>0, <1>2, <1>5 DEF TypeOK
<1>12. Known(c) \/ c \in late'
  <2>1. CASE Holds(t)
    BY <1>0, <1>1, <1>5, <2>1 DEF PassSound, Heard, At, Known
  <2>2. CASE ~Holds(t)
    BY <1>5, <2>2
  <2> QED BY <2>1, <2>2
<1>13. ASSUME NEW s \in Scopes PROVE ClientSound(s)'
  <2>1. /\ ClientSound(s) /\ RowSound(s) /\ state'[s] = state[s]
        /\ state[s].client \in Clients \cup {0} /\ state[s].cursor \in Int
    BY <1>0, <1>5, StateFields DEF DeviceInv, TypeOK, cache
  <2>2. CASE state[s].client # c
    BY <1>5, <1>10, <1>11, <2>1, <2>2 DEF ClientSound, Registered
  <2>3. CASE state[s].client = c /\ Registered(c)
    BY <1>3, <1>5, <1>10, <1>11, <2>1, <2>3 DEF ClientSound, Registered
  <2>4. CASE state[s].client = c /\ ~Registered(c)
    <3>1. d.pos = 0
      BY <1>3, <2>4
    <3>2. CASE Holds(t)
      <4>1. ~state[s].registered
        BY <1>0, <1>1, <1>5, <2>1, <2>4, <3>2 DEF PassSound, Heard, At, RowSound
      <4> QED BY <1>5, <1>10, <2>1, <2>4, <3>1, <4>1 DEF ClientSound
    <3>3. CASE ~Holds(t)
      <4>1. c \in late'
        BY <1>5, <3>3
      <4>2. 0 <= IF state[s].registered THEN state[s].cursor ELSE 0
        BY <2>1 DEF RowSound
      <4> QED BY <1>5, <1>10, <2>1, <2>4, <3>1, <4>1, <4>2 DEF ClientSound
    <3> QED BY <3>2, <3>3
  <2> QED BY <2>2, <2>3, <2>4
<1>14. ASSUME NEW u \in Tabs PROVE PassSound(u)'
  <2>1. PassSound(u) /\ (st(u).client \in Minted => st(u).client \in Clients)
    BY <1>2 DEF DeviceInv
  <2>2. CASE u = t
    BY <1>5, <1>7, <1>9, <2>1, <2>2 DEF PassSound, Heard, At, Holds, Minted, CacheMatches, st, scope, cache
  <2>3. CASE u # t
    <3>1. run'[u] = run[u]
      BY <1>9, <2>3
    <3>2. Holds(u) => ~Holds(t)
      BY <2>3, OneHolder
    <3>3. Holds(u) => c \in late'
      BY <1>5, <3>2
    <3>4. ASSUME NEW b \in Clients, Holds(u), Registered(b)', b \notin late'
          PROVE  Registered(b) /\ devices'[b] = devices[b] /\ b \notin late
      BY <1>10, <1>11, <3>3, <3>4 DEF Registered
    <3>5. CASE ~Holds(u)
      BY <1>5, <2>1, <3>1, <3>5 DEF PassSound, Heard, At, Holds, Minted, st, scope, cache
    <3>6. CASE Holds(u)
      <4>1. run[u].pc = "acked" => st(u).client \in Clients
        BY <2>1 DEF PassSound
      <4>2. Heard(u) => Heard(u)'
        BY <1>11, <3>1, <3>4, <3>6, <4>1 DEF Heard, Registered, At, st
      <4> QED BY <1>5, <2>1, <3>1, <3>6, <4>2 DEF PassSound, Holds, Minted, CacheMatches, st, scope, cache
    <3> QED BY <3>5, <3>6
  <2> QED BY <2>2, <2>3
<1>15. \A m \in acks' : Awaited(m)'
  BY <1>0, <1>5, <1>9, StillAwaited DEF At
<1> QED BY <1>4, <1>5, <1>9, <1>11, <1>12, <1>13, <1>14, <1>15, Calling

LEMMA DeviceSendAck == ASSUME DeviceInv, NEW t \in Tabs, SendAck(t) PROVE DeviceInv'
<1>0. TypeOK /\ MintedInv /\ PassSound(t) /\ run[t] \in RunType /\ run \in [Tabs -> RunType]
  BY DEF DeviceInv, TypeOK
<1>1. PICK arg \in {0, 1} : arg = IF At(t, "end") THEN 1 ELSE 0
  OBVIOUS
<1> DEFINE m == [tab |-> t, client |-> st(t).client, pos |-> st(t).ack.pos, rev |-> st(t).ack.rev]
<1>2. /\ run[t].pc \in {"end", "top"} /\ Holds(t) /\ st(t).ack # NoAck /\ (At(t, "top") => st(t).ret = NoAck)
      /\ acks' = acks \cup {m} /\ run' = [run EXCEPT ![t].pc = "waiting", ![t].arg = arg]
      /\ UNCHANGED <<tower, cache, lease, made, session>>
  BY <1>1 DEF SendAck, Ready, At, env
<1>3. PICK s \in Scopes : s = scope(t)
  BY <1>0, <1>2 DEF PassSound
<1>4. /\ st(t) = state[s] /\ CacheMatches(s) /\ st(t).client \in Minted /\ st(t).ret = NoAck
      /\ RowSound(s) /\ ClientSound(s)
  BY <1>0, <1>2, <1>3 DEF PassSound, At, DeviceInv
<1>5. /\ st(t).registered /\ st(t).ack.pos = state[s].cursor /\ state[s].cursor \in Nat
      /\ st(t).ack.rev \in Nat
  BY <1>0, <1>2, <1>4, RunFields, StateFields, IntentFields DEF RowSound, st
<1>6. m \in AckType /\ m.client \in Minted
  BY <1>0, <1>4, <1>5, MintedClients DEF AckType, Position
<1> DEFINE e == [run[t] EXCEPT !.pc = "waiting", !.arg = arg]
<1>7. e \in RunType /\ e.pc = "waiting" /\ e.st = st(t) /\ e.scope = s
  <2>1. arg \in Nat
    OBVIOUS
  <2> QED BY <1>0, <1>3, <2>1 DEF RunType, PC, st, scope
<1>8. run' = [run EXCEPT ![t] = e]
  BY <1>0, <1>2
<1>9. /\ run' \in [Tabs -> RunType] /\ run'[t] = e /\ \A u \in Tabs : u # t => run'[u] = run[u]
  BY <1>0, <1>7, <1>8, RunIs
<1>10. TypeOK'
  BY <1>0, <1>2, <1>6, <1>9 DEF TypeOK, tower, cache, made
<1>11. MintedInv' /\ RegistrationsKnown'
  BY <1>2, <1>6 DEF DeviceInv, MintedInv, RegistrationsKnown, Registered, Minted, Known, tower, cache, made
<1>12. \A q \in Scopes : RowSound(q)' /\ Covered(q)'
  BY <1>2 DEF DeviceInv, RowSound, Covered, Minted, CacheMatches, tower, cache, made
<1>13. ASSUME NEW q \in Scopes PROVE ClientSound(q)'
  <2>1. ClientSound(q) /\ (state[q].client # 0 /\ m.client = state[q].client => q = s)
    BY <1>4, OwnClient DEF DeviceInv
  <2>2. state[q].client # 0 /\ m.client = state[q].client => state[q].registered /\ m.pos <= state[q].cursor
    BY <1>4, <1>5, <2>1
  <2> QED BY <1>2, <2>1, <2>2 DEF ClientSound, Registered, tower, cache, made
<1>14. ASSUME NEW u \in Tabs PROVE PassSound(u)'
  <2>1. PassSound(u)
    BY DEF DeviceInv
  <2>2. CASE u = t
    BY <1>2, <1>4, <1>5, <1>7, <1>9, <2>1, <2>2
    DEF PassSound, Heard, At, Holds, Minted, CacheMatches, st, scope, tower, cache, made
  <2>3. CASE u # t
    BY <1>2, <1>9, <2>1, <2>3 DEF PassSound, Heard, At, Holds, Registered, Minted, CacheMatches, st, scope, tower, cache, made
  <2> QED BY <2>2, <2>3
<1>15. ASSUME NEW n \in acks' PROVE Awaited(n)'
  <2>1. CASE n \in acks
    BY <1>2, <1>9, <2>1, StillAwaited DEF At
  <2>2. CASE n = m
    BY <1>7, <1>9, <2>2 DEF Awaited, At, st
  <2> QED BY <1>2, <2>1, <2>2
<1> QED BY <1>10, <1>11, <1>12, <1>13, <1>14, <1>15 DEF DeviceInv

\* An acknowledgement moves a registration forward, or leaves it; one that is
\* taken finds it, or leaves it, where it says.
LEMMA OutcomeIs ==
  ASSUME TypeOK, MintedInv, NEW m \in acks
  PROVE  /\ AckOutcome(m) = "moved" => Registered(m.client) /\ devices[m.client].pos < m.pos
         /\ AckOutcome(m) = "acked" => Registered(m.client) /\ devices[m.client].pos = m.pos
         /\ AckOutcome(m) \in {"denied", "gone", "acked", "conflict", "moved"}
<1>1. m.pos \in Int /\ m.client \in Clients
  BY DEF TypeOK, AckType, Position
<1>2. Registered(m.client) => devices[m.client].pos \in Int
  BY <1>1 DEF MintedInv
<1>3. CASE scopeOf[m.client] \notin member
  BY <1>3 DEF AckOutcome
<1>4. CASE scopeOf[m.client] \in member /\ ~Registered(m.client)
  BY <1>4 DEF AckOutcome
<1>5. CASE scopeOf[m.client] \in member /\ Registered(m.client)
  <2>1. CASE devices[m.client].pos = m.pos
    <3>1. AckOutcome(m) = "acked"
      BY <1>5, <2>1 DEF AckOutcome
    <3> QED BY <1>5, <2>1, <3>1
  <2>2. CASE devices[m.client].pos # m.pos /\ (devices[m.client].rev # m.rev \/ m.pos < devices[m.client].pos)
    <3>1. AckOutcome(m) = "conflict"
      BY <1>5, <2>2 DEF AckOutcome
    <3> QED BY <3>1
  <2>3. CASE devices[m.client].pos # m.pos /\ ~(devices[m.client].rev # m.rev \/ m.pos < devices[m.client].pos)
    <3>1. AckOutcome(m) = "moved"
      BY <1>5, <2>3 DEF AckOutcome
    <3> QED BY <1>1, <1>2, <1>5, <2>3, <3>1
  <2> QED BY <2>1, <2>2, <2>3
<1> QED BY <1>3, <1>4, <1>5

LEMMA DeviceAckArrives == ASSUME DeviceInv, NEW m \in acks, AckArrives(m) PROVE DeviceInv'
<1>0. TypeOK /\ MintedInv /\ run \in [Tabs -> RunType] /\ devices \in [Clients -> DeviceType]
  BY DEF DeviceInv, TypeOK
<1>1. m \in AckType /\ m.tab \in Tabs \cup {None} /\ m.pos \in Nat /\ m.client \in Minted /\ m.client \in Clients
  BY <1>0 DEF TypeOK, MintedInv, AckType, Position
<1>2. PICK c \in Minted : c = m.client
  BY <1>1
<1>3. c \in Clients /\ devices[c] \in DeviceType /\ devices[c].rev \in Nat
  BY <1>0, <1>1, <1>2 DEF DeviceType
<1>4. PICK d : d = IF AckOutcome(m) = "moved" THEN [rev |-> devices[m.client].rev + 1, pos |-> m.pos]
                   ELSE devices[m.client]
  OBVIOUS
<1>5. /\ d \in DeviceType /\ d.rev \in Nat
      /\ d = devices[c] \/ (Registered(c) /\ devices[c].pos < m.pos /\ d.pos = m.pos /\ d # Unregistered)
      /\ AckOutcome(m) \in {"acked", "moved"} => d.pos = m.pos
  <2>1. CASE AckOutcome(m) = "moved"
    BY <1>0, <1>1, <1>2, <1>3, <1>4, <2>1, OutcomeIs DEF DeviceType, Position, Unregistered, Null
  <2>2. CASE AckOutcome(m) # "moved"
    BY <1>0, <1>2, <1>3, <1>4, <2>2, OutcomeIs
  <2> QED BY <2>1, <2>2
<1>6. acks' = acks \ {m} /\ devices' = [devices EXCEPT ![c] = d] /\ UNCHANGED <<head, member, cache, lease, made, session>>
  BY <1>2, <1>4 DEF AckArrives, env
<1>7. devices'[c] = d /\ \A b \in Clients : b # c => devices'[b] = devices[b]
  BY <1>0, <1>3, <1>6
<1>8. \A u \in Tabs : u # m.tab => run'[u] = run[u]
  BY <1>0, <1>1 DEF AckArrives
<1>9. ASSUME m.tab # None
      PROVE  \E e \in RunType : /\ run' = [run EXCEPT ![m.tab] = e] /\ e.st = st(m.tab) /\ e.scope = scope(m.tab)
                                /\ e.pc \in {"replace", "denied", "read", "top", "acked"}
                                /\ e.pc = "acked" => AckOutcome(m) \in {"acked", "moved"}
                                /\ e.pc = "read" => At(m.tab, "waiting")
  <2>1. PICK pc \in {"replace", "denied", "read", "top", "acked"} :
          pc = CASE AckOutcome(m) = "gone" -> "replace" [] AckOutcome(m) = "denied" -> "denied"
                 [] AckOutcome(m) = "conflict" -> AfterConflict(m.tab) [] OTHER -> "acked"
    BY <1>0, OutcomeIs DEF AfterConflict
  <2>2. pc = "acked" => AckOutcome(m) \in {"acked", "moved"}
    BY <1>0, <2>1, OutcomeIs DEF AfterConflict
  <2>3. PICK rev \in Nat : rev = IF pc = "acked" THEN d.rev ELSE 0
    BY <1>5
  <2>4. m.tab \in Tabs /\ run[m.tab] \in RunType
    BY <1>0, <1>1, <1>9
  <2>5. PICK arg \in Nat : arg = IF pc = "acked" THEN run[m.tab].arg ELSE 0
    BY <2>4, RunFields
  <2>6. PICK p \in PageType : p = [run[m.tab].page EXCEPT !.rev = rev]
    BY <2>4, RunFields DEF PageType
  <2> DEFINE e == [run[m.tab] EXCEPT !.pc = pc, !.page = p, !.arg = arg]
  <2>7. e \in RunType /\ e.pc = pc /\ e.st = st(m.tab) /\ e.scope = scope(m.tab)
    BY <2>4 DEF RunType, PC, st, scope
  <2>8. run' = [run EXCEPT ![m.tab].pc = pc, ![m.tab].page.rev = rev, ![m.tab].arg = arg]
    BY <1>4, <1>9, <2>1, <2>3, <2>5 DEF AckArrives
  <2>9. run' = [run EXCEPT ![m.tab] = e]
    BY <1>0, <2>4, <2>6, <2>8 DEF RunType
  <2>10. At(m.tab, "waiting")
    BY <1>9 DEF DeviceInv, Awaited
  <2> QED BY <2>2, <2>7, <2>9, <2>10
<1>10. run' \in [Tabs -> RunType]
  <2>1. CASE m.tab = None
    BY <1>0, <2>1 DEF AckArrives
  <2>2. CASE m.tab # None
    BY <1>0, <1>1, <1>9, <2>2, RunIs
  <2> QED BY <2>1, <2>2
<1>11. ASSUME NEW s \in Scopes PROVE ClientSound(s)'
  <2>1. /\ ClientSound(s) /\ state'[s] = state[s] /\ state[s].client \in Clients \cup {0} /\ state[s].cursor \in Int
    BY <1>0, <1>6, StateFields DEF DeviceInv, TypeOK, cache
  <2>2. CASE state[s].client # c
    BY <1>6, <1>7, <2>1, <2>2 DEF ClientSound, Registered, made
  <2>3. CASE state[s].client = c
    <3>1. c # 0 /\ state[s].registered /\ m.pos <= state[s].cursor
      BY <1>2, <2>1, <2>3 DEF ClientSound, Minted
    <3>2. CASE d = devices[c]
      BY <1>6, <1>7, <2>1, <2>3, <3>2 DEF ClientSound, Registered, made
    <3>3. CASE Registered(c) /\ devices[c].pos < m.pos /\ d.pos = m.pos
      <4>1. ~(c \notin late /\ state[s].ack = NoAck /\ state[s].ret = NoAck)
        <5>1. devices[c].pos \in Int
          BY <1>0, <1>3, <3>3 DEF MintedInv
        <5> QED BY <1>1, <2>1, <2>3, <3>1, <3>3, <5>1 DEF ClientSound
      <4> QED BY <1>6, <1>7, <2>1, <2>3, <3>1, <3>3, <4>1 DEF ClientSound, made
    <3> QED BY <1>5, <3>2, <3>3
  <2> QED BY <2>2, <2>3
<1>12. ASSUME NEW u \in Tabs PROVE PassSound(u)'
  <2>1. PassSound(u)
    BY DEF DeviceInv
  <2>2. CASE u = m.tab
    <3>1. PICK e \in RunType : /\ run' = [run EXCEPT ![u] = e] /\ e.st = st(u) /\ e.scope = scope(u)
                               /\ e.pc \in {"replace", "denied", "read", "top", "acked"}
                               /\ e.pc = "acked" => AckOutcome(m) \in {"acked", "moved"}
      BY <1>9, <2>2, Nobody
    <3>2. run'[u] = e
      BY <1>0, <3>1, RunIs
    <3>3. At(u, "waiting") /\ c = st(u).client /\ m.pos = st(u).ack.pos
      BY <1>2, <2>2, Nobody DEF DeviceInv, Awaited
    <3>4. Heard(u)'
      BY <1>5, <1>7, <3>1, <3>2, <3>3 DEF Heard, At, st
    <3> QED BY <1>6, <2>1, <3>1, <3>2, <3>3, <3>4 DEF PassSound, At, Holds, Minted, CacheMatches, st, scope, cache, made
  <2>3. CASE u # m.tab
    <3>1. run'[u] = run[u]
      BY <1>8, <2>3
    <3>2. CASE ~Holds(u)
      BY <1>6, <2>1, <3>1, <3>2 DEF PassSound, Holds, Minted, st, scope, cache, made
    <3>3. CASE Holds(u)
      <4>1. Heard(u)
        BY <2>1, <3>3 DEF PassSound
      <4>2. At(u, "retired") => Heard(u)'
        BY <1>5, <1>6, <1>7, <3>1, <4>1 DEF Heard, Registered, At, made
      <4>3. ASSUME At(u, "acked") PROVE Heard(u)'
        <5>1. PICK s \in Scopes : s = scope(u)
          BY <2>1, <4>3 DEF PassSound, At
        <5>2. /\ st(u) = state[s] /\ st(u).client \in Minted /\ st(u).ack # NoAck
              /\ RowSound(s) /\ ClientSound(s)
          BY <2>1, <3>3, <4>3, <5>1 DEF PassSound, At, DeviceInv
        <5>3. st(u).client \in Clients /\ st(u).client # 0 /\ st(u).ack.pos = state[s].cursor /\ state[s].cursor \in Int
          BY <1>0, <5>2, MintedClients, StateFields DEF RowSound, TypeOK
        <5>4. CASE st(u).client # c \/ d = devices[c]
          BY <1>6, <1>7, <3>1, <4>1, <4>3, <5>3, <5>4 DEF Heard, Registered, At, st, made
        <5>5. CASE st(u).client = c /\ Registered(c) /\ devices[c].pos < m.pos
          <6>1. m.pos <= state[s].cursor
            BY <1>2, <5>2, <5>3, <5>5 DEF ClientSound
          <6>2. devices[c].pos \in Int
            BY <1>0, <1>3, <5>5 DEF MintedInv
          <6>3. devices[c].pos # st(u).ack.pos
            BY <1>1, <5>3, <5>5, <6>1, <6>2
          <6>4. c \in late
            BY <4>1, <4>3, <5>5, <6>3 DEF Heard
          <6> QED BY <1>6, <3>1, <4>3, <5>5, <6>4 DEF Heard, At, st, made
        <5> QED BY <1>5, <5>4, <5>5
      <4>4. Heard(u)'
        BY <3>1, <4>2, <4>3 DEF Heard, At
      <4> QED BY <1>6, <2>1, <3>1, <3>3, <4>4 DEF PassSound, Holds, Minted, CacheMatches, st, scope, cache, made
    <3> QED BY <3>2, <3>3
  <2> QED BY <2>2, <2>3
<1>13. ASSUME NEW n \in acks' PROVE Awaited(n)'
  <2>1. n \in acks /\ n # m /\ Awaited(n) /\ Awaited(m) /\ n \in AckType
    BY <1>0, <1>6 DEF DeviceInv, TypeOK
  <2>2. CASE n.tab = None
    BY <2>2 DEF Awaited
  <2>3. CASE n.tab # None /\ n.tab = m.tab
    BY <1>1, <2>1, <2>3 DEF Awaited, AckType
  <2>4. CASE n.tab # None /\ n.tab # m.tab
    <3>1. run'[n.tab] = run[n.tab]
      BY <1>8, <2>1, <2>4 DEF AckType
    <3> QED BY <2>1, <3>1 DEF Awaited, At, st
  <2> QED BY <2>2, <2>3, <2>4
<1>14. d # Unregistered => d.pos \in Nat /\ (Known(c) \/ c \in late')
  <2>1. ASSUME d # Unregistered PROVE Registered(c)
    BY <1>5, <2>1 DEF Registered
  <2>2. Registered(c) => devices[c].pos \in Nat
    BY <1>0, <1>3 DEF MintedInv
  <2>3. Registered(c) => Known(c) \/ c \in late'
    BY <1>6 DEF DeviceInv, RegistrationsKnown, Minted, made
  <2> QED BY <1>1, <1>5, <2>1, <2>2, <2>3
<1>15. late' \subseteq Clients /\ late \subseteq late' /\ acks' \subseteq acks /\ UNCHANGED scopeOf
  BY <1>0, <1>6 DEF TypeOK, made
<1> QED BY <1>5, <1>6, <1>10, <1>11, <1>12, <1>13, <1>14, <1>15, Calling

----------------------------------------------------------------------------
(* Commits.                                                                 *)

\* What a pass that can commit knows of its row.
LEMMA Committer ==
  ASSUME DeviceInv, NEW t \in Tabs, Holds(t), run[t].pc \notin {"idle", "inspect", "adopt"}
  PROVE  \E s \in Scopes :
           /\ s = scope(t) /\ st(t) = state[s] /\ CacheMatches(s) /\ state[s].client \in Minted
           /\ state[s] \in StateType /\ head[s] \in Nat /\ run[t] \in RunType
           /\ RowSound(s) /\ ClientSound(s) /\ Covered(s)
<1>1. PassSound(t) /\ TypeOK
  BY DEF DeviceInv
<1>2. PICK s \in Scopes : s = scope(t)
  BY <1>1 DEF PassSound
<1>3. st(t) = state[s] /\ CacheMatches(s) /\ state[s].client \in Minted
  BY <1>1, <1>2 DEF PassSound
<1> QED BY <1>1, <1>2, <1>3, Typed DEF DeviceInv

LEMMA DeviceCommitRetired == ASSUME DeviceInv, NEW t \in Tabs, CommitRetired(t) PROVE DeviceInv'
<1>1. TypeOK /\ At(t, "retired") /\ Holds(t) /\ PassSound(t)
  BY DEF DeviceInv, CommitRetired, Commit
<1>2. PICK s \in Scopes :
           /\ s = scope(t) /\ st(t) = state[s] /\ CacheMatches(s) /\ state[s].client \in Minted
           /\ state[s] \in StateType /\ head[s] \in Nat /\ run[t] \in RunType
           /\ RowSound(s) /\ ClientSound(s) /\ Covered(s)
  BY <1>1, Committer DEF At
<1>3. PICK d : d = [state[s] EXCEPT !.obsolete = @ \ {run[t].arg}]
  OBVIOUS
<1>4. /\ d \in StateType /\ d.client = state[s].client /\ d.cursor = state[s].cursor /\ d.ack = state[s].ack
      /\ d.ret = state[s].ret /\ d.registered = state[s].registered
      /\ d.obsolete = state[s].obsolete \ {run[t].arg}
  BY <1>2, <1>3 DEF StateType
<1>5. /\ state' = [state EXCEPT ![s] = d] /\ run' = Onward(t, d, "top")
      /\ UNCHANGED <<tower, acks, owner, rows, lease, made, session>>
  BY <1>2, <1>3 DEF CommitRetired, Commit, env
<1>6. PICK e \in RunType : Onward(t, d, "top") = [run EXCEPT ![t] = e] /\ e.pc = "top" /\ e.st = d /\ e.scope = s
  BY <1>1, <1>2, <1>4, OnwardIs DEF PC
<1>7. state'[s] = d
  BY <1>1, <1>5 DEF TypeOK
<1>8. RowSound(s)' /\ ClientSound(s)' /\ Covered(s)'
  BY <1>2, <1>4, <1>5, <1>7 DEF RowSound, ClientSound, Covered, CacheMatches, Registered, Minted, tower, made
<1>9. \A c \in st(t).obsolete \ d.obsolete : Registered(c) => c \in late
  BY <1>1, <1>2, <1>4 DEF PassSound, Heard, At
<1>10. rows' \subseteq Scopes \X Position /\ d.client = st(t).client
  BY <1>1, <1>2, <1>4, <1>5 DEF TypeOK
<1> QED BY <1>1, <1>2, <1>4, <1>5, <1>6, <1>8, <1>9, <1>10, Committing DEF At

LEMMA DeviceCommitRegistered == ASSUME DeviceInv, NEW t \in Tabs, CommitRegistered(t) PROVE DeviceInv'
<1>1. TypeOK /\ At(t, "registered") /\ Holds(t) /\ MintedInv
  BY DEF DeviceInv, CommitRegistered, Commit
<1>2. PICK s \in Scopes :
           /\ s = scope(t) /\ st(t) = state[s] /\ CacheMatches(s) /\ state[s].client \in Minted
           /\ state[s] \in StateType /\ head[s] \in Nat /\ run[t] \in RunType
           /\ RowSound(s) /\ ClientSound(s) /\ Covered(s)
  BY <1>1, Committer DEF At
<1>a. run[t].page.rev \in Nat
  BY <1>2, RunFields DEF PageType
<1>3. PICK d : d = IF state[s].cursor # Null \/ state[s].registered THEN state[s]
                   ELSE [state[s] EXCEPT !.cursor = 0, !.registered = TRUE, !.rev = run[t].page.rev]
  OBVIOUS
<1>4. /\ d \in StateType /\ d.client = state[s].client /\ d.ack = state[s].ack
      /\ d.ret = state[s].ret /\ d.obsolete = state[s].obsolete
      /\ d = state[s] \/ (~state[s].registered /\ d.registered /\ d.cursor = 0)
  BY <1>a, <1>2, <1>3 DEF StateType, Position
<1>5. /\ state' = [state EXCEPT ![s] = d] /\ run' = Onward(t, d, "top")
      /\ UNCHANGED <<tower, acks, owner, rows, lease, made, session>>
  BY <1>2, <1>3 DEF CommitRegistered, Commit, env
<1>6. PICK e \in RunType : Onward(t, d, "top") = [run EXCEPT ![t] = e] /\ e.pc = "top" /\ e.st = d /\ e.scope = s
  <2>1. "top" \in PC /\ d \in StateType /\ s = scope(t)
    BY <1>2, <1>4 DEF PC
  <2> QED BY <1>1, <2>1, OnwardIs
<1>7. state'[s] = d
  BY <1>1, <1>5 DEF TypeOK
<1>8. RowSound(s)' /\ ClientSound(s)' /\ Covered(s)'
  <2>1. CASE d = state[s]
    BY <1>2, <1>5, <1>7, <2>1 DEF RowSound, ClientSound, Covered, CacheMatches, Registered, Minted, tower, made
  <2>2. CASE ~state[s].registered /\ d.registered /\ d.cursor = 0
    <3>1. state[s].client \in Clients /\ state[s].client # 0 /\ state[s].ack = NoAck /\ state[s].ret = NoAck
      BY <1>1, <1>2, <2>2, MintedClients DEF RowSound
    <3>2. /\ \A m \in acks : m.client # state[s].client
          /\ Registered(state[s].client) => devices[state[s].client].pos = 0
      <4>1. Registered(state[s].client) => devices[state[s].client].pos \in Nat
        BY <1>1, <3>1 DEF MintedInv
      <4> QED BY <1>2, <2>2, <3>1, <4>1 DEF ClientSound
    <3>3. RowSound(s)'
      BY <1>2, <1>4, <1>5, <1>7, <2>2, <3>1 DEF RowSound, NoAck, Null, Minted, tower, made
    <3>4. ClientSound(s)'
      BY <1>4, <1>5, <1>7, <2>2, <3>1, <3>2 DEF ClientSound, Registered, tower, made
    <3>5. Covered(s)'
      BY <1>4, <1>7, <2>2, <3>1 DEF Covered, NoAck, Null
    <3> QED BY <3>3, <3>4, <3>5
  <2> QED BY <1>4, <2>1, <2>2
<1>10. rows' \subseteq Scopes \X Position /\ d.client = st(t).client
  BY <1>1, <1>2, <1>4, <1>5 DEF TypeOK
<1>11. d.obsolete = st(t).obsolete /\ run[t].pc = "registered" /\ Holds(t)
  BY <1>1, <1>2, <1>4 DEF At
<1> HIDE DEF At
<1> QED BY <1>2, <1>4, <1>5, <1>6, <1>8, <1>10, <1>11, Committing

LEMMA DeviceWalk == ASSUME DeviceInv, NEW t \in Tabs, Walk(t) PROVE DeviceInv'
<1>1. TypeOK /\ MintedInv /\ run[t].pc \in {"walk", "top"} /\ Holds(t)
  BY DEF DeviceInv, Walk, Ready, At, Commit
<1>2. PICK s \in Scopes :
           /\ s = scope(t) /\ st(t) = state[s] /\ CacheMatches(s) /\ state[s].client \in Minted
           /\ state[s] \in StateType /\ head[s] \in Nat /\ run[t] \in RunType
           /\ RowSound(s) /\ ClientSound(s) /\ Covered(s)
  BY <1>1, Committer
<1>a. /\ state[s].ret # NoAck /\ state[s].registered /\ state[s].ret \in Intent /\ state[s].ret.pos \in Nat
      /\ state[s].cursor \in Nat /\ state[s].cursor <= state[s].ret.pos /\ state[s].ret.pos <= head[s]
  <2>1. state[s].ret # NoAck
    BY <1>2 DEF Walk
  <2>2. state[s].ret \in Intent
    BY <1>2, StateFields
  <2>3. /\ state[s].registered /\ state[s].cursor \in Nat /\ state[s].cursor <= state[s].ret.pos
        /\ state[s].ret.pos <= head[s]
    BY <1>2, <2>1 DEF RowSound
  <2> QED BY <2>1, <2>2, <2>3, IntentFields
<1>3. PICK d : d = [state[s] EXCEPT !.cursor = state[s].ret.pos, !.ack = state[s].ret, !.ret = NoAck, !.phase = "delta"]
  OBVIOUS
<1>4. /\ d \in StateType /\ d.client = state[s].client /\ d.ack = state[s].ret /\ d.cursor = state[s].ret.pos
      /\ d.ret = NoAck /\ d.obsolete = state[s].obsolete /\ d.registered = state[s].registered
  BY <1>a, <1>2, <1>3, Beginnings DEF StateType, Position
<1>b. PICK pc \in {"end", "top"} : pc = IF At(t, "walk") THEN "end" ELSE "top"
  OBVIOUS
<1>5. /\ state' = [state EXCEPT ![s] = d] /\ run' = Onward(t, d, pc) /\ rows' = {r \in rows : r[1] = s}
      /\ UNCHANGED <<tower, acks, owner, lease, made, session>>
  BY <1>2, <1>3, <1>b DEF Walk, Commit, env
<1>6. PICK e \in RunType : Onward(t, d, pc) = [run EXCEPT ![t] = e] /\ e.pc = pc /\ e.st = d /\ e.scope = s
  <2>1. pc \in PC /\ d \in StateType /\ s = scope(t)
    BY <1>2, <1>4 DEF PC
  <2> QED BY <1>1, <2>1, OnwardIs
<1>7. state'[s] = d
  BY <1>1, <1>5 DEF TypeOK
<1>8. RowSound(s)'
  <2>1. d.registered /\ d.cursor \in Nat /\ d.client # 0
    BY <1>4, <1>a, <1>2 DEF CacheMatches
  <2>2. d.client # 0 => d.client \in Minted' /\ scopeOf'[d.client] = s
    BY <1>2, <1>4, <1>5 DEF RowSound, Minted, made
  <2>3. d.cursor <= head'[s] /\ d.ret.pos <= head'[s] /\ d.ack.pos = d.cursor
    BY <1>2, <1>4, <1>5, <1>a DEF NoAck, Null, tower
  <2>4. d.ret = NoAck
    BY <1>4
  <2> QED BY <1>7, <2>1, <2>2, <2>3, <2>4 DEF RowSound
<1>9. ClientSound(s)'
  <2>1. state[s].client \in Clients /\ state[s].client # 0
    BY <1>1, <1>2, MintedClients
  <2>2. Registered(state[s].client) => devices[state[s].client].pos \in Nat
    BY <1>1, <2>1 DEF MintedInv
  <2>3. \A m \in acks : m.pos \in Nat
    BY <1>1 DEF TypeOK, AckType, Position
  <2>4. d.registered /\ d.ack # NoAck
    BY <1>4, <1>a
  <2>5. Registered(state[s].client) => devices[state[s].client].pos <= d.cursor
    BY <1>2, <1>4, <1>a, <2>1, <2>2 DEF ClientSound
  <2>6. \A m \in acks : m.client = state[s].client => m.pos <= d.cursor
    BY <1>2, <1>4, <1>a, <2>1, <2>3 DEF ClientSound
  <2> QED BY <1>4, <1>5, <1>7, <2>4, <2>5, <2>6 DEF ClientSound, Registered, tower, made
<1>c. Covered(s)'
  <2>1. \A i \in Nat \ {0} : i <= d.cursor => <<s, i>> \in rows'
    BY <1>2, <1>4, <1>5 DEF Covered
  <2>2. \A i \in Nat \ {0} : ~(i <= d.ret.pos)
    BY <1>4 DEF NoAck, Null
  <2> QED BY <1>7, <2>1, <2>2 DEF Covered
<1>10. rows' \subseteq Scopes \X Position /\ d.client = st(t).client
  BY <1>1, <1>2, <1>4, <1>5 DEF TypeOK
<1>11. d.registered /\ d.ret = NoAck /\ st(t).obsolete \ d.obsolete = {}
  BY <1>2, <1>4, <1>a
<1> QED BY <1>1, <1>2, <1>4, <1>5, <1>6, <1>8, <1>9, <1>c, <1>10, <1>11, Committing

LEMMA DeviceCommitAcked == ASSUME DeviceInv, NEW t \in Tabs, CommitAcked(t) PROVE DeviceInv'
<1>1. TypeOK /\ MintedInv /\ At(t, "acked") /\ Holds(t) /\ PassSound(t)
  BY DEF DeviceInv, CommitAcked, Commit
<1>2. PICK s \in Scopes :
           /\ s = scope(t) /\ st(t) = state[s] /\ CacheMatches(s) /\ state[s].client \in Minted
           /\ state[s] \in StateType /\ head[s] \in Nat /\ run[t] \in RunType
           /\ RowSound(s) /\ ClientSound(s) /\ Covered(s)
  BY <1>1, Committer DEF At
<1>a. /\ run[t].page.rev \in Nat /\ state[s].registered /\ state[s].ret = NoAck /\ state[s].ack # NoAck
      /\ state[s].cursor \in Nat /\ state[s].client # 0
  <2>1. run[t].page.rev \in Nat
    BY <1>2, RunFields DEF PageType
  <2>2. state[s].registered /\ state[s].ret = NoAck /\ state[s].ack # NoAck
    BY <1>1, <1>2 DEF PassSound, At
  <2> QED BY <1>2, <2>1, <2>2 DEF RowSound
<1>3. PICK d : d = [state[s] EXCEPT !.ack = NoAck, !.rev = run[t].page.rev]
  OBVIOUS
<1>4. /\ d \in StateType /\ d.client = state[s].client /\ d.ack = NoAck /\ d.cursor = state[s].cursor
      /\ d.ret = NoAck /\ d.obsolete = state[s].obsolete /\ d.registered
  BY <1>a, <1>2, <1>3, Beginnings DEF StateType
<1>b. PICK pc \in {"read", "top", "complete"} : pc = AfterAck(t)
  BY DEF AfterAck
<1>5. /\ state' = [state EXCEPT ![s] = d] /\ run' = Onward(t, d, pc)
      /\ UNCHANGED <<tower, acks, owner, rows, lease, made, session>>
  BY <1>2, <1>3, <1>b DEF CommitAcked, Commit, env
<1>6. PICK e \in RunType : Onward(t, d, pc) = [run EXCEPT ![t] = e] /\ e.pc = pc /\ e.st = d /\ e.scope = s
  <2>1. pc \in PC /\ d \in StateType /\ s = scope(t)
    BY <1>2, <1>4 DEF PC
  <2> QED BY <1>1, <2>1, OnwardIs
<1>7. state'[s] = d
  BY <1>1, <1>5 DEF TypeOK
<1>8. RowSound(s)'
  <2>1. d.client # 0 => d.client \in Minted' /\ scopeOf'[d.client] = s
    BY <1>2, <1>4, <1>5 DEF RowSound, Minted, made
  <2>2. d.cursor \in Nat /\ d.cursor <= head'[s] /\ d.ret.pos <= head'[s]
    BY <1>2, <1>4, <1>5, <1>a DEF RowSound, tower
  <2> QED BY <1>4, <1>7, <1>a, <2>1, <2>2 DEF RowSound
<1>9. ClientSound(s)'
  <2>1. Registered(state[s].client) /\ state[s].client \notin late => devices[state[s].client].pos = state[s].cursor
    <3>1. Heard(t) /\ state[s].ack.pos = state[s].cursor
      BY <1>1, <1>2, <1>a DEF PassSound, At, RowSound
    <3> QED BY <1>1, <1>2, <3>1 DEF Heard
  <2>2. Registered(state[s].client) => devices[state[s].client].pos <= state[s].cursor
    BY <1>2, <1>a DEF ClientSound
  <2>3. \A m \in acks : m.client = state[s].client => m.pos <= state[s].cursor
    BY <1>2, <1>a DEF ClientSound
  <2> QED BY <1>4, <1>5, <1>7, <2>1, <2>2, <2>3 DEF ClientSound, Registered, tower, made
<1>c. Covered(s)'
  BY <1>2, <1>4, <1>5, <1>7 DEF Covered, NoAck, Null
<1>10. rows' \subseteq Scopes \X Position /\ d.client = st(t).client
  BY <1>1, <1>2, <1>4, <1>5 DEF TypeOK
<1>11. d.registered /\ d.ret = NoAck /\ st(t).obsolete \ d.obsolete = {}
  BY <1>2, <1>4
<1> QED BY <1>1, <1>2, <1>4, <1>5, <1>6, <1>8, <1>9, <1>c, <1>10, <1>11, Committing DEF At

LEMMA DeviceApply == ASSUME DeviceInv, NEW t \in Tabs, Apply(t) PROVE DeviceInv'
<1>1. TypeOK /\ MintedInv /\ At(t, "page") /\ Holds(t) /\ PassSound(t)
  BY DEF DeviceInv, Apply, Commit
<1>2. PICK s \in Scopes :
           /\ s = scope(t) /\ st(t) = state[s] /\ CacheMatches(s) /\ state[s].client \in Minted
           /\ state[s] \in StateType /\ head[s] \in Nat /\ run[t] \in RunType
           /\ RowSound(s) /\ ClientSound(s) /\ Covered(s)
  BY <1>1, Committer DEF At
<1>p. PICK next, rev : next = run[t].page.next /\ rev = run[t].page.rev
  OBVIOUS
<1>a. /\ next \in Nat /\ rev \in Nat /\ state[s].registered /\ state[s].ret = NoAck
      /\ state[s].cursor \in Nat /\ state[s].client # 0 /\ state[s].cursor <= next /\ next <= head[s]
  <2>1. next \in Int /\ rev \in Nat
    BY <1>2, <1>p, RunFields DEF PageType, Position, Null
  <2>2. state[s].registered /\ state[s].ret = NoAck /\ state[s].cursor <= next /\ next <= head[s]
    BY <1>1, <1>2, <1>p DEF PassSound, At
  <2>3. state[s].cursor \in Nat /\ state[s].client # 0
    BY <1>2, <2>2 DEF RowSound
  <2> QED BY <2>1, <2>2, <2>3
<1>i. PICK intent : intent = [pos |-> next, rev |-> rev]
  OBVIOUS
<1>j. intent \in Intent /\ intent.pos = next /\ intent # NoAck
  BY <1>a, <1>i DEF Intent, Position, NoAck, Null
<1>3. PICK d : d = Applied(state[s], run[t].page)
  OBVIOUS
<1>4. /\ d \in StateType /\ d.client = state[s].client /\ d.obsolete = state[s].obsolete /\ d.registered
      /\ \/ d.cursor = state[s].cursor /\ d.ret = intent /\ d.ack = NoAck
         \/ d.cursor = next /\ d.ret = NoAck /\ d.ack = intent
  <2>1. PICK base : base = [state[s] EXCEPT !.rev = rev, !.phase = IF run[t].page.complete THEN "handover" ELSE @]
    OBVIOUS
  <2>2. /\ base \in StateType /\ base.client = state[s].client /\ base.obsolete = state[s].obsolete
        /\ base.registered = state[s].registered /\ base.ret = state[s].ret /\ base.cursor = state[s].cursor
    BY <1>2, <1>a, <2>1 DEF StateType
  <2>3. \/ d = [base EXCEPT !.ret = intent, !.ack = NoAck]
        \/ d = [base EXCEPT !.cursor = next, !.ack = intent]
    BY <1>3, <1>p, <1>i, <2>1 DEF Applied
  <2>4. CASE d = [base EXCEPT !.ret = intent, !.ack = NoAck]
    BY <1>a, <1>j, <2>2, <2>4, Beginnings DEF StateType
  <2>5. CASE d = [base EXCEPT !.cursor = next, !.ack = intent]
    BY <1>a, <1>j, <2>2, <2>5, Beginnings DEF StateType, Position
  <2> QED BY <2>3, <2>4, <2>5
<1>b. PICK pc \in {"walk", "end"} : pc = IF d.ret # NoAck THEN "walk" ELSE "end"
  OBVIOUS
<1>5. /\ state' = [state EXCEPT ![s] = d] /\ run' = Onward(t, d, pc)
      /\ rows' = rows \cup {<<s, i>> : i \in state[s].cursor + 1..next}
      /\ UNCHANGED <<tower, acks, owner, lease, made, session>>
  BY <1>2, <1>3, <1>b, <1>p DEF Apply, Commit, env
<1>6. PICK e \in RunType : Onward(t, d, pc) = [run EXCEPT ![t] = e] /\ e.pc = pc /\ e.st = d /\ e.scope = s
  <2>1. pc \in PC /\ d \in StateType /\ s = scope(t)
    BY <1>2, <1>4 DEF PC
  <2> QED BY <1>1, <2>1, OnwardIs
<1>7. state'[s] = d
  BY <1>1, <1>5 DEF TypeOK
<1>8. RowSound(s)'
  <2>1. d.client # 0 => d.client \in Minted' /\ scopeOf'[d.client] = s
    BY <1>2, <1>4, <1>5 DEF RowSound, Minted, made
  <2>2. /\ d.cursor \in Nat /\ d.cursor <= head'[s] /\ d.ret.pos <= head'[s]
        /\ d.ack # NoAck => d.ack.pos = d.cursor
        /\ d.ret # NoAck => d.cursor <= d.ret.pos
    BY <1>2, <1>4, <1>5, <1>a, <1>j DEF RowSound, NoAck, Null, tower
  <2> QED BY <1>4, <1>7, <1>a, <2>1, <2>2 DEF RowSound
<1>9. ClientSound(s)'
  <2>1. state[s].client \in Clients
    BY <1>1, <1>2, MintedClients
  <2>2. Registered(state[s].client) => devices[state[s].client].pos \in Nat
    BY <1>1, <2>1 DEF MintedInv
  <2>3. \A m \in acks : m.pos \in Nat
    BY <1>1 DEF TypeOK, AckType, Position
  <2>4. ~(d.ack = NoAck /\ d.ret = NoAck) /\ state[s].cursor <= d.cursor /\ d.cursor \in Nat
    BY <1>4, <1>a, <1>j
  <2>5. Registered(state[s].client) => devices[state[s].client].pos <= d.cursor
    BY <1>2, <1>a, <2>2, <2>4 DEF ClientSound
  <2>6. \A m \in acks : m.client = state[s].client => m.pos <= d.cursor
    BY <1>2, <1>a, <2>3, <2>4 DEF ClientSound
  <2> QED BY <1>4, <1>5, <1>7, <2>4, <2>5, <2>6 DEF ClientSound, Registered, tower, made
<1>c. Covered(s)'
  <2>1. \A i \in Nat \ {0} : i <= next => <<s, i>> \in rows'
    <3> SUFFICES ASSUME NEW i \in Nat \ {0}, i <= next PROVE <<s, i>> \in rows'
      OBVIOUS
    <3>1. CASE i <= state[s].cursor
      BY <1>2, <1>5, <3>1 DEF Covered
    <3>2. CASE ~(i <= state[s].cursor)
      <4>1. i \in state[s].cursor + 1..next
        BY <1>a, <3>2
      <4> QED BY <1>5, <4>1
    <3> QED BY <3>1, <3>2
  <2>2. \A i \in Nat \ {0} : i <= d.cursor \/ i <= d.ret.pos => i <= next
    BY <1>4, <1>a, <1>j DEF NoAck, Null
  <2> QED BY <1>7, <2>1, <2>2 DEF Covered
<1>10. rows' \subseteq Scopes \X Position /\ d.client = st(t).client
  <2>1. \A i \in state[s].cursor + 1..next : i \in Position
    BY <1>a DEF Position
  <2> QED BY <1>1, <1>2, <1>4, <1>5, <2>1 DEF TypeOK
<1>11. d.registered /\ (pc = "end" => d.ret = NoAck) /\ st(t).obsolete \ d.obsolete = {}
  BY <1>2, <1>4, <1>b
<1> QED BY <1>1, <1>2, <1>4, <1>5, <1>6, <1>8, <1>9, <1>c, <1>10, <1>11, Committing DEF At

----------------------------------------------------------------------------
(* A new identity.                                                          *)

\* The row of the new identity.
LEMMA ReplacementIs ==
  ASSUME TypeOK, NEW s \in Scopes, Len(scopeOf) < MaxClients
  PROVE  LET d == Replacement(s)
         IN  /\ d \in StateType /\ d.client = Len(scopeOf) + 1 /\ d.cursor = Null /\ ~d.registered
             /\ d.ack = NoAck /\ d.ret = NoAck
             /\ state[s].obsolete \subseteq d.obsolete
             /\ state[s].client # 0 => state[s].client \in d.obsolete
<1>1. PICK taken : taken = IF owner.scope \in Scopes \ {s} THEN {state[owner.scope].client} ELSE {}
  OBVIOUS
<1>2. taken \subseteq Clients \cup {0}
  BY <1>1, StateFields DEF TypeOK
<1>3. PICK o : o = (state[s].obsolete \cup {state[s].client} \cup taken) \ {0}
  OBVIOUS
<1>4. /\ o \subseteq Clients /\ state[s].obsolete \subseteq o
      /\ state[s].client # 0 => state[s].client \in o
      /\ state[s].gen \in Nat
  <2>1. state[s].obsolete \subseteq Clients /\ state[s].client \in Clients \cup {0} /\ state[s].gen \in Nat
    BY StateFields DEF TypeOK
  <2>2. 0 \notin Clients
    BY DEF Clients
  <2> QED BY <1>2, <1>3, <2>1, <2>2
<1>5. Len(scopeOf) + 1 \in Clients
  BY BoundAssumption DEF Clients, TypeOK
<1>6. Replacement(s) = [NoState EXCEPT !.gen = state[s].gen + 1, !.client = Len(scopeOf) + 1, !.phase = "snapshot",
                                       !.obsolete = o]
  BY <1>1, <1>3 DEF Replacement
<1>7. PICK g \in Nat : g = state[s].gen + 1
  BY <1>4
<1>8. PICK n \in Clients : n = Len(scopeOf) + 1
  BY <1>5
<1>9. PICK d : d = [NoState EXCEPT !.gen = g, !.client = n, !.phase = "snapshot", !.obsolete = o]
  OBVIOUS
<1>10. Replacement(s) = d
  BY <1>6, <1>7, <1>8, <1>9
<1>11. d \in StateType
  BY <1>4, <1>9, Beginnings DEF StateType
<1>12. d.client = n /\ d.cursor = Null /\ ~d.registered /\ d.ack = NoAck /\ d.ret = NoAck /\ d.obsolete = o
  BY <1>9 DEF NoState
<1> QED BY <1>4, <1>8, <1>10, <1>11, <1>12

LEMMA DeviceReplace == ASSUME DeviceInv, NEW t \in Tabs, Replace(t) PROVE DeviceInv'
<1>0. /\ TypeOK /\ MintedInv /\ PassSound(t) /\ run[t] \in RunType /\ run \in [Tabs -> RunType]
      /\ Len(scopeOf) \in Nat /\ Minted \subseteq Clients
  BY MintedClients DEF DeviceInv, TypeOK
<1>1. PICK s \in Scopes : s = scope(t)
  BY <1>0 DEF Replace, PassSound
<1>2. PICK n : n = Len(scopeOf) + 1
  OBVIOUS
<1>3. PICK d : d = Replacement(s)
  OBVIOUS
<1>4. /\ run[t].pc \in {"adopt", "replace", "hide"} /\ Holds(t) /\ Len(scopeOf) < MaxClients
      /\ state' = [state EXCEPT ![s] = d] /\ owner' = [scope |-> s, client |-> n]
      /\ rows' \in {rows, {}} /\ scopeOf' = Append(scopeOf, s)
      /\ UNCHANGED <<head, member, devices, late, session>>
  BY <1>1, <1>2, <1>3 DEF Replace, tower, env
<1>5. /\ d \in StateType /\ d.client = n /\ d.cursor = Null /\ ~d.registered
      /\ d.ack = NoAck /\ d.ret = NoAck
      /\ state[s].obsolete \subseteq d.obsolete
      /\ state[s].client # 0 => state[s].client \in d.obsolete
  BY <1>0, <1>2, <1>3, <1>4, ReplacementIs
<1>6. n \in Clients /\ n \notin Minted /\ n # 0 /\ ~Registered(n) /\ \A m \in acks : m.client # n
  <2>1. n \in Clients /\ n \notin Minted /\ n # 0
    BY <1>0, <1>2, <1>4, BoundAssumption DEF Clients, Minted
  <2> QED BY <1>0, <2>1 DEF MintedInv
<1>7. /\ scopeOf' \in Seq(Scopes) /\ Len(scopeOf') = n /\ scopeOf'[n] = s
      /\ \A c \in Minted : scopeOf'[c] = scopeOf[c]
      /\ Minted' = Minted \cup {n}
  <2>1. scopeOf \in Seq(Scopes)
    BY <1>0 DEF TypeOK
  <2>2. /\ scopeOf' \in Seq(Scopes) /\ Len(scopeOf') = n /\ scopeOf'[n] = s
        /\ \A c \in 1..Len(scopeOf) : scopeOf'[c] = scopeOf[c]
    BY <1>2, <1>4, <2>1
  <2>3. 1..n = (1..Len(scopeOf)) \cup {n}
    BY <1>0, <1>2
  <2> QED BY <2>2, <2>3 DEF Minted
<1>8. /\ state' \in [Scopes -> StateType] /\ state'[s] = d /\ \A q \in Scopes : q # s => state'[q] = state[q]
  BY <1>0, <1>4, <1>5 DEF TypeOK
<1> DEFINE e == [run[t] EXCEPT !.pc = "top", !.st = d]
<1>9. e \in RunType /\ e.pc = "top" /\ e.st = d /\ e.scope = s
  BY <1>0, <1>1, <1>5 DEF RunType, PC, scope
<1>10. PICK f \in {e, Idle} :
         /\ run' = [run EXCEPT ![t] = f]
         /\ lease' \in [tab : Tabs \cup {None}, live : BOOLEAN]
         /\ \A u \in Tabs : Holds(u)' => u = t /\ f = e
         /\ \A m \in acks' : /\ m \in AckType /\ m.tab # t
                             /\ \E k \in acks : m.client = k.client /\ m.pos = k.pos /\ (m = k \/ m.tab = None)
  <2>1. CASE At(t, "hide")
    <3>1. Finish(t)
      BY <2>1 DEF Replace
    <3>2. \A u \in Tabs : ~Holds(u)'
      BY <1>0, <1>4, <3>1, FinishFrees, OneHolder
    <3>3. \A m \in acks' : /\ m \in AckType /\ m.tab # t
                           /\ \E k \in acks : m.client = k.client /\ m.pos = k.pos /\ (m = k \/ m.tab = None)
      BY <1>0, <3>1, FinishFrees, OrphansAre
    <3> QED BY <1>0, <3>1, <3>2, <3>3, FinishFrees
  <2>2. CASE ~At(t, "hide")
    <3>1. run' = [run EXCEPT ![t].pc = "top", ![t].st = d] /\ lease' = lease /\ acks' = acks
      BY <1>1, <1>3, <2>2 DEF Replace
    <3>2. run' = [run EXCEPT ![t] = e]
      BY <1>0, <3>1
    <3>3. \A u \in Tabs : Holds(u)' => u = t
      BY <1>4, <3>1 DEF Holds
    <3>4. \A m \in acks' : m \in AckType /\ m.tab # t
      BY <1>0, <1>4, <3>1, Nobody DEF DeviceInv, Awaited, At, TypeOK
    <3>5. lease' \in [tab : Tabs \cup {None}, live : BOOLEAN]
      BY <1>0, <3>1 DEF TypeOK
    <3> QED BY <3>1, <3>2, <3>3, <3>4, <3>5
  <2> QED BY <2>1, <2>2
<1> HIDE DEF e
<1>11. /\ run' \in [Tabs -> RunType] /\ run'[t] = f /\ \A u \in Tabs : u # t => run'[u] = run[u]
  BY <1>0, <1>9, <1>10, Beginnings, RunIs
<1>12. TypeOK'
  <2>1. owner' \in [scope : Scopes \cup {None}, client : Clients \cup {0}] /\ rows' \subseteq Scopes \X Position
    BY <1>0, <1>4, <1>6 DEF TypeOK
  <2>2. acks' \subseteq AckType
    BY <1>10
  <2> QED BY <1>0, <1>4, <1>7, <1>8, <1>10, <1>11, <2>1, <2>2 DEF TypeOK
<1>13. MintedInv'
  <2>1. n <= MaxClients
    BY <1>6, BoundAssumption DEF Clients
  <2>2. \A m \in acks' : m.client \in Minted'
    BY <1>0, <1>7, <1>10 DEF MintedInv
  <2>3. \A c \in Clients : Registered(c)' => c \in Minted' /\ devices'[c].pos \in Nat
    BY <1>0, <1>4, <1>7 DEF MintedInv, Registered
  <2> QED BY <1>7, <2>1, <2>2, <2>3 DEF MintedInv
<1>14. ASSUME NEW q \in Scopes PROVE RowSound(q)' /\ ClientSound(q)' /\ Covered(q)'
  <2>1. CASE q # s
    <3>1. RowSound(q) /\ ClientSound(q) /\ state'[q] = state[q]
      BY <1>8, <2>1 DEF DeviceInv
    <3>a. state[q].client # 0 => state[q].client \in Minted' /\ scopeOf'[state[q].client] = q
      BY <1>7, <3>1 DEF RowSound
    <3>2. RowSound(q)'
      BY <1>4, <3>1, <3>a DEF RowSound
    <3>3. ClientSound(q)'
      BY <1>4, <1>10, <3>1 DEF ClientSound, Registered
    <3>4. Covered(q)'
      BY <1>4, <2>1 DEF Covered, CacheMatches
    <3> QED BY <3>2, <3>3, <3>4
  <2>2. CASE q = s
    <3>1. head[s] \in Nat
      BY <1>0, Typed
    <3>2. RowSound(s)'
      BY <1>4, <1>5, <1>6, <1>7, <1>8, <3>1 DEF RowSound, NoAck, Null
    <3>3. ClientSound(s)'
      BY <1>4, <1>5, <1>6, <1>8, <1>10 DEF ClientSound, Registered
    <3>4. Covered(s)'
      BY <1>5, <1>8 DEF Covered, NoAck, Null
    <3> QED BY <2>2, <3>2, <3>3, <3>4
  <2> QED BY <2>1, <2>2
<1>15. ASSUME NEW u \in Tabs PROVE PassSound(u)'
  <2>1. PassSound(u)
    BY DEF DeviceInv
  <2>2. CASE u # t
    BY <1>7, <1>10, <1>11, <2>1, <2>2 DEF PassSound, st, scope
  <2>3. CASE u = t /\ f = Idle
    <3>1. ~Holds(t)'
      BY <1>9, <1>10, <2>3 DEF Idle
    <3> QED BY <1>11, <2>3, <3>1 DEF PassSound, st, scope, Idle
  <2>4. CASE u = t /\ f = e
    <3>1. CacheMatches(s)'
      BY <1>4, <1>5, <1>6, <1>8 DEF CacheMatches
    <3> QED BY <1>5, <1>7, <1>8, <1>9, <1>11, <2>4, <3>1 DEF PassSound, Heard, At, st, scope
  <2> QED BY <1>10, <2>2, <2>3, <2>4
<1>16. ASSUME NEW m \in acks' PROVE Awaited(m)'
  <2>1. CASE m.tab = None
    BY <2>1 DEF Awaited
  <2>2. CASE m.tab # None
    <3>1. m \in acks /\ m.tab \in Tabs /\ m.tab # t
      BY <1>10, <2>2 DEF AckType
    <3>2. Awaited(m) /\ run'[m.tab] = run[m.tab]
      BY <1>11, <3>1 DEF DeviceInv
    <3> QED BY <3>2 DEF Awaited, At, st
  <2> QED BY <2>1, <2>2
<1>17. RegistrationsKnown'
  <2> SUFFICES ASSUME NEW c \in Minted', c \notin late, Registered(c) PROVE Known(c)'
    BY <1>4 DEF RegistrationsKnown, Minted, Registered
  <2>1. c \in Minted /\ Known(c) /\ scopeOf[c] \in Scopes /\ scopeOf'[c] = scopeOf[c] /\ c # 0
    <3>1. c \in Minted
      BY <1>6, <1>7
    <3>2. c # 0 /\ scopeOf[c] \in Scopes
      BY <1>0, <3>1, MintedClients DEF TypeOK, Minted
    <3>3. Known(c)
      BY <3>1 DEF DeviceInv, RegistrationsKnown, Minted
    <3>4. scopeOf'[c] = scopeOf[c]
      BY <1>7, <3>1
    <3> QED BY <3>1, <3>2, <3>3, <3>4
  <2>2. CASE scopeOf[c] # s
    BY <1>8, <2>1, <2>2 DEF Known
  <2>3. CASE scopeOf[c] = s
    BY <1>5, <1>8, <2>1, <2>3 DEF Known
  <2> QED BY <2>2, <2>3
<1> QED BY <1>12, <1>13, <1>14, <1>15, <1>16, <1>17 DEF DeviceInv

----------------------------------------------------------------------------
(* The theorems.                                                            *)

\* Every step keeps the invariant.
LEMMA DeviceNext == DeviceInv /\ [Next]_vars => DeviceInv'
<1> SUFFICES ASSUME DeviceInv, [Next]_vars PROVE DeviceInv'
  OBVIOUS
<1>1. CASE UNCHANGED vars
  <2>1. UNCHANGED <<head, member, devices, acks, state, owner, rows, lease, run, scopeOf, late, session>>
    BY <1>1 DEF vars, tower, cache, made, env
  <2>2. TypeOK
    BY DEF DeviceInv
  <2>3. /\ UNCHANGED <<head, devices, acks, cache, run, made>> /\ member' \subseteq Scopes /\ session' \in Scopes
        /\ lease' \in [tab : Tabs \cup {None}, live : BOOLEAN] /\ \A u \in Tabs : Holds(u)' => Holds(u)
    BY <2>1, <2>2 DEF TypeOK, Holds, cache, made
  <2> QED BY <2>3, Aside
<1>2. ASSUME NEW t \in Tabs, Start(t) \/ Step(t) \/ Fail(t) \/ Crash(t) PROVE DeviceInv'
  BY <1>2, DeviceStart, DeviceFinish, DeviceCrash, DeviceInspect, DeviceReplace, DeviceRetire, DeviceCommitRetired,
     DeviceRegister, DeviceCommitRegistered, DeviceWalk, DeviceSendAck, DeviceCommitAcked, DeviceRead, DeviceDenied,
     DeviceApply
  DEF Step
<1>3. CASE \E m \in acks : AckArrives(m)
  BY <1>3, DeviceAckArrives
<1>4. CASE Expire \/ \E s \in Scopes : Emit(s) \/ Switch(s) \/ Revoke(s)
  BY <1>4, DeviceAside, DeviceEmit
<1>5. CASE \E c \in Clients : Forget(c)
  BY <1>5, DeviceForget
<1> QED BY <1>1, <1>2, <1>3, <1>4, <1>5 DEF Next

\* What the cache, the pass that holds its lease and Tower's registrations have to
\* do with each other stays true.
THEOREM DeviceInvariant == Spec => []DeviceInv
BY DeviceInit, DeviceNext, PTL DEF Spec

\* Every reachable state is well typed.
THEOREM TypeCorrect == Spec => []TypeOK
<1>1. DeviceInv => TypeOK
  BY DEF DeviceInv
<1> QED BY <1>1, DeviceInvariant, PTL

\* A state row that can be resumed has every record up to its cursor in the tables,
\* whoever has used them in between and wherever a pass was cut short.
THEOREM ResumableIsCovered == Spec => []ResumableCoversRows
<1>1. DeviceInv => ResumableCoversRows
  <2> SUFFICES ASSUME DeviceInv, NEW s \in Scopes, CacheMatches(s), NEW i \in 1..state[s].cursor
               PROVE  <<s, i>> \in rows
    BY DEF ResumableCoversRows
  <2>1. state[s].cursor \in Int /\ Covered(s)
    BY Typed, StateFields DEF DeviceInv
  <2> QED BY <2>1 DEF Covered
<1> QED BY <1>1, DeviceInvariant, PTL

\* Tower never believes a cache to be further than it has committed.
THEOREM TowerIsNotAhead == Spec => []CheckpointCommitted
<1>1. DeviceInv => CheckpointCommitted
  BY DEF DeviceInv, CheckpointCommitted, ClientSound
<1> QED BY <1>1, DeviceInvariant, PTL

\* With nothing left to acknowledge Tower is where the cache is.
THEOREM SettledAgrees == Spec => []SettledIsTowers
<1>1. DeviceInv => SettledIsTowers
  <2> SUFFICES ASSUME DeviceInv, NEW s \in Scopes, state[s].client \in DOMAIN devices \ late,
                      Registered(state[s].client), state[s].registered, state[s].ack = NoAck, state[s].ret = NoAck
               PROVE  devices[state[s].client].pos = state[s].cursor
    BY DEF SettledIsTowers
  <2>1. state[s].client \in Clients /\ 0 \notin Clients /\ ClientSound(s)
    BY DEF DeviceInv, TypeOK, Clients
  <2> QED BY <2>1 DEF ClientSound
<1> QED BY <1>1, DeviceInvariant, PTL

\* Every registration at Tower is one some state row uses or has noted to retire.
THEOREM RegistrationsAreKnown == Spec => []RegistrationsKnown
<1>1. DeviceInv => RegistrationsKnown
  BY DEF DeviceInv
<1> QED BY <1>1, DeviceInvariant, PTL
=============================================================================
