--------------------------- MODULE TaskPatchProofs ---------------------------
(***************************************************************************)
(* Proofs about TaskPatch, for every number of tasks, edits, reloads and   *)
(* faults: PatchInv is inductive, and from it type correctness, that an    *)
(* edit changes a field of a task once at most (AppliedOnce), that pending *)
(* rows are owed (PendingIsOwed), and that a row in one life of the page   *)
(* makes one task (OneCreatePerSession).                                   *)
(***************************************************************************)
EXTENDS TaskPatch, SequenceTheorems, WellFoundedInduction, TLAPS

----------------------------------------------------------------------------
(* The queue.                                                               *)

\* f is the function by which Without filters the first n items of q.
Filters(f, q, S, n) ==
  f = [i \in 0..n |-> IF i = 0 THEN <<>> ELSE IF q[i] \in S THEN f[i - 1] ELSE Append(f[i - 1], q[i])]

\* A nonempty set of numbers has a least one.
LEMMA LeastExists ==
  ASSUME NEW D \in SUBSET Nat, D # {}
  PROVE  \E m \in D : \A k \in D : m <= k
<1> DEFINE R == {ss \in Nat \X Nat : ss[1] < ss[2]}
<1>1. IsWellFoundedOn(R, Nat)
  BY NatLessThanWellFounded DEF OpToRel
<1>2. PICK m \in D : \A k \in D : <<k, m>> \notin R
  <2> HIDE DEF R
  <2> QED BY <1>1, WFMin
<1>3. ASSUME NEW k \in D PROVE m <= k
  <2>1. <<k, m>> \notin R /\ k \in Nat /\ m \in Nat
    BY <1>2
  <2>2. ~(k < m)
    BY <2>1
  <2> QED BY <2>1, <2>2
<1> QED BY <1>3

\* The function exists: from the one for n - 1 items comes the one for n.
LEMMA FilterExists ==
  ASSUME NEW q, NEW S, NEW n \in Nat
  PROVE  \E f : Filters(f, q, S, n)
<1> DEFINE D == {k \in Nat : ~ \E f : Filters(f, q, S, k)}
<1> SUFFICES ASSUME D # {} PROVE FALSE
  OBVIOUS
<1>1. PICK m \in D : \A k \in D : m <= k
  <2> D \subseteq Nat
    OBVIOUS
  <2> HIDE DEF D
  <2> QED BY LeastExists
<1>2. CASE m = 0
  <2>1. Filters([i \in 0..0 |-> <<>>], q, S, 0)
    BY DEF Filters
  <2> QED BY <2>1, <1>1, <1>2
<1>3. CASE m # 0
  <2>1. m - 1 \in Nat /\ m - 1 \notin D
    BY <1>1, <1>3
  <2>2. PICK f : Filters(f, q, S, m - 1)
    BY <2>1
  <2> DEFINE g == [i \in 0..m |-> IF i < m THEN f[i] ELSE IF q[m] \in S THEN f[m - 1] ELSE Append(f[m - 1], q[m])]
             body(h, i) == IF i = 0 THEN <<>> ELSE IF q[i] \in S THEN h[i - 1] ELSE Append(h[i - 1], q[i])
  <2>3. f = [i \in 0..m - 1 |-> body(f, i)]
    BY <2>2 DEF Filters
  <2>4. ASSUME NEW i \in 0..m PROVE g[i] = body(g, i)
    <3>1. CASE i = m
      BY <3>1, <1>1, <1>3
    <3>2. CASE i = 0
      BY <3>2, <2>3, <1>1, <1>3
    <3>3. CASE i # m /\ i # 0
      <4>1. i \in 0..m - 1 /\ i - 1 \in 0..m /\ i - 1 < m /\ i < m
        BY <3>3, <1>1
      <4>2. g[i] = f[i] /\ g[i - 1] = f[i - 1]
        BY <4>1
      <4>3. f[i] = body(f, i)
        BY <4>1, <2>3
      <4> QED BY <4>2, <4>3
    <3> QED BY <3>1, <3>2, <3>3
  <2>5. g = [i \in 0..m |-> body(g, i)]
    BY <2>4
  <2>6. Filters(g, q, S, m)
    BY <2>5 DEF Filters
  <2> QED BY <2>6, <1>1
<1> QED BY <1>2, <1>3

\* What is left of a queue is a queue of the same items.
LEMMA WithoutType ==
  ASSUME NEW X, NEW q \in Seq(X), NEW S
  PROVE  Without(q, S) \in Seq(X)
<1> DEFINE n == Len(q)
           F == CHOOSE f : Filters(f, q, S, n)
<1>1. n \in Nat
  OBVIOUS
<1>2. Filters(F, q, S, n)
  BY <1>1, FilterExists
<1>3. Without(q, S) = F[n]
  BY DEF Without, Filters
<1>4. PICK f : f = F
  OBVIOUS
<1>5. \A i \in 0..n : f[i] = IF i = 0 THEN <<>> ELSE IF q[i] \in S THEN f[i - 1] ELSE Append(f[i - 1], q[i])
  <2> HIDE DEF F
  <2> QED BY <1>2, <1>4, Zenon DEF Filters
<1> DEFINE D == {k \in 0..n : f[k] \notin Seq(X)}
<1>6. D = {}
  <2> SUFFICES ASSUME D # {} PROVE FALSE
    OBVIOUS
  <2>1. PICK m \in D : \A k \in D : m <= k
    <3> D \subseteq Nat
      BY <1>1
    <3> HIDE DEF D
    <3> QED BY LeastExists
  <2>2. m # 0
    <3>1. f[0] = <<>>
      BY <1>5, <1>1
    <3>2. f[0] \in Seq(X)
      BY <3>1
    <3> QED BY <2>1, <3>2
  <2>3. m - 1 \in 0..n /\ m - 1 \notin D /\ m \in 1..n
    BY <2>1, <2>2, <1>1
  <2>4. f[m - 1] \in Seq(X)
    BY <2>3
  <2>5. q[m] \in X
    BY <2>3
  <2>6. Append(f[m - 1], q[m]) \in Seq(X)
    BY <2>4, <2>5, AppendProperties
  <2> QED BY <2>3, <2>4, <2>6, <2>1, <2>2, <1>5
<1> QED BY <1>1, <1>3, <1>4, <1>6

----------------------------------------------------------------------------
(* Types.                                                                   *)

LEMMA RowTypes ==
  /\ Original \in Value /\ NoRow \in Row
  /\ \A ver \in Nat, val \in Value : Accepted(ver, val) \in Row
  /\ \A row \in Row : row.ver \in Nat /\ row.val \in Value /\ row.at \in Nat
  /\ \A row \in Row, st \in {"none", "synced", "pending", "failed"} : [row EXCEPT !.status = st] \in Row
  /\ \A row \in Row, st \in {"none", "synced", "pending", "failed"}, at \in Nat : [row EXCEPT !.status = st, !.at = at] \in Row
<1>1. Original \in Value
  BY BoundAssumption DEF Original, Value, Theirs
<1> QED BY <1>1 DEF NoRow, Row, Accepted, Ver, Stamp

LEMMA PatchedType ==
  ASSUME NEW row \in Row, NEW patch, NEW n \in EditIds
  PROVE  Patched(row, patch, n) \in Row
<1>1. n \in 0..Theirs /\ n \in Nat
  BY BoundAssumption DEF Theirs, EditIds
<1>2. row.val \in Value /\ row.ver \in Nat
  BY RowTypes
<1>3. [f \in Fields |-> IF f \in patch THEN n ELSE row.val[f]] \in Value
  BY <1>1, <1>2 DEF Value
<1>4. row.ver + 1 \in Nat
  BY <1>2
<1> QED BY <1>1, <1>3, <1>4 DEF Patched, Row, Ver, Stamp

LEMMA FailedRowType ==
  ASSUME NEW row \in Row, NEW e \in Nat, reloads \in Nat
  PROVE  FailedRow(row, e) \in Row
<1>1. MaxEdits * (reloads + 1) + e \in Nat
  BY BoundAssumption
<1> QED BY <1>1, RowTypes DEF FailedRow

LEMMA CallFields ==
  ASSUME NEW c \in Call
  PROVE  /\ c.id \in Ids /\ c.way \in Ways /\ c.patch \in Patches /\ c.prev \in Row /\ c.row \in Row
         /\ c.phase \in Phase /\ c.parts \in SUBSET Fields /\ c.base \in Nat /\ c.val \in Value
         /\ c.ans \in Row /\ c.to \in Ids /\ c.lead \in 0..MaxEdits /\ c.key \in Key
         /\ c.lost \in BOOLEAN /\ c.session \in 0..MaxReloads
BY DEF Call, Ver

\* What an edit keeps from its beginning on.
Same(c, d) ==
  /\ c.id = d.id /\ c.way = d.way /\ c.patch = d.patch
  /\ c.prev = d.prev /\ c.row = d.row /\ c.session = d.session

\* c becomes d, changed in its phase alone.
Phased(c, d, p) ==
  /\ d \in Call /\ Same(d, c) /\ d.phase = p
  /\ d.parts = c.parts /\ d.base = c.base /\ d.val = c.val /\ d.ans = c.ans
  /\ d.to = c.to /\ d.lead = c.lead /\ d.key = c.key

LEMMA PhaseStep ==
  ASSUME NEW c \in Call, NEW p \in Phase
  PROVE  Phased(c, [c EXCEPT !.phase = p], p) /\ [c EXCEPT !.phase = p].lost = c.lost
<1>1. [c EXCEPT !.phase = p] \in Call
  BY DEF Call
<1> QED BY <1>1 DEF Phased, Same, Call

\* The steps that change more.
Sends(c, key, parts, base, val) ==
  [c EXCEPT !.phase = "sent", !.key = key, !.lead = 0, !.parts = parts, !.base = base, !.val = val]
Joins(c, l) == [c EXCEPT !.phase = "joined", !.lead = l]
Ends(c, p, ans, to) == [c EXCEPT !.phase = p, !.ans = ans, !.to = to]
Advances(c, p, parts, base, ans) == [c EXCEPT !.parts = parts, !.base = base, !.phase = p, !.ans = ans]
Loses(c) == [c EXCEPT !.phase = "refused", !.lost = TRUE]
Leaves(c, p) == [c EXCEPT !.key = <<>>, !.phase = p]

LEMMA SendsType ==
  ASSUME NEW c \in Call, NEW key \in Key, NEW parts \in SUBSET Fields, NEW base \in Nat, NEW val \in Value
  PROVE  /\ Sends(c, key, parts, base, val) \in Call /\ Same(Sends(c, key, parts, base, val), c)
         /\ Sends(c, key, parts, base, val).phase = "sent" /\ Sends(c, key, parts, base, val).key = key
         /\ Sends(c, key, parts, base, val).parts = parts /\ Sends(c, key, parts, base, val).base = base
         /\ Sends(c, key, parts, base, val).lost = c.lost
<1>1. 0 \in 0..MaxEdits /\ "sent" \in Phase /\ base \in Ver
  BY BoundAssumption DEF Phase, Ver
<1> QED BY <1>1 DEF Call, Same, Sends

LEMMA JoinsType ==
  ASSUME NEW c \in Call, NEW l \in 0..MaxEdits
  PROVE  /\ Joins(c, l) \in Call /\ Same(Joins(c, l), c) /\ Joins(c, l).phase = "joined"
         /\ Joins(c, l).lead = l /\ Joins(c, l).lost = c.lost
<1>1. "joined" \in Phase
  BY DEF Phase
<1> QED BY <1>1 DEF Call, Same, Joins

LEMMA EndsType ==
  ASSUME NEW c \in Call, NEW p \in Phase, NEW ans \in Row, NEW to \in Ids
  PROVE  /\ Ends(c, p, ans, to) \in Call /\ Same(Ends(c, p, ans, to), c) /\ Ends(c, p, ans, to).phase = p
         /\ Ends(c, p, ans, to).ans = ans /\ Ends(c, p, ans, to).key = c.key /\ Ends(c, p, ans, to).lost = c.lost
BY DEF Call, Same, Ends

LEMMA AdvancesType ==
  ASSUME NEW c \in Call, NEW p \in Phase, NEW parts \in SUBSET Fields, NEW base \in Nat, NEW ans \in Row
  PROVE  /\ Advances(c, p, parts, base, ans) \in Call /\ Same(Advances(c, p, parts, base, ans), c)
         /\ Advances(c, p, parts, base, ans).phase = p /\ Advances(c, p, parts, base, ans).ans = ans
         /\ Advances(c, p, parts, base, ans).parts = parts /\ Advances(c, p, parts, base, ans).base = base
         /\ Advances(c, p, parts, base, ans).key = c.key /\ Advances(c, p, parts, base, ans).lost = c.lost
BY DEF Call, Same, Advances, Ver

LEMMA LosesType ==
  ASSUME NEW c \in Call
  PROVE  Loses(c) \in Call /\ Same(Loses(c), c) /\ Loses(c).phase = "refused" /\ Loses(c).lost
<1>1. "refused" \in Phase
  BY DEF Phase
<1> QED BY <1>1 DEF Call, Same, Loses

LEMMA LeavesType ==
  ASSUME NEW c \in Call, NEW p \in Phase
  PROVE  /\ Leaves(c, p) \in Call /\ Same(Leaves(c, p), c) /\ Leaves(c, p).phase = p
         /\ Leaves(c, p).lost = c.lost /\ Leaves(c, p).ans = c.ans
<1>1. <<>> \in Key
  BY DEF Key
<1> QED BY <1>1 DEF Call, Same, Leaves

----------------------------------------------------------------------------
(* The invariant.                                                           *)

Creates(c) == Branch(c) = "create"

\* What a request of an update asks for: all its fields of the version the edit began
\* from or, when its state has been accepted, the others of the next one.
FirstPart(c) == c.parts = c.patch /\ c.base = c.prev.ver
SecondPart(c) == "state" \in c.patch /\ c.parts = c.patch \ {"state"} /\ c.base = c.prev.ver + 1
Request(c) == Creates(c) \/ FirstPart(c) \/ SecondPart(c)

\* What an edit's phase says of it; n edits have begun, and the page is in life r.
CallInv(c, n, r) ==
  /\ c.phase = "joined" => c.lead \in 1..n
  /\ c.phase \in {"answered", "settled", "done"} => c.ans.status = "synced"
  /\ c.phase = "sent" => Request(c)
  /\ c.phase = "queued" => ~Creates(c)
  /\ c.session <= r
  /\ c.phase = "shown" => c.session = r
CallsInv == \A e \in DOMAIN edits : CallInv(edits[e], Len(edits), reloads)

\* A stray request is that of an edit of an earlier life.
StrayInv == \A s \in stray : Same(s.edit, edits[s.by]) /\ Request(s.edit) /\ s.edit.session < reloads

\* No create waits in the queue.
QueueInv ==
  /\ \A i \in DOMAIN queue : ~Creates(edits[queue[i]])
  /\ \A i \in DOMAIN saved : ~Creates(edits[saved[i]])

\* The one place among the versions of a task where the edit c can change these fields.
Place(c, k, part) ==
  IF Creates(c) THEN k = 1
  ELSE IF "state" \in part THEN part = {"state"} /\ k = c.prev.ver + 1
  ELSE k = c.prev.ver + (IF "state" \in c.patch THEN 2 ELSE 1)
PlaceInv ==
  \A id \in Ids : \A k \in DOMAIN tower[id] :
    tower[id][k].by # 0 =>
      tower[id][k].by \in DOMAIN edits /\ Place(edits[tower[id][k].by], k, tower[id][k].part)

\* A fresh task is made by a create, and has no version before.
BornInv ==
  \A x \in Fresh :
    /\ born[x] = 0 => tower[x] = <<>>
    /\ born[x] # 0 => born[x] \in DOMAIN edits /\ Creates(edits[born[x]])

\* A create that may make a task or has made one: once at most, and while its page
\* lives the service knows its command, lost answers apart.
Astray(e) == \E s \in stray : s.by = e
Made(e) == \E x \in Fresh : born[x] = e
Live(e) == edits[e].phase = "sent" \/ Astray(e) \/ Made(e)
Holds(c) == c.phase \in {"sent", "answered", "settled", "done"} /\ c.key = <<c.id>>
CreateInv(e) ==
  /\ Live(e) => edits[e].session < reloads \/ edits[e].lost \/ Holds(edits[e])
  /\ edits[e].phase = "sent" => edits[e].session = reloads /\ ~Made(e) /\ ~Astray(e)
  /\ edits[e].phase = "shown" => ~Made(e) /\ ~Astray(e)
  /\ Astray(e) => ~Made(e)
CreatesInv == \A e \in DOMAIN edits : Creates(edits[e]) => CreateInv(e)
OneStray == \A s, t \in stray : s.by = t.by /\ Creates(edits[s.by]) => s = t
OneBorn == \A x, y \in Fresh : born[x] = born[y] /\ born[x] # 0 => x = y

\* Of the creates of one row in one life of the page at most one is live.
Rivals(c, d) == Creates(c) /\ Creates(d) /\ c.id = d.id /\ c.session = d.session
OneLive ==
  \A e, f \in DOMAIN edits :
    e # f /\ Rivals(edits[e], edits[f]) /\ Live(e) /\ Live(f) => edits[e].lost \/ edits[f].lost

RestInv == StrayInv /\ QueueInv /\ PlaceInv /\ BornInv /\ OneStray /\ OneBorn
LiveInv == CreatesInv /\ OneLive

PatchInv == TypeOK /\ CallsInv /\ RestInv /\ LiveInv /\ PendingIsOwed

----------------------------------------------------------------------------
(* A step of one edit.                                                      *)

LEMMA SameBranch ==
  ASSUME NEW c, NEW d, Same(c, d)
  PROVE  Branch(c) = Branch(d) /\ (Creates(c) <=> Creates(d))
BY DEF Same, Branch, Creates

\* The edits go on as they began.
Keeps ==
  /\ edits' \in Seq(Call) /\ Len(edits) <= Len(edits')
  /\ \A i \in DOMAIN edits : i \in DOMAIN edits' /\ Same(edits'[i], edits[i])

\* Edit e becomes d, the others stay.
Moves(e, d) ==
  /\ e \in DOMAIN edits /\ d \in Call /\ Same(d, edits[e])
  /\ edits' \in Seq(Call) /\ Len(edits') = Len(edits) /\ DOMAIN edits' = DOMAIN edits
  /\ edits'[e] = d /\ \A i \in DOMAIN edits : i # e => edits'[i] = edits[i]

LEMMA BecomesMoves ==
  ASSUME edits \in Seq(Call), NEW e \in DOMAIN edits, NEW d \in Call, Same(d, edits[e]), Becomes(e, d)
  PROVE  Moves(e, d)
<1>1. edits' = [edits EXCEPT ![e] = d]
  BY DEF Becomes
<1>2. edits' \in Seq(Call) /\ Len(edits') = Len(edits) /\ DOMAIN edits' = DOMAIN edits
  BY <1>1
<1> QED BY <1>1, <1>2 DEF Moves

LEMMA MovesKeeps ==
  ASSUME NEW e, NEW d, Moves(e, d), edits \in Seq(Call)
  PROVE  Keeps
<1>1. Len(edits) \in Nat /\ Len(edits) <= Len(edits')
  BY DEF Moves
<1>2. \A i \in DOMAIN edits : Same(edits'[i], edits[i])
  BY DEF Moves, Same
<1> QED BY <1>1, <1>2 DEF Keeps, Moves

LEMMA CallsMoved ==
  ASSUME CallsInv, NEW e, NEW d, Moves(e, d), CallInv(d, Len(edits), reloads), reloads' = reloads
  PROVE  CallsInv'
<1>1. Len(edits') = Len(edits) /\ DOMAIN edits' = DOMAIN edits
  BY DEF Moves
<1>2. ASSUME NEW i \in DOMAIN edits PROVE CallInv(edits'[i], Len(edits), reloads)
  BY DEF CallsInv, Moves
<1> QED BY <1>1, <1>2 DEF CallsInv

LEMMA StrayKept ==
  ASSUME TypeOK, StrayInv, OneStray, Keeps, UNCHANGED <<stray, reloads>>
  PROVE  StrayInv' /\ OneStray'
<1>1. ASSUME NEW s \in stray PROVE s.by \in DOMAIN edits /\ Same(edits'[s.by], edits[s.by])
  BY DEF TypeOK, Keeps
<1>2. ASSUME NEW s \in stray PROVE Same(s.edit, edits'[s.by]) /\ Request(s.edit) /\ s.edit.session < reloads
  BY <1>1 DEF StrayInv, Same
<1>3. ASSUME NEW s \in stray PROVE Creates(edits'[s.by]) <=> Creates(edits[s.by])
  BY <1>1, SameBranch
<1>4. StrayInv'
  BY <1>2 DEF StrayInv
<1> QED BY <1>3, <1>4 DEF OneStray

LEMMA QueueKept ==
  ASSUME TypeOK, QueueInv, Keeps, UNCHANGED <<queue, saved>>
  PROVE  QueueInv'
<1>1. ASSUME NEW i \in DOMAIN edits PROVE Creates(edits'[i]) <=> Creates(edits[i])
  BY SameBranch DEF Keeps
<1>2. \A i \in DOMAIN queue : queue[i] \in DOMAIN edits
  BY DEF TypeOK
<1>3. \A i \in DOMAIN saved : saved[i] \in DOMAIN edits
  BY DEF TypeOK
<1> QED BY <1>1, <1>2, <1>3 DEF QueueInv

LEMMA PlaceSame ==
  ASSUME NEW c, NEW d, Same(c, d), NEW k, NEW part, Place(d, k, part)
  PROVE  Place(c, k, part)
<1>1. Creates(c) <=> Creates(d)
  BY SameBranch
<1> QED BY <1>1 DEF Place, Same

LEMMA PlaceKept ==
  ASSUME PlaceInv, Keeps, UNCHANGED tower
  PROVE  PlaceInv'
<1>1. ASSUME NEW id \in Ids, NEW k \in DOMAIN tower[id], tower[id][k].by # 0
      PROVE  /\ tower[id][k].by \in DOMAIN edits'
             /\ Place(edits'[tower[id][k].by], k, tower[id][k].part)
  BY <1>1, PlaceSame DEF PlaceInv, Keeps
<1> QED BY <1>1 DEF PlaceInv

LEMMA BornKept ==
  ASSUME BornInv, OneBorn, Keeps, UNCHANGED <<tower, born>>
  PROVE  BornInv' /\ OneBorn'
<1>1. ASSUME NEW i \in DOMAIN edits PROVE Creates(edits'[i]) <=> Creates(edits[i])
  BY SameBranch DEF Keeps
<1> QED BY <1>1 DEF BornInv, OneBorn, Keeps

LEMMA RestKept ==
  ASSUME TypeOK, RestInv, Keeps, UNCHANGED <<tower, queue, saved, born, stray, reloads>>
  PROVE  RestInv'
BY StrayKept, QueueKept, PlaceKept, BornKept DEF RestInv

\* The step of a create that leaves the service's hold on it, or its answer is lost.
Stays(c, d) ==
  /\ d.phase # "sent" /\ d.phase # "shown" /\ (c.lost => d.lost)
  /\ Holds(c) => Holds(d) \/ d.lost \/ (c.phase = "sent" /\ d.phase = "refused")

LEMMA LiveKept ==
  ASSUME TypeOK, LiveInv, NEW e, NEW d, Moves(e, d), Creates(d) => Stays(edits[e], d),
         UNCHANGED <<born, stray, reloads>>
  PROVE  LiveInv'
<1>1. ASSUME NEW i \in DOMAIN edits
      PROVE  /\ i \in DOMAIN edits' /\ Same(edits'[i], edits[i])
             /\ Creates(edits'[i]) <=> Creates(edits[i])
             /\ Astray(i)' <=> Astray(i)
             /\ Made(i)' <=> Made(i)
  <2>1. Keeps
    BY MovesKeeps DEF TypeOK
  <2>2. Same(edits'[i], edits[i])
    BY <2>1 DEF Keeps
  <2>3. (Astray(i)' <=> Astray(i)) /\ (Made(i)' <=> Made(i))
    BY DEF Astray, Made
  <2> QED BY <2>2, <2>3, SameBranch DEF Moves
<1>2. ASSUME NEW i \in DOMAIN edits, Creates(edits[i])
      PROVE  /\ (Live(i)' => Live(i)) /\ (edits[i].lost => edits'[i].lost)
             /\ CreateInv(i)'
  <2>1. CreateInv(i)
    BY <1>2 DEF LiveInv, CreatesInv
  <2>2. CASE i # e
    <3>1. edits'[i] = edits[i]
      BY <2>2 DEF Moves
    <3> QED BY <3>1, <1>1, <2>1 DEF CreateInv, Live
  <2>3. CASE i = e
    <3>1. edits'[i] = d /\ Stays(edits[i], d) /\ Same(d, edits[i])
      BY <2>3, <1>1, <1>2 DEF Moves
    <3>2. Live(i)' => Live(i)
      BY <3>1, <1>1 DEF Stays, Live
    <3>3. ASSUME Live(i)' PROVE edits'[i].session < reloads \/ edits'[i].lost \/ Holds(edits'[i])
      <4>1. CASE edits[i].session < reloads
        BY <4>1, <3>1 DEF Same
      <4>2. CASE edits[i].lost
        BY <4>2, <3>1 DEF Stays
      <4>3. CASE Holds(edits[i])
        <5>1. edits[i].phase = "sent" => ~Made(i) /\ ~Astray(i)
          BY <2>1 DEF CreateInv
        <5>2. d.phase # "sent" /\ (Made(i) \/ Astray(i))
          BY <3>3, <3>1, <1>1 DEF Live, Stays
        <5> QED BY <4>3, <5>1, <5>2, <3>1 DEF Stays
      <4> QED BY <4>1, <4>2, <4>3, <3>2, <3>3, <2>1 DEF CreateInv
    <3>4. (Astray(i) => ~Made(i))
      BY <2>1 DEF CreateInv
    <3> QED BY <3>1, <3>2, <3>3, <3>4, <1>1 DEF CreateInv, Stays
  <2> QED BY <2>2, <2>3
<1>3. CreatesInv'
  BY <1>1, <1>2 DEF CreatesInv, Moves
<1>4. ASSUME NEW i \in DOMAIN edits, NEW j \in DOMAIN edits, i # j, Rivals(edits'[i], edits'[j]), Live(i)', Live(j)'
      PROVE  edits'[i].lost \/ edits'[j].lost
  <2>1. Same(edits'[i], edits[i]) /\ Same(edits'[j], edits[j]) /\ Creates(edits[i]) /\ Creates(edits[j])
    BY <1>1, <1>4 DEF Rivals
  <2>2. Rivals(edits[i], edits[j])
    BY <2>1, <1>4 DEF Rivals, Same
  <2>3. edits[i].lost \/ edits[j].lost
    BY <2>1, <2>2, <1>2, <1>4 DEF LiveInv, OneLive
  <2> QED BY <2>1, <2>3, <1>2
<1>5. OneLive'
  BY <1>4 DEF OneLive, Moves
<1> QED BY <1>3, <1>5 DEF LiveInv

----------------------------------------------------------------------------
(* Pending rows.                                                            *)

Working(c) == c.phase \notin {"done", "failed", "skipped"}

Owes(c, row) == Working(c) \/ RolledBack(c, row)

\* A step that leaves every pending row to an edit that owes it.
LEMMA OwedMoved ==
  ASSUME TypeOK, PendingIsOwed, NEW e, NEW d, Moves(e, d),
         NEW id \in Ids,
         db'[id].status = "pending" => db'[id] = db[id] \/ (d.id = id /\ Owes(d, db'[id])),
         Owes(d, db'[id]) \/ d.id # id \/ db'[id].status # "pending" \/ ~Owes(edits[e], db[id])
  PROVE  db'[id].status = "pending" => \E i \in DOMAIN edits' : edits'[i].id = id /\ Owes(edits'[i], db'[id])
<1> SUFFICES ASSUME db'[id].status = "pending"
             PROVE  \E i \in DOMAIN edits' : edits'[i].id = id /\ Owes(edits'[i], db'[id])
  OBVIOUS
<1>1. CASE d.id = id /\ Owes(d, db'[id])
  BY <1>1 DEF Moves
<1>2. CASE ~(d.id = id /\ Owes(d, db'[id]))
  <2>0. db'[id] = db[id]
    BY <1>2
  <2>1. PICK i \in DOMAIN edits : edits[i].id = id /\ Owes(edits[i], db[id])
    BY <2>0 DEF PendingIsOwed, Owes, Working
  <2>2. i # e
    BY <2>0, <2>1, <1>2 DEF Moves, Same
  <2> QED BY <2>0, <2>1, <2>2 DEF Moves
<1> QED BY <1>1, <1>2

\* No pending row loses the edit that owes it when e becomes d.
Pays(e, d) ==
  \A id \in Ids :
    /\ db'[id].status = "pending" => db'[id] = db[id] \/ (d.id = id /\ Owes(d, db'[id]))
    /\ Owes(d, db'[id]) \/ d.id # id \/ db'[id].status # "pending" \/ ~Owes(edits[e], db[id])

LEMMA PendingKept ==
  ASSUME TypeOK, PendingIsOwed, NEW e, NEW d, Moves(e, d), Pays(e, d)
  PROVE  PendingIsOwed'
BY OwedMoved DEF PendingIsOwed, Pays, Owes, Working

\* A row is put by an edit that still owes it, or is not pending.
LEMMA PutPays ==
  ASSUME TypeOK, NEW e, NEW d, NEW row, Put(d.id, row), Working(d) \/ RolledBack(d, row) \/ row.status # "pending"
  PROVE  Pays(e, d)
BY DEF TypeOK, Put, Pays, Owes

LEMMA SamePays ==
  ASSUME NEW e, NEW d, UNCHANGED db, Working(d)
  PROVE  Pays(e, d)
BY DEF Pays, Owes

LEMMA PutType ==
  ASSUME TypeOK, NEW id \in Ids, NEW row \in Row, Put(id, row)
  PROVE  db' \in [Ids -> Row]
BY DEF TypeOK, Put

LEMMA ShowType ==
  ASSUME TypeOK, NEW id \in Ids, NEW row \in Row, Show(id, row)
  PROVE  tasks' \in [Ids -> Row]
BY DEF TypeOK, Show

LEMMA TypeMoved ==
  ASSUME TypeOK, NEW e, NEW d, Moves(e, d), UNCHANGED <<canon, batch, resumed, stray, reloads, other>>,
         queue' \in Seq(DOMAIN edits), saved' \in Seq(DOMAIN edits),
         tower' \in [Ids -> Seq(Version)], db' \in [Ids -> Row], tasks' \in [Ids -> Row],
         newest' \in [Ids -> 0..MaxEdits], born' \in [Fresh -> 0..MaxEdits],
         fails' \in 0..MaxFails, lost' \in 0..MaxLost
  PROVE  TypeOK'
<1>1. /\ edits' \in Seq(Call) /\ Len(edits') <= MaxEdits /\ DOMAIN edits' = DOMAIN edits
  BY DEF Moves, TypeOK
<1> QED BY <1>1 DEF TypeOK

\* A step of one edit that leaves Tower, the queue and the history alone.
LEMMA MovedOn ==
  ASSUME PatchInv, NEW e, NEW d, Moves(e, d), CallInv(d, Len(edits), reloads), LiveInv',
         UNCHANGED <<tower, canon, queue, saved, batch, resumed, born, stray, reloads, other>>,
         db' \in [Ids -> Row], tasks' \in [Ids -> Row], newest' \in [Ids -> 0..MaxEdits],
         fails' \in 0..MaxFails, lost' \in 0..MaxLost, Pays(e, d)
  PROVE  PatchInv'
<1>1. TypeOK /\ Keeps
  BY MovesKeeps DEF PatchInv, TypeOK
<1>2. /\ queue' \in Seq(DOMAIN edits) /\ saved' \in Seq(DOMAIN edits) /\ tower' \in [Ids -> Seq(Version)]
      /\ born' \in [Fresh -> 0..MaxEdits]
  BY <1>1 DEF TypeOK
<1>3. TypeOK'
  BY <1>1, <1>2, TypeMoved
<1>4. CallsInv'
  BY CallsMoved DEF PatchInv
<1>5. RestInv'
  BY <1>1, RestKept DEF PatchInv
<1>6. PendingIsOwed'
  BY <1>1, PendingKept DEF PatchInv
<1> QED BY <1>3, <1>4, <1>5, <1>6 DEF PatchInv

LEMMA MovedStep ==
  ASSUME PatchInv, NEW e, NEW d, Moves(e, d), CallInv(d, Len(edits), reloads), Creates(d) => Stays(edits[e], d),
         UNCHANGED <<tower, canon, queue, saved, batch, resumed, born, stray, reloads, other>>,
         db' \in [Ids -> Row], tasks' \in [Ids -> Row], newest' \in [Ids -> 0..MaxEdits],
         fails' \in 0..MaxFails, lost' \in 0..MaxLost, Pays(e, d)
  PROVE  PatchInv'
<1>1. LiveInv'
  BY LiveKept DEF PatchInv
<1> QED BY <1>1, MovedOn

\* What is known of an edit.
LEMMA EditFacts ==
  ASSUME PatchInv, NEW e \in DOMAIN edits
  PROVE  /\ edits[e] \in Call /\ CallInv(edits[e], Len(edits), reloads) /\ e \in 1..Len(edits) /\ e \in EditIds
         /\ Len(edits) \in Nat /\ Len(edits) <= MaxEdits
         /\ db \in [Ids -> Row] /\ tasks \in [Ids -> Row] /\ newest \in [Ids -> 0..MaxEdits]
         /\ fails \in 0..MaxFails /\ lost \in 0..MaxLost /\ reloads \in Nat
<1>1. TypeOK /\ CallsInv
  BY DEF PatchInv
<1>2. /\ edits[e] \in Call /\ e \in 1..Len(edits) /\ Len(edits) \in Nat /\ Len(edits) <= MaxEdits
  BY <1>1 DEF TypeOK
<1>3. e \in EditIds
  BY <1>2, BoundAssumption DEF EditIds
<1> QED BY <1>1, <1>2, <1>3, BoundAssumption DEF TypeOK, CallsInv

LEMMA RefusedCall ==
  ASSUME NEW c, NEW d, NEW n, NEW r, CallInv(c, n, r), Same(d, c),
         d.phase \in {"refused", "failing", "failed", "skipped", "kept"}
  PROVE  CallInv(d, n, r) /\ d.phase # "sent" /\ d.phase # "shown"
BY DEF CallInv, Same

LEMMA FailStep ==
  ASSUME PatchInv, NEW e \in DOMAIN edits, Fail(e)
  PROVE  PatchInv'
<1> DEFINE c == edits[e]
<1>1. c \in Call /\ CallInv(c, Len(edits), reloads) /\ "refused" \in Phase
  BY EditFacts DEF Phase
<1>2. PICK d : d = [edits[e] EXCEPT !.phase = "refused"]
  OBVIOUS
<1>3. Phased(c, d, "refused") /\ d.lost = c.lost
  BY <1>1, <1>2, PhaseStep
<1>4. Moves(e, d)
  BY <1>2, <1>3, BecomesMoves DEF Fail, Phased, PatchInv, TypeOK
<1>5. CallInv(d, Len(edits), reloads)
  BY <1>1, <1>3, RefusedCall DEF Phased
<1>6. Stays(c, d) /\ Working(d)
  BY <1>3 DEF Stays, Phased, Fail, Working
<1>7. Pays(e, d)
  BY <1>6, SamePays DEF Fail
<1>8. fails' \in 0..MaxFails
  BY EditFacts, BoundAssumption DEF Fail
<1> QED BY <1>4, <1>5, <1>6, <1>7, <1>8, MovedStep, EditFacts DEF Fail, page

LEMMA LoseStep ==
  ASSUME PatchInv, NEW e \in DOMAIN edits, Lose(e)
  PROVE  PatchInv'
<1> DEFINE c == edits[e]
<1>1. c \in Call /\ CallInv(c, Len(edits), reloads)
  BY EditFacts
<1>2. PICK d : d = [edits[e] EXCEPT !.phase = "refused", !.lost = TRUE]
  OBVIOUS
<1>3. d \in Call /\ Same(d, c) /\ d.phase = "refused" /\ d.lost
  BY <1>1, <1>2, LosesType DEF Loses
<1>4. Moves(e, d)
  BY <1>2, <1>3, BecomesMoves DEF Lose, PatchInv, TypeOK
<1>5. CallInv(d, Len(edits), reloads)
  BY <1>1, <1>3, RefusedCall
<1>6. Stays(c, d) /\ Working(d)
  BY <1>3 DEF Stays, Working
<1>7. Pays(e, d)
  BY <1>6, SamePays DEF Lose
<1>8. lost' \in 0..MaxLost
  BY EditFacts, BoundAssumption DEF Lose
<1> QED BY <1>4, <1>5, <1>6, <1>7, <1>8, MovedStep, EditFacts DEF Lose, page

LEMMA KeepStep ==
  ASSUME PatchInv, NEW e \in DOMAIN edits, KeepOffline(e)
  PROVE  PatchInv'
<1> DEFINE c == edits[e]
<1>1. c \in Call /\ CallInv(c, Len(edits), reloads) /\ "kept" \in Phase
  BY EditFacts DEF Phase
<1>2. PICK d : d = [edits[e] EXCEPT !.phase = "kept"]
  OBVIOUS
<1>3. Phased(c, d, "kept") /\ d.lost = c.lost
  BY <1>1, <1>2, PhaseStep
<1>4. Moves(e, d)
  BY <1>2, <1>3, BecomesMoves DEF KeepOffline, Phased, PatchInv, TypeOK
<1>5. CallInv(d, Len(edits), reloads)
  BY <1>1, <1>3, RefusedCall DEF Phased
<1>6. Stays(c, d) /\ Working(d)
  BY <1>3 DEF Stays, Phased, KeepOffline, Working, Holds
<1>7. PICK row : row = [c.row EXCEPT !.status = c.prev.status]
  OBVIOUS
<1>8. row \in Row /\ c.id \in Ids
  <2>1. c.row \in Row /\ c.prev \in Row /\ c.id \in Ids
    BY <1>1, CallFields
  <2>2. c.prev.status \in {"none", "synced", "pending", "failed"}
    BY <2>1 DEF Row
  <2> QED BY <1>7, <2>1, <2>2, RowTypes
<1>9. Put(c.id, row) /\ Show(c.id, row)
  BY <1>7 DEF KeepOffline
<1>10. db' \in [Ids -> Row] /\ tasks' \in [Ids -> Row]
  BY <1>8, <1>9, PutType, ShowType DEF PatchInv
<1>11. Pays(e, d)
  <2>1. Put(d.id, row)
    BY <1>3, <1>9 DEF Phased, Same
  <2> QED BY <2>1, <1>6, PutPays DEF PatchInv
<1> QED BY <1>4, <1>5, <1>6, <1>10, <1>11, MovedStep, EditFacts DEF KeepOffline, page, bounds

LEMMA JoinEndsStep ==
  ASSUME PatchInv, NEW e \in DOMAIN edits, JoinEnds(e)
  PROVE  PatchInv'
<1> DEFINE c == edits[e]
           l == edits[c.lead]
<1>1. c \in Call /\ CallInv(c, Len(edits), reloads) /\ {"settled", "failing"} \subseteq Phase
  BY EditFacts DEF Phase
<1>2. c.phase = "joined" /\ UNCHANGED db
  BY DEF JoinEnds
<1>3. l \in Call /\ CallInv(l, Len(edits), reloads)
  <2>1. c.lead \in DOMAIN edits
    BY <1>1, <1>2, EditFacts DEF CallInv
  <2> QED BY <2>1, EditFacts
<1>4. PICK d : /\ Becomes(e, d) /\ d \in Call /\ Same(d, c) /\ d.phase \in {"settled", "failing"} /\ d.lost = c.lost
               /\ d.phase = "settled" => d.ans.status = "synced"
  <2>1. CASE l.phase \in {"settled", "done"} /\ Becomes(e, [c EXCEPT !.phase = "settled", !.ans = l.ans, !.to = l.to])
    <3>1. PICK d : d = [c EXCEPT !.phase = "settled", !.ans = l.ans, !.to = l.to]
      OBVIOUS
    <3>2. d \in Call /\ Same(d, c) /\ d.phase = "settled" /\ d.ans = l.ans /\ d.lost = c.lost
      <4>1. l.ans \in Row /\ l.to \in Ids /\ "settled" \in Phase
        BY <1>1, <1>3, CallFields
      <4>2. d = Ends(c, "settled", l.ans, l.to)
        BY <3>1 DEF Ends
      <4> QED BY <4>1, <4>2, <1>1, EndsType
    <3>3. d.ans.status = "synced"
      BY <3>2, <2>1, <1>3 DEF CallInv
    <3> QED BY <3>1, <3>2, <3>3, <2>1
  <2>2. CASE Becomes(e, [c EXCEPT !.phase = "failing"])
    <3>1. PICK d : d = [c EXCEPT !.phase = "failing"]
      OBVIOUS
    <3>2. Phased(c, d, "failing") /\ d.lost = c.lost
      BY <3>1, <1>1, PhaseStep
    <3> QED BY <3>1, <3>2, <2>2 DEF Phased
  <2> QED BY <2>1, <2>2 DEF JoinEnds
<1>5. Moves(e, d)
  BY <1>4, BecomesMoves DEF PatchInv, TypeOK
<1>6. CallInv(d, Len(edits), reloads)
  BY <1>1, <1>4 DEF CallInv, Same
<1>7. Stays(c, d) /\ Working(d)
  BY <1>2, <1>4 DEF Stays, Working, Holds
<1>8. Pays(e, d)
  BY <1>2, <1>7, SamePays
<1> QED BY <1>5, <1>6, <1>7, <1>8, MovedStep, EditFacts DEF JoinEnds, page, bounds

LEMMA SettleStep ==
  ASSUME PatchInv, NEW e \in DOMAIN edits, Settle(e)
  PROVE  PatchInv'
<1> DEFINE c == edits[e]
<1>1. c \in Call /\ CallInv(c, Len(edits), reloads) /\ {"settled", "failing"} \subseteq Phase
  BY EditFacts DEF Phase
<1>2. c.id \in Ids /\ c.to \in Ids /\ c.prev \in Row /\ c.ans \in Row
  BY <1>1, CallFields
<1>3. PICK p \in {"settled", "failing"} :
        /\ Becomes(e, [c EXCEPT !.phase = p])
        /\ c.phase \in {"answered", "refused"}
        /\ c.phase = "answered" /\ Creates(c) => p = "settled"
        /\ p = "settled" => c.phase = "answered"
        /\ \/ UNCHANGED db
           \/ Put(c.id, c.ans)
           \/ p = "failing" /\ Put(c.id, c.prev)
           \/ c.phase = "answered" /\ db' = [db EXCEPT ![c.id] = NoRow, ![c.to] = c.ans]
  <2>1. CASE c.phase = "answered" /\ Branch(c) # "create"
    <3>1. CASE newest[c.id] = e
      BY <2>1, <3>1 DEF Settle, Creates
    <3>2. CASE newest[c.id] # e
      BY <2>1, <3>2 DEF Settle, Creates
    <3> QED BY <3>1, <3>2
  <2>2. CASE c.phase = "answered" /\ Branch(c) = "create"
    BY <2>2 DEF Settle
  <2>3. CASE c.phase = "refused"
    BY <2>3 DEF Settle
  <2> QED BY <2>1, <2>2, <2>3 DEF Settle
<1>4. PICK d : d = [c EXCEPT !.phase = p]
  OBVIOUS
<1>5. Phased(c, d, p) /\ d.lost = c.lost
  BY <1>1, <1>4, PhaseStep
<1>6. Moves(e, d)
  BY <1>3, <1>4, <1>5, BecomesMoves DEF Phased, PatchInv, TypeOK
<1>7. c.phase = "answered" => c.ans.status = "synced"
  BY <1>1 DEF CallInv
<1>8. CallInv(d, Len(edits), reloads)
  BY <1>1, <1>3, <1>5, <1>7 DEF CallInv, Phased, Same
<1>9. Creates(d) => Creates(c)
  BY <1>5, SameBranch DEF Phased
<1>10. (Creates(d) => Stays(c, d)) /\ Working(d)
  BY <1>3, <1>5, <1>9 DEF Stays, Working, Phased, Same, Holds
<1>11. db' \in [Ids -> Row] /\ Pays(e, d)
  <2>0. db \in [Ids -> Row] /\ d.id = c.id /\ NoRow \in Row
    BY <1>5, RowTypes, EditFacts DEF Phased, Same
  <2>1. CASE UNCHANGED db
    BY <2>0, <2>1, <1>10, SamePays
  <2>2. ASSUME NEW row \in Row, Put(c.id, row) PROVE db' \in [Ids -> Row] /\ Pays(e, d)
    BY <2>0, <2>2, <1>2, <1>10, PutType, PutPays DEF PatchInv
  <2>3. CASE c.phase = "answered" /\ db' = [db EXCEPT ![c.id] = NoRow, ![c.to] = c.ans]
    <3>1. db' \in [Ids -> Row]
      BY <2>0, <2>3, <1>2
    <3>2. \A id \in Ids : db'[id] = db[id] \/ db'[id] = NoRow \/ db'[id] = c.ans
      BY <2>0, <2>3, <1>2
    <3>3. NoRow.status # "pending" /\ c.ans.status # "pending"
      BY <2>3, <1>7 DEF NoRow
    <3>4. \A id \in Ids : db'[id].status = "pending" => db'[id] = db[id]
      BY <3>2, <3>3
    <3> QED BY <3>1, <3>4, <1>10 DEF Pays, Owes
  <2> QED BY <2>1, <2>2, <2>3, <1>2, <1>3
<1> QED BY <1>6, <1>8, <1>10, <1>11, MovedStep, EditFacts DEF Settle, page, bounds

LEMMA RejectStep ==
  ASSUME PatchInv, NEW e \in DOMAIN edits, Reject(e)
  PROVE  PatchInv'
<1> DEFINE c == edits[e]
           shown == IF Exists(tasks[c.id]) THEN tasks[c.id] ELSE c.row
<1>1. c \in Call /\ CallInv(c, Len(edits), reloads) /\ "failed" \in Phase
  BY EditFacts DEF Phase
<1>2. c.id \in Ids /\ c.row \in Row /\ c.prev \in Row
  BY <1>1, CallFields
<1>3. PICK row : /\ row = IF Branch(c) = "queue" THEN FailedRow(shown, e)
                          ELSE IF c.way = "rollback" THEN c.prev ELSE FailedRow(c.row, e)
                 /\ Put(c.id, row) /\ Show(c.id, row)
  BY DEF Reject
<1>4. shown \in Row /\ e \in Nat /\ reloads \in Nat
  BY <1>2, EditFacts, BoundAssumption DEF EditIds
<1>5. row \in Row /\ (row.status = "pending" => c.way = "rollback" /\ c.prev = row)
  <2>1. \A r \in Row : FailedRow(r, e) \in Row /\ FailedRow(r, e).status = "failed"
    BY <1>4, FailedRowType DEF FailedRow, Row
  <2> HIDE DEF shown
  <2> QED BY <2>1, <1>2, <1>3, <1>4
<1>6. PICK d : d = [c EXCEPT !.phase = "failed"]
  OBVIOUS
<1>7. Phased(c, d, "failed") /\ d.lost = c.lost
  BY <1>1, <1>6, PhaseStep
<1>8. Moves(e, d)
  BY <1>6, <1>7, BecomesMoves DEF Reject, Phased, PatchInv, TypeOK
<1>9. CallInv(d, Len(edits), reloads)
  BY <1>1, <1>7, RefusedCall DEF Phased
<1>10. Stays(c, d)
  BY <1>7 DEF Stays, Phased, Reject, Holds
<1>11. db' \in [Ids -> Row] /\ tasks' \in [Ids -> Row]
  BY <1>2, <1>3, <1>5, PutType, ShowType DEF PatchInv
<1>12. Pays(e, d)
  <2>1. RolledBack(d, row) \/ row.status # "pending"
    BY <1>3, <1>5, <1>7 DEF RolledBack, Phased, Same
  <2>2. Put(d.id, row)
    BY <1>3, <1>7 DEF Phased, Same
  <2> QED BY <2>1, <2>2, PutPays DEF PatchInv
<1> QED BY <1>8, <1>9, <1>10, <1>11, <1>12, MovedStep, EditFacts DEF Reject, page, bounds

LEMMA AdoptStep ==
  ASSUME PatchInv, NEW e \in DOMAIN edits, Adopt(e)
  PROVE  PatchInv'
<1> DEFINE c == edits[e]
<1>1. c \in Call /\ CallInv(c, Len(edits), reloads) /\ "done" \in Phase
  BY EditFacts DEF Phase
<1>2. c.id \in Ids /\ c.to \in Ids /\ c.ans \in Row /\ NoRow \in Row
  BY <1>1, CallFields, RowTypes
<1>3. c.phase = "settled" /\ c.ans.status = "synced"
  BY <1>1 DEF Adopt, CallInv
<1>4. PICK d : d = [c EXCEPT !.phase = "done"]
  OBVIOUS
<1>5. Phased(c, d, "done") /\ d.lost = c.lost
  BY <1>1, <1>4, PhaseStep
<1>6. Moves(e, d)
  BY <1>4, <1>5, BecomesMoves DEF Adopt, Phased, PatchInv, TypeOK
<1>7. CallInv(d, Len(edits), reloads)
  BY <1>1, <1>3, <1>5 DEF CallInv, Phased, Same
<1>8. Stays(c, d)
  BY <1>5 DEF Stays, Phased, Same, Holds
<1>9. \/ /\ Put(c.id, c.ans)
         /\ \/ Show(c.id, c.ans)
            \/ tasks' = [tasks EXCEPT ![c.id] = c.ans]
            \/ tasks' = tasks
      \/ /\ db' = [db EXCEPT ![c.id] = NoRow, ![c.to] = c.ans]
         /\ tasks' = [tasks EXCEPT ![c.id] = NoRow, ![c.to] = c.ans]
  <2>1. CASE Branch(c) = "update"
    BY <2>1 DEF Adopt
  <2>2. CASE Branch(c) = "create"
    BY <2>2 DEF Adopt
  <2>3. CASE Branch(c) = "queue"
    BY <2>3 DEF Adopt
  <2> QED BY <2>1, <2>2, <2>3 DEF Branch
<1>10. db' \in [Ids -> Row] /\ tasks' \in [Ids -> Row]
  <2>1. db \in [Ids -> Row] /\ tasks \in [Ids -> Row]
    BY EditFacts
  <2>2. Show(c.id, c.ans) => tasks' \in [Ids -> Row]
    BY <1>2, ShowType DEF PatchInv
  <2>3. Put(c.id, c.ans) => db' \in [Ids -> Row]
    BY <1>2, PutType DEF PatchInv
  <2> QED BY <2>1, <2>2, <2>3, <1>2, <1>9
<1>11. \A id \in Ids : db'[id].status = "pending" => db'[id] = db[id] /\ id # c.id
  <2>1. db \in [Ids -> Row] /\ NoRow.status # "pending"
    BY EditFacts DEF NoRow
  <2>2. CASE Put(c.id, c.ans)
    BY <2>1, <2>2, <1>2, <1>3 DEF Put
  <2>3. CASE db' = [db EXCEPT ![c.id] = NoRow, ![c.to] = c.ans]
    BY <2>1, <2>3, <1>2, <1>3
  <2> QED BY <2>2, <2>3, <1>9
<1>12. Pays(e, d)
  BY <1>11, <1>5 DEF Pays, Phased, Same
<1> QED BY <1>6, <1>7, <1>8, <1>10, <1>12, MovedStep, EditFacts DEF Adopt, page, bounds

----------------------------------------------------------------------------
(* Commands.                                                                *)

LEMMA MutationType ==
  ASSUME NEW c \in Call, NEW row \in Row
  PROVE  MutationId(c, row) \in Key
<1>1. c.id \in Ids /\ row.ver \in Ver /\ row.at \in Stamp
  BY CallFields, RowTypes DEF Ver, Stamp
<1> QED BY <1>1 DEF MutationId, Key

\* A command is sent, when none of its mutation id is known, or joins one.
LEMMA CommandMoves ==
  ASSUME PatchInv, NEW e \in DOMAIN edits, NEW row \in Row, Command(e, row)
  PROVE  \E d : /\ Moves(e, d) /\ CallInv(d, Len(edits), reloads) /\ Working(d) /\ Pays(e, d)
                /\ db' \in [Ids -> Row] /\ newest' \in [Ids -> 0..MaxEdits] /\ d.lost = edits[e].lost
                /\ \/ d.phase = "joined"
                   \/ d.phase = "sent" /\ d.key = MutationId(edits[e], row) /\ Commands(d.key) = {}
<1> DEFINE c == edits[e]
<1>1. c \in Call /\ CallInv(c, Len(edits), reloads) /\ MutationId(c, row) \in Key
  BY EditFacts, MutationType
<1>2. c.id \in Ids /\ c.patch \in SUBSET Fields /\ c.prev.ver \in Nat /\ row.val \in Value
  BY <1>1, CallFields, RowTypes, WayAssumption
<1>3. CASE /\ Commands(MutationId(c, row)) = {} /\ Put(c.id, row)
           /\ newest' = IF Branch(c) = "create" THEN newest ELSE [newest EXCEPT ![c.id] = e]
           /\ Becomes(e, [c EXCEPT !.phase = "sent", !.key = MutationId(c, row), !.lead = 0,
                                   !.parts = c.patch, !.base = RowVersion(c), !.val = row.val])
  <2>1. PICK d : d = Sends(c, MutationId(c, row), c.patch, c.prev.ver, row.val)
    OBVIOUS
  <2>2. /\ d \in Call /\ Same(d, c) /\ d.phase = "sent" /\ d.key = MutationId(c, row)
        /\ d.parts = c.patch /\ d.base = c.prev.ver /\ d.lost = c.lost
    BY <1>1, <1>2, <2>1, SendsType
  <2>3. Becomes(e, d)
    BY <1>3, <2>1 DEF Sends, RowVersion
  <2>4. Moves(e, d)
    BY <2>2, <2>3, BecomesMoves DEF PatchInv, TypeOK
  <2>5. CallInv(d, Len(edits), reloads)
    BY <1>1, <2>2 DEF CallInv, Same, Request, FirstPart
  <2>6. Working(d) /\ d.id = c.id
    BY <2>2 DEF Working, Same
  <2>7. Pays(e, d) /\ db' \in [Ids -> Row]
    BY <1>2, <1>3, <2>6, PutPays, PutType DEF PatchInv
  <2>8. newest' \in [Ids -> 0..MaxEdits]
    <3>1. newest \in [Ids -> 0..MaxEdits] /\ e \in 0..MaxEdits
      BY EditFacts, BoundAssumption DEF EditIds
    <3> QED BY <3>1, <1>2, <1>3
  <2> QED BY <2>2, <2>4, <2>5, <2>6, <2>7, <2>8, <1>3
<1>4. ASSUME NEW l \in Commands(MutationId(c, row)),
             Becomes(e, [c EXCEPT !.phase = "joined", !.lead = l]) /\ UNCHANGED <<db, newest>>
      PROVE  \E d : /\ Moves(e, d) /\ CallInv(d, Len(edits), reloads) /\ Working(d) /\ Pays(e, d)
                    /\ db' \in [Ids -> Row] /\ newest' \in [Ids -> 0..MaxEdits] /\ d.lost = edits[e].lost
                    /\ d.phase = "joined"
  <2>0. l \in 1..Len(edits) /\ l \in 0..MaxEdits
    <3>1. l \in DOMAIN edits
      BY DEF Commands
    <3> QED BY <3>1, EditFacts, BoundAssumption DEF EditIds
  <2>1. PICK d : d = Joins(c, l)
    OBVIOUS
  <2>2. d \in Call /\ Same(d, c) /\ d.phase = "joined" /\ d.lead = l /\ d.lost = c.lost
    BY <1>1, <2>0, <2>1, JoinsType
  <2>3. Becomes(e, d)
    BY <1>4, <2>1 DEF Joins
  <2>4. Moves(e, d)
    BY <2>2, <2>3, BecomesMoves DEF PatchInv, TypeOK
  <2>5. CallInv(d, Len(edits), reloads)
    BY <1>1, <2>0, <2>2 DEF CallInv, Same
  <2>6. Working(d)
    BY <2>2 DEF Working
  <2>7. Pays(e, d)
    BY <1>4, <2>6, SamePays
  <2> QED BY <2>2, <2>4, <2>5, <2>6, <2>7, <1>4, EditFacts
<1> QED BY <1>3, <1>4 DEF Command

\* A create that is sent has no rival the service knows.
LEMMA LiveSent ==
  ASSUME PatchInv, NEW e, NEW d, Moves(e, d), Creates(d), edits[e].phase = "shown",
         d.phase = "sent", d.key = <<d.id>>, Commands(<<d.id>>) = {}, d.lost = edits[e].lost,
         UNCHANGED <<born, stray, reloads>>
  PROVE  LiveInv'
<1>0. /\ e \in DOMAIN edits /\ Same(d, edits[e]) /\ edits'[e] = d /\ DOMAIN edits' = DOMAIN edits
      /\ \A i \in DOMAIN edits : i # e => edits'[i] = edits[i]
  BY DEF Moves
<1>1. \A i : (Astray(i)' <=> Astray(i)) /\ (Made(i)' <=> Made(i))
  BY DEF Astray, Made
<1>2. Creates(edits[e]) /\ CreateInv(e) /\ edits[e].session = reloads
  <2>1. Creates(edits[e])
    BY <1>0, SameBranch
  <2>2. CallInv(edits[e], Len(edits), reloads)
    BY <1>0, EditFacts
  <2> QED BY <1>0, <2>1, <2>2 DEF PatchInv, LiveInv, CreatesInv, CallInv
<1>3. CreateInv(e)'
  <2>1. ~Made(e) /\ ~Astray(e) /\ d.session = reloads /\ Holds(d)
    BY <1>0, <1>2 DEF CreateInv, Same, Holds
  <2> QED BY <2>1, <1>0, <1>1 DEF CreateInv
<1>4. ASSUME NEW i \in DOMAIN edits, i # e
      PROVE  (Creates(edits[i]) => CreateInv(i)') /\ (Live(i)' <=> Live(i)) /\ edits'[i] = edits[i]
  <2>1. edits'[i] = edits[i]
    BY <1>0, <1>4
  <2>2. Creates(edits[i]) => CreateInv(i)
    BY DEF PatchInv, LiveInv, CreatesInv
  <2> QED BY <2>1, <2>2, <1>1 DEF CreateInv, Live
<1>5. ASSUME NEW i \in DOMAIN edits, i # e, Rivals(edits'[i], d) \/ Rivals(d, edits'[i]), Live(i)'
      PROVE  edits'[i].lost
  <2>1. Creates(edits[i]) /\ edits[i].id = d.id /\ edits[i].session = d.session /\ Live(i)
    BY <1>4, <1>5 DEF Rivals
  <2>2. d.session = reloads
    BY <1>0, <1>2 DEF Same
  <2>3. ~Holds(edits[i])
    <3>1. i \notin Commands(<<d.id>>)
      OBVIOUS
    <3> QED BY <2>1, <3>1 DEF Holds, Commands
  <2>4. CreateInv(i)
    BY <2>1 DEF PatchInv, LiveInv, CreatesInv
  <2>5. edits[i].session < reloads \/ edits[i].lost
    BY <2>1, <2>3, <2>4 DEF CreateInv
  <2>6. ~(reloads < reloads)
    BY EditFacts, <1>0
  <2>7. edits[i].lost
    BY <2>1, <2>2, <2>5, <2>6
  <2> QED BY <1>4, <1>5, <2>7
<1>6. CreatesInv'
  BY <1>0, <1>3, <1>4 DEF CreatesInv
<1>7. ASSUME NEW i \in DOMAIN edits, NEW j \in DOMAIN edits, i # j, Rivals(edits'[i], edits'[j]), Live(i)', Live(j)'
      PROVE  edits'[i].lost \/ edits'[j].lost
  <2>1. CASE i = e
    BY <2>1, <1>7, <1>5, <1>0
  <2>2. CASE j = e
    BY <2>2, <1>7, <1>5, <1>0
  <2>3. CASE i # e /\ j # e
    BY <2>3, <1>7, <1>4 DEF PatchInv, LiveInv, OneLive
  <2> QED BY <2>1, <2>2, <2>3
<1>8. OneLive'
  BY <1>0, <1>7 DEF OneLive
<1> QED BY <1>6, <1>8 DEF LiveInv

LEMMA IssueStep ==
  ASSUME PatchInv, NEW e \in DOMAIN edits, Issue(e)
  PROVE  PatchInv'
<1> DEFINE c == edits[e]
<1>1. c \in Call /\ c.row \in Row /\ c.phase = "shown" /\ Command(e, c.row)
  BY EditFacts, CallFields DEF Issue
<1>2. PICK d : /\ Moves(e, d) /\ CallInv(d, Len(edits), reloads) /\ Working(d) /\ Pays(e, d)
               /\ db' \in [Ids -> Row] /\ newest' \in [Ids -> 0..MaxEdits] /\ d.lost = edits[e].lost
               /\ \/ d.phase = "joined"
                  \/ d.phase = "sent" /\ d.key = MutationId(edits[e], c.row) /\ Commands(d.key) = {}
  BY <1>1, CommandMoves
<1>3. UNCHANGED <<tower, canon, tasks, queue, saved, batch, resumed, born, stray, bounds>>
  BY DEF Issue
<1>4. LiveInv'
  <2>1. CASE d.phase = "joined" \/ ~Creates(d)
    <3>1. Creates(d) => Stays(c, d)
      BY <2>1, <1>1, <1>2 DEF Stays, Holds
    <3> QED BY <3>1, <1>2, <1>3, LiveKept DEF PatchInv, bounds
  <2>2. CASE d.phase = "sent" /\ Creates(d)
    <3>1. d.key = <<d.id>> /\ Commands(<<d.id>>) = {}
      <4>1. Creates(c) /\ d.id = c.id
        BY <2>2, <1>2, SameBranch DEF Moves, Same
      <4> QED BY <4>1, <1>2, <2>2 DEF MutationId, Creates
    <3> QED BY <3>1, <2>2, <1>1, <1>2, <1>3, LiveSent DEF bounds
  <2> QED BY <2>1, <2>2, <1>2
<1> QED BY <1>2, <1>3, <1>4, MovedOn, EditFacts DEF bounds

LEMMA ProcessStep ==
  ASSUME PatchInv, NEW e \in DOMAIN edits, ProcessItem(e)
  PROVE  PatchInv'
<1> DEFINE c == edits[e]
           row == Stored(c.id)
           local == IF Exists(row) THEN row ELSE c.row
<1>1. c \in Call /\ c.phase = "queued" /\ CallInv(c, Len(edits), reloads) /\ ~Creates(c) /\ "skipped" \in Phase
  BY EditFacts DEF ProcessItem, CallInv, Phase
<1>2. row \in Row /\ local \in Row /\ c.id \in Ids
  BY <1>1, CallFields, EditFacts DEF Stored
<1>3. UNCHANGED <<tower, canon, tasks, queue, saved, batch, resumed, born, stray, bounds>>
  BY DEF ProcessItem
<1>4. CASE Superseded(row, c) /\ Becomes(e, [c EXCEPT !.phase = "skipped"]) /\ UNCHANGED <<db, newest>>
  <2>1. PICK d : d = [c EXCEPT !.phase = "skipped"]
    OBVIOUS
  <2>2. Phased(c, d, "skipped") /\ d.lost = c.lost
    BY <1>1, <2>1, PhaseStep
  <2>3. Moves(e, d)
    BY <1>4, <2>1, <2>2, BecomesMoves DEF Phased, PatchInv, TypeOK
  <2>4. CallInv(d, Len(edits), reloads) /\ ~Creates(d)
    BY <1>1, <2>2, RefusedCall, SameBranch DEF Phased
  <2>5. db[c.id].status # "pending"
    BY <1>4 DEF Superseded, Stored, Exists
  <2>6. Pays(e, d)
    <3>1. ASSUME NEW id \in Ids, db'[id].status = "pending" PROVE db'[id] = db[id] /\ d.id # id
      BY <3>1, <1>4, <2>5, <2>2 DEF Phased, Same
    <3> QED BY <3>1 DEF Pays
  <2> QED BY <1>3, <1>4, <2>3, <2>4, <2>6, MovedStep, EditFacts DEF bounds
<1>5. CASE Command(e, local)
  <2>1. PICK d : /\ Moves(e, d) /\ CallInv(d, Len(edits), reloads) /\ Working(d) /\ Pays(e, d)
                 /\ db' \in [Ids -> Row] /\ newest' \in [Ids -> 0..MaxEdits] /\ d.lost = edits[e].lost
    <3> HIDE DEF local
    <3> QED BY <1>2, <1>5, CommandMoves
  <2>2. ~Creates(d)
    BY <1>1, <2>1, SameBranch DEF Moves
  <2> QED BY <1>3, <2>1, <2>2, MovedStep, EditFacts DEF bounds
<1> QED BY <1>4, <1>5 DEF ProcessItem

LEMMA EnqueueStep ==
  ASSUME PatchInv, NEW e \in DOMAIN edits, Enqueue(e)
  PROVE  PatchInv'
<1> DEFINE c == edits[e]
<1>1. c \in Call /\ CallInv(c, Len(edits), reloads) /\ "queued" \in Phase /\ Branch(c) = "queue" /\ ~Creates(c)
  BY EditFacts DEF Phase, Enqueue, Creates
<1>2. PICK d : d = [edits[e] EXCEPT !.phase = "queued"]
  OBVIOUS
<1>3. Phased(c, d, "queued") /\ d.lost = c.lost
  BY <1>1, <1>2, PhaseStep
<1>4. Moves(e, d)
  BY <1>2, <1>3, BecomesMoves DEF Enqueue, Phased, PatchInv, TypeOK
<1>5. ~Creates(d) /\ Working(d)
  BY <1>1, <1>3, SameBranch DEF Phased, Working
<1>6. CallInv(d, Len(edits), reloads)
  BY <1>1, <1>3, <1>5 DEF CallInv, Phased, Same
<1>7. queue' = Append(queue, e) /\ saved' = queue' /\ queue \in Seq(DOMAIN edits)
  BY DEF Enqueue, PatchInv, TypeOK
<1>8. /\ UNCHANGED <<tower, canon, db, tasks, batch, resumed, newest, born, stray, bounds>>
      /\ TypeOK /\ Keeps
  BY <1>4, MovesKeeps DEF Enqueue, PatchInv, TypeOK
<1>9. queue' \in Seq(DOMAIN edits) /\ saved' \in Seq(DOMAIN edits)
  BY <1>7
<1>10. TypeOK'
  <2>1. /\ tower' \in [Ids -> Seq(Version)] /\ db' \in [Ids -> Row] /\ tasks' \in [Ids -> Row]
        /\ newest' \in [Ids -> 0..MaxEdits] /\ born' \in [Fresh -> 0..MaxEdits]
        /\ fails' \in 0..MaxFails /\ lost' \in 0..MaxLost
    BY <1>8 DEF TypeOK, bounds
  <2> QED BY <1>4, <1>8, <1>9, <2>1, TypeMoved DEF bounds
<1>11. CallsInv'
  BY <1>4, <1>6, <1>8, CallsMoved DEF PatchInv, bounds
<1>12. QueueInv'
  <2>1. \A i \in DOMAIN edits : Creates(edits'[i]) <=> Creates(edits[i])
    BY <1>8, SameBranch DEF Keeps
  <2>2. \A i \in DOMAIN queue : queue[i] \in DOMAIN edits /\ ~Creates(edits[queue[i]])
    BY <1>7 DEF PatchInv, RestInv, QueueInv
  <2>3. \A i \in DOMAIN queue' : queue'[i] \in DOMAIN edits /\ ~Creates(edits[queue'[i]])
    BY <1>1, <1>7, <2>2
  <2> QED BY <1>7, <2>1, <2>3 DEF QueueInv
<1>13. RestInv'
  BY <1>8, <1>12, StrayKept, PlaceKept, BornKept DEF PatchInv, RestInv, bounds
<1>14. LiveInv'
  BY <1>4, <1>5, <1>8, LiveKept DEF PatchInv, bounds
<1>15. PendingIsOwed'
  BY <1>4, <1>5, <1>8, SamePays, PendingKept DEF PatchInv
<1> QED BY <1>10, <1>11, <1>13, <1>14, <1>15 DEF PatchInv

----------------------------------------------------------------------------
(* Tower.                                                                   *)

LEMMA Adds ==
  ASSUME TypeOK, NEW id \in Ids, NEW val \in Value, NEW e \in 0..MaxEdits, NEW part \in SUBSET Fields,
         AddVersion(id, val, e, part)
  PROVE  /\ tower' \in [Ids -> Seq(Version)]
         /\ Len(tower[id]) \in Nat /\ DOMAIN tower'[id] = 1..(Len(tower[id]) + 1)
         /\ tower'[id][Len(tower[id]) + 1].by = e /\ tower'[id][Len(tower[id]) + 1].part = part
         /\ \A k \in 1..Len(tower[id]) : tower'[id][k] = tower[id][k]
         /\ \A i \in Ids : i # id => tower'[i] = tower[i]
         /\ tower'[id] # <<>>
<1>1. PICK v : v = [val |-> val, by |-> e, part |-> part]
  OBVIOUS
<1>2. v \in Version /\ v.by = e /\ v.part = part
  BY <1>1 DEF Version
<1>3. tower \in [Ids -> Seq(Version)] /\ tower[id] \in Seq(Version)
  BY DEF TypeOK
<1>4. tower' = [tower EXCEPT ![id] = Append(tower[id], v)]
  BY <1>1 DEF AddVersion
<1>5. PICK s \in Seq(Version) : s = tower[id]
  BY <1>3
<1>6. /\ Append(s, v) \in Seq(Version) /\ Len(s) \in Nat /\ Len(Append(s, v)) = Len(s) + 1
      /\ Append(s, v)[Len(s) + 1] = v /\ \A k \in 1..Len(s) : Append(s, v)[k] = s[k]
  BY <1>2, AppendProperties
<1>7. tower'[id] = Append(s, v) /\ \A i \in Ids : i # id => tower'[i] = tower[i]
  BY <1>3, <1>4, <1>5
<1>8. tower' \in [Ids -> Seq(Version)]
  BY <1>3, <1>4, <1>5, <1>6
<1>9. DOMAIN Append(s, v) = 1..(Len(s) + 1) /\ Append(s, v) # <<>>
  BY <1>6
<1> QED BY <1>2, <1>5, <1>6, <1>7, <1>8, <1>9

\* A new version is in the place of its edit.
LEMMA PlaceAdded ==
  ASSUME TypeOK, PlaceInv, Keeps, NEW id \in Ids, NEW val \in Value, NEW e \in 0..MaxEdits, NEW part \in SUBSET Fields,
         AddVersion(id, val, e, part),
         e # 0 => e \in DOMAIN edits' /\ Place(edits'[e], Len(tower[id]) + 1, part)
  PROVE  PlaceInv'
<1>1. ASSUME NEW i \in Ids, NEW k \in DOMAIN tower[i], tower[i][k].by # 0
      PROVE  tower[i][k].by \in DOMAIN edits' /\ Place(edits'[tower[i][k].by], k, tower[i][k].part)
  BY <1>1, PlaceSame DEF PlaceInv, Keeps
<1>2. ASSUME NEW i \in Ids, NEW k \in DOMAIN tower'[i], tower'[i][k].by # 0
      PROVE  tower'[i][k].by \in DOMAIN edits' /\ Place(edits'[tower'[i][k].by], k, tower'[i][k].part)
  <2>1. CASE i # id
    BY <2>1, <1>1, <1>2, Adds
  <2>2. CASE i = id /\ k # Len(tower[id]) + 1
    <3>1. k \in 1..Len(tower[id]) /\ tower'[i][k] = tower[i][k]
      BY <2>2, Adds
    <3>2. k \in DOMAIN tower[i]
      BY <3>1, <2>2 DEF TypeOK
    <3> QED BY <3>1, <3>2, <1>1, <1>2
  <2>3. CASE i = id /\ k = Len(tower[id]) + 1
    BY <2>3, <1>2, Adds
  <2> QED BY <2>1, <2>2, <2>3
<1> QED BY <1>2 DEF PlaceInv

\* A task that is known gets another version.
LEMMA BornAdded ==
  ASSUME TypeOK, BornInv, Keeps, NEW id \in Ids, NEW val \in Value, NEW e \in 0..MaxEdits, NEW part \in SUBSET Fields,
         AddVersion(id, val, e, part), Known(id), UNCHANGED born
  PROVE  BornInv'
<1>1. ASSUME NEW i \in DOMAIN edits PROVE Creates(edits'[i]) <=> Creates(edits[i])
  BY SameBranch DEF Keeps
<1>2. ASSUME NEW x \in Fresh, born[x] = 0 PROVE tower'[x] = <<>>
  <2>1. tower[x] = <<>> /\ x \in Ids
    BY <1>2 DEF BornInv, Ids
  <2>2. x # id
    BY <2>1 DEF Known
  <2> QED BY <2>1, <2>2, Adds
<1> QED BY <1>1, <1>2 DEF BornInv, Keeps

LEMMA MergedType ==
  ASSUME TypeOK, NEW id \in Ids, Known(id), NEW part, NEW val \in Value
  PROVE  Merged(id, part, val) \in Value /\ Current(id).val \in Value
<1>1. Current(id).val \in Value
  <2>1. PICK s \in Seq(Version) : s = tower[id]
    BY DEF TypeOK
  <2>2. s[Len(s)] \in Version
    BY <2>1 DEF Known
  <2>3. s[Len(s)].val \in Value
    BY <2>2 DEF Version
  <2> QED BY <2>1, <2>3 DEF Current
<1>2. PICK old \in Value : old = Current(id).val
  BY <1>1
<1>3. Merged(id, part, val) = [f \in Fields |-> IF f \in part THEN val[f] ELSE old[f]]
  BY <1>2 DEF Merged
<1>4. [f \in Fields |-> IF f \in part THEN val[f] ELSE old[f]] \in Value
  BY DEF Value
<1> QED BY <1>1, <1>3, <1>4

\* The version a request makes is in its edit's place, and what is left of the request
\* asks for the version after.
LEMMA RequestPlace ==
  ASSUME NEW c \in Call, NEW n \in Nat, ~Creates(c), Request(c), c.base = n
  PROVE  /\ Place(c, n + 1, NextPart(c.parts))
         /\ c.parts \ NextPart(c.parts) # {} => "state" \in c.patch /\ c.parts \ NextPart(c.parts) = c.patch \ {"state"}
                                                /\ n + 1 = c.prev.ver + 1
<1>1. c.prev.ver \in Nat
  BY CallFields, RowTypes
<1>2. CASE FirstPart(c)
  <2>1. CASE "state" \in c.patch
    BY <1>1, <1>2, <2>1 DEF FirstPart, NextPart, Place
  <2>2. CASE "state" \notin c.patch
    BY <1>1, <1>2, <2>2 DEF FirstPart, NextPart, Place
  <2> QED BY <2>1, <2>2
<1>3. CASE SecondPart(c)
  BY <1>1, <1>3 DEF SecondPart, NextPart, Place
<1> QED BY <1>2, <1>3 DEF Request

LEMMA UpdateStep ==
  ASSUME PatchInv, NEW e \in DOMAIN edits, TowerUpdate(e)
  PROVE  PatchInv'
<1> DEFINE c == edits[e]
           part == NextPart(c.parts)
           left == c.parts \ part
           val == Merged(c.id, part, c.val)
           version == Len(tower[c.id]) + 1
<1>1. /\ c \in Call /\ c.phase = "sent" /\ ~Creates(c) /\ Request(c) /\ CallInv(c, Len(edits), reloads)
      /\ {"answered", "sent", "refused"} \subseteq Phase /\ TypeOK
  BY EditFacts DEF TowerUpdate, Creates, CallInv, Phase, PatchInv
<1>2. c.id \in Ids /\ c.val \in Value /\ c.parts \in SUBSET Fields /\ e \in 0..MaxEdits
  BY <1>1, CallFields, EditFacts, BoundAssumption DEF EditIds
<1>3. UNCHANGED <<canon, db, tasks, saved, page, born, stray, bounds>>
  BY DEF TowerUpdate
<1>4. CASE UNCHANGED tower /\ Becomes(e, [c EXCEPT !.phase = "refused"])
  <2>1. PICK d : d = [c EXCEPT !.phase = "refused"]
    OBVIOUS
  <2>2. Phased(c, d, "refused") /\ d.lost = c.lost
    BY <1>1, <2>1, PhaseStep
  <2>3. Moves(e, d)
    BY <1>4, <2>1, <2>2, BecomesMoves DEF Phased, PatchInv, TypeOK
  <2>4. CallInv(d, Len(edits), reloads) /\ ~Creates(d)
    BY <1>1, <2>2, RefusedCall, SameBranch DEF Phased
  <2>5. Pays(e, d)
    BY <1>3, <2>2, SamePays DEF Phased, Working
  <2> QED BY <1>3, <1>4, <2>3, <2>4, <2>5, MovedStep, EditFacts DEF bounds, page
<1>5. CASE /\ Acceptable(c.id, c.base) /\ AddVersion(c.id, val, e, part)
           /\ Becomes(e, [c EXCEPT !.parts = left, !.base = version,
                                   !.phase = IF left = {} THEN "answered" ELSE "sent",
                                   !.ans = Accepted(version, val)])
  <2>1. Known(c.id) /\ c.base = Len(tower[c.id]) /\ Len(tower[c.id]) \in Nat
    BY <1>1, <1>2, <1>5 DEF Acceptable, TypeOK
  <2>2. val \in Value /\ part \in SUBSET Fields /\ left \in SUBSET Fields /\ version \in Nat
    BY <1>1, <1>2, <2>1, MergedType DEF NextPart, Fields
  <2>3. PICK ans : ans = Accepted(version, val)
    OBVIOUS
  <2>4. ans \in Row /\ ans.status = "synced"
    BY <2>2, <2>3, RowTypes DEF Accepted
  <2>5. PICK p \in {"answered", "sent"} : p = IF left = {} THEN "answered" ELSE "sent"
    OBVIOUS
  <2>6. PICK d : d = Advances(c, p, left, version, ans)
    OBVIOUS
  <2>7. /\ d \in Call /\ Same(d, c) /\ d.phase = p /\ d.parts = left /\ d.base = version /\ d.ans = ans
        /\ d.lost = c.lost
    BY <1>1, <2>2, <2>4, <2>5, <2>6, AdvancesType
  <2>8. Becomes(e, d)
    BY <1>5, <2>3, <2>5, <2>6 DEF Advances
  <2>9. Moves(e, d) /\ Keeps
    BY <1>1, <2>7, <2>8, BecomesMoves, MovesKeeps DEF TypeOK
  <2>10. /\ Place(c, version, part)
         /\ left # {} => "state" \in c.patch /\ left = c.patch \ {"state"} /\ version = c.prev.ver + 1
    BY <1>1, <2>1, RequestPlace
  <2>11. CallInv(d, Len(edits), reloads) /\ ~Creates(d) /\ Working(d)
    <3>1. p = "sent" => SecondPart(d)
      BY <2>5, <2>7, <2>10 DEF SecondPart, Same
    <3>2. ~Creates(d)
      BY <1>1, <2>7, SameBranch
    <3> QED BY <1>1, <2>4, <2>5, <2>7, <3>1, <3>2 DEF CallInv, Same, Request, Working
  <2>12. tower' \in [Ids -> Seq(Version)]
    BY <1>1, <1>2, <1>5, <2>2, Adds
  <2>13. TypeOK'
    <3>1. /\ db' \in [Ids -> Row] /\ tasks' \in [Ids -> Row]
          /\ newest' \in [Ids -> 0..MaxEdits] /\ born' \in [Fresh -> 0..MaxEdits]
          /\ fails' \in 0..MaxFails /\ lost' \in 0..MaxLost
          /\ queue' \in Seq(DOMAIN edits) /\ saved' \in Seq(DOMAIN edits)
      BY <1>1, <1>3 DEF TypeOK, page, bounds
    <3> QED BY <1>1, <1>3, <2>9, <2>12, <3>1, TypeMoved DEF page, bounds
  <2>14. CallsInv'
    BY <1>3, <2>9, <2>11, CallsMoved DEF PatchInv, bounds
  <2>15. PlaceInv'
    <3>1. edits'[e] = d /\ e \in DOMAIN edits'
      BY <2>9 DEF Moves
    <3>2. Place(d, version, part)
      BY <2>7, <2>10, PlaceSame
    <3> QED BY <1>1, <1>2, <1>5, <2>2, <2>9, <3>1, <3>2, PlaceAdded DEF PatchInv, RestInv
  <2>16. BornInv' /\ OneBorn'
    BY <1>1, <1>2, <1>3, <1>5, <2>1, <2>2, <2>9, BornAdded DEF PatchInv, RestInv, OneBorn
  <2>17. StrayInv' /\ OneStray' /\ QueueInv'
    BY <1>1, <1>3, <2>9, StrayKept, QueueKept DEF PatchInv, RestInv, page, bounds
  <2>18. LiveInv'
    BY <1>1, <1>3, <2>9, <2>11, LiveKept DEF PatchInv, bounds
  <2>19. PendingIsOwed'
    BY <1>1, <1>3, <2>9, <2>11, SamePays, PendingKept DEF PatchInv
  <2> QED BY <2>13, <2>14, <2>15, <2>16, <2>17, <2>18, <2>19 DEF PatchInv, RestInv
<1> QED BY <1>4, <1>5 DEF TowerUpdate

\* A create makes a task that nobody has made.
LEMMA BornMade ==
  ASSUME TypeOK, BornInv, OneBorn, PlaceInv, Keeps, NEW x \in Fresh, NEW val \in Value, NEW e \in 1..MaxEdits,
         born[x] = 0, born' = [born EXCEPT ![x] = e], AddVersion(x, val, e, Fields),
         e \in DOMAIN edits', Creates(edits'[e]), ~Made(e)
  PROVE  /\ BornInv' /\ OneBorn' /\ PlaceInv' /\ born' \in [Fresh -> 0..MaxEdits]
         /\ tower' \in [Ids -> Seq(Version)]
         /\ \A i : i # 0 /\ i # e => (Made(i)' <=> Made(i))
<1>1. x \in Ids /\ e \in 0..MaxEdits /\ e # 0 /\ Fields \in SUBSET Fields
  BY BoundAssumption DEF Ids
<1>2. tower[x] = <<>> /\ Len(tower[x]) = 0 /\ born \in [Fresh -> 0..MaxEdits]
  BY DEF BornInv, TypeOK
<1>3. PlaceInv'
  <2>1. Place(edits'[e], Len(tower[x]) + 1, Fields)
    BY <1>2 DEF Place
  <2> QED BY <2>1, <1>1, PlaceAdded
<1>4. tower' \in [Ids -> Seq(Version)] /\ \A i \in Ids : i # x => tower'[i] = tower[i]
  BY <1>1, Adds
<1>5. born'[x] = e /\ \A y \in Fresh : y # x => born'[y] = born[y]
  BY <1>2
<1>6. BornInv'
  <2>1. ASSUME NEW i \in DOMAIN edits PROVE Creates(edits'[i]) <=> Creates(edits[i])
    BY SameBranch DEF Keeps
  <2>2. ASSUME NEW y \in Fresh, y # x
        PROVE  /\ born'[y] = 0 => tower'[y] = <<>>
               /\ born'[y] # 0 => born'[y] \in DOMAIN edits' /\ Creates(edits'[born'[y]])
    <3>1. y \in Ids
      BY DEF Ids
    <3> QED BY <3>1, <2>1, <2>2, <1>4, <1>5 DEF BornInv, Keeps
  <2> QED BY <2>2, <1>1, <1>5 DEF BornInv
<1>7. OneBorn'
  BY <1>5 DEF OneBorn, Made
<1>8. \A i : i # 0 /\ i # e => (Made(i)' <=> Made(i))
  BY <1>5 DEF Made
<1>9. born' \in [Fresh -> 0..MaxEdits]
  BY <1>1, <1>2
<1> QED BY <1>3, <1>4, <1>6, <1>7, <1>8, <1>9

LEMMA CreateStep ==
  ASSUME PatchInv, NEW e \in DOMAIN edits, NEW x \in Fresh, TowerCreate(e, x)
  PROVE  PatchInv'
<1> DEFINE c == edits[e]
<1>1. /\ c \in Call /\ c.phase = "sent" /\ Creates(c) /\ CallInv(c, Len(edits), reloads)
      /\ "answered" \in Phase /\ TypeOK /\ born[x] = 0
  BY EditFacts DEF TowerCreate, Creates, Phase, PatchInv
<1>2. x \in Ids /\ c.val \in Value /\ e \in 1..MaxEdits /\ e # 0
  BY <1>1, CallFields, EditFacts, BoundAssumption DEF EditIds, Ids
<1>3. UNCHANGED <<canon, db, tasks, saved, page, stray, bounds>> /\ AddVersion(x, c.val, e, Fields)
      /\ born' = [born EXCEPT ![x] = e]
  BY DEF TowerCreate
<1>4. PICK ans : ans = Accepted(1, c.val)
  OBVIOUS
<1>5. ans \in Row /\ ans.status = "synced"
  BY <1>2, <1>4, RowTypes DEF Accepted
<1>6. PICK d : d = Ends(c, "answered", ans, x)
  OBVIOUS
<1>7. d \in Call /\ Same(d, c) /\ d.phase = "answered" /\ d.ans = ans /\ d.key = c.key /\ d.lost = c.lost
  BY <1>1, <1>2, <1>5, <1>6, EndsType
<1>8. Becomes(e, d)
  <2>1. d = [c EXCEPT !.phase = "answered", !.to = x, !.ans = ans]
    BY <1>1, <1>6 DEF Ends, Call
  <2> QED BY <2>1, <1>4 DEF TowerCreate
<1>9. Moves(e, d) /\ Keeps
  BY <1>1, <1>7, <1>8, BecomesMoves, MovesKeeps DEF TypeOK
<1>10. edits'[e] = d /\ DOMAIN edits' = DOMAIN edits /\ \A i \in DOMAIN edits : i # e => edits'[i] = edits[i]
  BY <1>9 DEF Moves
<1>11. CallInv(d, Len(edits), reloads) /\ Creates(d) /\ Working(d)
  <2>1. Creates(d)
    BY <1>1, <1>7, SameBranch
  <2> QED BY <1>1, <1>5, <1>7, <2>1 DEF CallInv, Same, Working
<1>12. CreateInv(e)
  BY <1>1 DEF PatchInv, LiveInv, CreatesInv
<1>13. /\ BornInv' /\ OneBorn' /\ PlaceInv' /\ born' \in [Fresh -> 0..MaxEdits]
       /\ tower' \in [Ids -> Seq(Version)]
       /\ \A i : i # 0 /\ i # e => (Made(i)' <=> Made(i))
  <2>1. ~Made(e)
    BY <1>1, <1>12 DEF CreateInv
  <2> QED BY <2>1, <1>1, <1>2, <1>3, <1>9, <1>10, <1>11, BornMade DEF PatchInv, RestInv
<1>14. TypeOK'
  <2>1. /\ db' \in [Ids -> Row] /\ tasks' \in [Ids -> Row] /\ newest' \in [Ids -> 0..MaxEdits]
        /\ fails' \in 0..MaxFails /\ lost' \in 0..MaxLost
        /\ queue' \in Seq(DOMAIN edits) /\ saved' \in Seq(DOMAIN edits)
    BY <1>1, <1>3 DEF TypeOK, page, bounds
  <2> QED BY <1>1, <1>3, <1>9, <1>13, <2>1, TypeMoved DEF page, bounds
<1>15. CallsInv'
  BY <1>3, <1>9, <1>11, CallsMoved DEF PatchInv, bounds
<1>16. StrayInv' /\ OneStray' /\ QueueInv'
  BY <1>1, <1>3, <1>9, StrayKept, QueueKept DEF PatchInv, RestInv, page, bounds
<1>17. PendingIsOwed'
  BY <1>1, <1>3, <1>9, <1>11, SamePays, PendingKept DEF PatchInv
<1>18. LiveInv'
  <2>1. ASSUME NEW i \in DOMAIN edits
        PROVE  /\ Live(i)' <=> Live(i)
               /\ Creates(edits'[i]) => CreateInv(i)'
               /\ edits'[i].lost = edits[i].lost /\ Same(edits'[i], edits[i])
    <3>1. (Astray(i)' <=> Astray(i)) /\ i # 0
      BY <1>1, <1>3 DEF Astray, TypeOK
    <3>2. CASE i = e
      <4>1. Live(i) /\ Live(i)'
        <5>1. Made(i)'
          BY <3>2, <1>2, <1>3, <1>1 DEF Made, TypeOK
        <5> QED BY <5>1, <3>2, <1>1 DEF Live
      <4>2. ~Astray(i)
        BY <3>2, <1>1, <1>12 DEF CreateInv
      <4>3. edits[i].session < reloads \/ edits[i].lost \/ Holds(edits[i])
        BY <3>2, <4>1, <1>12 DEF CreateInv
      <4>4. d.session < reloads \/ d.lost \/ Holds(d)
        BY <3>2, <4>3, <1>7 DEF Same, Holds
      <4> QED BY <3>1, <3>2, <4>1, <4>2, <4>4, <1>3, <1>7, <1>10 DEF CreateInv, bounds
    <3>3. CASE i # e
      <4>1. edits'[i] = edits[i] /\ (Made(i)' <=> Made(i))
        BY <3>1, <3>3, <1>10, <1>13
      <4>2. Creates(edits[i]) => CreateInv(i)
        BY DEF PatchInv, LiveInv, CreatesInv
      <4> QED BY <3>1, <4>1, <4>2, <1>3 DEF CreateInv, Live, Same, bounds
    <3> QED BY <3>2, <3>3
  <2>2. ASSUME NEW i \in DOMAIN edits, NEW j \in DOMAIN edits, i # j, Rivals(edits'[i], edits'[j]), Live(i)', Live(j)'
        PROVE  edits'[i].lost \/ edits'[j].lost
    <3>1. Creates(edits[i]) /\ Creates(edits[j])
      BY <2>1, <2>2, SameBranch DEF Rivals
    <3>2. Rivals(edits[i], edits[j])
      BY <2>1, <2>2, <3>1 DEF Rivals, Same
    <3> QED BY <3>2, <2>1, <2>2 DEF PatchInv, LiveInv, OneLive
  <2> QED BY <1>10, <2>1, <2>2 DEF LiveInv, CreatesInv, OneLive
<1> QED BY <1>13, <1>14, <1>15, <1>16, <1>17, <1>18 DEF PatchInv, RestInv

----------------------------------------------------------------------------
(* Steps that leave the edits as they are.                                  *)

LEMMA StillKeeps ==
  ASSUME edits \in Seq(Call), UNCHANGED edits
  PROVE  Keeps
<1>1. Len(edits) \in Nat
  OBVIOUS
<1> QED BY <1>1 DEF Keeps, Same

LEMMA StillStep ==
  ASSUME PatchInv, UNCHANGED <<edits, born, stray, reloads>>, TypeOK', PlaceInv', BornInv', QueueInv',
         \A id \in Ids : db'[id].status = "pending" => db'[id] = db[id]
  PROVE  PatchInv'
<1>1. TypeOK /\ Keeps
  BY StillKeeps DEF PatchInv, TypeOK
<1>2. StrayInv' /\ OneStray'
  BY <1>1, StrayKept DEF PatchInv, RestInv
<1>3. OneBorn'
  BY DEF PatchInv, RestInv, OneBorn
<1>4. CallsInv'
  BY DEF PatchInv, CallsInv
<1>5. LiveInv'
  BY DEF PatchInv, LiveInv, CreatesInv, OneLive, CreateInv, Live, Astray, Made
<1>6. PendingIsOwed'
  BY DEF PatchInv, PendingIsOwed
<1> QED BY <1>2, <1>3, <1>4, <1>5, <1>6 DEF PatchInv, RestInv

LEMMA LiveQueryStep ==
  ASSUME PatchInv, LiveQuery
  PROVE  PatchInv'
<1>1. TypeOK /\ tasks' = OnScreen(db)
  BY DEF PatchInv, LiveQuery
<1>2. OnScreen(db) \in [Ids -> Row]
  BY <1>1, RowTypes DEF TypeOK, OnScreen
<1>3. UNCHANGED <<tower, canon, db, edits, queue, saved, page, born, stray, bounds>>
  BY DEF LiveQuery
<1>4. TypeOK'
  BY <1>1, <1>2, <1>3 DEF TypeOK, page, bounds
<1>5. PlaceInv' /\ BornInv' /\ QueueInv'
  BY <1>3 DEF PatchInv, RestInv, PlaceInv, BornInv, QueueInv
<1> QED BY <1>3, <1>4, <1>5, StillStep DEF bounds

LEMMA PullStep ==
  ASSUME PatchInv, NEW id \in Ids, Pull(id)
  PROVE  PatchInv'
<1>1. TypeOK /\ UNCHANGED <<tower, tasks, edits, queue, saved, page, born, stray, bounds>>
  BY DEF PatchInv, Pull
<1>2. Len(tower[id]) \in Nat /\ canon[id] \in Nat /\ canon[id] < Len(tower[id])
  BY <1>1 DEF TypeOK, Ver, Pull
<1>3. Current(id).val \in Value
  <2>1. Known(id)
    BY <1>2 DEF Known
  <2>2. Original \in Value
    BY RowTypes
  <2> QED BY <2>1, <2>2, <1>1, MergedType
<1>4. PICK row \in Row : row = Accepted(Len(tower[id]), Current(id).val) /\ row.status = "synced"
  BY <1>2, <1>3, RowTypes DEF Accepted
<1>5. UNCHANGED db \/ Put(id, row)
  BY <1>4 DEF Pull
<1>6. db' \in [Ids -> Row] /\ \A i \in Ids : db'[i].status = "pending" => db'[i] = db[i]
  <2>1. row.status # "pending"
    BY <1>4
  <2> QED BY <2>1, <1>1, <1>5 DEF TypeOK, Put
<1>7. canon' \in [Ids -> Ver]
  BY <1>1, <1>2 DEF TypeOK, Pull, Ver
<1>8. TypeOK'
  BY <1>1, <1>6, <1>7 DEF TypeOK, page, bounds
<1>9. PlaceInv' /\ BornInv' /\ QueueInv'
  BY <1>1 DEF PatchInv, RestInv, PlaceInv, BornInv, QueueInv, page
<1> QED BY <1>1, <1>6, <1>8, <1>9, StillStep DEF bounds

LEMMA OtherStep ==
  ASSUME PatchInv, NEW id \in Ids, NEW f \in Fields, OtherEdit(id, f)
  PROVE  PatchInv'
<1>1. /\ TypeOK /\ UNCHANGED <<canon, db, tasks, edits, queue, saved, page, born, stray, reloads, fails, lost>>
      /\ Known(id) /\ other' = other + 1 /\ other < MaxOther
  BY DEF PatchInv, OtherEdit
<1>2. PICK val : val = [Current(id).val EXCEPT ![f] = Theirs]
  OBVIOUS
<1>3. val \in Value
  <2>1. Original \in Value
    BY RowTypes
  <2>2. PICK old \in Value : old = Current(id).val
    BY <1>1, <2>1, MergedType
  <2>3. Theirs \in 0..Theirs
    BY BoundAssumption DEF Theirs
  <2>4. val = [old EXCEPT ![f] = Theirs]
    BY <1>2, <2>2
  <2> QED BY <2>3, <2>4 DEF Value
<1>4. AddVersion(id, val, 0, {f}) /\ 0 \in 0..MaxEdits /\ {f} \in SUBSET Fields
  BY <1>2, BoundAssumption DEF OtherEdit
<1>5. tower' \in [Ids -> Seq(Version)]
  BY <1>1, <1>3, <1>4, Adds
<1>6. Keeps
  BY <1>1, StillKeeps DEF TypeOK
<1>7. PlaceInv' /\ BornInv'
  BY <1>1, <1>3, <1>4, <1>6, PlaceAdded, BornAdded DEF PatchInv, RestInv
<1>8. other' \in 0..MaxOther
  BY <1>1, BoundAssumption DEF TypeOK
<1>9. TypeOK'
  BY <1>1, <1>5, <1>8 DEF TypeOK, page
<1>10. QueueInv'
  BY <1>1 DEF PatchInv, RestInv, QueueInv, page
<1> QED BY <1>1, <1>7, <1>9, <1>10, StillStep

LEMMA StartStep ==
  ASSUME PatchInv, StartBatch
  PROVE  PatchInv'
<1>1. /\ TypeOK /\ batch' = SelectBatch(queue)
      /\ UNCHANGED <<tower, canon, db, tasks, edits, queue, saved, resumed, newest, born, stray, bounds>>
  BY DEF PatchInv, StartBatch
<1>2. SelectBatch(queue) \subseteq DOMAIN edits
  <2>1. \A i \in DOMAIN queue : queue[i] \in DOMAIN edits
    BY <1>1 DEF TypeOK
  <2> QED BY <2>1 DEF SelectBatch
<1>3. TypeOK'
  BY <1>1, <1>2 DEF TypeOK, bounds
<1>4. PlaceInv' /\ BornInv' /\ QueueInv'
  BY <1>1 DEF PatchInv, RestInv, PlaceInv, BornInv, QueueInv
<1> QED BY <1>1, <1>3, <1>4, StillStep DEF bounds

\* The edits that may wait in the queue.
Waiting == {i \in DOMAIN edits : ~Creates(edits[i])}

LEMMA QueueOfWaiting ==
  ASSUME TypeOK, QueueInv
  PROVE  queue \in Seq(Waiting) /\ saved \in Seq(Waiting)
<1>1. \A i \in DOMAIN queue : queue[i] \in Waiting
  BY DEF TypeOK, QueueInv, Waiting
<1>2. \A i \in DOMAIN saved : saved[i] \in Waiting
  BY DEF TypeOK, QueueInv, Waiting
<1> QED BY <1>1, <1>2 DEF TypeOK

LEMMA WaitingQueue ==
  ASSUME NEW q \in Seq(Waiting)
  PROVE  q \in Seq(DOMAIN edits) /\ \A i \in DOMAIN q : ~Creates(edits[q[i]])
<1>1. \A i \in DOMAIN q : q[i] \in DOMAIN edits /\ ~Creates(edits[q[i]])
  BY DEF Waiting
<1> QED BY <1>1

LEMMA FinishStep ==
  ASSUME PatchInv, FinishBatch
  PROVE  PatchInv'
<1>1. /\ TypeOK /\ QueueInv /\ queue' = Without(queue, batch) /\ saved' = queue' /\ batch' = {}
      /\ UNCHANGED <<tower, canon, db, tasks, edits, resumed, newest, born, stray, bounds>>
  BY DEF PatchInv, RestInv, FinishBatch
<1>2. queue' \in Seq(Waiting)
  <2>1. queue \in Seq(Waiting)
    BY <1>1, QueueOfWaiting
  <2> QED BY <2>1, <1>1, WithoutType
<1>3. queue' \in Seq(DOMAIN edits) /\ \A i \in DOMAIN queue' : ~Creates(edits[queue'[i]])
  BY <1>2, WaitingQueue
<1>4. TypeOK'
  BY <1>1, <1>3 DEF TypeOK, bounds
<1>5. PlaceInv' /\ BornInv' /\ QueueInv'
  BY <1>1, <1>3 DEF PatchInv, RestInv, PlaceInv, BornInv, QueueInv
<1> QED BY <1>1, <1>4, <1>5, StillStep DEF bounds

----------------------------------------------------------------------------
(* Stray requests.                                                          *)

LEMMA StrayStep ==
  ASSUME PatchInv, NEW s \in stray, StrayArrives(s)
  PROVE  PatchInv'
<1> DEFINE c == s.edit
           e == s.by
           part == NextPart(c.parts)
           val == Merged(c.id, part, c.val)
<1>1. /\ TypeOK /\ stray' = stray \ {s}
      /\ UNCHANGED <<canon, db, tasks, edits, queue, saved, page, bounds>>
  BY DEF PatchInv, StrayArrives
<1>2. /\ c \in Call /\ e \in DOMAIN edits /\ Same(c, edits[e]) /\ Request(c) /\ c.session < reloads
      /\ e \in 0..MaxEdits /\ e \in 1..MaxEdits /\ e # 0
  <2>1. c \in Call /\ e \in DOMAIN edits
    BY <1>1 DEF TypeOK
  <2>2. e \in 1..MaxEdits
    BY <2>1, EditFacts DEF EditIds
  <2> QED BY <2>1, <2>2, BoundAssumption DEF PatchInv, RestInv, StrayInv
<1>3. c.id \in Ids /\ c.val \in Value /\ c.parts \in SUBSET Fields
  BY <1>2, CallFields
<1>4. Keeps /\ (Creates(c) <=> Creates(edits[e]))
  BY <1>1, <1>2, StillKeeps, SameBranch DEF TypeOK
<1>5. \A i : (Astray(i)' => Astray(i)) /\ (Astray(i) => i # 0)
  BY <1>1 DEF Astray, TypeOK
<1>6. /\ tower' \in [Ids -> Seq(Version)] /\ born' \in [Fresh -> 0..MaxEdits]
      /\ PlaceInv' /\ BornInv' /\ OneBorn'
      /\ \A i \in DOMAIN edits : Creates(edits[i]) => (Made(i)' <=> Made(i)) \/ (i = e /\ ~Astray(i)')
  <2>1. CASE Creates(c)
    <3>1. PICK x \in Fresh : /\ born[x] = 0 /\ born' = [born EXCEPT ![x] = e]
                             /\ AddVersion(x, c.val, e, Fields)
      BY <2>1 DEF StrayArrives, Creates
    <3>2. ~Made(e)
      <4>1. Astray(e) /\ CreateInv(e)
        BY <1>2, <1>4, <2>1 DEF Astray, PatchInv, LiveInv, CreatesInv
      <4> QED BY <4>1 DEF CreateInv
    <3>3. ~Astray(e)'
      <4>1. \A t \in stray : t.by = e => t = s
        BY <2>1, <1>4 DEF PatchInv, RestInv, OneStray
      <4> QED BY <4>1, <1>1 DEF Astray
    <3>4. e \in DOMAIN edits' /\ Creates(edits'[e])
      BY <1>1, <1>2, <1>4, <2>1
    <3>5. \A i \in DOMAIN edits : i # 0
      BY <1>1 DEF TypeOK
    <3>6. /\ BornInv' /\ OneBorn' /\ PlaceInv' /\ born' \in [Fresh -> 0..MaxEdits]
          /\ tower' \in [Ids -> Seq(Version)]
          /\ \A i : i # 0 /\ i # e => (Made(i)' <=> Made(i))
      <4> HIDE DEF e, c
      <4> QED BY <1>1, <1>2, <1>3, <1>4, <3>1, <3>2, <3>4, BornMade DEF PatchInv, RestInv
    <3> QED BY <3>3, <3>5, <3>6
  <2>2. CASE ~Creates(c)
    <3>1. UNCHANGED born /\ \/ Acceptable(c.id, c.base) /\ AddVersion(c.id, val, e, part)
                            \/ UNCHANGED tower
      BY <2>2 DEF StrayArrives, Creates
    <3>2. OneBorn' /\ born' \in [Fresh -> 0..MaxEdits] /\ \A i : Made(i)' <=> Made(i)
      BY <1>1, <3>1 DEF PatchInv, RestInv, OneBorn, TypeOK, Made
    <3>3. CASE UNCHANGED tower
      BY <1>1, <1>4, <3>1, <3>2, <3>3, PlaceKept, BornKept DEF PatchInv, RestInv, TypeOK
    <3>4. CASE Acceptable(c.id, c.base) /\ AddVersion(c.id, val, e, part)
      <4>1. Known(c.id) /\ c.base = Len(tower[c.id]) /\ Len(tower[c.id]) \in Nat
        BY <1>1, <1>3, <3>4 DEF Acceptable, TypeOK
      <4>2. val \in Value /\ part \in SUBSET Fields
        BY <1>1, <1>3, <4>1, MergedType DEF NextPart, Fields
      <4>3. Place(c, Len(tower[c.id]) + 1, part)
        BY <1>2, <2>2, <4>1, RequestPlace
      <4>4. e \in DOMAIN edits' /\ Place(edits'[e], Len(tower[c.id]) + 1, part)
        <5>1. Same(edits[e], c)
          BY <1>2 DEF Same
        <5> QED BY <5>1, <4>3, <1>1, <1>2, PlaceSame
      <4>5. PlaceInv' /\ BornInv' /\ tower' \in [Ids -> Seq(Version)]
        <5> HIDE DEF c, e, part, val
        <5> QED BY <1>1, <1>2, <1>3, <1>4, <3>1, <3>4, <4>1, <4>2, <4>4, PlaceAdded, BornAdded, Adds DEF PatchInv, RestInv
      <4> QED BY <4>5, <3>2
    <3> QED BY <3>1, <3>3, <3>4
  <2> QED BY <2>1, <2>2
<1>7. TypeOK'
  BY <1>1, <1>6 DEF TypeOK, page, bounds
<1>8. StrayInv' /\ OneStray' /\ QueueInv' /\ CallsInv'
  BY <1>1 DEF PatchInv, RestInv, StrayInv, OneStray, QueueInv, CallsInv, page, bounds
<1>9. PendingIsOwed'
  BY <1>1 DEF PatchInv, PendingIsOwed
<1>10. LiveInv'
  <2>1. ASSUME NEW i \in DOMAIN edits, Creates(edits[i])
        PROVE  CreateInv(i)' /\ (Live(i)' => Live(i))
    <3>1. CreateInv(i)
      BY <2>1 DEF PatchInv, LiveInv, CreatesInv
    <3>2. CASE Made(i)' <=> Made(i)
      BY <3>1, <3>2, <1>1, <1>5 DEF CreateInv, Live, bounds
    <3>3. CASE i = e /\ ~Astray(i)'
      <4>1. Astray(i) /\ edits[i].session < reloads
        BY <3>3, <1>2 DEF Astray, Same
      <4> QED BY <3>1, <3>3, <4>1, <1>1 DEF CreateInv, Live, bounds
    <3> QED BY <3>2, <3>3, <2>1, <1>6
  <2> QED BY <2>1, <1>1 DEF PatchInv, LiveInv, CreatesInv, OneLive, Rivals
<1> QED BY <1>6, <1>7, <1>8, <1>9, <1>10 DEF PatchInv, RestInv

----------------------------------------------------------------------------
(* A new edit.                                                              *)

LEMMA EditStep ==
  ASSUME PatchInv, NEW id \in Ids, NEW way \in Ways, NEW patch \in Patches, Edit(id, way, patch)
  PROVE  PatchInv'
<1>0. PICK n : n = Len(edits) + 1
  OBVIOUS
<1>1. PICK c : c = NewEdit(id, way, patch)
  OBVIOUS
<1>2. /\ TypeOK /\ Len(edits) < MaxEdits
      /\ edits' = Append(edits, c) /\ Put(id, c.row) /\ tasks' = [tasks EXCEPT ![id] = c.row]
      /\ UNCHANGED <<tower, canon, saved, page, born, stray, bounds>>
  BY <1>1 DEF PatchInv, Edit
<1>3. /\ edits \in Seq(Call) /\ Len(edits) \in Nat /\ n \in EditIds /\ n # 0 /\ tasks \in [Ids -> Row]
      /\ reloads \in 0..MaxReloads /\ n \notin DOMAIN edits
  BY <1>0, <1>2, BoundAssumption DEF TypeOK, EditIds
<1>4. c \in Call /\ c.id = id /\ c.phase = "shown" /\ c.session = reloads
  <2>1. tasks[id] \in Row /\ Patched(tasks[id], patch, n) \in Row
    BY <1>3, PatchedType
  <2>2. Original \in Value /\ NoRow \in Row
    BY RowTypes
  <2>3. /\ "shown" \in Phase /\ {} \in SUBSET Fields /\ 0 \in Ver /\ <<>> \in Key
        /\ 0 \in 0..MaxEdits /\ FALSE \in BOOLEAN
    BY BoundAssumption DEF Phase, Ver, Key
  <2> QED BY <1>0, <1>1, <1>3, <2>1, <2>2, <2>3 DEF NewEdit, Call
<1>5. /\ edits' \in Seq(Call) /\ Len(edits') = n /\ edits'[n] = c /\ DOMAIN edits' = DOMAIN edits \cup {n}
      /\ \A i \in DOMAIN edits : edits'[i] = edits[i]
  BY <1>0, <1>2, <1>3, <1>4
<1>6. Keeps
  BY <1>0, <1>3, <1>5 DEF Keeps, Same
<1>7. TypeOK'
  <2>1. c.row \in Row
    BY <1>4, CallFields
  <2>2. db' \in [Ids -> Row] /\ tasks' \in [Ids -> Row]
    BY <2>1, <1>2, <1>3, PutType
  <2>3. queue' \in Seq(DOMAIN edits') /\ saved' \in Seq(DOMAIN edits') /\ batch' \subseteq DOMAIN edits'
    <3>1. queue \in Seq(DOMAIN edits) /\ saved \in Seq(DOMAIN edits) /\ batch \subseteq DOMAIN edits
      BY <1>2 DEF TypeOK
    <3>2. queue' = queue /\ saved' = saved /\ batch' = batch
      BY <1>2 DEF page
    <3> QED BY <3>1, <3>2, <1>5
  <2>4. stray' \subseteq [by : DOMAIN edits', edit : Call]
    BY <1>2, <1>5 DEF TypeOK
  <2>5. Len(edits') <= MaxEdits
    BY <1>0, <1>2, <1>3, <1>5, BoundAssumption
  <2> QED BY <1>2, <1>5, <2>2, <2>3, <2>4, <2>5 DEF TypeOK, page, bounds
<1>8. CallsInv'
  <2>1. ASSUME NEW i \in DOMAIN edits PROVE CallInv(edits'[i], n, reloads)
    <3>1. edits'[i] = edits[i] /\ CallInv(edits[i], Len(edits), reloads)
      BY <1>5 DEF PatchInv, CallsInv
    <3> QED BY <3>1, <1>0, <1>3 DEF CallInv
  <2>2. CallInv(c, n, reloads)
    BY <1>3, <1>4 DEF CallInv
  <2> QED BY <1>2, <1>5, <2>1, <2>2 DEF CallsInv, bounds
<1>9. RestInv'
  BY <1>2, <1>6, RestKept DEF PatchInv, page, bounds
<1>10. LiveInv'
  <2>1. \A i : (Astray(i)' <=> Astray(i)) /\ (Made(i)' <=> Made(i))
    BY <1>2 DEF Astray, Made
  <2>2. ~Astray(n) /\ ~Made(n)
    BY <1>2, <1>3 DEF Astray, Made, TypeOK, PatchInv, RestInv, BornInv
  <2>3. ~Live(n)' /\ CreateInv(n)'
    BY <2>1, <2>2, <1>4, <1>5 DEF Live, CreateInv
  <2>4. ASSUME NEW i \in DOMAIN edits
        PROVE  (Live(i)' <=> Live(i)) /\ (Creates(edits[i]) => CreateInv(i)')
    BY <2>1, <1>2, <1>5 DEF PatchInv, LiveInv, CreatesInv, CreateInv, Live, bounds
  <2>5. CreatesInv'
    BY <2>3, <2>4, <1>5 DEF CreatesInv
  <2>6. OneLive'
    BY <2>3, <2>4, <1>5 DEF PatchInv, LiveInv, OneLive
  <2> QED BY <2>5, <2>6 DEF LiveInv
<1>11. PendingIsOwed'
  <2>1. ASSUME NEW x \in Ids, db'[x].status = "pending"
        PROVE  \E i \in DOMAIN edits' : edits'[i].id = x /\ Owes(edits'[i], db'[x])
    <3>1. CASE x = id
      BY <3>1, <1>4, <1>5 DEF Owes, Working
    <3>2. CASE x # id
      <4>1. db[x].status = "pending" /\ db'[x] = db[x]
        BY <2>1, <3>2, <1>2 DEF Put, TypeOK
      <4>2. PICK i \in DOMAIN edits : edits[i].id = x /\ Owes(edits[i], db[x])
        BY <4>1 DEF PatchInv, PendingIsOwed, Owes, Working
      <4> QED BY <4>1, <4>2, <1>5
    <3> QED BY <3>1, <3>2
  <2> QED BY <2>1 DEF PendingIsOwed, Owes, Working
<1> QED BY <1>7, <1>8, <1>9, <1>10, <1>11 DEF PatchInv

----------------------------------------------------------------------------
(* The page is left, and its queue is taken up again.                       *)

LEMMA ReloadStep ==
  ASSUME PatchInv, Reload
  PROVE  PatchInv'
<1> DEFINE Gone(i) == Leaves(edits[i], IF Settled(edits[i]) THEN edits[i].phase ELSE "gone")
<1>1. /\ TypeOK /\ reloads < MaxReloads /\ reloads' = reloads + 1
      /\ stray' = stray \cup {[by |-> e, edit |-> edits[e]] : e \in {i \in DOMAIN edits : edits[i].phase = "sent"}}
      /\ tasks' = [id \in Ids |-> NoRow]
      /\ queue' = <<>> /\ batch' = {} /\ resumed' = FALSE
      /\ newest' = [id \in Ids |-> 0]
      /\ UNCHANGED <<tower, canon, db, saved, born, fails, lost, other>>
  BY DEF PatchInv, Reload
<1>2. edits' = [i \in DOMAIN edits |-> Gone(i)]
  BY DEF Reload, Leaves
<1>3. /\ edits \in Seq(Call) /\ Len(edits) \in Nat /\ reloads \in 0..MaxReloads
  BY <1>1 DEF TypeOK
<1>4. ASSUME NEW i \in DOMAIN edits
      PROVE  /\ Gone(i) \in Call /\ Same(Gone(i), edits[i]) /\ Gone(i).lost = edits[i].lost
             /\ Gone(i).ans = edits[i].ans
             /\ Gone(i).phase = "gone" \/ (Settled(edits[i]) /\ Gone(i).phase = edits[i].phase)
  <2>1. PICK p : p = IF Settled(edits[i]) THEN edits[i].phase ELSE "gone"
    OBVIOUS
  <2>2. edits[i] \in Call /\ p \in Phase
    <3>1. edits[i] \in Call
      BY <1>3
    <3> QED BY <3>1, <2>1, CallFields DEF Phase
  <2>3. Gone(i) = Leaves(edits[i], p)
    BY <2>1
  <2> QED BY <2>1, <2>2, <2>3, LeavesType
<1> HIDE DEF Gone
<1>5. edits' \in Seq(Call) /\ Len(edits') = Len(edits) /\ DOMAIN edits' = DOMAIN edits
  <2>1. DOMAIN edits = 1..Len(edits) /\ \A i \in DOMAIN edits : Gone(i) \in Call
    BY <1>3, <1>4
  <2> QED BY <2>1, <1>2, <1>3
<1>6. Keeps /\ \A i \in DOMAIN edits : edits'[i] = Gone(i)
  <2>1. \A i \in DOMAIN edits : edits'[i] = Gone(i)
    BY <1>2
  <2> QED BY <2>1, <1>3, <1>4, <1>5 DEF Keeps
<1>7. TypeOK'
  <2>0. 0 \in 0..MaxEdits
    BY BoundAssumption
  <2>1. NoRow \in Row
    BY RowTypes
  <2>2. tasks' \in [Ids -> Row] /\ newest' \in [Ids -> 0..MaxEdits]
    BY <1>1, <2>0, <2>1
  <2>3. queue' \in Seq(DOMAIN edits') /\ saved' \in Seq(DOMAIN edits') /\ batch' \subseteq DOMAIN edits'
    BY <1>1, <1>5 DEF TypeOK
  <2>4. stray' \subseteq [by : DOMAIN edits', edit : Call]
    BY <1>1, <1>3, <1>5 DEF TypeOK
  <2>5. reloads' \in 0..MaxReloads
    BY <1>1, <1>3, BoundAssumption
  <2> QED BY <1>1, <1>5, <2>2, <2>3, <2>4, <2>5 DEF TypeOK
<1>8. ASSUME NEW i \in DOMAIN edits PROVE CallInv(edits[i], Len(edits), reloads) /\ edits[i].session < reloads'
  <2>1. CallInv(edits[i], Len(edits), reloads) /\ edits[i].session \in 0..MaxReloads
    BY <1>3, CallFields DEF PatchInv, CallsInv
  <2> QED BY <2>1, <1>1, <1>3 DEF CallInv
<1>9. ASSUME NEW i \in DOMAIN edits PROVE CallInv(edits'[i], Len(edits), reloads')
  <2>1. edits'[i] = Gone(i)
    BY <1>6
  <2>2. edits[i].session <= reloads'
    <3>1. edits[i].session \in 0..MaxReloads /\ reloads' \in Nat
      BY <1>1, <1>3, CallFields
    <3> QED BY <3>1, <1>8
  <2> QED BY <2>1, <2>2, <1>4, <1>8 DEF CallInv, Settled, Same
<1>10. CallsInv'
  BY <1>5, <1>9 DEF CallsInv
<1>11. StrayInv' /\ OneStray'
  <2>1. ASSUME NEW s \in stray' PROVE s \in stray \/ (s.by \in DOMAIN edits /\ s.edit = edits[s.by] /\ edits[s.by].phase = "sent")
    BY <1>1
  <2>2. ASSUME NEW s \in stray' PROVE s.by \in DOMAIN edits /\ Same(s.edit, edits[s.by]) /\ Request(s.edit) /\ s.edit.session < reloads'
    <3>1. CASE s \in stray
      <4>1. s.by \in DOMAIN edits /\ Same(s.edit, edits[s.by]) /\ Request(s.edit)
        BY <3>1, <1>1 DEF TypeOK, PatchInv, RestInv, StrayInv
      <4> QED BY <4>1, <1>8 DEF Same
    <3>2. CASE s.by \in DOMAIN edits /\ s.edit = edits[s.by] /\ edits[s.by].phase = "sent"
      BY <3>2, <1>8 DEF CallInv, Same
    <3> QED BY <2>1, <3>1, <3>2
  <2>3. StrayInv'
    <3>1. ASSUME NEW s \in stray' PROVE Same(s.edit, edits'[s.by]) /\ Request(s.edit) /\ s.edit.session < reloads'
      BY <2>2, <1>4, <1>6 DEF Same
    <3> QED BY <3>1 DEF StrayInv
  <2>4. ASSUME NEW s \in stray', NEW t \in stray', s.by = t.by, Creates(edits'[s.by]) PROVE s = t
    <3>1. s.by \in DOMAIN edits /\ Creates(edits[s.by])
      BY <2>2, <2>4, <1>4, <1>6, SameBranch
    <3>2. edits[s.by].phase = "sent" => ~Astray(s.by)
      BY <3>1 DEF PatchInv, LiveInv, CreatesInv, CreateInv
    <3>3. CASE s \in stray /\ t \in stray
      BY <3>1, <3>3, <2>4 DEF PatchInv, RestInv, OneStray
    <3>4. CASE s \notin stray \/ t \notin stray
      <4>1. edits[s.by].phase = "sent"
        BY <2>1, <2>4, <3>4
      <4>2. s \notin stray /\ t \notin stray
        BY <4>1, <3>2, <2>4 DEF Astray
      <4> QED BY <4>2, <1>1, <2>4
    <3> QED BY <3>3, <3>4
  <2> QED BY <2>3, <2>4 DEF OneStray
<1>12. QueueInv' /\ PlaceInv' /\ BornInv' /\ OneBorn'
  <2>1. \A i \in DOMAIN edits : Creates(edits'[i]) <=> Creates(edits[i])
    BY <1>6, SameBranch DEF Keeps
  <2>2. \A i \in DOMAIN saved : saved[i] \in DOMAIN edits
    BY <1>1 DEF TypeOK
  <2>3. QueueInv'
    BY <1>1, <2>1, <2>2 DEF PatchInv, RestInv, QueueInv
  <2> QED BY <1>1, <1>6, <2>3, PlaceKept, BornKept DEF PatchInv, RestInv
<1>13. LiveInv'
  <2>1. ASSUME NEW i \in DOMAIN edits
        PROVE  /\ Astray(i)' => Astray(i) \/ edits[i].phase = "sent"
               /\ Made(i)' <=> Made(i)
    BY <1>1 DEF Astray, Made
  <2>2. ASSUME NEW i \in DOMAIN edits, Creates(edits[i])
        PROVE  (Live(i)' => Live(i)) /\ CreateInv(i)'
    <3>1. CreateInv(i) /\ edits'[i].session < reloads' /\ edits'[i].phase # "sent" /\ edits'[i].phase # "shown"
      BY <2>2, <1>4, <1>6, <1>8 DEF PatchInv, LiveInv, CreatesInv, Settled, Same
    <3> QED BY <2>1, <3>1 DEF CreateInv, Live
  <2>3. ASSUME NEW i \in DOMAIN edits PROVE Same(edits'[i], edits[i]) /\ edits'[i].lost = edits[i].lost
    BY <1>4, <1>6
  <2>4. ASSUME NEW i \in DOMAIN edits, NEW j \in DOMAIN edits, i # j, Rivals(edits'[i], edits'[j]), Live(i)', Live(j)'
        PROVE  edits'[i].lost \/ edits'[j].lost
    <3>1. Creates(edits[i]) /\ Creates(edits[j])
      BY <2>3, <2>4, SameBranch DEF Rivals
    <3>2. Rivals(edits[i], edits[j])
      BY <2>3, <2>4, <3>1 DEF Rivals, Same
    <3> QED BY <3>1, <3>2, <2>2, <2>3, <2>4 DEF PatchInv, LiveInv, OneLive
  <2>5. CreatesInv'
    BY <1>5, <2>2, <2>3, SameBranch DEF CreatesInv
  <2> QED BY <1>5, <2>4, <2>5 DEF LiveInv, OneLive
<1>14. PendingIsOwed'
  <2>1. ASSUME NEW i \in DOMAIN edits, NEW x \in Ids, Owes(edits[i], db[x]) PROVE Owes(edits'[i], db'[x])
    <3>1. CASE edits'[i].phase = "gone"
      BY <3>1 DEF Owes, Working
    <3>2. CASE Same(edits'[i], edits[i]) /\ edits'[i].phase = edits[i].phase
      BY <2>1, <3>2, <1>1 DEF Owes, Working, RolledBack, Same
    <3> QED BY <3>1, <3>2, <1>4, <1>6
  <2>2. ASSUME NEW x \in Ids, db'[x].status = "pending"
        PROVE  \E i \in DOMAIN edits' : edits'[i].id = x /\ Owes(edits'[i], db'[x])
    <3>1. PICK i \in DOMAIN edits : edits[i].id = x /\ Owes(edits[i], db[x])
      BY <2>2, <1>1 DEF PatchInv, PendingIsOwed, Owes, Working
    <3> QED BY <3>1, <2>1, <1>4, <1>5, <1>6 DEF Same
  <2> QED BY <2>2 DEF PendingIsOwed, Owes, Working
<1> QED BY <1>7, <1>10, <1>11, <1>12, <1>13, <1>14 DEF PatchInv, RestInv

LEMMA ResumeStep ==
  ASSUME PatchInv, Resume
  PROVE  PatchInv'
<1> DEFINE Taken == ToSet(queue') \ ToSet(queue)
           Queued(i) == IF i \in Taken THEN [edits[i] EXCEPT !.phase = "queued"] ELSE edits[i]
<1>1. /\ TypeOK /\ QueueInv /\ resumed' = TRUE /\ queue' = Restored(queue, saved)
      /\ UNCHANGED <<tower, canon, db, tasks, saved, batch, newest, born, stray, bounds>>
  BY DEF PatchInv, RestInv, Resume
<1>2. edits' = [i \in DOMAIN edits |-> Queued(i)]
  BY DEF Resume
<1>3. edits \in Seq(Call) /\ Len(edits) \in Nat /\ "queued" \in Phase
  BY <1>1 DEF TypeOK, Phase
<1>4. queue' \in Seq(Waiting)
  <2>1. queue \in Seq(Waiting) /\ saved \in Seq(Waiting)
    BY <1>1, QueueOfWaiting
  <2>2. Without(saved, ToSet(queue)) \in Seq(Waiting)
    BY <2>1, WithoutType
  <2>3. PICK rest \in Seq(Waiting) : rest = Without(saved, ToSet(queue))
    BY <2>2
  <2> QED BY <2>1, <2>3, <1>1 DEF Restored
<1>5. queue' \in Seq(DOMAIN edits) /\ Taken \subseteq Waiting
  <2>1. ToSet(queue') \subseteq Waiting
    BY <1>4 DEF ToSet
  <2> QED BY <2>1, <1>4, WaitingQueue
<1>6. ASSUME NEW i \in DOMAIN edits
      PROVE  /\ Queued(i) \in Call /\ Same(Queued(i), edits[i]) /\ Queued(i).lost = edits[i].lost
             /\ Queued(i) = edits[i] \/ (~Creates(edits[i]) /\ Queued(i).phase = "queued")
  <2>1. edits[i] \in Call
    BY <1>3
  <2>2. CASE i \notin Taken
    BY <2>1, <2>2 DEF Same
  <2>3. CASE i \in Taken
    <3>1. Queued(i) = [edits[i] EXCEPT !.phase = "queued"] /\ ~Creates(edits[i])
      BY <2>3, <1>5 DEF Waiting
    <3>2. PICK d : d = [edits[i] EXCEPT !.phase = "queued"]
      OBVIOUS
    <3>3. Phased(edits[i], d, "queued") /\ d.lost = edits[i].lost
      BY <2>1, <3>2, <1>3, PhaseStep
    <3> QED BY <3>1, <3>2, <3>3 DEF Phased
  <2> QED BY <2>2, <2>3
<1> HIDE DEF Queued, Taken
<1>7. edits' \in Seq(Call) /\ Len(edits') = Len(edits) /\ DOMAIN edits' = DOMAIN edits
  <2>1. DOMAIN edits = 1..Len(edits) /\ \A i \in DOMAIN edits : Queued(i) \in Call
    BY <1>3, <1>6
  <2> QED BY <2>1, <1>2, <1>3
<1>8. Keeps /\ \A i \in DOMAIN edits : edits'[i] = Queued(i)
  <2>1. \A i \in DOMAIN edits : edits'[i] = Queued(i)
    BY <1>2
  <2> QED BY <2>1, <1>3, <1>6, <1>7 DEF Keeps
<1>9. TypeOK'
  BY <1>1, <1>5, <1>7 DEF TypeOK, bounds
<1>10. CallsInv'
  <2>1. ASSUME NEW i \in DOMAIN edits PROVE CallInv(edits'[i], Len(edits), reloads)
    <3>1. CallInv(edits[i], Len(edits), reloads) /\ edits'[i] = Queued(i)
      BY <1>8 DEF PatchInv, CallsInv
    <3>2. CASE Queued(i) = edits[i]
      BY <3>1, <3>2
    <3>3. CASE ~Creates(edits[i]) /\ Queued(i).phase = "queued"
      <4>1. ~Creates(Queued(i))
        BY <3>3, <1>6, SameBranch
      <4> QED BY <3>1, <3>3, <4>1, <1>6 DEF CallInv, Same
    <3> QED BY <3>2, <3>3, <1>6
  <2> QED BY <2>1, <1>1, <1>7 DEF CallsInv, bounds
<1>11. RestInv'
  <2>1. \A i \in DOMAIN edits : Creates(edits'[i]) <=> Creates(edits[i])
    BY <1>8, SameBranch DEF Keeps
  <2>2. \A i \in DOMAIN saved : saved[i] \in DOMAIN edits
    BY <1>1 DEF TypeOK
  <2>3. \A i \in DOMAIN queue' : queue'[i] \in DOMAIN edits /\ ~Creates(edits[queue'[i]])
    BY <1>4, <1>5, WaitingQueue
  <2>4. QueueInv'
    BY <1>1, <2>1, <2>2, <2>3 DEF QueueInv
  <2> QED BY <1>1, <1>8, <2>4, StrayKept, PlaceKept, BornKept DEF PatchInv, RestInv, bounds
<1>12. LiveInv'
  <2>1. ASSUME NEW i \in DOMAIN edits
        PROVE  (Astray(i)' <=> Astray(i)) /\ (Made(i)' <=> Made(i)) /\ Same(edits'[i], edits[i])
    BY <1>1, <1>6, <1>8 DEF Astray, Made
  <2>2. ASSUME NEW i \in DOMAIN edits, Creates(edits[i]) PROVE edits'[i] = edits[i] /\ CreateInv(i)' /\ (Live(i)' <=> Live(i))
    <3>1. edits'[i] = edits[i] /\ CreateInv(i)
      BY <2>2, <1>6, <1>8 DEF PatchInv, LiveInv, CreatesInv
    <3> QED BY <3>1, <2>1, <1>1 DEF CreateInv, Live, bounds
  <2>3. \A i \in DOMAIN edits : Creates(edits'[i]) => Creates(edits[i])
    BY <2>1, SameBranch
  <2>4. CreatesInv'
    BY <2>2, <2>3, <1>7 DEF CreatesInv
  <2>5. OneLive'
    BY <2>2, <2>3, <1>7 DEF PatchInv, LiveInv, OneLive, Rivals
  <2> QED BY <2>4, <2>5 DEF LiveInv
<1>13. PendingIsOwed'
  <2>1. ASSUME NEW i \in DOMAIN edits, NEW x \in Ids, Owes(edits[i], db[x]) PROVE Owes(edits'[i], db'[x])
    <3>1. CASE edits'[i] = edits[i]
      BY <2>1, <3>1, <1>1
    <3>2. CASE edits'[i].phase = "queued"
      BY <3>2 DEF Owes, Working
    <3> QED BY <3>1, <3>2, <1>6, <1>8
  <2>2. ASSUME NEW x \in Ids, db'[x].status = "pending"
        PROVE  \E i \in DOMAIN edits' : edits'[i].id = x /\ Owes(edits'[i], db'[x])
    <3>1. PICK i \in DOMAIN edits : edits[i].id = x /\ Owes(edits[i], db[x])
      BY <2>2, <1>1 DEF PatchInv, PendingIsOwed, Owes, Working
    <3> QED BY <3>1, <2>1, <1>6, <1>7, <1>8 DEF Same
  <2> QED BY <2>2 DEF PendingIsOwed, Owes, Working
<1> QED BY <1>9, <1>10, <1>11, <1>12, <1>13 DEF PatchInv

----------------------------------------------------------------------------
(* The theorems.                                                            *)

LEMMA InitInv == Init => PatchInv
<1> SUFFICES ASSUME Init PROVE PatchInv
  OBVIOUS
<1>1. PICK first : first = [val |-> Original, by |-> 0, part |-> Fields]
  OBVIOUS
<1>2. first \in Version /\ first.by = 0
  <2>1. 0 \in 0..MaxEdits /\ Original \in Value
    <3>1. Original \in Value
      BY RowTypes
    <3> QED BY <3>1, BoundAssumption
  <2> QED BY <1>1, <2>1 DEF Version
<1>3. tower = [id \in Ids |-> IF id \in Shared THEN <<first>> ELSE <<>>]
  BY <1>1 DEF Init
<1>4. /\ tower \in [Ids -> Seq(Version)]
      /\ \A id \in Ids : \A k \in DOMAIN tower[id] : tower[id][k].by = 0
      /\ \A x \in Fresh : tower[x] = <<>>
  <2>1. <<first>> \in Seq(Version) /\ <<>> \in Seq(Version)
    BY <1>2
  <2>2. \A k \in DOMAIN <<first>> : <<first>>[k].by = 0
    BY <1>2
  <2>3. \A x \in Fresh : x \in Ids /\ x \notin Shared
    BY IdAssumption DEF Ids
  <2> QED BY <1>3, <2>1, <2>2, <2>3
<1>5. db \in [Ids -> Row] /\ \A id \in Ids : db[id].status # "pending"
  <2>1. NoRow \in Row /\ NoRow.status # "pending"
    BY RowTypes DEF NoRow
  <2>2. PICK synced : synced = [NoRow EXCEPT !.ver = 1, !.status = "synced"]
    OBVIOUS
  <2>3. PICK failed : failed = [NoRow EXCEPT !.ver = 1, !.status = "failed"]
    OBVIOUS
  <2>4. synced \in Row /\ synced.status # "pending" /\ failed \in Row /\ failed.status # "pending"
    BY <2>1, <2>2, <2>3 DEF Row, Ver
  <2>5. db = [id \in Ids |-> IF id \in Shared THEN synced ELSE IF id \in Drafts THEN failed ELSE NoRow]
    BY <2>2, <2>3 DEF Init
  <2> QED BY <2>1, <2>4, <2>5
<1>6. /\ edits = <<>> /\ queue = <<>> /\ saved = <<>> /\ batch = {} /\ stray = {} /\ resumed = TRUE
      /\ tasks = db /\ canon = [id \in Ids |-> IF id \in Shared THEN 1 ELSE 0]
      /\ newest = [id \in Ids |-> 0] /\ born = [x \in Fresh |-> 0]
      /\ reloads = 0 /\ fails = 0 /\ lost = 0 /\ other = 0
  BY DEF Init
<1>7. TypeOK
  <2>1. canon \in [Ids -> Ver] /\ newest \in [Ids -> 0..MaxEdits] /\ born \in [Fresh -> 0..MaxEdits]
    BY <1>6, BoundAssumption DEF Ver
  <2>2. /\ edits \in Seq(Call) /\ Len(edits) <= MaxEdits /\ queue \in Seq(DOMAIN edits) /\ saved \in Seq(DOMAIN edits)
        /\ batch \subseteq DOMAIN edits /\ stray \subseteq [by : DOMAIN edits, edit : Call]
    BY <1>6, BoundAssumption
  <2>3. reloads \in 0..MaxReloads /\ fails \in 0..MaxFails /\ lost \in 0..MaxLost /\ other \in 0..MaxOther
    BY <1>6, BoundAssumption
  <2> QED BY <1>4, <1>5, <1>6, <2>1, <2>2, <2>3 DEF TypeOK
<1>8. DOMAIN edits = {} /\ DOMAIN queue = {} /\ DOMAIN saved = {}
  BY <1>6
<1>9. CallsInv /\ LiveInv
  BY <1>8 DEF CallsInv, LiveInv, CreatesInv, OneLive
<1>10. RestInv
  BY <1>4, <1>6, <1>8 DEF RestInv, StrayInv, QueueInv, PlaceInv, BornInv, OneStray, OneBorn
<1>11. PendingIsOwed
  BY <1>5 DEF PendingIsOwed
<1> QED BY <1>7, <1>9, <1>10, <1>11 DEF PatchInv

LEMMA NextInv == PatchInv /\ [Next]_vars => PatchInv'
<1> SUFFICES ASSUME PatchInv, [Next]_vars PROVE PatchInv'
  OBVIOUS
<1>1. ASSUME NEW id \in Ids, NEW way \in Ways, NEW patch \in Patches, Edit(id, way, patch) PROVE PatchInv'
  BY <1>1, EditStep
<1>2. ASSUME NEW e \in DOMAIN edits, Step(e) \/ KeepOffline(e) \/ Fail(e) \/ Lose(e) PROVE PatchInv'
  <2>1. CASE Step(e)
    <3>1. ASSUME NEW x \in Fresh, TowerCreate(e, x) PROVE PatchInv'
      BY <3>1, CreateStep
    <3> QED BY <2>1, <3>1, EnqueueStep, IssueStep, JoinEndsStep, ProcessStep, UpdateStep, SettleStep, AdoptStep,
               RejectStep DEF Step
  <2> QED BY <1>2, <2>1, KeepStep, FailStep, LoseStep
<1>3. ASSUME NEW s \in stray, StrayArrives(s) PROVE PatchInv'
  BY <1>3, StrayStep
<1>4. ASSUME NEW id \in Ids, Pull(id) \/ (\E f \in Fields : OtherEdit(id, f)) PROVE PatchInv'
  BY <1>4, PullStep, OtherStep
<1>5. CASE UNCHANGED vars
  <2>1. /\ UNCHANGED <<tower, db, canon, tasks, edits, queue, saved, batch, resumed, newest, born, stray>>
        /\ UNCHANGED <<reloads, fails, lost, other>>
    BY <1>5 DEF vars
  <2>2. TypeOK'
    BY <2>1 DEF PatchInv, TypeOK
  <2>3. PlaceInv' /\ BornInv' /\ QueueInv'
    BY <2>1 DEF PatchInv, RestInv, PlaceInv, BornInv, QueueInv
  <2> QED BY <2>1, <2>2, <2>3, StillStep
<1> QED BY <1>1, <1>2, <1>3, <1>4, <1>5, StartStep, FinishStep, LiveQueryStep, ReloadStep, ResumeStep DEF Next

\* The invariant of the edits: of their phases, requests and places at Tower, of the
\* creates that are live, and of the rows that wait for an answer.
THEOREM PatchInvariant == Spec => []PatchInv
BY InitInv, NextInv, PTL DEF Spec

\* applyTaskPatch, its queue and the commands keep their variables well typed, for any
\* number of tasks, edits, reloads and faults.
THEOREM TypeCorrect == Spec => []TypeOK
<1>1. PatchInv => TypeOK
  BY DEF PatchInv
<1> QED BY <1>1, PatchInvariant, PTL

LEMMA PlaceIsOne ==
  ASSUME PatchInv, NEW id \in Ids, NEW j \in DOMAIN tower[id], NEW k \in DOMAIN tower[id], j # k,
         tower[id][j].by = tower[id][k].by, tower[id][j].by # 0
  PROVE  tower[id][j].part \cap tower[id][k].part = {}
<1>1. PICK e : e = tower[id][j].by
  OBVIOUS
<1>2. Place(edits[e], j, tower[id][j].part) /\ Place(edits[e], k, tower[id][k].part)
  BY <1>1 DEF PatchInv, RestInv, PlaceInv
<1>3. ~Creates(edits[e])
  BY <1>2 DEF Place
<1>4. CASE "state" \in tower[id][j].part
  BY <1>2, <1>3, <1>4 DEF Place
<1>5. CASE "state" \in tower[id][k].part
  BY <1>2, <1>3, <1>5 DEF Place
<1>6. CASE "state" \notin tower[id][j].part /\ "state" \notin tower[id][k].part
  BY <1>2, <1>3, <1>6 DEF Place
<1> QED BY <1>4, <1>5, <1>6

\* Nothing the queue sends again after a reload, and no request that outlives its page,
\* changes a field a second time: an edit's fields have one place among the versions.
THEOREM AppliedAtMostOnce == Spec => []AppliedOnce
<1>1. PatchInv => AppliedOnce
  BY PlaceIsOne DEF AppliedOnce
<1> QED BY <1>1, PatchInvariant, PTL

\* Whichever of several answers comes last, a row is left pending only for an edit that
\* is under way, kept offline, cut short by a reload or put there again by one that was rolled back.
THEOREM PendingRowsAreOwed == Spec => []PendingIsOwed
<1>1. PatchInv => PendingIsOwed
  BY DEF PatchInv
<1> QED BY <1>1, PatchInvariant, PTL

\* Of all the edits that find a row not synced, in one life of the page one makes the
\* task at Tower, lost answers apart.
THEOREM CreatedOnce == Spec => []OneCreatePerSession
<1>1. PatchInv => OneCreatePerSession
  <2> SUFFICES ASSUME PatchInv, NEW x \in Fresh, NEW y \in Fresh, x # y, born[x] # 0, born[y] # 0,
                      Creator(x).id = Creator(y).id, Creator(x).session = Creator(y).session
               PROVE  Creator(x).lost \/ Creator(y).lost
    BY DEF OneCreatePerSession
  <2>1. /\ born[x] \in DOMAIN edits /\ born[y] \in DOMAIN edits /\ born[x] # born[y]
        /\ Creates(edits[born[x]]) /\ Creates(edits[born[y]])
    BY DEF PatchInv, RestInv, BornInv, OneBorn
  <2>2. Live(born[x]) /\ Live(born[y])
    BY DEF Live, Made
  <2>3. Rivals(edits[born[x]], edits[born[y]])
    BY <2>1 DEF Rivals, Creator
  <2> QED BY <2>1, <2>2, <2>3 DEF PatchInv, LiveInv, OneLive, Creator
<1> QED BY <1>1, PatchInvariant, PTL
=============================================================================
