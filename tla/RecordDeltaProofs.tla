------------------------- MODULE RecordDeltaProofs -------------------------
(***************************************************************************)
(* Proofs about RecordDelta, for every number of records, commands and     *)
(* tabs, every page and slice size, in three parts.  The first: type       *)
(* correctness, and that the committed cursor only moves forward.  The     *)
(* second: the cursor skips nothing, and the cache is a replica of Tower's *)
(* feed of changes; CoverInv of RecordDeltaCover is inductive, implies     *)
(* CursorCoversRows, and carries every step over to a step of ChangeFeed   *)
(* or to none.  The third: the screen follows the canonical table; ViewInv *)
(* of RecordDeltaView is inductive, and from it ConvergedIsTower,          *)
(* EditRecoverable and LiveRowsStay.                                       *)
(***************************************************************************)
EXTENDS RecordDeltaView, WellFoundedInduction, TLAPS

----------------------------------------------------------------------------
(* The journal.                                                             *)

\* A nonempty set of positions has a last one.
LEMMA LastExists ==
  ASSUME NEW n \in Nat, NEW S \in SUBSET (1..n), S # {}
  PROVE  \E m \in S : \A i \in S : i <= m
<1> DEFINE R == {ss \in Nat \X Nat : ss[1] < ss[2]}
           U == {k \in Nat : \A i \in S : i <= k}
<1>1. IsWellFoundedOn(R, Nat)
  BY NatLessThanWellFounded DEF OpToRel
<1>2. n \in U /\ U \subseteq Nat
  OBVIOUS
<1>3. PICK m \in U : \A k \in U : <<k, m>> \notin R
  <2> HIDE DEF R, U
  <2> QED BY <1>1, <1>2, WFMin
<1>4. m \in Nat /\ \A i \in S : i <= m
  BY <1>3
<1>5. m \in S
  <2> SUFFICES ASSUME m \notin S PROVE FALSE
    OBVIOUS
  <2>1. PICK e \in S : TRUE
    OBVIOUS
  <2>2. m - 1 \in Nat
    BY <2>1, <1>4
  <2>3. m - 1 \in U
    BY <2>2, <1>4
  <2>4. <<m - 1, m>> \in R
    BY <2>2, <1>4
  <2> QED BY <2>3, <2>4, <1>3
<1> QED BY <1>4, <1>5

\* LastIn answers a version, and the one it names is a change to that record.
LEMMA LastInVersion ==
  ASSUME journal \in Seq(ChangeType), Len(journal) <= MaxJournal,
         NEW r, NEW a0, NEW b0
  PROVE  LastIn(r, a0, b0) \in Version
<1> DEFINE S == {i \in 1..Len(journal) : a0 < i /\ i <= b0 /\ journal[i].id = r}
<1>1. Len(journal) \in Nat
  OBVIOUS
<1>2. CASE S = {}
  BY BoundAssumption, <1>2 DEF LastIn, Version
<1>3. CASE S # {}
  <2>1. \E m \in S : \A i \in S : i <= m
    <3> S \in SUBSET (1..Len(journal))
      OBVIOUS
    <3> HIDE DEF S
    <3> QED BY <1>1, <1>3, LastExists
  <2>2. LastIn(r, a0, b0) \in S
    BY <2>1, <1>3 DEF LastIn
  <2> QED BY BoundAssumption, <2>2, <1>1 DEF Version
<1> QED BY <1>2, <1>3

----------------------------------------------------------------------------
(* Types of what the actions build.                                         *)

\* The constant records are of their types.
LEMMA ConstantTypes ==
  /\ NoCursor \in Cursor /\ Absent \in Row /\ NoRow \in RawType
  /\ NoPage \in Page /\ Idle \in PullType
  /\ \A g \in 0..MaxResets : FreshState(g) \in StateType
<1>1. 0 \in Version /\ -1 \in Generation /\ 0 \in 0..2 * NumRecords /\ 0 \in 0..MaxResets
  BY SizeAssumption, BoundAssumption DEF Version, Generation
<1>2. NoCursor \in Cursor
  BY <1>1 DEF NoCursor, Cursor
<1>3. Absent \in Row /\ NoRow \in RawType
  BY <1>1 DEF Absent, NoRow, Row, RawType
<1>4. NoPage \in Page
  BY <1>1, <1>2 DEF NoPage, Page
<1>5. Idle \in PullType
  BY <1>1, <1>2, <1>4 DEF Idle, PullType
<1>6. \A g \in 0..MaxResets : FreshState(g) \in StateType
  BY <1>1, <1>2 DEF FreshState, NoRetirement, StateType
<1> QED BY <1>2, <1>3, <1>4, <1>5, <1>6

\* A page Tower answers with is a page.
LEMMA PageType ==
  ASSUME journal \in Seq(ChangeType), Len(journal) <= MaxJournal,
         NEW at \in Nat
  PROVE  /\ DeltaPage(at) \in Page
         /\ \A since \in Version : SnapshotPage(at, since) \in Page
<1>1. /\ 0 \in Version /\ Len(journal) \in Nat /\ Version \subseteq Nat
      /\ \A r \in Records : Latest(r) \in Version
  BY BoundAssumption, LastInVersion DEF Version, Latest
<1>2. DeltaPage(at) \in Page
  BY SizeAssumption, <1>1 DEF DeltaPage, DeltaCursor, Page, Cursor
<1>3. ASSUME NEW since \in Version PROVE SnapshotPage(at, since) \in Page
  <2>1. \A x \in Nat : SnapshotCursor(x, since) \in Cursor
    BY <1>1 DEF SnapshotCursor, Cursor
  <2>2. DeltaCursor(since) \in Cursor
    BY <1>1 DEF DeltaCursor, Cursor
  <2>3. [r \in Records |-> IF at < r /\ r <= at + PageSize /\ Live(r) THEN Latest(r) ELSE 0]
          \in [Records -> Version]
    BY <1>1
  <2> QED BY SizeAssumption, <2>1, <2>2, <2>3 DEF SnapshotPage, Page
<1> QED BY <1>2, <1>3

\* What materialize leaves in the view is a row.
LEMMA MaterializedType ==
  ASSUME NEW row \in Row, NEW v \in Version, NEW g \in Generation
  PROVE  Materialized(row, v, g) \in Row
BY ConstantTypes DEF Materialized, Row

\* What a page brings for a record is a version.
LEMMA BroughtVersion ==
  ASSUME journal \in Seq(ChangeType), Len(journal) <= MaxJournal,
         NEW page \in Page, NEW r \in Records, NEW a0, NEW b0
  PROVE  Change(page, r, a0, b0) \in Version
<1>1. 0 \in Version
  BY BoundAssumption DEF Version
<1> QED BY <1>1, LastInVersion DEF Change, Page

----------------------------------------------------------------------------
(* Type correctness.                                                        *)

\* Every variable is well typed at the start.
LEMMA TypeInit == Init => TypeOK
<1> SUFFICES ASSUME Init PROVE TypeOK
  OBVIOUS
<1>1. journal \in Seq(ChangeType) /\ Len(journal) <= MaxJournal
  <2>1. journal \in [1..Existing -> ChangeType]
    BY SizeAssumption, BoundAssumption DEF Init, ChangeType, Records
  <2> QED BY BoundAssumption, <2>1
<1>2. pinned \in [0..MaxResets -> -1..MaxJournal]
  BY BoundAssumption DEF Init
<1>3. cmd \in [Records -> CommandType]
  BY BoundAssumption, ConstantTypes DEF Init, CommandType, NoCommand, Version
<1> QED BY BoundAssumption, <1>1, <1>2, <1>3, ConstantTypes DEF Init, TypeOK

\* The reconciliation of conflicts stores rows.
LEMMA TypeReconcile ==
  ASSUME TypeOK, ReconcileConflicts
  PROVE  /\ raw' \in [Records -> RawType] /\ view' \in [Records -> Row]
         /\ conflict' \in [Records -> BOOLEAN]
<1> DEFINE again == {r \in Records : Reconciled(r) /\ ~Newer(r)}
<1>1. \A r \in Records : raw[r].ver \in Version /\ raw[r] \in RawType /\ view[r] \in Row
  BY DEF TypeOK, RawType
<1>2. state.generation \in Generation
  BY DEF TypeOK, StateType
<1>3. \A r \in Records : [ver |-> raw[r].ver, gen |-> state.generation] \in RawType
  BY <1>1, <1>2 DEF RawType
<1>4. \A r \in Records : Materialized(view[r], raw[r].ver, state.generation) \in Row
  BY <1>1, <1>2, MaterializedType
<1>5. raw' \in [Records -> RawType]
  BY <1>1, <1>3 DEF ReconcileConflicts
<1>6. view' \in [Records -> Row]
  BY <1>1, <1>4 DEF ReconcileConflicts
<1>7. conflict' \in [Records -> BOOLEAN]
  <2>1. \A r \in Records : Conflicted(view[r], raw[r].ver, TRUE) \in BOOLEAN
    BY Zenon DEF Conflicted
  <2>2. \A r \in Records : (conflict[r] /\ ~Reconciled(r)) \in BOOLEAN
    BY Zenon
  <2>3. conflict' = [r \in Records |-> IF r \in again THEN Conflicted(view[r], raw[r].ver, TRUE)
                                        ELSE conflict[r] /\ ~Reconciled(r)]
    BY DEF ReconcileConflicts
  <2> HIDE DEF again
  <2> QED BY <2>1, <2>2, <2>3, Zenon
<1> QED BY <1>5, <1>6, <1>7

\* A put stores a row.
LEMMA TypePut ==
  ASSUME TypeOK, NEW r \in Records, NEW row \in Row, Put(row, r)
  PROVE  view' \in [Records -> Row] /\ late' \in [Records -> BOOLEAN]
<1>1. view' \in [Records -> Row]
  BY DEF TypeOK, Put
<1>2. late' \in [Records -> BOOLEAN]
  <2>1. (late[r] \/ Overtakes(row, r)) \in BOOLEAN
    BY Zenon
  <2>2. late' = [late EXCEPT ![r] = late[r] \/ Overtakes(row, r)] /\ late \in [Records -> BOOLEAN]
    BY Zenon DEF Put, TypeOK
  <2> QED BY <2>1, <2>2, Zenon
<1> QED BY <1>1, <1>2

\* Every step keeps the types.
LEMMA TypeNext == TypeOK /\ [Next]_vars => TypeOK'
<1> SUFFICES ASSUME TypeOK, [Next]_vars PROVE TypeOK'
  OBVIOUS
<1>0. 0 \in Version /\ Version \subseteq Nat /\ Len(journal) \in Nat /\ Len(journal) \in Version
  BY BoundAssumption DEF TypeOK, Version
<1>1. ASSUME NEW r \in Records, NEW op \in {"upsert", "delete"}, TowerWrite(r, op) PROVE TypeOK'
  <2>1. [id |-> r, op |-> op] \in ChangeType
    BY DEF ChangeType
  <2>2. journal' \in Seq(ChangeType) /\ Len(journal') <= MaxJournal
    BY BoundAssumption, <1>1, <2>1, <1>0 DEF TowerWrite, TypeOK
  <2> QED BY <1>1, <2>2 DEF TowerWrite, TypeOK
<1>2. ASSUME NEW t \in Tabs, Begin(t) PROVE TypeOK'
  <2>1. Idle \in PullType /\ NoPage \in Page
    BY ConstantTypes
  <2>2. [NoPage EXCEPT !.next = state.retirement.next] \in Page
    BY <2>1 DEF TypeOK, StateType, Page
  <2>3. pull' \in [Tabs -> PullType]
    BY <1>2, <2>1, <2>2 DEF Begin, TypeOK, PullType, StateType, Resumes, Retiring
  <2> QED BY <1>2, <2>3 DEF Begin, TypeOK
<1>3. ASSUME NEW t \in Tabs, Read(t) PROVE TypeOK'
  <2> DEFINE c == pull[t].cursor
             since == IF pinned[pull[t].gen] = -1 THEN Len(journal) ELSE pinned[pull[t].gen]
             page == IF c.kind = "delta" THEN DeltaPage(c.at)
                     ELSE SnapshotPage(c.at, IF c.kind = "none" THEN since ELSE c.since)
  <2>1. c \in Cursor /\ c.at \in Nat /\ c.since \in Version
    BY DEF TypeOK, PullType, Cursor
  <2>2. since \in Version
    BY <1>0 DEF TypeOK, PullType, Version
  <2>3. page \in Page
    BY <2>1, <2>2, PageType DEF TypeOK
  <2>4. page.from \in Nat /\ page.hasMore \in BOOLEAN
    BY <2>3 DEF Page
  <2> DEFINE q == [pull[t] EXCEPT !.phase = "apply", !.page = page,
                                  !.off = page.from, !.again = page.hasMore]
  <2>5. pull' = [pull EXCEPT ![t] = q]
    BY <1>3 DEF Read
  <2>6. pull' \in [Tabs -> PullType]
    <3>1. q \in PullType
      <4>1. pull[t] \in PullType
        BY DEF TypeOK
      <4> HIDE DEF page
      <4> QED BY <4>1, <2>3, <2>4 DEF PullType
    <3> HIDE DEF q
    <3> QED BY <2>5, <3>1 DEF TypeOK
  <2>7. pinned' \in [0..MaxResets -> -1..MaxJournal]
    <3>1. since \in -1..MaxJournal
      BY <2>2 DEF Version
    <3>2. pinned' = IF c.kind = "none" THEN [pinned EXCEPT ![pull[t].gen] = since] ELSE pinned
      BY <1>3 DEF Read
    <3> QED BY <3>1, <3>2 DEF TypeOK
  <2> QED BY <1>3, <2>6, <2>7 DEF Read, TypeOK
<1>4. ASSUME NEW t \in Tabs, NEW h \in BOOLEAN, Denied(t, h) PROVE TypeOK'
  <2> DEFINE q == [pull[t] EXCEPT !.phase = "reset", !.hide = h]
  <2>1. q \in PullType
    <3>1. pull[t] \in PullType
      BY DEF TypeOK
    <3> QED BY <3>1 DEF PullType
  <2>2. pull' = [pull EXCEPT ![t] = q]
    BY <1>4 DEF Denied
  <2>3. pull' \in [Tabs -> PullType]
    <3> HIDE DEF q
    <3> QED BY <2>1, <2>2 DEF TypeOK
  <2> QED BY <1>4, <2>3 DEF Denied, TypeOK
<1>5. ASSUME NEW t \in Tabs, Reset(t) PROVE TypeOK'
  <2>1. state.localGeneration + 1 \in 0..MaxResets
    BY BoundAssumption, <1>5 DEF Reset, TypeOK, StateType
  <2>2. state' \in StateType
    BY <1>5, <2>1, ConstantTypes DEF Reset
  <2>3. Idle \in PullType /\ Absent \in Row /\ NoRow \in RawType
    BY ConstantTypes
  <2>4. pull' \in [Tabs -> PullType]
    <3> DEFINE q == [Idle EXCEPT !.phase = "read", !.gen = state.localGeneration + 1]
    <3>1. q \in PullType
      BY <2>1, <2>3 DEF PullType
    <3>2. pull' = [pull EXCEPT ![t] = Idle] \/ pull' = [pull EXCEPT ![t] = q]
      BY <1>5 DEF Reset
    <3> HIDE DEF q
    <3> QED BY <2>3, <3>1, <3>2 DEF TypeOK
  <2>5. view' \in [Records -> Row] /\ raw' \in [Records -> RawType]
    BY <1>5, <2>3 DEF Reset, TypeOK
  <2>6. saved' \in [Records -> BOOLEAN]
    <3>1. \A r \in Records : (saved[r] \/ view[r].status = "pending") \in BOOLEAN
      BY Zenon
    <3>2. \/ saved' = [r \in Records |-> saved[r] \/ view[r].status = "pending"]
          \/ saved' = saved
      BY <1>5, Zenon DEF Reset
    <3> QED BY <3>1, <3>2, Zenon DEF TypeOK
  <2> QED BY <1>5, <2>2, <2>4, <2>5, <2>6 DEF Reset, TypeOK
<1>6. ASSUME NEW t \in Tabs, Apply(t) PROVE TypeOK'
  <2> DEFINE p == pull[t]
             brings == [r \in Records |-> Change(p.page, r, p.off, SliceEnd(p))]
             changed == {r \in Records : brings[r] # 0 /\ ~Skipped(r, brings[r], p.page.mode, Tag(p))}
  <2>1. p \in PullType /\ p.page \in Page /\ p.page.next \in Cursor
    BY DEF TypeOK, PullType, Page
  <2>2. Tag(p) \in Generation
    BY DEF TypeOK, StateType, Tag, Generation
  <2>3. \A r \in Records : brings[r] \in Version
    BY <2>1, BroughtVersion DEF TypeOK
  <2>4. raw' \in [Records -> RawType]
    <3>1. raw' = [r \in Records |-> IF r \in changed THEN [ver |-> brings[r], gen |-> Tag(p)] ELSE raw[r]]
      BY <1>6, Zenon DEF Apply
    <3>2. \A r \in Records : [ver |-> brings[r], gen |-> Tag(p)] \in RawType
      BY <2>2, <2>3 DEF RawType
    <3> HIDE DEF changed, brings
    <3> QED BY <3>1, <3>2 DEF TypeOK
  <2>5. view' \in [Records -> Row]
    <3>1. view' = [r \in Records |-> IF r \in changed THEN Materialized(view[r], brings[r], Tag(p)) ELSE view[r]]
      BY <1>6, Zenon DEF Apply
    <3>2. \A r \in Records : view[r] \in Row
      BY DEF TypeOK
    <3>3. \A r \in Records : Materialized(view[r], brings[r], Tag(p)) \in Row
      <4> HIDE DEF brings
      <4> QED BY <2>2, <2>3, <3>2, MaterializedType
    <3> HIDE DEF changed, brings
    <3> QED BY <3>1, <3>2, <3>3
  <2>6. conflict' \in [Records -> BOOLEAN]
    <3>1. conflict' = [r \in Records |-> IF r \in changed THEN Conflicted(view[r], brings[r], conflict[r]) ELSE conflict[r]]
      BY <1>6, Zenon DEF Apply
    <3>2. \A r \in Records : Conflicted(view[r], brings[r], conflict[r]) \in BOOLEAN
      BY Zenon DEF Conflicted
    <3>3. \A r \in Records : conflict[r] \in BOOLEAN
      BY DEF TypeOK
    <3> HIDE DEF changed, brings
    <3> QED BY <3>1, <3>2, <3>3, Zenon
  <2>7. state' \in StateType
    <3>1. CommittedCursor(p) \in Cursor
      BY <2>1 DEF CommittedCursor, TypeOK, StateType
    <3>2. (state.snapshotComplete \/ (p.page.complete /\ ~Partial(p))) \in BOOLEAN
      BY Zenon
    <3>3. (p.page.mode = "snapshot" \/ (state.handover /\ (~Ends(p) \/ Retires(p)))) \in BOOLEAN
      BY Zenon
    <3>4. (Ends(p) /\ ~Retires(p)) \in BOOLEAN
      BY Zenon
    <3>5. (IF ~Retires(p) THEN NoRetirement
           ELSE IF Retiring THEN state.retirement ELSE [next |-> p.page.next, at |-> 0])
             \in [next : Cursor, at : 0..2 * NumRecords]
      <4>1. state.retirement \in [next : Cursor, at : 0..2 * NumRecords]
        BY DEF TypeOK, StateType
      <4>2. NoRetirement \in [next : Cursor, at : 0..2 * NumRecords]
        BY SizeAssumption, ConstantTypes DEF NoRetirement
      <4>3. p.page.next \in Cursor
        BY <2>1
      <4>4. [next |-> p.page.next, at |-> 0] \in [next : Cursor, at : 0..2 * NumRecords]
        BY SizeAssumption, <4>3
      <4> QED BY <4>1, <4>2, <4>4
    <3>6. state' = [state EXCEPT
            !.cursor = CommittedCursor(p),
            !.generation = Tag(p),
            !.snapshotComplete = state.snapshotComplete \/ (p.page.complete /\ ~Partial(p)),
            !.handover = p.page.mode = "snapshot" \/ (state.handover /\ (~Ends(p) \/ Retires(p))),
            !.retirement = IF ~Retires(p) THEN NoRetirement
                           ELSE IF Retiring THEN state.retirement ELSE [next |-> p.page.next, at |-> 0],
            !.converged = Ends(p) /\ ~Retires(p)]
      BY <1>6 DEF Apply
    <3> HIDE DEF p
    <3>7. PICK c \in Cursor : c = CommittedCursor(p)
      BY <3>1
    <3>8. PICK g \in Generation : g = Tag(p)
      BY <2>2
    <3>9. PICK complete \in BOOLEAN : complete = (state.snapshotComplete \/ (p.page.complete /\ ~Partial(p)))
      BY <3>2
    <3>10. PICK handover \in BOOLEAN : handover = (p.page.mode = "snapshot" \/ (state.handover /\ (~Ends(p) \/ Retires(p))))
      BY <3>3
    <3>11. PICK converged \in BOOLEAN : converged = (Ends(p) /\ ~Retires(p))
      BY <3>4
    <3>12. PICK retirement \in [next : Cursor, at : 0..2 * NumRecords] :
             retirement = IF ~Retires(p) THEN NoRetirement
                          ELSE IF Retiring THEN state.retirement ELSE [next |-> p.page.next, at |-> 0]
      BY <3>5
    <3>13. state' = [state EXCEPT !.cursor = c, !.generation = g, !.snapshotComplete = complete,
                                  !.handover = handover, !.retirement = retirement, !.converged = converged]
      BY <3>6, <3>7, <3>8, <3>9, <3>10, <3>11, <3>12
    <3> QED BY <3>13 DEF TypeOK, StateType
  <2>8. pull' \in [Tabs -> PullType]
    <3>1. SliceEnd(p) \in Nat
      BY SizeAssumption, <2>1 DEF SliceEnd, PullType, Page
    <3> DEFINE q == [p EXCEPT !.off = SliceEnd(p),
                              !.phase = IF Partial(p) THEN "apply" ELSE IF Retires(p) THEN "walk" ELSE "settle"]
    <3>2. q \in PullType
      <4> HIDE DEF p
      <4> QED BY <2>1, <3>1 DEF PullType
    <3>3. pull' = [pull EXCEPT ![t] = q]
      BY <1>6 DEF Apply
    <3> HIDE DEF q
    <3> QED BY <3>2, <3>3 DEF TypeOK
  <2> QED BY <1>6, <2>4, <2>5, <2>6, <2>7, <2>8 DEF Apply, TypeOK
<1>7. ASSUME NEW t \in Tabs, Replay(t) PROVE TypeOK'
  <2>1. pull' \in [Tabs -> PullType]
    <3>1. (pull[t].again \/ pull[t].off + SubSize < pull[t].page.to) \in BOOLEAN
      BY Zenon
    <3> DEFINE q == [pull[t] EXCEPT !.phase = "settle",
                       !.again = pull[t].again \/ pull[t].off + SubSize < pull[t].page.to]
    <3>2. q \in PullType
      <4> DEFINE b == pull[t].again \/ pull[t].off + SubSize < pull[t].page.to
      <4>1. pull[t] \in PullType
        BY DEF TypeOK
      <4> HIDE DEF b
      <4> QED BY <3>1, <4>1 DEF PullType
    <3>3. pull' = [pull EXCEPT ![t] = q]
      BY <1>7, Zenon DEF Replay
    <3> HIDE DEF q
    <3> QED BY <3>2, <3>3 DEF TypeOK
  <2> QED BY <1>7, <2>1 DEF Replay, TypeOK
<1>8. ASSUME NEW t \in Tabs, Walk(t) PROVE TypeOK'
  <2>1. Absent \in Row /\ NoRow \in RawType
    BY ConstantTypes
  <2>2. view' \in [Records -> Row] /\ raw' \in [Records -> RawType]
    BY <1>8, <2>1 DEF Walk, TypeOK
  <2>3. saved' \in [Records -> BOOLEAN]
    BY <1>8 DEF Walk, TypeOK
  <2>4. state' \in StateType
    <3>1. state.retirement.at + 1 \in 0..2 * NumRecords
      BY SizeAssumption, <1>8 DEF Walk, WalkGoesOn, TypeOK, StateType
    <3>2. [state.retirement EXCEPT !.at = state.retirement.at + 1] \in [next : Cursor, at : 0..2 * NumRecords]
      BY <3>1 DEF TypeOK, StateType
    <3>3. state' = [state EXCEPT !.retirement = [state.retirement EXCEPT !.at = state.retirement.at + 1]]
      BY <1>8 DEF Walk, TypeOK, StateType
    <3> QED BY <3>2, <3>3 DEF TypeOK, StateType
  <2> QED BY <1>8, <2>2, <2>3, <2>4 DEF Walk, TypeOK
<1>9. ASSUME NEW t \in Tabs, FinishWalk(t) PROVE TypeOK'
  <2>1. NoRetirement \in [next : Cursor, at : 0..2 * NumRecords]
    BY SizeAssumption, ConstantTypes DEF NoRetirement
  <2>2. state' \in StateType
    BY <1>9, <2>1 DEF FinishWalk, TypeOK, StateType
  <2>3. pull' \in [Tabs -> PullType]
    <3>1. [pull[t] EXCEPT !.phase = "settle"] \in PullType
      <4>1. pull[t] \in PullType
        BY DEF TypeOK
      <4> QED BY <4>1 DEF PullType
    <3> QED BY <1>9, <3>1 DEF FinishWalk, TypeOK
  <2> QED BY <1>9, <2>2, <2>3 DEF FinishWalk, TypeOK
<1>10. ASSUME NEW t \in Tabs, Reject(t) \/ Abort(t) PROVE TypeOK'
  BY BoundAssumption, <1>10, ConstantTypes DEF Reject, Abort, TypeOK
<1>11. ASSUME NEW t \in Tabs, Settle(t) PROVE TypeOK'
  <2>1. pull[t].page.next \in Cursor /\ pull[t].gen \in 0..MaxResets /\ Idle \in PullType
    BY ConstantTypes DEF TypeOK, PullType, Page
  <2>2. pull' \in [Tabs -> PullType]
    BY <1>11, <2>1 DEF Settle, TypeOK, PullType
  <2> QED BY <1>11, <2>2, TypeReconcile DEF Settle, TypeOK
<1>12. ASSUME NEW r \in Records, AcceptRemote(r) PROVE TypeOK'
  <2>1. raw[r].ver \in Version /\ state.generation \in Generation /\ Absent \in Row
    BY ConstantTypes DEF TypeOK, RawType, StateType
  <2>2. Materialized(Absent, raw[r].ver, state.generation) \in Row
    BY <2>1, MaterializedType
  <2>3. Conflicted(Absent, raw[r].ver, TRUE) \in BOOLEAN
    BY Zenon DEF Conflicted
  <2>4. [raw[r] EXCEPT !.gen = state.generation] \in RawType
    BY <2>1 DEF TypeOK, RawType
  <2>5. raw' \in [Records -> RawType]
    BY <1>12, <2>4 DEF AcceptRemote, TypeOK
  <2>6. view' \in [Records -> Row]
    BY <1>12, <2>2 DEF AcceptRemote, TypeOK
  <2>7. conflict' \in [Records -> BOOLEAN]
    BY <1>12, <2>3 DEF AcceptRemote, TypeOK
  <2>8. saved' \in [Records -> BOOLEAN]
    BY <1>12 DEF AcceptRemote, TypeOK
  <2> QED BY <1>12, <2>5, <2>6, <2>7, <2>8 DEF AcceptRemote, TypeOK
<1>13. ASSUME NEW r \in Records, LocalEdit(r) PROVE TypeOK'
  <2>1. view[r] \in Row /\ raw[r].ver \in Version
    BY DEF TypeOK, RawType
  <2>2. [phase |-> "sent", ver |-> 0, prev |-> view[r], base |-> raw[r].ver] \in CommandType
    BY <2>1, <1>0 DEF CommandType
  <2>3. cmd' \in [Records -> CommandType]
    BY <1>13, <2>2 DEF LocalEdit, TypeOK
  <2>4. view' \in [Records -> Row]
    BY <1>13, <2>1 DEF LocalEdit, TypeOK, Row
  <2> QED BY BoundAssumption, <1>13, <2>3, <2>4 DEF LocalEdit, TypeOK
<1>14. ASSUME NEW r \in Records, TowerAccept(r) PROVE TypeOK'
  <2>1. [id |-> r, op |-> "upsert"] \in ChangeType
    BY DEF ChangeType
  <2>2. journal' \in Seq(ChangeType) /\ Len(journal') <= MaxJournal
    BY BoundAssumption, <1>14, <2>1, <1>0 DEF TowerAccept, TypeOK
  <2>3. Len(journal) + 1 \in Version
    BY BoundAssumption, <1>14, <1>0 DEF TowerAccept, Version
  <2>4. [cmd[r] EXCEPT !.phase = "accepted", !.ver = Len(journal) + 1] \in CommandType
    <3>1. cmd[r] \in CommandType
      BY DEF TypeOK
    <3> QED BY <2>3, <3>1 DEF CommandType
  <2>5. cmd' \in [Records -> CommandType]
    BY <1>14, <2>4 DEF TowerAccept, TypeOK
  <2> QED BY <1>14, <2>2, <2>5 DEF TowerAccept, TypeOK
<1>15. \A r \in Records : cmd[r].prev \in Row /\ Accepted(r) \in Row
                          /\ [cmd[r].prev EXCEPT !.status = "pending"] \in Row
  <2> SUFFICES ASSUME NEW r \in Records
               PROVE  cmd[r].prev \in Row /\ Accepted(r) \in Row
                      /\ [cmd[r].prev EXCEPT !.status = "pending"] \in Row
    OBVIOUS
  <2>1. cmd[r].prev \in Row /\ cmd[r].ver \in Version
    BY DEF TypeOK, CommandType
  <2>2. \A x \in Row : [x EXCEPT !.status = "pending"] \in Row
    BY DEF Row
  <2>3. -1 \in Generation
    BY ConstantTypes DEF Generation, NoRow, RawType
  <2>4. Accepted(r) \in Row
    BY <2>1, <2>3 DEF Accepted, Row
  <2>5. [cmd[r].prev EXCEPT !.status = "pending"] \in Row
    BY <2>1, <2>2
  <2> QED BY <2>1, <2>4, <2>5
<1>16. ASSUME NEW r \in Records, Acknowledge(r) PROVE TypeOK'
  <2>1. Put(Accepted(r), r) /\ Accepted(r) \in Row
    BY <1>15, <1>16 DEF Acknowledge
  <2>2. view' \in [Records -> Row] /\ late' \in [Records -> BOOLEAN]
    BY <2>1, TypePut
  <2>3. cmd' \in [Records -> CommandType]
    BY <1>16 DEF Acknowledge, TypeOK, CommandType
  <2> QED BY <1>16, <2>2, <2>3 DEF Acknowledge, TypeOK
<1>17. ASSUME NEW r \in Records, AcknowledgedReconcile(r) PROVE TypeOK'
  <2>1. raw' \in [Records -> RawType] /\ view' \in [Records -> Row] /\ conflict' \in [Records -> BOOLEAN]
    BY <1>17, TypeReconcile DEF AcknowledgedReconcile
  <2>2. cmd' \in [Records -> CommandType]
    <3>1. cmd[r] \in CommandType
      BY DEF TypeOK
    <3>2. \A x \in {"rematerialized", "reconciled"} : [cmd[r] EXCEPT !.phase = x] \in CommandType
      BY <3>1 DEF CommandType
    <3>3. cmd' = [cmd EXCEPT ![r] = [cmd[r] EXCEPT !.phase = IF conflict[r] THEN "rematerialized" ELSE "reconciled"]]
      BY <1>17 DEF AcknowledgedReconcile
    <3> QED BY <3>2, <3>3 DEF TypeOK
  <2> QED BY <1>17, <2>1, <2>2 DEF AcknowledgedReconcile, TypeOK
<1>18. NoCommand \in CommandType
  BY <1>0, ConstantTypes DEF NoCommand, CommandType
<1>19. ASSUME NEW r \in Records, Republish(r) PROVE TypeOK'
  BY <1>15, <1>18, <1>19, TypePut DEF Republish, TypeOK
<1>20. ASSUME NEW r \in Records, Fail(r) PROVE TypeOK'
  <2>1. view' \in [Records -> Row] /\ late' \in [Records -> BOOLEAN]
    BY <1>15, <1>20, TypePut DEF Fail
  <2>2. cmd' \in [Records -> CommandType] /\ faults' \in 0..MaxFaults
    <3>1. [cmd[r] EXCEPT !.phase = "failed"] \in CommandType
      <4>1. cmd[r] \in CommandType
        BY DEF TypeOK
      <4> QED BY <4>1 DEF CommandType
    <3>2. cmd' \in [Records -> CommandType]
      BY <1>20, <3>1 DEF Fail, TypeOK
    <3> QED BY BoundAssumption, <1>20, <3>2 DEF Fail, TypeOK
  <2> QED BY <1>20, <2>1, <2>2 DEF Fail, TypeOK
<1>21. ASSUME NEW r \in Records, NEW b \in BOOLEAN, GiveUp(r, b) PROVE TypeOK'
  <2>1. (IF b THEN cmd[r].prev ELSE [cmd[r].prev EXCEPT !.status = "pending"]) \in Row
    BY <1>15
  <2>2. view' \in [Records -> Row] /\ late' \in [Records -> BOOLEAN]
    BY <1>21, <2>1, TypePut DEF GiveUp
  <2> QED BY <1>18, <1>21, <2>2 DEF GiveUp, TypeOK
<1>22. CASE Restart
  BY BoundAssumption, <1>18, <1>22, ConstantTypes DEF Restart, TypeOK
<1>23. CASE UNCHANGED vars
  BY <1>23 DEF vars, TypeOK
<1> QED
  BY <1>1, <1>2, <1>3, <1>4, <1>5, <1>6, <1>7, <1>8, <1>9, <1>10, <1>11, <1>12, <1>13,
     <1>14, <1>16, <1>17, <1>19, <1>20, <1>21, <1>22, <1>23 DEF Next, Download

\* Every variable always holds a value of its type.
THEOREM TypeCorrect == Spec => []TypeOK
BY TypeInit, TypeNext, PTL DEF Spec

----------------------------------------------------------------------------
(* The committed cursor moves forward.                                      *)

\* A page begins where its read's cursor stands, and its next cursor is ahead.
LEMMA PageForward ==
  ASSUME TypeOK, NEW at \in Nat
  PROVE  /\ at <= Len(journal) => /\ InJournal(DeltaPage(at).next)
                                  /\ \A c \in Cursor : c.kind = "delta" /\ c.at = at =>
                                       Behind(c, DeltaPage(at).next)
         /\ \A since \in Version : since <= Len(journal) =>
              /\ InJournal(SnapshotPage(at, since).next)
              /\ \A c \in Cursor : c.kind # "delta" /\ c.at = at =>
                   Behind(c, SnapshotPage(at, since).next)
<1>1. Len(journal) \in Nat
  BY DEF TypeOK
<1>2. ASSUME at <= Len(journal)
      PROVE  /\ InJournal(DeltaPage(at).next)
             /\ \A c \in Cursor : c.kind = "delta" /\ c.at = at => Behind(c, DeltaPage(at).next)
  BY SizeAssumption, <1>1, <1>2 DEF DeltaPage, DeltaCursor, InJournal, Behind
<1>3. ASSUME NEW since \in Version, since <= Len(journal)
      PROVE  /\ InJournal(SnapshotPage(at, since).next)
             /\ \A c \in Cursor : c.kind # "delta" /\ c.at = at =>
                  Behind(c, SnapshotPage(at, since).next)
  <2>1. \/ SnapshotPage(at, since).next = DeltaCursor(since)
        \/ SnapshotPage(at, since).next = SnapshotCursor(at + PageSize, since)
    BY DEF SnapshotPage
  <2>2. InJournal(SnapshotPage(at, since).next)
    BY <1>1, <1>3, <2>1 DEF DeltaCursor, SnapshotCursor, InJournal
  <2>3. \A c \in Cursor : c.kind # "delta" /\ c.at = at => Behind(c, SnapshotPage(at, since).next)
    BY SizeAssumption, <2>1 DEF DeltaCursor, SnapshotCursor, Behind, Cursor
  <2> QED BY <2>2, <2>3
<1> QED BY <1>2, <1>3

\* Nothing has been read or committed at the start.
LEMMA CursorInit == Init => CursorInv
BY BoundAssumption DEF Init, CursorInv, PullAhead, InJournal, FreshState, NoRetirement, NoCursor, Idle, NoPage, Retiring

\* A longer journal holds what it held.
LEMMA CursorLonger ==
  ASSUME TypeOK, CursorInv, NEW x \in ChangeType, journal' = Append(journal, x),
         UNCHANGED <<pinned, state, pull>>
  PROVE  CursorInv'
<1>1. Len(journal') = Len(journal) + 1 /\ Len(journal) \in Nat
  BY DEF TypeOK
<1>2. \A c \in Cursor : InJournal(c) => InJournal(c)'
  BY <1>1 DEF InJournal, Cursor, Version
<1>3. state.cursor \in Cursor /\ state.retirement.next \in Cursor
  BY DEF TypeOK, StateType
<1>4. \A t \in Tabs : pull[t].cursor \in Cursor /\ pull[t].page.next \in Cursor
  BY DEF TypeOK, PullType, Page
<1>5. /\ InJournal(state.cursor)' /\ InJournal(state.retirement.next)'
      /\ \A t \in Tabs : InJournal(pull[t].cursor)' /\ InJournal(pull[t].page.next)'
  BY <1>2, <1>3, <1>4 DEF CursorInv, PullAhead, InJournal
<1>6. \A g \in 0..MaxResets : pinned'[g] <= Len(journal')
  BY <1>1 DEF CursorInv, TypeOK
<1>7. (Retiring => Behind(state.cursor, state.retirement.next))'
  BY DEF CursorInv, Retiring, Behind
<1>8. \A t \in Tabs : PullAhead(t)'
  BY <1>5 DEF CursorInv, PullAhead, Behind
<1> QED BY <1>5, <1>6, <1>7, <1>8 DEF CursorInv

\* Every step keeps the invariant.
LEMMA CursorNext == TypeOK /\ CursorInv /\ [Next]_vars => CursorInv'
<1> SUFFICES ASSUME TypeOK, CursorInv, [Next]_vars PROVE CursorInv'
  OBVIOUS
<1>0. Len(journal) \in Nat
  BY DEF TypeOK
<1>1. ASSUME NEW r \in Records, NEW op \in {"upsert", "delete"}, TowerWrite(r, op) PROVE CursorInv'
  BY <1>1, CursorLonger DEF TowerWrite, ChangeType
<1>2. ASSUME NEW r \in Records, TowerAccept(r) PROVE CursorInv'
  BY <1>2, CursorLonger DEF TowerAccept, ChangeType
\* A step of one tab: what remains is its own part of the invariant.
<1>3. ASSUME NEW t \in Tabs, NEW q, pull' = [pull EXCEPT ![t] = q],
             UNCHANGED <<journal, state>>, \A g \in 0..MaxResets : pinned'[g] <= Len(journal),
             InJournal(q.cursor), InJournal(q.page.next),
             q.phase = "apply" => Behind(q.cursor, q.page.next)
      PROVE  CursorInv'
  <2>1. \A u \in Tabs : pull'[u] = IF u = t THEN q ELSE pull[u]
    BY <1>3 DEF TypeOK
  <2>2. \A u \in Tabs : PullAhead(u)'
    BY <1>3, <2>1 DEF CursorInv, PullAhead, InJournal, Behind
  <2>3. (InJournal(state.cursor) /\ InJournal(state.retirement.next))'
    BY <1>3 DEF CursorInv, PullAhead, InJournal
  <2>4. (Retiring => Behind(state.cursor, state.retirement.next))'
    BY <1>3 DEF CursorInv, PullAhead, Retiring, Behind
  <2> QED BY <1>3, <2>2, <2>3, <2>4 DEF CursorInv
<1>4. ASSUME NEW t \in Tabs, Begin(t) PROVE CursorInv'
  <2> DEFINE q == [Idle EXCEPT !.phase = IF Resumes THEN "apply" ELSE "read",
                    !.cursor = state.cursor, !.gen = state.localGeneration,
                    !.page = IF Resumes THEN [NoPage EXCEPT !.next = state.retirement.next] ELSE NoPage,
                    !.again = Resumes]
  <2>1. pull' = [pull EXCEPT ![t] = q]
    BY <1>4 DEF Begin
  <2>2. InJournal(NoCursor)
    BY <1>0 DEF InJournal, NoCursor
  <2>3. /\ q.cursor = state.cursor
        /\ q.phase = IF Resumes THEN "apply" ELSE "read"
        /\ q.page.next = IF Resumes THEN state.retirement.next ELSE NoCursor
    BY DEF Idle, NoPage
  <2> HIDE DEF q
  <2>4. /\ InJournal(q.cursor) /\ InJournal(q.page.next)
        /\ q.phase = "apply" => Behind(q.cursor, q.page.next)
    BY <2>2, <2>3 DEF CursorInv, Resumes
  <2>5. UNCHANGED <<journal, state, pinned>> /\ \A g \in 0..MaxResets : pinned[g] <= Len(journal)
    BY <1>4 DEF Begin, CursorInv
  <2> QED BY <1>3, <2>1, <2>4, <2>5
<1>5. ASSUME NEW t \in Tabs, Read(t) PROVE CursorInv'
  <2> DEFINE c == pull[t].cursor
             since == IF pinned[pull[t].gen] = -1 THEN Len(journal) ELSE pinned[pull[t].gen]
             page == IF c.kind = "delta" THEN DeltaPage(c.at)
                     ELSE SnapshotPage(c.at, IF c.kind = "none" THEN since ELSE c.since)
             q == [pull[t] EXCEPT !.phase = "apply", !.page = page,
                                  !.off = page.from, !.again = page.hasMore]
  <2>1. /\ c \in Cursor /\ c.at \in Nat /\ c.since \in Version /\ InJournal(c)
        /\ pull[t].gen \in 0..MaxResets
    <3>1. InJournal(c)
      BY DEF CursorInv, PullAhead
    <3>2. c \in Cursor /\ pull[t].gen \in 0..MaxResets
      BY DEF TypeOK, PullType
    <3> HIDE DEF c
    <3> QED BY <3>1, <3>2 DEF Cursor
  <2>2. since \in Version /\ since <= Len(journal)
    BY <1>0, <2>1 DEF TypeOK, Version, CursorInv, PullAhead
  <2>3. InJournal(page.next) /\ Behind(c, page.next)
    <3>1. CASE c.kind = "delta"
      BY <2>1, <3>1, PageForward DEF InJournal
    <3>2. CASE c.kind # "delta"
      <4> DEFINE s == IF c.kind = "none" THEN since ELSE c.since
      <4>1. s \in Version /\ s <= Len(journal)
        BY <2>1, <2>2 DEF InJournal
      <4>2. page = SnapshotPage(c.at, s)
        BY <3>2
      <4> HIDE DEF s, page
      <4> QED BY <2>1, <3>2, <4>1, <4>2, PageForward
    <3> QED BY <3>1, <3>2
  <2>4. pull' = [pull EXCEPT ![t] = q]
    BY <1>5 DEF Read
  <2>5. \A g \in 0..MaxResets : pinned'[g] <= Len(journal)
    <3>1. pinned' = IF c.kind = "none" THEN [pinned EXCEPT ![pull[t].gen] = since] ELSE pinned
      BY <1>5 DEF Read
    <3> HIDE DEF since
    <3> QED BY <2>1, <2>2, <3>1 DEF TypeOK, CursorInv, PullAhead
  <2>6. q.cursor = c /\ q.page = page
    BY DEF TypeOK, PullType
  <2> HIDE DEF q, page
  <2> QED BY <1>3, <1>5, <2>1, <2>3, <2>4, <2>5, <2>6 DEF Read
<1>6. ASSUME NEW t \in Tabs, NEW h \in BOOLEAN, Denied(t, h) PROVE CursorInv'
  <2> DEFINE q == [pull[t] EXCEPT !.phase = "reset", !.hide = h]
  <2>1. pull' = [pull EXCEPT ![t] = q]
    BY <1>6 DEF Denied
  <2>2. q.cursor = pull[t].cursor /\ q.page = pull[t].page /\ q.phase = "reset"
    BY DEF TypeOK, PullType
  <2> HIDE DEF q
  <2> QED BY <1>3, <1>6, <2>1, <2>2 DEF Denied, CursorInv, PullAhead
<1>7. InJournal(NoCursor) /\ Idle.cursor = NoCursor /\ Idle.page.next = NoCursor /\ Idle.phase = "idle"
  BY <1>0 DEF InJournal, NoCursor, Idle, NoPage
<1>8. ASSUME NEW t \in Tabs, Reset(t) PROVE CursorInv'
  <2>1. /\ state'.cursor = NoCursor /\ state'.retirement.next = NoCursor
        /\ NoCursor.kind = "none"
    BY <1>8 DEF Reset, FreshState, NoRetirement, NoCursor
  <2> DEFINE q == [Idle EXCEPT !.phase = "read", !.gen = state.localGeneration + 1]
  <2>2. q.cursor = NoCursor /\ q.page.next = NoCursor /\ q.phase = "read"
    BY DEF Idle, NoPage
  <2>3. pull' = [pull EXCEPT ![t] = Idle] \/ pull' = [pull EXCEPT ![t] = q]
    BY <1>8 DEF Reset
  <2>4. \A u \in Tabs : pull'[u] = pull[u] \/ pull'[u] = Idle \/ pull'[u] = q
    <3> HIDE DEF q
    <3> QED BY <2>3 DEF TypeOK
  <2> HIDE DEF q
  <2>5. UNCHANGED <<journal, pinned>>
    BY <1>8 DEF Reset
  <2>6. \A u \in Tabs : PullAhead(u)'
    BY <1>7, <2>2, <2>4, <2>5 DEF CursorInv, PullAhead, InJournal, Behind
  <2>7. (InJournal(state.cursor) /\ InJournal(state.retirement.next))'
    BY <1>7, <2>1, <2>5 DEF InJournal
  <2>8. (Retiring => Behind(state.cursor, state.retirement.next))'
    BY <2>1 DEF Retiring
  <2> QED BY <2>5, <2>6, <2>7, <2>8 DEF CursorInv, PullAhead
<1>9. ASSUME NEW t \in Tabs, Apply(t) PROVE CursorInv'
  <2> DEFINE p == pull[t]
  <2>1. /\ p.phase = "apply" /\ p.cursor = state.cursor /\ UNCHANGED <<journal, pinned>>
        /\ InJournal(p.page.next) /\ Behind(state.cursor, p.page.next)
        /\ InJournal(state.cursor)
    <3>1. /\ p.phase = "apply" /\ p.cursor = state.cursor
          /\ UNCHANGED <<journal, pinned>>
      BY <1>9 DEF Apply, Held
    <3> QED BY <3>1 DEF CursorInv, PullAhead
  <2>2. state'.cursor = CommittedCursor(p)
    BY <1>9 DEF Apply, TypeOK, StateType
  <2>3. state'.retirement = IF ~Retires(p) THEN NoRetirement
                            ELSE IF Retiring THEN state.retirement ELSE [next |-> p.page.next, at |-> 0]
    BY <1>9 DEF Apply, TypeOK, StateType
  <2>4. InJournal(state'.cursor) /\ InJournal(state'.retirement.next)
    BY <2>1, <2>2, <2>3, <1>7 DEF CommittedCursor, NoRetirement, CursorInv
  <2>5. Retiring' => Behind(state'.cursor, state'.retirement.next)
    <3>1. CASE ~Retires(p)
      BY <2>3, <3>1 DEF Retiring, NoRetirement, NoCursor
    <3>2. CASE Retires(p)
      BY <2>1, <2>2, <2>3, <3>2 DEF Retiring, CommittedCursor, CursorInv, PullAhead
    <3> QED BY <3>1, <3>2
  <2>6. \A u \in Tabs : /\ pull'[u].cursor = pull[u].cursor /\ pull'[u].page = pull[u].page
                        /\ pull'[u].phase = "apply" => pull[u].phase = "apply"
    <3> DEFINE q == [p EXCEPT !.off = SliceEnd(p),
                              !.phase = IF Partial(p) THEN "apply" ELSE IF Retires(p) THEN "walk" ELSE "settle"]
    <3>1. pull' = [pull EXCEPT ![t] = q]
      BY <1>9 DEF Apply
    <3>2. q.cursor = p.cursor /\ q.page = p.page
      BY DEF TypeOK, PullType
    <3> HIDE DEF q
    <3> QED BY <2>1, <3>1, <3>2 DEF TypeOK
  <2>7. \A u \in Tabs : PullAhead(u)'
    BY <2>1, <2>6 DEF CursorInv, PullAhead, InJournal, Behind
  <2>8. (InJournal(state.cursor) /\ InJournal(state.retirement.next))'
    BY <2>1, <2>4 DEF InJournal
  <2> QED BY <2>1, <2>5, <2>7, <2>8 DEF CursorInv, PullAhead
<1>10. ASSUME NEW t \in Tabs, Walk(t) PROVE CursorInv'
  <2>1. state'.cursor = state.cursor /\ state'.retirement.next = state.retirement.next
    BY <1>10 DEF Walk, TypeOK, StateType
  <2>2. UNCHANGED <<journal, pinned, pull>>
    BY <1>10 DEF Walk
  <2> QED BY <2>1, <2>2 DEF CursorInv, PullAhead, InJournal, Retiring, Behind
<1>11. ASSUME NEW t \in Tabs, FinishWalk(t) PROVE CursorInv'
  <2>1. state'.cursor = state.retirement.next /\ state'.retirement = NoRetirement
    BY <1>11 DEF FinishWalk, TypeOK, StateType
  <2>2. \A u \in Tabs : /\ pull'[u].cursor = pull[u].cursor /\ pull'[u].page = pull[u].page
                        /\ pull'[u].phase = "apply" => pull[u].phase = "apply"
    BY <1>11 DEF FinishWalk, TypeOK, PullType
  <2>3. UNCHANGED <<journal, pinned>>
    BY <1>11 DEF FinishWalk
  <2>4. state'.retirement.next = NoCursor /\ NoCursor.kind = "none"
    BY <2>1 DEF NoRetirement, NoCursor
  <2>5. \A u \in Tabs : PullAhead(u)'
    BY <2>2, <2>3 DEF CursorInv, PullAhead, InJournal, Behind
  <2>6. (InJournal(state.cursor) /\ InJournal(state.retirement.next))'
    BY <1>7, <2>1, <2>3, <2>4 DEF CursorInv, PullAhead, InJournal
  <2>7. (Retiring => Behind(state.cursor, state.retirement.next))'
    BY <2>4 DEF Retiring
  <2> QED BY <2>3, <2>5, <2>6, <2>7 DEF CursorInv, PullAhead
<1>12. ASSUME NEW t \in Tabs, Replay(t) PROVE CursorInv'
  <2> DEFINE q == [pull[t] EXCEPT !.phase = "settle",
                     !.again = pull[t].again \/ pull[t].off + SubSize < pull[t].page.to]
  <2>1. pull' = [pull EXCEPT ![t] = q]
    BY <1>12 DEF Replay
  <2>2. q.cursor = pull[t].cursor /\ q.page = pull[t].page /\ q.phase = "settle"
    BY DEF TypeOK, PullType
  <2> HIDE DEF q
  <2> QED BY <1>3, <1>12, <2>1, <2>2 DEF Replay, CursorInv, PullAhead
<1>13. ASSUME NEW t \in Tabs, Reject(t) \/ Abort(t) PROVE CursorInv'
  <2>1. pull' = [pull EXCEPT ![t] = Idle] /\ UNCHANGED <<journal, pinned, state>>
    BY <1>13 DEF Reject, Abort
  <2> QED BY <1>3, <1>7, <2>1 DEF CursorInv, PullAhead
<1>14. ASSUME NEW t \in Tabs, Settle(t) PROVE CursorInv'
  <2> DEFINE again == [Idle EXCEPT !.phase = "read", !.cursor = pull[t].page.next, !.gen = pull[t].gen]
             q == IF pull[t].again THEN again ELSE Idle
  <2>1. pull' = [pull EXCEPT ![t] = q] /\ UNCHANGED <<journal, pinned, state>>
    BY <1>14 DEF Settle
  <2>2. again.cursor = pull[t].page.next /\ again.page.next = NoCursor /\ again.phase = "read"
    BY DEF Idle, NoPage
  <2>3. InJournal(q.cursor) /\ InJournal(q.page.next) /\ q.phase # "apply"
    <3>1. InJournal(pull[t].page.next)
      BY DEF CursorInv, PullAhead
    <3> HIDE DEF again
    <3> QED BY <1>7, <2>2, <3>1
  <2> HIDE DEF q
  <2> QED BY <1>3, <2>1, <2>3 DEF CursorInv, PullAhead
<1>15. CASE Restart
  BY <1>7, <1>15 DEF Restart, CursorInv, PullAhead, InJournal, Retiring, Behind
<1>16. ASSUME UNCHANGED <<journal, pinned, state, pull>> PROVE CursorInv'
  BY <1>16 DEF CursorInv, PullAhead, InJournal, Retiring, Behind
<1>17. ASSUME NEW r \in Records,
              \/ AcceptRemote(r) \/ LocalEdit(r) \/ Acknowledge(r) \/ AcknowledgedReconcile(r)
              \/ Republish(r) \/ Fail(r) \/ GiveUp(r, TRUE) \/ GiveUp(r, FALSE)
       PROVE  CursorInv'
  BY <1>16, <1>17 DEF AcceptRemote, LocalEdit, Acknowledge, AcknowledgedReconcile, Republish, Fail, GiveUp
<1>18. CASE UNCHANGED vars
  BY <1>16, <1>18 DEF vars
<1> QED
  BY <1>1, <1>2, <1>4, <1>5, <1>6, <1>8, <1>9, <1>10, <1>11, <1>12, <1>13, <1>14, <1>15,
     <1>17, <1>18 DEF Next, Download

\* The cursors a tab or the omission walk holds are ahead of those they replace.
THEOREM CursorInvariant == Spec => []CursorInv
<1>1. Init => CursorInv
  BY CursorInit
<1>2. TypeOK /\ CursorInv /\ [Next]_vars => CursorInv'
  BY CursorNext
<1> QED BY <1>1, <1>2, TypeCorrect, PTL DEF Spec

\* Whichever tab commits, the cursor of one generation only moves forward.
THEOREM CursorMovesForward == Spec => CursorForward
<1>1. TypeOK /\ CursorInv /\ [Next]_vars =>
        [state'.localGeneration = state.localGeneration => Behind(state.cursor, state'.cursor)]_vars
  <2> SUFFICES ASSUME TypeOK, CursorInv, Next, state'.localGeneration = state.localGeneration
               PROVE  Behind(state.cursor, state'.cursor)
    OBVIOUS
  <2>1. Behind(state.cursor, state.cursor)
    BY DEF Behind
  <2>2. ASSUME NEW t \in Tabs, Apply(t) PROVE Behind(state.cursor, state'.cursor)
    <3>1. state'.cursor = CommittedCursor(pull[t])
      BY <2>2 DEF Apply, TypeOK, StateType
    <3>2. Behind(state.cursor, pull[t].page.next)
      BY <2>2 DEF Apply, Held, CursorInv, PullAhead
    <3> QED BY <2>1, <3>1, <3>2 DEF CommittedCursor
  <2>3. ASSUME NEW t \in Tabs, FinishWalk(t) PROVE Behind(state.cursor, state'.cursor)
    BY <2>3 DEF FinishWalk, WalkHeld, CursorInv, PullAhead, TypeOK, StateType
  <2>4. ASSUME NEW t \in Tabs, Reset(t) PROVE FALSE
    BY <2>4 DEF Reset, FreshState, TypeOK, StateType
  <2>5. ASSUME NEW t \in Tabs, Walk(t) PROVE Behind(state.cursor, state'.cursor)
    BY <2>1, <2>5 DEF Walk, TypeOK, StateType
  <2>6. ASSUME NEW t \in Tabs, \/ Begin(t) \/ Read(t) \/ Replay(t) \/ Reject(t) \/ Settle(t)
                               \/ Abort(t) \/ Denied(t, TRUE) \/ Denied(t, FALSE)
        PROVE  Behind(state.cursor, state'.cursor)
    BY <2>1, <2>6 DEF Begin, Read, Replay, Reject, Settle, Abort, Denied
  <2>7. ASSUME NEW r \in Records,
               \/ TowerWrite(r, "upsert") \/ TowerWrite(r, "delete") \/ TowerAccept(r)
               \/ AcceptRemote(r) \/ LocalEdit(r) \/ Acknowledge(r) \/ AcknowledgedReconcile(r)
               \/ Republish(r) \/ Fail(r) \/ GiveUp(r, TRUE) \/ GiveUp(r, FALSE)
        PROVE  Behind(state.cursor, state'.cursor)
    BY <2>1, <2>7 DEF TowerWrite, TowerAccept, AcceptRemote, LocalEdit, Acknowledge,
         AcknowledgedReconcile, Republish, Fail, GiveUp
  <2>8. CASE Restart
    BY <2>1, <2>8 DEF Restart
  <2> QED BY <2>2, <2>3, <2>4, <2>5, <2>6, <2>7, <2>8 DEF Next, Download
<1> QED BY <1>1, TypeCorrect, CursorInvariant, PTL DEF Spec, CursorForward

----------------------------------------------------------------------------
(* Second part: the cover of the cursor.                                    *)

----------------------------------------------------------------------------
(* The last change of a record.                                             *)

\* v is the last change to r among positions x+1..y of the journal, 0 if none.
IsLast(v, r, x, y) ==
  \/ v = 0 /\ \A i \in 1..Len(journal) : x < i /\ i <= y => journal[i].id # r
  \/ /\ v \in 1..Len(journal) /\ x < v /\ v <= y /\ journal[v].id = r
     /\ \A i \in 1..Len(journal) : x < i /\ i <= y /\ journal[i].id = r => i <= v

LastFacts == \A r, x, y : IsLast(LastIn(r, x, y), r, x, y)

\* LastIn finds the last change, before a step and after it.
LEMMA LastIsLast == journal \in Seq(ChangeType) => LastFacts
<1> SUFFICES ASSUME journal \in Seq(ChangeType), NEW r, NEW x, NEW y
             PROVE  IsLast(LastIn(r, x, y), r, x, y)
  BY DEF LastFacts
<1> DEFINE S == {i \in 1..Len(journal) : x < i /\ i <= y /\ journal[i].id = r}
<1>1. CASE S = {}
  BY <1>1 DEF LastIn, IsLast
<1>2. CASE S # {}
  <2>1. \E m \in S : \A i \in S : i <= m
    <3>1. S \in SUBSET (1..Len(journal)) /\ Len(journal) \in Nat
      OBVIOUS
    <3> HIDE DEF S
    <3> QED BY <1>2, <3>1, LastExists
  <2>2. LastIn(r, x, y) \in S /\ \A i \in S : i <= LastIn(r, x, y)
    BY <2>1, <1>2 DEF LastIn
  <2> QED BY <2>2 DEF IsLast
<1> QED BY <1>1, <1>2

\* The same facts after a step.
LEMMA LastIsLastNext == (journal \in Seq(ChangeType))' => LastFacts'
BY LastIsLast, PTL

\* The last change up to y lies in the later part if that has one at all.
LEMMA LastSplit ==
  ASSUME journal \in Seq(ChangeType), NEW r, NEW x \in Nat, NEW y \in Nat, x <= y
  PROVE  LastIn(r, 0, y) = IF LastIn(r, x, y) = 0 THEN LastIn(r, 0, x) ELSE LastIn(r, x, y)
<1>1. PICK v, u, w : v = LastIn(r, 0, y) /\ u = LastIn(r, 0, x) /\ w = LastIn(r, x, y)
  OBVIOUS
<1>2. IsLast(v, r, 0, y) /\ IsLast(u, r, 0, x) /\ IsLast(w, r, x, y) /\ Len(journal) \in Nat
  BY <1>1, LastIsLast DEF LastFacts
<1>3. CASE w = 0
  <2>1. v = 0 \/ v <= x
    BY <1>2, <1>3 DEF IsLast
  <2>2. CASE v = 0
    BY <1>1, <1>2, <1>3, <2>2 DEF IsLast
  <2>3. CASE v # 0
    <3>1. u # 0 /\ v <= u
      BY <1>2, <2>1, <2>3 DEF IsLast
    <3>2. u <= v
      BY <1>2, <2>3, <3>1 DEF IsLast
    <3>3. u \in Nat /\ v \in Nat
      BY <1>2 DEF IsLast
    <3> QED BY <1>1, <1>3, <3>1, <3>2, <3>3
  <2> QED BY <2>2, <2>3
<1>4. CASE w # 0
  <2>1. v # 0 /\ w <= v
    BY <1>2, <1>4 DEF IsLast
  <2>2. v <= w
    BY <1>2, <1>4, <2>1 DEF IsLast
  <2>3. v \in Nat /\ w \in Nat
    BY <1>2 DEF IsLast
  <2> QED BY <1>1, <1>4, <2>1, <2>2, <2>3
<1> QED BY <1>3, <1>4

----------------------------------------------------------------------------
(* A step that stays in the generation.                                     *)

\* The journal only grows.
Grows == /\ Len(journal) <= Len(journal')
         /\ \A i \in 1..Len(journal) : journal'[i] = journal[i]

\* A canonical row stays, or an older generation's is dropped, or a row of this
\* generation replaces it: one of Tower's, no older than the snapshot, and no
\* older than a row of this generation.
RowMoves(r) ==
  \/ raw'[r] = raw[r]
  \/ raw'[r] = NoRow /\ raw[r].gen # Current
  \/ /\ Since # -1 /\ raw'[r].gen = Current
     /\ raw'[r].ver \in 1..Len(journal) /\ journal[raw'[r].ver].id = r
     /\ raw'[r].ver >= LastIn(r, 0, Since)
     /\ raw[r].gen = Current => raw'[r].ver >= raw[r].ver

Steady ==
  /\ Grows /\ Current' = Current
  /\ IF Since = -1 THEN Since' = -1 \/ Since' = Len(journal) ELSE Since' = Since
  /\ \A r \in Records : RowMoves(r)

\* What the types say of the values used below.
LEMMA Typed ==
  ASSUME TypeOK
  PROVE  /\ Len(journal) \in Nat /\ journal \in Seq(ChangeType)
         /\ Current \in 0..MaxResets /\ Since \in -1..MaxJournal
         /\ \A r \in Records : raw[r].ver \in Nat /\ raw[r].gen \in -1..MaxResets
<1>1. Len(journal) \in Nat /\ journal \in Seq(ChangeType)
  BY DEF TypeOK
<1>2. Current \in 0..MaxResets /\ Since \in -1..MaxJournal
  BY DEF TypeOK, StateType, Current, Since
<1>3. \A r \in Records : raw[r].ver \in Nat /\ raw[r].gen \in -1..MaxResets
  BY DEF TypeOK, RawType, Version, Generation
<1> QED BY <1>1, <1>2, <1>3

\* What Typed says, after a step.
LEMMA TypedNext ==
  ASSUME TypeOK'
  PROVE  /\ Len(journal') \in Nat /\ journal' \in Seq(ChangeType)
         /\ Current' \in 0..MaxResets /\ Since' \in -1..MaxJournal
         /\ \A r \in Records : raw'[r].ver \in Nat /\ raw'[r].gen \in -1..MaxResets
<1>1. Len(journal') \in Nat /\ journal' \in Seq(ChangeType)
  BY DEF TypeOK
<1>2. Current' \in 0..MaxResets /\ Since' \in -1..MaxJournal
  BY DEF TypeOK, StateType, Current, Since
<1>3. \A r \in Records : raw'[r].ver \in Nat /\ raw'[r].gen \in -1..MaxResets
  BY DEF TypeOK, RawType, Version, Generation
<1> QED BY <1>1, <1>2, <1>3

\* A change that was the last one up to y remains it when the journal grows.
LEMMA LastStays ==
  ASSUME TypeOK, TypeOK', Grows, NEW r, NEW y \in Int, y <= Len(journal)
  PROVE  LastIn(r, 0, y)' = LastIn(r, 0, y)
<1> DEFINE v == LastIn(r, 0, y)
           w == LastIn(r, 0, y)'
<1>1. /\ \/ v = 0 /\ \A i \in 1..Len(journal) : 0 < i /\ i <= y => journal[i].id # r
         \/ /\ v \in 1..Len(journal) /\ v <= y /\ journal[v].id = r
            /\ \A i \in 1..Len(journal) : 0 < i /\ i <= y /\ journal[i].id = r => i <= v
      /\ \/ w = 0 /\ \A i \in 1..Len(journal') : 0 < i /\ i <= y => journal'[i].id # r
         \/ /\ w \in 1..Len(journal') /\ w <= y /\ journal'[w].id = r
            /\ \A i \in 1..Len(journal') : 0 < i /\ i <= y /\ journal'[i].id = r => i <= w
  <2>1. IsLast(v, r, 0, y) /\ IsLast(v, r, 0, y)'
    BY LastIsLast, LastIsLastNext, Typed, TypedNext DEF LastFacts
  <2> QED BY <2>1 DEF IsLast
<1>2. Len(journal) \in Nat /\ Len(journal') \in Nat
  BY Typed, TypedNext
<1>3. w = v
  <2> HIDE DEF v, w
  <2> QED BY <1>1, <1>2 DEF Grows
<1> QED BY <1>3

\* A deletion stays in the journal.
LEMMA GoneStays ==
  ASSUME TypeOK, TypeOK', Grows, NEW r, NEW v \in Nat, v # 0, Gone(r, v)
  PROVE  Gone(r, v)'
<1>1. PICK d \in v..Len(journal) : journal[d].id = r /\ Deleted(d)
  BY DEF Gone
<1>2. d \in v..Len(journal') /\ journal'[d].id = r /\ Deleted(d)'
  BY <1>1, Typed, TypedNext DEF Grows, Deleted
<1> QED BY <1>2 DEF Gone

\* What a page brings it still brings when the journal has grown.
LEMMA BringsStays ==
  ASSUME TypeOK, TypeOK', Grows, NEW r \in Records, NEW s \in Int, s <= Len(journal),
         NEW w \in Nat, Brings(w, r, s)
  PROVE  Brings(w, r, s)'
<1>1. PICK v : v = LastIn(r, 0, s)
  OBVIOUS
<1>2. LastIn(r, 0, s)' = v
  BY <1>1, LastStays
<1>3. v \in Nat
  BY <1>1, LastIsLast, Typed DEF LastFacts, IsLast
<1>4. v # 0 /\ Gone(r, v) => Gone(r, v)'
  BY <1>3, GoneStays
<1>5. IF w = 0 THEN v = 0 \/ Gone(r, v)
      ELSE w <= Len(journal) /\ journal[w].id = r /\ w >= v
  BY <1>1 DEF Brings
<1>6. IF w = 0 THEN v = 0 \/ Gone(r, v)'
      ELSE w <= Len(journal') /\ journal'[w].id = r /\ w >= v
  BY <1>4, <1>5, Typed, TypedNext DEF Grows
<1> QED BY <1>2, <1>6 DEF Brings

\* A record that has reached a position has still reached it after the step.
LEMMA ReachedStays ==
  ASSUME TypeOK, TypeOK', CursorInv, Steady, Since # -1,
         NEW r \in Records, NEW x \in Int, x <= Len(journal), Reached(r, x)
  PROVE  Reached(r, x)'
<1>1. PICK v : v = LastIn(r, 0, x)
  OBVIOUS
<1>2. LastIn(r, 0, x)' = v
  BY <1>1, LastStays DEF Steady
<1>3. Since' = Since /\ Current' = Current /\ Grows /\ RowMoves(r)
  BY DEF Steady
<1>4. Since <= Len(journal)
  BY Typed DEF CursorInv, Since, Current
<1>5. \/ v = 0
      \/ raw[r].gen = Current /\ raw[r].ver >= v
      \/ v <= Since /\ Gone(r, v) /\ (raw[r].ver = 0 \/ raw[r].gen # Current)
  BY <1>1 DEF Reached
<1>6. /\ v \in Nat /\ LastIn(r, 0, Since) \in Nat
      /\ v # 0 /\ v <= Since => v <= LastIn(r, 0, Since)
  <2>1. IsLast(v, r, 0, x) /\ IsLast(LastIn(r, 0, Since), r, 0, Since)
    BY <1>1, LastIsLast, Typed DEF LastFacts
  <2> QED BY <2>1, Typed, <1>4 DEF IsLast
<1>7. v # 0 /\ Gone(r, v) => Gone(r, v)'
  BY <1>3, <1>6, GoneStays
<1>8. \/ v = 0
      \/ raw'[r].gen = Current /\ raw'[r].ver >= v
      \/ v <= Since /\ Gone(r, v)' /\ (raw'[r].ver = 0 \/ raw'[r].gen # Current)
  <2>1. /\ raw[r].ver \in Nat /\ raw'[r].ver \in Nat /\ v \in Nat /\ LastIn(r, 0, Since) \in Nat
        /\ NoRow.ver = 0
    BY <1>6, Typed, TypedNext DEF NoRow
  <2>2. CASE v = 0
    BY <2>2
  <2>3. CASE raw[r].gen = Current /\ raw[r].ver >= v
    BY <1>3, <2>1, <2>3 DEF RowMoves
  <2>4. CASE v # 0 /\ v <= Since /\ Gone(r, v) /\ (raw[r].ver = 0 \/ raw[r].gen # Current)
    <3>1. Gone(r, v)' /\ v <= LastIn(r, 0, Since)
      BY <1>6, <1>7, <2>4
    <3> QED BY <1>3, <2>1, <2>4, <3>1 DEF RowMoves
  <2> QED BY <1>5, <2>2, <2>3, <2>4
<1> QED BY <1>2, <1>3, <1>8 DEF Reached

\* The canonical rows keep their invariant in a steady step.
LEMMA RowsStay ==
  ASSUME TypeOK, TypeOK', CursorInv, RowInv, Steady
  PROVE  RowInv'
<1>1. /\ Current' = Current /\ Grows
      /\ IF Since = -1 THEN Since' = -1 \/ Since' = Len(journal) ELSE Since' = Since
      /\ Since <= Len(journal)
  BY Typed DEF Steady, CursorInv, Since, Current
<1> SUFFICES ASSUME NEW r \in Records, raw'[r].ver # 0
             PROVE  /\ raw'[r].ver <= Len(journal') /\ journal'[raw'[r].ver].id = r
                    /\ raw'[r].gen <= Current'
                    /\ raw'[r].gen # Current' /\ Since' # -1 => raw'[r].ver <= Since'
                    /\ raw'[r].gen = Current' => Since' # -1 /\ raw'[r].ver >= LastIn(r, 0, Since)'
  BY DEF RowInv
<1>2. RowMoves(r)
  BY DEF Steady
<1>3. Since # -1 => LastIn(r, 0, Since)' = LastIn(r, 0, Since)
  BY <1>1, LastStays, Typed
<1>4. CASE raw'[r] = raw[r]
  BY <1>1, <1>3, <1>4, Typed, TypedNext DEF RowInv, Grows
<1>5. CASE raw'[r] = NoRow
  BY <1>5 DEF NoRow
<1>6. CASE /\ Since # -1 /\ raw'[r].gen = Current
           /\ raw'[r].ver \in 1..Len(journal) /\ journal[raw'[r].ver].id = r
           /\ raw'[r].ver >= LastIn(r, 0, Since)
  BY <1>1, <1>3, <1>6, Typed, TypedNext DEF Grows
<1> QED BY <1>2, <1>4, <1>5, <1>6 DEF RowMoves

\* A cursor stands after a steady step for what it stood for.
LEMMA CoversStay ==
  ASSUME TypeOK, TypeOK', CursorInv, Steady, NEW c \in Cursor, Covers(c)
  PROVE  Covers(c)'
<1>1. /\ Since # -1 => Since' = Since
      /\ Len(journal) <= Len(journal') /\ Since <= Len(journal)
  BY Typed DEF Steady, Grows, CursorInv, Since, Current
<1>2. c.at \in Int /\ Len(journal) \in Nat /\ Len(journal') \in Nat /\ Since \in Int
  BY Typed, TypedNext DEF Cursor
<1>3. ASSUME c.kind = "snapshot" PROVE SnapshotCovers(c)'
  <2>1. SnapshotCovers(c)
    BY <1>3 DEF Covers
  <2>2. \A r \in Records : r <= c.at => Reached(r, Since)'
    <3>1. PICK s \in Int : s = Since
      BY <1>2
    <3>2. \A r \in Records : r <= c.at => Reached(r, s)'
      BY <2>1, <3>1, <1>1, ReachedStays DEF SnapshotCovers
    <3> QED BY <2>1, <3>1, <3>2, <1>1 DEF SnapshotCovers
  <2> QED BY <2>1, <2>2, <1>1 DEF SnapshotCovers
<1>4. ASSUME c.kind = "delta" PROVE DeltaCovers(c)'
  <2>1. DeltaCovers(c)
    BY <1>4 DEF Covers
  <2>2. \A r \in Records : Reached(r, c.at)'
    BY <2>1, <1>2, ReachedStays DEF DeltaCovers
  <2> QED BY <2>1, <2>2, <1>1, <1>2 DEF DeltaCovers
<1> QED BY <1>3, <1>4 DEF Covers

\* So does a page that is being applied.
LEMMA PageStays ==
  ASSUME TypeOK, TypeOK', CursorInv, Steady, NEW p \in PullType, PageCovers(p)
  PROVE  PageCovers(p)'
<1>1. /\ Since # -1 => Since' = Since
      /\ Grows /\ Since <= Len(journal)
  BY Typed DEF Steady, CursorInv, Since, Current
<1>2. /\ p.off \in Int /\ p.page.to \in Int /\ p.page.next \in Cursor /\ p.page.next.at \in Int
      /\ Len(journal) \in Nat /\ Len(journal') \in Nat /\ Since \in Int
      /\ \A r \in Records : p.page.rows[r] \in Nat
  <2>1. p.off \in Int /\ p.page.to \in Int /\ p.page.next \in Cursor
    BY DEF PullType, Page
  <2>2. \A r \in Records : p.page.rows[r] \in Nat
    BY DEF PullType, Page, Version
  <2> QED BY <2>1, <2>2, Typed, TypedNext DEF Cursor
<1>3. PICK s \in Int : s = Since
  BY <1>2
<1>4. CASE p.page.mode = "snapshot"
  <2>1. SnapshotPageCovers(p) /\ Since # -1
    BY <1>4 DEF PageCovers, SnapshotPageCovers
  <2>2. \A r \in Records : r <= p.off => Reached(r, s)'
    BY <2>1, <1>1, <1>3, ReachedStays DEF SnapshotPageCovers
  <2>3. ASSUME NEW r \in Records, p.off < r /\ r <= p.page.to PROVE Brings(p.page.rows[r], r, Since)'
    <3>1. Brings(p.page.rows[r], r, s)
      BY <1>3, <2>1, <2>3 DEF SnapshotPageCovers
    <3>2. Brings(p.page.rows[r], r, s)'
      BY <1>1, <1>2, <1>3, <3>1, BringsStays
    <3> QED BY <1>1, <1>3, <2>1, <3>2
  <2> QED BY <2>1, <2>2, <2>3, <1>1, <1>3, <1>4 DEF PageCovers, SnapshotPageCovers
<1>5. CASE p.page.mode # "snapshot"
  <2>1. DeltaPageCovers(p)
    BY <1>5 DEF PageCovers
  <2>2. \A x \in Int : x <= Len(journal) /\ (\A r \in Records : Reached(r, x)) => \A r \in Records : Reached(r, x)'
    BY <2>1, ReachedStays DEF DeltaPageCovers
  <2>3. p.off <= p.page.to /\ p.page.to = p.page.next.at => p.off <= Len(journal)
    BY <2>1, <1>2 DEF DeltaPageCovers
  <2>4. Since' = Since /\ p.page.next.at <= Len(journal')
    BY <2>1, <1>1, <1>2 DEF DeltaPageCovers, Grows
  <2>5. \/ /\ p.off = 0 /\ p.page.to = 0
           /\ \A r \in Records : Reached(r, p.page.next.at)'
        \/ /\ p.page.next.at = p.page.to /\ Since <= p.off /\ p.off <= p.page.to
           /\ \A r \in Records : Reached(r, p.off)'
    BY <2>1, <2>2, <2>3, <1>2 DEF DeltaPageCovers
  <2> QED BY <2>1, <2>4, <2>5, <1>5 DEF PageCovers, DeltaPageCovers
<1> QED BY <1>4, <1>5

\* So does what a tab holds.
LEMMA PullStays ==
  ASSUME TypeOK, TypeOK', CursorInv, Steady, NEW p \in PullType, PullCovers(p)
  PROVE  PullCovers(p)'
<1>1. Current' = Current /\ p.cursor \in Cursor /\ p.page.next \in Cursor
  BY DEF Steady, PullType, Page
<1>2. Covers(p.cursor) => Covers(p.cursor)'
  BY <1>1, CoversStay
<1>3. Covers(p.page.next) => Covers(p.page.next)'
  BY <1>1, CoversStay
<1>4. PageCovers(p) => PageCovers(p)'
  BY PageStays
<1> QED BY <1>1, <1>2, <1>3, <1>4 DEF PullCovers

\* A step that leaves the sync state and the canonical rows alone.
LEMMA StateStays ==
  ASSUME TypeOK, TypeOK', CursorInv, CoverInv, Steady, state' = state, raw' = raw,
         \A g \in 0..MaxResets : g > Current => pinned'[g] = pinned[g]
  PROVE  TagInv' /\ RowInv' /\ HandoverInv' /\ CommittedCovers'
<1>1. TagInv /\ RowInv /\ HandoverInv /\ CommittedCovers
  BY DEF CoverInv
<1>2. RowInv'
  BY <1>1, RowsStay
<1>3. TagInv' /\ HandoverInv'
  BY <1>1 DEF TagInv, HandoverInv, Current, Retiring
<1>4. CommittedCovers'
  <2>1. state.cursor \in Cursor /\ state.retirement.next \in Cursor
    BY DEF TypeOK, StateType
  <2>2. PICK c \in Cursor, n \in Cursor : c = state.cursor /\ n = state.retirement.next
    BY <2>1
  <2>3. Covers(c) /\ (Retiring => Covers(n))
    BY <1>1, <2>2 DEF CommittedCovers
  <2>4. Covers(c)' /\ (Retiring => Covers(n)')
    BY <2>3, CoversStay
  <2>5. c = state'.cursor /\ n = state'.retirement.next /\ (Retiring' <=> Retiring)
    BY <2>2 DEF Retiring
  <2> QED BY <2>4, <2>5 DEF CommittedCovers
<1> QED BY <1>2, <1>3, <1>4

\* A steady step of tab t: of the tabs only its own loop has to be looked at.
LEMMA TabsStay ==
  ASSUME TypeOK, TypeOK', CursorInv, CoverInv, Steady, NEW t \in Tabs, NEW q,
         pull' = [pull EXCEPT ![t] = q], PullCovers(q)'
  PROVE  \A u \in Tabs : PullCovers(pull[u])'
<1> SUFFICES ASSUME NEW u \in Tabs PROVE PullCovers(pull[u])'
  OBVIOUS
<1>1. pull'[u] = IF u = t THEN q ELSE pull[u]
  BY DEF TypeOK
<1>2. PICK p \in PullType : p = pull[u]
  BY DEF TypeOK
<1>3. PullCovers(p)'
  BY <1>2, PullStays DEF CoverInv
<1> QED BY <1>1, <1>2, <1>3

\* A step that at most adds to the journal and moves loops on.
LEMMA CalmStep ==
  ASSUME TypeOK, TypeOK', CursorInv, CoverInv, Grows, UNCHANGED <<pinned, state, raw>>,
         \A u \in Tabs : pull'[u] = pull[u] \/ \E q \in PullType : PullCovers(q) /\ pull'[u] = q
  PROVE  CoverInv'
<1>1. Steady
  BY DEF Steady, RowMoves, Current, Since
<1>2. TagInv' /\ RowInv' /\ HandoverInv' /\ CommittedCovers'
  BY <1>1, StateStays
<1>3. ASSUME NEW u \in Tabs PROVE PullCovers(pull[u])'
  <2>1. PICK q \in PullType : PullCovers(q) /\ pull'[u] = q
    BY DEF CoverInv, TypeOK
  <2>2. PullCovers(q)'
    BY <1>1, <2>1, PullStays
  <2> QED BY <2>1, <2>2
<1> QED BY <1>2, <1>3 DEF CoverInv

----------------------------------------------------------------------------
(* The steps, one by one.                                                   *)

\* Nothing has been claimed yet.
LEMMA CoverInit == Init => CoverInv
<1> SUFFICES ASSUME Init PROVE CoverInv
  OBVIOUS
<1>1. TypeOK
  BY TypeInit
<1>2. /\ state = FreshState(0) /\ pinned = [g \in 0..MaxResets |-> -1] /\ pull = [t \in Tabs |-> Idle]
      /\ \A r \in Records : raw[r].ver = 0
  BY DEF Init, NoRow
<1>3. /\ state.cursor = NoCursor /\ state.cursor.kind = "none" /\ state.generation = -1 /\ Current = 0 /\ ~Retiring
      /\ state.retirement.next.kind = "none"
  BY <1>2 DEF FreshState, NoCursor, NoRetirement, Current, Retiring
<1>4. TagInv /\ RowInv /\ HandoverInv /\ CommittedCovers
  BY <1>2, <1>3 DEF TagInv, RowInv, HandoverInv, CommittedCovers, Covers
<1>5. PullCovers(Idle)
  BY <1>3 DEF PullCovers, Idle
<1> QED BY <1>2, <1>4, <1>5 DEF CoverInv

\* Tower's changes.
LEMMA CoverTower ==
  ASSUME TypeOK, TypeOK', CursorInv, CoverInv, NEW c, journal' = Append(journal, c),
         UNCHANGED <<pinned, state, raw, pull>>
  PROVE  CoverInv'
<1>1. Grows
  BY Typed DEF Grows
<1> QED BY <1>1, CalmStep

\* Idle loops claim nothing.
LEMMA IdleCovers == CoverInv /\ TypeOK => PullCovers(Idle)
BY Typed DEF PullCovers, Idle

\* A loop begins: from the committed cursor, or with the omission walk left unfinished.
LEMMA CoverBegin ==
  ASSUME TypeOK, TypeOK', CursorInv, CoverInv, NEW t \in Tabs, Begin(t)
  PROVE  CoverInv'
<1>1. PICK q : q = [Idle EXCEPT !.phase = IF Resumes THEN "apply" ELSE "read",
                    !.cursor = state.cursor, !.gen = state.localGeneration,
                    !.page = IF Resumes THEN [NoPage EXCEPT !.next = state.retirement.next] ELSE NoPage,
                    !.again = Resumes]
  OBVIOUS
<1>2. pull' = [pull EXCEPT ![t] = q] /\ UNCHANGED <<journal, pinned, state, raw>>
  BY <1>1 DEF Begin
<1>3. pull'[t] = q /\ \A u \in Tabs : u # t => pull'[u] = pull[u]
  BY <1>2 DEF TypeOK
<1>4. q \in PullType
  BY <1>3 DEF TypeOK
<1>5. /\ q.cursor = state.cursor /\ q.gen = Current /\ q.off = 0
      /\ ~Resumes => q.phase = "read"
      /\ Resumes => /\ q.phase = "apply" /\ q.page.next = state.retirement.next
                    /\ q.page.mode = "delta" /\ q.page.to = 0
  BY <1>1 DEF Idle, NoPage, Current
<1>6. PullCovers(q)
  <2>1. Covers(state.cursor)
    BY DEF CoverInv, CommittedCovers
  <2>2. CASE ~Resumes
    BY <1>5, <2>1, <2>2, Typed DEF PullCovers
  <2>3. CASE Resumes
    <3>1. DeltaCovers(state.retirement.next) /\ state.cursor.kind = "delta" /\ state.retirement.next.kind = "delta"
      BY <2>3 DEF Resumes, CoverInv, HandoverInv, CommittedCovers, Covers
    <3>2. PageCovers(q)
      BY <1>5, <2>3, <3>1 DEF PageCovers, DeltaPageCovers, DeltaCovers
    <3> QED BY <1>5, <2>3, <3>2, Typed DEF PullCovers
  <2> QED BY <2>2, <2>3
<1>7. Grows
  BY <1>2, Typed DEF Grows
<1> QED BY <1>2, <1>3, <1>4, <1>6, <1>7, CalmStep

\* A loop that stops, is refused or finds its page replayed claims nothing new.
LEMMA CoverStop ==
  ASSUME TypeOK, TypeOK', CursorInv, CoverInv, UNCHANGED <<journal, pinned, state, raw>>,
         \A u \in Tabs : \/ pull'[u] = pull[u] \/ pull'[u] = Idle
                         \/ pull'[u].gen = pull[u].gen /\ pull'[u].phase = "reset"
  PROVE  CoverInv'
<1>1. Grows
  BY Typed DEF Grows
<1>2. ASSUME NEW u \in Tabs PROVE \E q \in PullType : PullCovers(q) /\ pull'[u] = q
  <2>1. PICK q : q = pull'[u]
    OBVIOUS
  <2>2. q \in PullType
    BY <2>1 DEF TypeOK
  <2>3. PullCovers(pull[u]) /\ PullCovers(Idle)
    BY IdleCovers DEF CoverInv
  <2>4. PullCovers(q)
    BY <2>1, <2>3 DEF PullCovers
  <2> QED BY <2>1, <2>2, <2>4
<1> QED BY <1>1, <1>2, CalmStep

\* A page whose commit another tab made is taken as applied; the committed cursor vouches for it.
LEMMA CoverReplay ==
  ASSUME TypeOK, TypeOK', CursorInv, CoverInv, NEW t \in Tabs, Replay(t)
  PROVE  CoverInv'
<1>1. PICK q : q = pull'[t]
  OBVIOUS
<1>2. /\ q.gen = pull[t].gen /\ q.phase = "settle" /\ q.page = pull[t].page
      /\ state.cursor = pull[t].page.next /\ UNCHANGED <<journal, pinned, state, raw>>
      /\ \A u \in Tabs : u # t => pull'[u] = pull[u]
  BY <1>1 DEF Replay, Replayed, TypeOK, PullType
<1>3. q \in PullType
  BY <1>1 DEF TypeOK
<1>4. PullCovers(q)
  BY <1>2 DEF CoverInv, CommittedCovers, PullCovers
<1>5. Grows
  BY <1>2, Typed DEF Grows
<1> QED BY <1>1, <1>2, <1>3, <1>4, <1>5, CalmStep

\* A snapshot page of Tower brings every record in front of it up to s.
LEMMA SnapshotBrings ==
  ASSUME TypeOK, NEW at \in Nat, NEW s \in Nat, s <= Len(journal),
         NEW r \in Records, at < r, r <= SnapshotPage(at, s).to
  PROVE  Brings(SnapshotPage(at, s).rows[r], r, s)
<1>1. r <= at + PageSize
  <2>1. SnapshotPage(at, s).to = IF at + PageSize >= NumRecords THEN NumRecords ELSE at + PageSize
    BY DEF SnapshotPage
  <2> QED BY <2>1, SizeAssumption DEF Records
<1>2. SnapshotPage(at, s).rows[r] = IF Live(r) THEN Latest(r) ELSE 0
  BY <1>1 DEF SnapshotPage
<1>3. /\ IsLast(LastIn(r, 0, s), r, 0, s) /\ IsLast(Latest(r), r, 0, Len(journal))
      /\ Len(journal) \in Nat
  BY LastIsLast, Typed DEF LastFacts, Latest
<1>4. PICK v, w : v = LastIn(r, 0, s) /\ w = Latest(r)
  OBVIOUS
<1>5. /\ v = 0 \/ (v \in 1..Len(journal) /\ w # 0 /\ v <= w)
      /\ w = 0 \/ (w \in 1..Len(journal) /\ journal[w].id = r)
  BY <1>3, <1>4 DEF IsLast
<1>6. CASE Live(r)
  BY <1>2, <1>3, <1>4, <1>5, <1>6 DEF Brings, Live
<1>7. CASE ~Live(r)
  <2>1. v = 0 \/ (w \in v..Len(journal) /\ journal[w].id = r /\ Deleted(w))
    BY <1>3, <1>4, <1>5, <1>7 DEF Live
  <2> QED BY <1>2, <1>4, <1>7, <2>1 DEF Brings, Gone
<1> QED BY <1>6, <1>7

\* Tower answers a read.
LEMMA CoverRead ==
  ASSUME TypeOK, TypeOK', CursorInv, CoverInv, NEW t \in Tabs, Read(t)
  PROVE  CoverInv'
<1>1. PICK c, g, since, page, q :
        /\ c = pull[t].cursor /\ g = pull[t].gen
        /\ since = IF pinned[g] = -1 THEN Len(journal) ELSE pinned[g]
        /\ page = IF c.kind = "delta" THEN DeltaPage(c.at)
                  ELSE SnapshotPage(c.at, IF c.kind = "none" THEN since ELSE c.since)
        /\ q = pull'[t]
  OBVIOUS
<1>2. /\ UNCHANGED <<journal, state, raw>>
      /\ pinned' = IF c.kind = "none" THEN [pinned EXCEPT ![g] = since] ELSE pinned
      /\ pull' = [pull EXCEPT ![t] = q]
      /\ q.phase = "apply" /\ q.page = page /\ q.off = page.from /\ q.cursor = c /\ q.gen = g
  <2>1. /\ UNCHANGED <<journal, state, raw>>
        /\ pinned' = IF c.kind = "none" THEN [pinned EXCEPT ![g] = since] ELSE pinned
        /\ pull' = [pull EXCEPT ![t] = [pull[t] EXCEPT !.phase = "apply", !.page = page,
                                                       !.off = page.from, !.again = page.hasMore]]
    BY <1>1 DEF Read
  <2>2. pull[t] \in PullType
    BY DEF TypeOK
  <2>3. q = [pull[t] EXCEPT !.phase = "apply", !.page = page, !.off = page.from, !.again = page.hasMore]
    BY <1>1, <2>1 DEF TypeOK
  <2>4. q.phase = "apply" /\ q.page = page /\ q.off = page.from /\ q.cursor = c /\ q.gen = g
    BY <1>1, <2>2, <2>3 DEF PullType
  <2> QED BY <2>1, <2>3, <2>4
<1>3. /\ pull[t].phase = "read" /\ c \in Cursor /\ c.at \in Nat /\ c.since \in Nat
      /\ g \in 0..MaxResets /\ g <= Current /\ (g = Current => Covers(c))
      /\ pinned[g] <= Len(journal) /\ pinned[g] \in -1..MaxJournal /\ Since <= Len(journal)
      /\ Current' = Current
  <2>1. pull[t].phase = "read" /\ PullCovers(pull[t]) /\ pull[t] \in PullType
    BY DEF Read, CoverInv, TypeOK
  <2>2. c \in Cursor /\ g \in 0..MaxResets /\ g <= Current /\ (g = Current => Covers(c))
    BY <1>1, <2>1 DEF PullCovers, PullType
  <2>3. c.at \in Nat /\ c.since \in Nat
    BY <2>2 DEF Cursor, Version
  <2> QED BY <1>2, <2>1, <2>2, <2>3, Typed DEF TypeOK, CursorInv, Since, Current
<1>4. /\ since \in Nat /\ since <= Len(journal) /\ Len(journal) \in Nat
      /\ (g # Current \/ c.kind # "none") => Since' = Since
      /\ g = Current /\ c.kind = "none" => Since' = since
  BY <1>1, <1>2, <1>3, Typed DEF Since, Current, TypeOK
<1>5. Steady
  <2>1. IF Since = -1 THEN Since' = -1 \/ Since' = Len(journal) ELSE Since' = Since
    BY <1>1, <1>2, <1>3, <1>4 DEF Since, Current
  <2> QED BY <1>2, <1>3, <1>4, <2>1 DEF Steady, Grows, RowMoves
<1>6. PullCovers(q)'
  <2>1. CASE g # Current
    BY <1>2, <1>3, <2>1, Typed DEF PullCovers
  <2>2. CASE g = Current /\ c.kind = "delta"
    <3>1. DeltaCovers(c) /\ Since' = Since
      BY <1>3, <1>4, <2>2 DEF Covers
    <3>2. /\ page.mode = "delta" /\ page.from = c.at /\ page.next = DeltaCursor(page.to)
          /\ c.at <= page.to /\ page.to <= Len(journal) /\ page.to \in Nat
      <4>1. /\ page.mode = "delta" /\ page.from = c.at /\ page.next = DeltaCursor(page.to)
            /\ page.to = IF c.at + PageSize < Len(journal) THEN c.at + PageSize ELSE Len(journal)
        BY <1>1, <2>2 DEF DeltaPage
      <4> QED BY <1>3, <1>4, <3>1, <4>1, SizeAssumption DEF DeltaCovers
    <3>3. DeltaPageCovers(q)
      BY <1>2, <1>3, <1>4, <2>2, <3>1, <3>2, Typed DEF DeltaPageCovers, DeltaCovers, DeltaCursor
    <3>4. PageCovers(q) /\ q \in PullType
      BY <1>1, <1>2, <3>2, <3>3 DEF PageCovers, TypeOK
    <3>5. PageCovers(q)'
      BY <1>5, <3>4, PageStays
    <3> QED BY <1>2, <1>3, <3>5 DEF PullCovers
  <2>3. CASE g = Current /\ c.kind # "delta"
    <3>1. PICK s : s = IF c.kind = "none" THEN since ELSE c.since
      OBVIOUS
    <3>2. /\ s \in Nat /\ s <= Len(journal) /\ Since' = s
          /\ \A r \in Records : r <= c.at => Reached(r, s)
      <4>1. CASE c.kind = "none"
        BY <1>3, <1>4, <2>3, <3>1, <4>1 DEF Covers, NoCursor, Records
      <4>2. CASE c.kind = "snapshot"
        BY <1>3, <1>4, <2>3, <3>1, <4>2 DEF Covers, SnapshotCovers
      <4> QED BY <1>3, <2>3, <4>1, <4>2 DEF Cursor
    <3>3. page = SnapshotPage(c.at, s)
      BY <1>1, <2>3, <3>1
    <3>4. /\ page.mode = "snapshot" /\ page.from = c.at
          /\ \/ page.next = DeltaCursor(s) /\ page.to = NumRecords
             \/ page.next = SnapshotCursor(page.to, s)
      BY <3>3 DEF SnapshotPage
    <3>5. ASSUME NEW r \in Records, r <= c.at PROVE Reached(r, s)'
      <4>1. Since # -1
        BY <1>3, <2>3, <3>5 DEF Covers, SnapshotCovers, NoCursor, Cursor, Records
      <4> QED BY <1>5, <3>2, <3>5, <4>1, ReachedStays
    <3>6. ASSUME NEW r \in Records, c.at < r, r <= page.to PROVE Brings(page.rows[r], r, s)'
      <4>1. Brings(page.rows[r], r, s)
        BY <1>3, <3>2, <3>3, <3>6, SnapshotBrings
      <4>2. LastIn(r, 0, s)' = LastIn(r, 0, s) /\ \A v : Gone(r, v)' <=> Gone(r, v)
        BY <1>2 DEF Gone, Deleted, LastIn
      <4> QED BY <1>2, <4>1, <4>2 DEF Brings
    <3>7. /\ \A r \in Records : /\ r <= c.at => Reached(r, Since)'
                                /\ c.at < r /\ r <= page.to => Brings(page.rows[r], r, Since)'
      BY <3>2, <3>5, <3>6
    <3>8. SnapshotPageCovers(q)'
      BY <1>2, <2>3, <3>2, <3>4, <3>7 DEF SnapshotPageCovers
    <3> QED BY <1>2, <1>3, <3>4, <3>8 DEF PullCovers, PageCovers
  <2> QED BY <2>1, <2>2, <2>3
<1>7. \A h \in 0..MaxResets : h > Current => pinned'[h] = pinned[h]
  BY <1>2, <1>3, Typed DEF TypeOK
<1>8. TagInv' /\ RowInv' /\ HandoverInv' /\ CommittedCovers'
  BY <1>2, <1>5, <1>7, StateStays
<1>9. \A u \in Tabs : PullCovers(pull[u])'
  BY <1>2, <1>5, <1>6, TabsStay
<1> QED BY <1>8, <1>9 DEF CoverInv

\* Authority is reset: nothing is claimed in the new generation.
LEMMA CoverReset ==
  ASSUME TypeOK, TypeOK', CursorInv, CoverInv, NEW t \in Tabs, Reset(t)
  PROVE  CoverInv'
<1>1. /\ Current \in 0..MaxResets /\ Current' \in 0..MaxResets /\ Current' = Current + 1
      /\ state' = FreshState(Current + 1) /\ UNCHANGED <<journal, pinned>>
  BY Typed, TypedNext DEF Reset, FreshState, Current
<1>2. Since' = -1
  BY <1>1 DEF Since, CoverInv, TagInv
<1>3. \A r \in Records : raw'[r].ver = 0 \/ raw'[r] = raw[r]
  BY DEF Reset, NoRow
<1>4. /\ state'.cursor = NoCursor /\ state'.cursor.kind = "none" /\ state'.generation = -1
      /\ state'.retirement.next.kind = "none"
  BY <1>1 DEF FreshState, NoCursor, NoRetirement
<1>5. TagInv' /\ HandoverInv' /\ CommittedCovers'
  <2>1. \A g \in 0..MaxResets : g > Current' => pinned'[g] = -1
    BY <1>1 DEF CoverInv, TagInv
  <2> QED BY <1>4, <2>1 DEF TagInv, HandoverInv, CommittedCovers, Covers, Retiring
<1>6. RowInv'
  BY <1>1, <1>2, <1>3, Typed, TypedNext DEF RowInv, CoverInv
<1>7. ASSUME NEW u \in Tabs PROVE PullCovers(pull[u])'
  <2> DEFINE q == [Idle EXCEPT !.phase = "read", !.gen = state.localGeneration + 1]
  <2>1. q.phase = "read" /\ q.cursor = NoCursor
    BY DEF Idle
  <2>2. pull'[u] = pull[u] \/ pull'[u] = Idle \/ pull'[u] = q
    <3>1. pull' = [pull EXCEPT ![t] = Idle] \/ pull' = [pull EXCEPT ![t] = q]
      BY DEF Reset
    <3> HIDE DEF q
    <3> QED BY <3>1 DEF TypeOK
  <2>3. CASE pull'[u] = pull[u]
    <3>1. pull'[u].gen <= Current /\ pull'[u].gen \in Int
      BY <2>3 DEF CoverInv, PullCovers, TypeOK, PullType
    <3> QED BY <3>1, <1>1 DEF PullCovers
  <2>4. CASE pull'[u] = Idle
    BY <1>1, <2>4 DEF PullCovers, Idle
  <2>5. CASE pull'[u] = q
    <3>1. pull'[u].gen = Current' /\ pull'[u].phase = "read" /\ pull'[u].cursor = NoCursor
      BY <2>5, <1>1 DEF Idle, Current
    <3> QED BY <3>1, <1>1 DEF PullCovers, Covers, NoCursor
  <2> QED BY <2>2, <2>3, <2>4, <2>5
<1> QED BY <1>5, <1>6, <1>7 DEF CoverInv

\* A conflict that can be settled has its canonical row of this generation.
LEMMA SettleableTag ==
  ASSUME TypeOK, CoverInv, NEW r \in Records, Settleable(r)
  PROVE  [ver |-> raw[r].ver, gen |-> state.generation] = raw[r] /\ raw[r].gen = state.generation
<1>1. raw[r].gen = state.generation
  <2>1. state.cursor.kind # "none" /\ raw[r].ver # 0 /\ state.generation = Current
    BY DEF Settleable, CoverInv, TagInv
  <2>2. CASE state.handover
    BY <2>2 DEF Settleable
  <2>3. CASE ~state.handover
    <3>1. state.cursor.kind = "delta"
      BY <2>1, <2>3 DEF TypeOK, StateType, Cursor, CoverInv, HandoverInv
    <3> QED BY <2>1, <2>3, <3>1 DEF CoverInv, HandoverInv
  <2> QED BY <2>2, <2>3
<1>2. raw[r] \in RawType
  BY DEF TypeOK
<1> QED BY <1>1, <1>2 DEF RawType

\* So the reconciliation of conflicts leaves the canonical rows as they are.
LEMMA ReconcileKeeps ==
  ASSUME TypeOK, CoverInv, ReconcileConflicts
  PROVE  raw' = raw
<1> DEFINE again == {r \in Records : Reconciled(r) /\ ~Newer(r)}
<1>1. raw' = [r \in Records |-> IF r \in again THEN [ver |-> raw[r].ver, gen |-> state.generation] ELSE raw[r]]
  BY DEF ReconcileConflicts
<1>2. \A r \in again : [ver |-> raw[r].ver, gen |-> state.generation] = raw[r]
  BY SettleableTag DEF Reconciled
<1>3. raw = [r \in Records |-> raw[r]]
  BY DEF TypeOK
<1> HIDE DEF again
<1> QED BY <1>1, <1>2, <1>3

\* A loop that has settled its page reads on from the cursor the page led to.
LEMMA CoverSettle ==
  ASSUME TypeOK, TypeOK', CursorInv, CoverInv, NEW t \in Tabs, Settle(t)
  PROVE  CoverInv'
<1>1. UNCHANGED <<journal, pinned, state, raw>>
  BY ReconcileKeeps DEF Settle
<1>2. PICK q : q = [Idle EXCEPT !.phase = "read", !.cursor = pull[t].page.next, !.gen = pull[t].gen]
  OBVIOUS
<1>3. pull[t].phase = "settle" /\ pull' = [pull EXCEPT ![t] = IF pull[t].again THEN q ELSE Idle]
  BY <1>2 DEF Settle
<1>4. q.phase = "read" /\ q.cursor = pull[t].page.next /\ q.gen = pull[t].gen
  BY <1>2 DEF Idle
<1>5. PullCovers(q)
  BY <1>3, <1>4 DEF CoverInv, PullCovers
<1>6. PullCovers(Idle) /\ Idle \in PullType
  BY IdleCovers, ConstantTypes
<1>7. ASSUME NEW u \in Tabs
      PROVE  pull'[u] = pull[u] \/ \E x \in PullType : PullCovers(x) /\ pull'[u] = x
  <2>1. pull'[u] \in PullType
    BY DEF TypeOK
  <2>2. pull'[u] = pull[u] \/ pull'[u] = q \/ pull'[u] = Idle
    BY <1>3 DEF TypeOK
  <2> QED BY <1>5, <1>6, <2>1, <2>2
<1>8. Grows
  BY <1>1, Typed DEF Grows
<1> QED BY <1>1, <1>7, <1>8, CalmStep

\* Taking Tower's version leaves the canonical row as it is.
LEMMA AcceptKeeps ==
  ASSUME TypeOK, CoverInv, NEW r \in Records, AcceptRemote(r)
  PROVE  raw' = raw
<1>1. raw[r].gen = state.generation /\ raw[r] \in RawType
  BY SettleableTag DEF AcceptRemote, TypeOK
<1>2. raw' = [raw EXCEPT ![r] = [raw[r] EXCEPT !.gen = state.generation]]
  BY DEF AcceptRemote
<1>3. [raw[r] EXCEPT !.gen = state.generation] = raw[r]
  BY <1>1 DEF RawType
<1> QED BY <1>2, <1>3 DEF TypeOK

----------------------------------------------------------------------------
(* One slice of a page.                                                     *)

\* The end of a slice lies on the page.
LEMMA SliceBounds ==
  ASSUME NEW p \in PullType
  PROVE  /\ SliceEnd(p) \in Nat
         /\ p.off <= p.page.to => p.off <= SliceEnd(p) /\ SliceEnd(p) <= p.page.to
         /\ ~Partial(p) => SliceEnd(p) = p.page.to
         /\ SliceEnd(p) <= p.page.to
         /\ p.page.to = 0 => ~Partial(p)
<1>1. p.off \in Nat /\ p.page.to \in Nat
  BY DEF PullType, Page
<1> QED BY <1>1, SizeAssumption DEF SliceEnd, Partial

\* What a slice does to the canonical row of r.
SliceRow(p, r) ==
  LET w == Change(p.page, r, p.off, SliceEnd(p))
  IN  IF w # 0 /\ ~Skipped(r, w, p.page.mode, Current)
      THEN raw'[r].ver = w /\ raw'[r].gen = Current
      ELSE raw'[r] = raw[r]

\* A slice that is applied belongs to a page of this generation.
LEMMA ApplyFacts ==
  ASSUME TypeOK, CoverInv, NEW t \in Tabs, Apply(t)
  PROVE  /\ pull[t] \in PullType /\ pull[t].gen = Current /\ pull[t].cursor = state.cursor
         /\ PageCovers(pull[t]) /\ ~Incomplete(t)
         /\ Tag(pull[t]) = Current
         /\ \A r \in Records : SliceRow(pull[t], r)
         /\ UNCHANGED <<journal, pinned>>
<1>1. /\ pull[t] \in PullType /\ pull[t].gen = Current /\ pull[t].cursor = state.cursor
      /\ pull[t].phase = "apply" /\ ~Incomplete(t) /\ UNCHANGED <<journal, pinned>>
  BY DEF Apply, Held, TypeOK, Current
<1>2. PageCovers(pull[t])
  BY <1>1 DEF CoverInv, PullCovers
<1>3. Tag(pull[t]) = Current
  <2>1. CASE pull[t].page.mode = "snapshot"
    BY <2>1 DEF Tag, Current
  <2>2. CASE pull[t].page.mode # "snapshot"
    <3>1. state.cursor.kind = "delta"
      BY <1>1, <1>2, <2>2 DEF PageCovers, DeltaPageCovers
    <3> QED BY <2>2, <3>1 DEF Tag, CoverInv, TagInv
  <2> QED BY <2>1, <2>2
<1>4. ASSUME NEW r \in Records PROVE SliceRow(pull[t], r)
  <2> DEFINE p == pull[t]
             brings == [x \in Records |-> Change(p.page, x, p.off, SliceEnd(p))]
             changed == {x \in Records : brings[x] # 0 /\ ~Skipped(x, brings[x], p.page.mode, Tag(p))}
  <2>1. raw' = [x \in Records |-> IF x \in changed THEN [ver |-> brings[x], gen |-> Tag(p)] ELSE raw[x]]
    BY DEF Apply
  <2>2. brings[r] = Change(p.page, r, p.off, SliceEnd(p))
    OBVIOUS
  <2>3. r \in changed <=> brings[r] # 0 /\ ~Skipped(r, brings[r], p.page.mode, Tag(p))
    OBVIOUS
  <2>4. raw'[r] = IF r \in changed THEN [ver |-> brings[r], gen |-> Tag(p)] ELSE raw[r]
    <3> HIDE DEF changed, brings
    <3> QED BY <2>1
  <2> HIDE DEF changed, brings
  <2> QED BY <1>3, <2>2, <2>3, <2>4 DEF SliceRow
<1> QED BY <1>1, <1>2, <1>3, <1>4

\* A slice of a snapshot page brings the records on it up to the snapshot.
LEMMA SnapshotSlice ==
  ASSUME TypeOK, TypeOK', CursorInv, CoverInv, NEW t \in Tabs, Apply(t),
         pull[t].page.mode = "snapshot"
  PROVE  /\ Steady
         /\ \A r \in Records : r <= SliceEnd(pull[t]) => Reached(r, Since)'
<1>1. PICK p, e, s : p = pull[t] /\ e = SliceEnd(p) /\ s = Since
  OBVIOUS
<1>2. /\ p \in PullType /\ SnapshotPageCovers(p) /\ p.off \in Int /\ p.page.to \in Int
      /\ e \in Int /\ e <= p.page.to /\ UNCHANGED <<journal, pinned>>
      /\ \A r \in Records : SliceRow(p, r)
      /\ s \in Int /\ s # -1 /\ s <= Len(journal) /\ Len(journal) \in Nat
  <2>1. /\ p \in PullType /\ SnapshotPageCovers(p) /\ UNCHANGED <<journal, pinned>>
        /\ \A r \in Records : SliceRow(p, r)
    BY <1>1, ApplyFacts DEF PageCovers
  <2>2. p.off \in Int /\ p.page.to \in Int /\ e \in Int /\ e <= p.page.to
    BY <1>1, <2>1, SliceBounds DEF PullType, Page
  <2>3. s \in Int /\ s # -1 /\ s <= Len(journal) /\ Len(journal) \in Nat
    BY <1>1, <2>1, Typed DEF SnapshotPageCovers, CursorInv, Since, Current
  <2> QED BY <2>1, <2>2, <2>3
<1>3. Current' = Current /\ Since' = Since
  BY <1>2 DEF Apply, Current, Since, TypeOK, StateType
\* What the slice brings for a record on it, and what becomes of its row.
<1>4. ASSUME NEW r \in Records, p.off < r, r <= e
      PROVE  \E v, w : /\ v = LastIn(r, 0, s) /\ v \in Nat /\ v <= s /\ w \in Nat
                       /\ IF w = 0 THEN v = 0 \/ Gone(r, v)
                          ELSE w <= Len(journal) /\ journal[w].id = r /\ w >= v
                       /\ \/ w # 0 /\ raw'[r].ver = w /\ raw'[r].gen = Current
                             /\ (raw[r].gen = Current => w >= raw[r].ver)
                          \/ w # 0 /\ raw'[r] = raw[r] /\ raw[r].gen = Current /\ raw[r].ver >= w
                          \/ w = 0 /\ raw'[r] = raw[r]
  <2>1. PICK v, w : v = LastIn(r, 0, s) /\ w = p.page.rows[r]
    OBVIOUS
  <2>2. w \in Nat /\ v \in Nat /\ v <= s
    <3>1. w \in Nat
      BY <1>2, <2>1 DEF PullType, Page, Version
    <3>2. IsLast(v, r, 0, s)
      BY <2>1, LastIsLast, Typed DEF LastFacts
    <3>3. s >= 0
      BY <1>1, <1>2, Typed
    <3> QED BY <1>2, <3>1, <3>2, <3>3 DEF IsLast
  <2>3. IF w = 0 THEN v = 0 \/ Gone(r, v) ELSE w <= Len(journal) /\ journal[w].id = r /\ w >= v
    <3>1. r \in Int
      BY DEF Records
    <3>2. Brings(w, r, s)
      BY <1>1, <1>2, <1>4, <2>1, <3>1 DEF SnapshotPageCovers
    <3> QED BY <2>1, <3>2 DEF Brings
  <2>4. Change(p.page, r, p.off, SliceEnd(p)) = w /\ p.page.mode = "snapshot"
    BY <1>1, <1>4, <2>1 DEF Change
  <2>5. IF w # 0 /\ ~(raw[r].ver # 0 /\ raw[r].gen = Current /\ raw[r].ver >= w)
        THEN raw'[r].ver = w /\ raw'[r].gen = Current
        ELSE raw'[r] = raw[r]
    BY <1>2, <2>4 DEF SliceRow, Skipped
  <2>6. raw[r].ver \in Nat
    BY Typed
  <2>7. \/ w # 0 /\ raw'[r].ver = w /\ raw'[r].gen = Current
           /\ (raw[r].gen = Current => w >= raw[r].ver)
        \/ w # 0 /\ raw'[r] = raw[r] /\ raw[r].gen = Current /\ raw[r].ver >= w
        \/ w = 0 /\ raw'[r] = raw[r]
    BY <2>2, <2>5, <2>6
  <2> QED BY <2>1, <2>2, <2>3, <2>7
<1>5. ASSUME NEW r \in Records, ~(p.off < r /\ r <= e)
      PROVE  raw'[r] = raw[r]
  BY <1>1, <1>2, <1>5 DEF SliceRow, Change
<1>6. Steady
  <2>1. ASSUME NEW r \in Records PROVE RowMoves(r)
    BY <1>1, <1>2, <1>4, <1>5 DEF RowMoves
  <2> QED BY <1>2, <1>3, <2>1 DEF Steady, Grows
<1>7. ASSUME NEW r \in Records, r <= e PROVE Reached(r, s)'
  <2>1. CASE r <= p.off
    <3>1. Reached(r, s)
      BY <1>1, <1>2, <2>1 DEF SnapshotPageCovers
    <3> QED BY <1>1, <1>2, <1>6, <3>1, ReachedStays
  <2>2. CASE ~(r <= p.off)
    <3>1. p.off < r
      BY <1>2, <2>2 DEF Records
    <3>2. PICK v, w :
            /\ v = LastIn(r, 0, s) /\ v \in Nat /\ v <= s /\ w \in Nat
            /\ IF w = 0 THEN v = 0 \/ Gone(r, v)
               ELSE w <= Len(journal) /\ journal[w].id = r /\ w >= v
            /\ \/ w # 0 /\ raw'[r].ver = w /\ raw'[r].gen = Current
                  /\ (raw[r].gen = Current => w >= raw[r].ver)
               \/ w # 0 /\ raw'[r] = raw[r] /\ raw[r].gen = Current /\ raw[r].ver >= w
               \/ w = 0 /\ raw'[r] = raw[r]
      BY <1>4, <1>7, <3>1
    <3>3. raw[r].ver # 0 /\ raw[r].gen = Current => raw[r].ver >= v
      BY <1>1, <3>2 DEF CoverInv, RowInv
    <3>4. \/ v = 0
          \/ raw'[r].gen = Current /\ raw'[r].ver >= v
          \/ v <= s /\ Gone(r, v) /\ (raw'[r].ver = 0 \/ raw'[r].gen # Current)
      BY <3>2, <3>3, Typed, TypedNext
    <3>5. LastIn(r, 0, s)' = v /\ (v # 0 /\ Gone(r, v) => Gone(r, v)')
      BY <1>2, <1>6, <3>2, LastStays, GoneStays DEF Steady
    <3> QED BY <1>1, <1>3, <3>4, <3>5 DEF Reached
  <2> QED BY <2>1, <2>2
<1> QED BY <1>1, <1>3, <1>6, <1>7

\* A slice of a delta page brings every record up to its end.
LEMMA DeltaSlice ==
  ASSUME TypeOK, TypeOK', CursorInv, CoverInv, NEW t \in Tabs, Apply(t),
         pull[t].page.mode # "snapshot",
         pull[t].page.next.at = pull[t].page.to, Since <= pull[t].off, pull[t].off <= pull[t].page.to,
         \A r \in Records : Reached(r, pull[t].off)
  PROVE  /\ Steady
         /\ \A e : e = SliceEnd(pull[t]) => \A r \in Records : Reached(r, e)'
<1>1. PICK p, e, s, x : p = pull[t] /\ e = SliceEnd(p) /\ s = Since /\ x = p.off
  OBVIOUS
<1>2. /\ p \in PullType /\ DeltaPageCovers(p) /\ x \in Int
      /\ e \in Int /\ s <= x /\ x <= e /\ e <= Len(journal) /\ UNCHANGED <<journal, pinned>>
      /\ \A r \in Records : SliceRow(p, r)
      /\ s \in Int /\ s # -1 /\ Len(journal) \in Nat /\ x <= Len(journal)
  <2>1. /\ p \in PullType /\ DeltaPageCovers(p) /\ UNCHANGED <<journal, pinned>>
        /\ \A r \in Records : SliceRow(p, r)
    BY <1>1, ApplyFacts DEF PageCovers
  <2>2. p.page.to <= Len(journal) /\ p.page.to \in Int
    BY <1>1, <2>1 DEF DeltaPageCovers, PullType, Page
  <2>3. x \in Int /\ e \in Int /\ s <= x /\ x <= e /\ e <= p.page.to
    BY <1>1, <2>1, SliceBounds DEF PullType
  <2>4. s \in Int /\ s # -1 /\ Len(journal) \in Nat
    BY <1>1, <2>1, Typed DEF DeltaPageCovers
  <2> QED BY <2>1, <2>2, <2>3, <2>4
<1>3. Current' = Current /\ Since' = Since
  BY <1>2 DEF Apply, Current, Since, TypeOK, StateType
\* What the slice brings for a record, and what becomes of its row.
<1>4. ASSUME NEW r \in Records
      PROVE  \E w \in Nat :
               /\ w = 0 => LastIn(r, 0, e) = LastIn(r, 0, x) /\ raw'[r] = raw[r]
               /\ w # 0 => /\ LastIn(r, 0, e) = w /\ w \in 1..Len(journal) /\ journal[w].id = r
                           /\ w > x /\ w >= LastIn(r, 0, s)
                           /\ \/ raw'[r].ver = w /\ raw'[r].gen = Current
                                 /\ (raw[r].gen = Current => w >= raw[r].ver)
                              \/ raw'[r] = raw[r] /\ raw[r].gen = Current /\ raw[r].ver >= w
  <2>1. PICK w : w = LastIn(r, x, e)
    OBVIOUS
  <2>2. /\ IsLast(w, r, x, e) /\ IsLast(LastIn(r, 0, e), r, 0, e) /\ IsLast(LastIn(r, 0, x), r, 0, x)
        /\ IsLast(LastIn(r, 0, s), r, 0, s)
    BY <2>1, LastIsLast, Typed DEF LastFacts
  <2>3. x >= 0 /\ s >= 0
    BY <1>1, <1>2, Typed
  <2>4. w \in Nat
    BY <1>2, <2>2 DEF IsLast
  <2>5. LastIn(r, 0, e) = IF w = 0 THEN LastIn(r, 0, x) ELSE w
    <3>1. x \in Nat /\ e \in Nat /\ x <= e /\ journal \in Seq(ChangeType)
      BY <1>2, <2>3, Typed
    <3> QED BY <2>1, <3>1, LastSplit
  <2>6. w # 0 => /\ LastIn(r, 0, e) = w /\ w \in 1..Len(journal) /\ journal[w].id = r
                 /\ w > x /\ w >= LastIn(r, 0, s)
    <3>1. w # 0 => LastIn(r, 0, e) = w
      BY <2>5
    <3>2. w # 0 => w \in 1..Len(journal) /\ journal[w].id = r /\ w > x
      BY <1>2, <2>2 DEF IsLast
    <3>3. LastIn(r, 0, s) <= s /\ LastIn(r, 0, s) \in Nat
      BY <1>2, <2>2, <2>3 DEF IsLast
    <3> QED BY <1>2, <2>4, <3>1, <3>2, <3>3
  <2>7. Change(p.page, r, p.off, SliceEnd(p)) = w /\ p.page.mode = "delta"
    BY <1>1, <1>2, <2>1 DEF Change, PullType, Page
  <2>8. IF w # 0 /\ ~(raw[r].ver # 0 /\ raw[r].gen = Current /\ raw[r].ver >= w) /\ ~(raw[r].ver > w)
        THEN raw'[r].ver = w /\ raw'[r].gen = Current
        ELSE raw'[r] = raw[r]
    BY <1>2, <2>7 DEF SliceRow, Skipped
  <2>9. w # 0 /\ raw[r].ver > w => raw[r].gen = Current
    BY <1>1, <1>2, <2>4, <2>6, Typed DEF CoverInv, RowInv
  <2> QED BY <2>4, <2>5, <2>6, <2>8, <2>9, Typed
<1>5. Steady
  <2>1. ASSUME NEW r \in Records PROVE RowMoves(r)
    BY <1>1, <1>2, <1>4 DEF RowMoves
  <2> QED BY <1>2, <1>3, <2>1 DEF Steady, Grows
<1>6. ASSUME NEW r \in Records PROVE Reached(r, e)'
  <2>1. PICK w \in Nat :
               /\ w = 0 => LastIn(r, 0, e) = LastIn(r, 0, x) /\ raw'[r] = raw[r]
               /\ w # 0 => /\ LastIn(r, 0, e) = w /\ w \in 1..Len(journal) /\ journal[w].id = r
                           /\ w > x /\ w >= LastIn(r, 0, s)
                           /\ \/ raw'[r].ver = w /\ raw'[r].gen = Current
                                 /\ (raw[r].gen = Current => w >= raw[r].ver)
                              \/ raw'[r] = raw[r] /\ raw[r].gen = Current /\ raw[r].ver >= w
    BY <1>4
  <2>2. LastIn(r, 0, e)' = LastIn(r, 0, e) /\ LastIn(r, 0, x)' = LastIn(r, 0, x)
    BY <1>2, <1>5, LastStays DEF Steady
  <2>3. CASE w = 0
    <3>1. Reached(r, x)
      BY <1>1
    <3>2. Reached(r, x)'
      BY <1>1, <1>2, <1>5, <3>1, ReachedStays
    <3> QED BY <2>1, <2>2, <2>3, <3>2 DEF Reached
  <2>4. CASE w # 0
    <3>1. raw'[r].gen = Current' /\ raw'[r].ver >= LastIn(r, 0, e)'
      BY <1>3, <2>1, <2>2, <2>4
    <3> QED BY <3>1 DEF Reached
  <2> QED BY <2>3, <2>4
<1> QED BY <1>1, <1>5, <1>6

\* A slice moves rows only as a steady step may.
LEMMA ApplySteady ==
  ASSUME TypeOK, TypeOK', CursorInv, CoverInv, NEW t \in Tabs, Apply(t)
  PROVE  Steady
<1>1. PICK p, e : p = pull[t] /\ e = SliceEnd(p)
  OBVIOUS
<1>2. /\ p \in PullType /\ PageCovers(p) /\ UNCHANGED <<journal, pinned>>
      /\ \A r \in Records : SliceRow(p, r)
  BY <1>1, ApplyFacts
<1>3. CASE p.page.mode = "snapshot"
  BY <1>1, <1>3, SnapshotSlice
<1>4. CASE p.page.mode # "snapshot"
  <2>1. DeltaPageCovers(p)
    BY <1>2, <1>4 DEF PageCovers
  <2>2. CASE p.off = 0 /\ p.page.to = 0
    <3>1. e = 0
      BY <1>1, <1>2, <2>2, SliceBounds
    <3>2. \A r \in Records : IsLast(LastIn(r, 0, 0), r, 0, 0)
      BY LastIsLast, Typed DEF LastFacts
    <3>3. \A r \in Records : LastIn(r, 0, 0) = 0
      BY <3>2, Typed DEF IsLast
    <3>4. p.page.mode = "delta"
      BY <1>2, <1>4 DEF PullType, Page
    <3>5. \A r \in Records : raw'[r] = raw[r]
      BY <1>1, <1>2, <2>2, <3>1, <3>3, <3>4 DEF SliceRow, Change
    <3>6. Current' = Current /\ Since' = Since
      BY <1>2 DEF Apply, Current, Since, TypeOK, StateType
    <3> QED BY <1>2, <3>5, <3>6, Typed DEF Steady, Grows, RowMoves
  <2>3. CASE /\ p.page.next.at = p.page.to /\ Since <= p.off /\ p.off <= p.page.to
             /\ \A r \in Records : Reached(r, p.off)
    BY <1>1, <1>4, <2>3, DeltaSlice
  <2> QED BY <2>1, <2>2, <2>3 DEF DeltaPageCovers
<1> QED BY <1>3, <1>4

\* What a slice writes to the row of sync_state.
LEMMA SliceState ==
  ASSUME TypeOK, NEW t \in Tabs, Apply(t), NEW p, p = pull[t]
  PROVE  /\ state'.cursor = CommittedCursor(p) /\ state'.generation = Tag(p)
         /\ state'.localGeneration = state.localGeneration
         /\ state'.handover = (p.page.mode = "snapshot" \/ (state.handover /\ (~Ends(p) \/ Retires(p))))
         /\ state'.retirement = IF ~Retires(p) THEN NoRetirement
                                ELSE IF Retiring THEN state.retirement ELSE [next |-> p.page.next, at |-> 0]
         /\ state'.converged = (Ends(p) /\ ~Retires(p))
<1>1. PICK c, g, complete, handover, retirement, converged :
        /\ c = CommittedCursor(p) /\ g = Tag(p) /\ complete = (state.snapshotComplete \/ (p.page.complete /\ ~Partial(p)))
        /\ handover = (p.page.mode = "snapshot" \/ (state.handover /\ (~Ends(p) \/ Retires(p))))
        /\ retirement = IF ~Retires(p) THEN NoRetirement
                        ELSE IF Retiring THEN state.retirement ELSE [next |-> p.page.next, at |-> 0]
        /\ converged = (Ends(p) /\ ~Retires(p))
  OBVIOUS
<1>2. state' = [state EXCEPT !.cursor = c, !.generation = g, !.snapshotComplete = complete,
                             !.handover = handover, !.retirement = retirement, !.converged = converged]
  BY <1>1 DEF Apply
<1>3. state \in StateType
  BY DEF TypeOK
<1>4. /\ state'.cursor = c /\ state'.generation = g /\ state'.localGeneration = state.localGeneration
      /\ state'.handover = handover /\ state'.retirement = retirement /\ state'.converged = converged
  BY <1>2, <1>3 DEF StateType
<1> QED BY <1>1, <1>4

\* One slice is applied.
LEMMA CoverApply ==
  ASSUME TypeOK, TypeOK', CursorInv, CoverInv, NEW t \in Tabs, Apply(t)
  PROVE  CoverInv'
<1>1. PICK p, e, q, n : p = pull[t] /\ e = SliceEnd(p) /\ q = pull'[t] /\ n = p.page.next
  OBVIOUS
<1>2. /\ p \in PullType /\ p.gen = Current /\ p.cursor = state.cursor /\ PageCovers(p)
      /\ Tag(p) = Current /\ ~Incomplete(t) /\ UNCHANGED <<journal, pinned>>
  BY <1>1, ApplyFacts
<1>3. /\ p.off \in Int /\ p.page.to \in Int /\ n \in Cursor /\ e \in Int
      /\ p.page.mode \in {"snapshot", "delta"}
      /\ ~Partial(p) => e = p.page.to
      /\ p.page.to = 0 => ~Partial(p)
  BY <1>1, <1>2, SliceBounds DEF PullType, Page
<1>4. /\ q \in PullType /\ q.gen = p.gen /\ q.cursor = p.cursor /\ q.page = p.page /\ q.off = e
      /\ q.phase = IF Partial(p) THEN "apply" ELSE IF Retires(p) THEN "walk" ELSE "settle"
      /\ pull' = [pull EXCEPT ![t] = q]
  <2>1. pull' = [pull EXCEPT ![t] = [p EXCEPT !.off = e,
                  !.phase = IF Partial(p) THEN "apply" ELSE IF Retires(p) THEN "walk" ELSE "settle"]]
    BY <1>1 DEF Apply
  <2>2. q = [p EXCEPT !.off = e, !.phase = IF Partial(p) THEN "apply" ELSE IF Retires(p) THEN "walk" ELSE "settle"]
    BY <1>1, <2>1 DEF TypeOK
  <2>3. /\ q.gen = p.gen /\ q.cursor = p.cursor /\ q.page = p.page /\ q.off = e
        /\ q.phase = IF Partial(p) THEN "apply" ELSE IF Retires(p) THEN "walk" ELSE "settle"
    BY <1>2, <2>2 DEF PullType
  <2>4. q \in PullType
    BY <1>1 DEF TypeOK
  <2> QED BY <2>1, <2>2, <2>3, <2>4
<1>5. /\ state'.cursor = CommittedCursor(p) /\ state'.generation = Current
      /\ state'.localGeneration = state.localGeneration
      /\ state'.handover = (p.page.mode = "snapshot" \/ (state.handover /\ (~Ends(p) \/ Retires(p))))
      /\ state'.retirement = IF ~Retires(p) THEN NoRetirement
                             ELSE IF Retiring THEN state.retirement ELSE [next |-> n, at |-> 0]
  BY <1>1, <1>2, SliceState
\* What the slice establishes: the rest of the page, or the cursor behind it.
<1>6. /\ Steady
      /\ Partial(p) => PageCovers(q)'
      /\ ~Partial(p) => Covers(n)'
  <2>1. CASE p.page.mode = "snapshot"
    <3>1. SnapshotPageCovers(p)
      BY <1>2, <2>1 DEF PageCovers
    <3>2. Steady /\ \A r \in Records : r <= e => Reached(r, Since)'
      BY <1>1, <2>1, SnapshotSlice
    <3>3. Since' = Since /\ Since # -1 /\ Since <= Len(journal) /\ UNCHANGED journal /\ Since \in Int
      BY <1>2, <3>1, <3>2, Typed DEF Steady, SnapshotPageCovers, CursorInv, Since, Current
    <3>4. ASSUME Partial(p) PROVE PageCovers(q)'
      <4>1. \A r \in Records : p.off < r /\ r <= p.page.to => Brings(p.page.rows[r], r, Since)'
        <5>1. PICK s : s = Since
          OBVIOUS
        <5>2. \A r \in Records : p.off < r /\ r <= p.page.to => Brings(p.page.rows[r], r, s)
          BY <3>1, <5>1 DEF SnapshotPageCovers
        <5>3. \A r \in Records : p.page.rows[r] \in Nat
          BY <1>2 DEF PullType, Page, Version
        <5>4. \A r \in Records : p.off < r /\ r <= p.page.to => Brings(p.page.rows[r], r, s)'
          BY <3>2, <3>3, <5>1, <5>2, <5>3, BringsStays DEF Steady
        <5> QED BY <3>3, <5>1, <5>4
      <4>2. p.off <= e
        BY <1>1, <1>2, <3>4, SizeAssumption DEF Partial, SliceEnd, PullType
      <4>3. \A r \in Records : /\ r <= e => Reached(r, Since)'
                               /\ e < r /\ r <= p.page.to => Brings(p.page.rows[r], r, Since)'
        BY <1>3, <3>2, <4>1, <4>2 DEF Records
      <4>4. SnapshotPageCovers(q)'
        BY <1>1, <1>4, <3>1, <3>3, <4>3 DEF SnapshotPageCovers
      <4> QED BY <1>4, <2>1, <4>4 DEF PageCovers
    <3>5. ASSUME ~Partial(p) PROVE Covers(n)'
      <4>1. CASE n = DeltaCursor(Since) /\ p.page.to = NumRecords
        <5>1. \A r \in Records : Reached(r, Since)'
          BY <1>3, <3>2, <3>5, <4>1, BoundAssumption, SizeAssumption DEF Records
        <5>2. n.kind = "delta" /\ n.at = Since
          BY <4>1 DEF DeltaCursor
        <5>3. \A r \in Records : Reached(r, n.at)'
          <6>1. PICK s : s = Since
            OBVIOUS
          <6>2. \A r \in Records : Reached(r, s)'
            BY <3>3, <5>1, <6>1
          <6> QED BY <5>2, <6>1, <6>2
        <5> QED BY <3>3, <5>2, <5>3 DEF Covers, DeltaCovers
      <4>2. CASE n = SnapshotCursor(p.page.to, Since)
        <5>1. n.kind = "snapshot" /\ n.at = e /\ n.since = Since
          BY <1>3, <3>5, <4>2 DEF SnapshotCursor
        <5> QED BY <3>2, <3>3, <5>1 DEF Covers, SnapshotCovers
      <4> QED BY <1>1, <3>1, <4>1, <4>2 DEF SnapshotPageCovers
    <3> QED BY <3>2, <3>4, <3>5
  <2>2. CASE p.page.mode # "snapshot"
    <3>1. DeltaPageCovers(p) /\ Since \in Int /\ n.at \in Int /\ UNCHANGED journal
      BY <1>2, <1>3, <2>2, Typed DEF PageCovers, Cursor
    <3>2. CASE p.off = 0 /\ p.page.to = 0 /\ \A r \in Records : Reached(r, n.at)
      <4>1. ~Partial(p) /\ e = 0
        BY <1>3, <3>2
      <4>2. \A r \in Records : Change(p.page, r, p.off, e) = 0
        <5>1. \A r \in Records : IsLast(LastIn(r, 0, 0), r, 0, 0)
          BY LastIsLast, Typed DEF LastFacts
        <5>2. \A r \in Records : LastIn(r, 0, 0) = 0
          BY <5>1, Typed DEF IsLast
        <5> QED BY <1>3, <2>2, <3>2, <4>1, <5>2 DEF Change
      <4>3. \A r \in Records : raw'[r] = raw[r]
        BY <1>1, <4>2, ApplyFacts DEF SliceRow
      <4>4. Steady
        BY <1>2, <1>5, <4>3, Typed DEF Steady, Grows, RowMoves, Since, Current
      <4>5. DeltaCovers(n) /\ n.kind = "delta"
        BY <1>1, <3>1, <3>2 DEF DeltaPageCovers, DeltaCovers
      <4>6. Covers(n)'
        BY <1>3, <4>4, <4>5, CoversStay DEF Covers
      <4> QED BY <4>1, <4>4, <4>6
    <3>3. CASE n.at = p.page.to /\ Since <= p.off /\ p.off <= p.page.to /\ \A r \in Records : Reached(r, p.off)
      <4>1. Steady /\ \A r \in Records : Reached(r, e)'
        BY <1>1, <2>2, <3>3, DeltaSlice
      <4>2. p.off <= e /\ e <= p.page.to /\ Since' = Since /\ Since # -1 /\ n.at <= Len(journal)
        BY <1>1, <1>2, <3>1, <3>3, <4>1, SliceBounds DEF Steady, DeltaPageCovers
      <4>3. ASSUME Partial(p) PROVE PageCovers(q)'
        <5>1. DeltaPageCovers(q)'
          BY <1>1, <1>3, <1>4, <3>1, <3>3, <4>1, <4>2 DEF DeltaPageCovers
        <5> QED BY <1>4, <2>2, <5>1 DEF PageCovers
      <4>4. ASSUME ~Partial(p) PROVE Covers(n)'
        <5>1. n.at = e /\ n.kind = "delta"
          BY <1>1, <1>3, <3>1, <3>3, <4>4 DEF DeltaPageCovers
        <5>2. DeltaCovers(n)'
          BY <1>3, <3>1, <3>3, <4>1, <4>2, <5>1 DEF DeltaCovers
        <5> QED BY <5>1, <5>2 DEF Covers
      <4> QED BY <4>1, <4>3, <4>4
    <3> QED BY <1>1, <3>1, <3>2, <3>3 DEF DeltaPageCovers
  <2> QED BY <2>1, <2>2
\* The committed cursor and the walk.
<1>7. state.cursor \in Cursor /\ state.retirement.next \in Cursor /\ Current' = Current
  BY <1>5 DEF TypeOK, StateType, Current
<1>8. Covers(state.cursor)'
  <2>1. PICK c \in Cursor : c = state.cursor
    BY <1>7
  <2>2. Covers(c)'
    BY <1>6, <2>1, CoversStay DEF CoverInv, CommittedCovers
  <2>3. state'.cursor = c \/ (state'.cursor = n /\ ~Partial(p))
    BY <1>1, <1>5, <2>1 DEF CommittedCursor
  <2> QED BY <1>6, <2>2, <2>3
<1>9. ASSUME Retires(p)
      PROVE  /\ p.page.mode = "delta" /\ ~Partial(p) /\ state.handover /\ state'.cursor = state.cursor
             /\ state.cursor.kind = "delta" /\ n.kind = "delta"
  BY <1>1, <1>2, <1>5, <1>9 DEF Retires, Ends, CommittedCursor, PageCovers, DeltaPageCovers
<1>10. (Retiring => Covers(state.retirement.next))'
  <2>1. PICK c \in Cursor : c = state.retirement.next
    BY <1>7
  <2>2. Retiring => Covers(c)'
    BY <1>6, <2>1, CoversStay DEF CoverInv, CommittedCovers
  <2>3. CASE ~Retires(p)
    BY <1>5, <2>3 DEF Retiring, NoRetirement, NoCursor
  <2>4. CASE Retires(p) /\ Retiring
    BY <1>5, <2>1, <2>2, <2>4
  <2>5. CASE Retires(p) /\ ~Retiring
    BY <1>5, <1>6, <1>9, <2>5
  <2> QED BY <2>3, <2>4, <2>5
<1>11. TagInv'
  BY <1>2, <1>5, <1>7 DEF CoverInv, TagInv, Current
<1>12. \A r \in Records : raw'[r].ver # 0 => raw'[r] = raw[r] \/ raw'[r].gen = Current
  BY <1>6 DEF Steady, RowMoves, NoRow
<1>13. HandoverInv'
  <2>1. (state.cursor.kind = "snapshot" => state.handover)'
    BY <1>1, <1>2, <1>3, <1>5, <1>9 DEF CommittedCursor, PageCovers, DeltaPageCovers, CoverInv, HandoverInv
  <2>2. ~state'.handover => ~state.handover /\ p.page.mode = "delta" /\ ~Retires(p)
    BY <1>1, <1>2, <1>3, <1>5 DEF Incomplete, Retires, Ends
  <2>3. ASSUME ~state'.handover, NEW r \in Records, raw'[r].ver # 0
        PROVE  raw'[r].gen = Current'
    <3>1. state.cursor.kind = "delta"
      BY <1>2, <2>2, <2>3 DEF PageCovers, DeltaPageCovers
    <3> QED BY <1>7, <1>12, <2>2, <2>3, <3>1 DEF CoverInv, HandoverInv
  <2>4. ASSUME Retiring'
        PROVE  /\ state'.handover /\ state'.cursor.kind = "delta" /\ state'.retirement.next.kind = "delta"
               /\ \A r \in Records : NumRecords + r <= state'.retirement.at =>
                    raw'[r].ver = 0 \/ raw'[r].gen = Current'
    <3>1. Retires(p)
      BY <1>5, <2>4 DEF Retiring, NoRetirement, NoCursor
    <3>2. state'.handover /\ state'.cursor.kind = "delta" /\ state'.retirement.next.kind = "delta"
      <4>1. state'.handover
        BY <1>5, <1>9, <3>1, Zenon
      <4>2. state'.cursor.kind = "delta"
        BY <1>9, <3>1
      <4>3. state'.retirement.next.kind = "delta"
        <5>1. CASE Retiring
          BY <1>5, <3>1, <5>1 DEF CoverInv, HandoverInv
        <5>2. CASE ~Retiring
          BY <1>5, <1>9, <3>1, <5>2
        <5> QED BY <5>1, <5>2
      <4> QED BY <4>1, <4>2, <4>3
    <3>3. CASE Retiring
      <4>1. state'.retirement.at = state.retirement.at
        BY <1>5, <3>1, <3>3
      <4>2. \A r \in Records : NumRecords + r <= state.retirement.at => raw[r].ver = 0 \/ raw[r].gen = Current
        BY <3>3 DEF CoverInv, HandoverInv
      <4> QED BY <1>7, <1>12, <3>2, <4>1, <4>2
    <3>4. CASE ~Retiring
      <4>1. state'.retirement.at = 0
        BY <1>5, <3>1, <3>4
      <4> QED BY <3>2, <4>1, SizeAssumption DEF Records
    <3> QED BY <3>2, <3>3, <3>4
  <2> QED BY <2>1, <2>3, <2>4 DEF HandoverInv
<1>14. RowInv'
  BY <1>6, RowsStay DEF CoverInv
<1>15. PullCovers(q)'
  BY <1>1, <1>2, <1>4, <1>6, <1>7, Typed DEF PullCovers
<1>16. \A u \in Tabs : PullCovers(pull[u])'
  BY <1>4, <1>6, <1>15, TabsStay
<1> QED BY <1>8, <1>10, <1>11, <1>13, <1>14, <1>16 DEF CoverInv, CommittedCovers

----------------------------------------------------------------------------
(* The omission walk.                                                       *)

\* One row of the walk.
LEMMA CoverWalk ==
  ASSUME TypeOK, TypeOK', CursorInv, CoverInv, NEW t \in Tabs, Walk(t)
  PROVE  CoverInv'
<1>1. /\ state' = [state EXCEPT !.retirement.at = @ + 1] /\ UNCHANGED <<journal, pinned, pull>>
      /\ Retiring /\ state.retirement.at < 2 * NumRecords
  BY DEF Walk, WalkHeld, WalkGoesOn
<1>2. /\ state'.cursor = state.cursor /\ state'.generation = state.generation
      /\ state'.localGeneration = state.localGeneration /\ state'.handover = state.handover
      /\ state'.retirement.next = state.retirement.next
      /\ state'.retirement.at = state.retirement.at + 1
  BY <1>1 DEF TypeOK, StateType
<1>3. state.generation = Current /\ Current' = Current /\ Since' = Since
  BY <1>1, <1>2 DEF CoverInv, TagInv, HandoverInv, Current, Since
<1>4. ASSUME NEW r \in Records
      PROVE  \/ raw'[r] = raw[r] /\ (state.retirement.at = NumRecords + (r - 1) => raw[r].gen = Current)
             \/ raw'[r] = NoRow /\ raw[r].gen # Current
  <2>1. CASE state.retirement.at < NumRecords
    BY <2>1, SizeAssumption DEF Walk, Records
  <2>2. CASE ~(state.retirement.at < NumRecords)
    <3>1. raw' = IF raw[WalkRow].gen # state.generation THEN [raw EXCEPT ![WalkRow] = NoRow] ELSE raw
      BY <2>2 DEF Walk
    <3>2. state.retirement.at = NumRecords + (r - 1) => r = WalkRow
      BY SizeAssumption DEF WalkRow, Records
    <3> QED BY <1>3, <3>1, <3>2 DEF TypeOK
  <2> QED BY <2>1, <2>2
<1>5. Steady
  BY <1>1, <1>3, <1>4, Typed DEF Steady, Grows, RowMoves
<1>6. RowInv'
  BY <1>5, RowsStay DEF CoverInv
<1>7. TagInv'
  BY <1>1, <1>2, <1>3 DEF CoverInv, TagInv
<1>8. HandoverInv'
  <2>1. \A r \in Records : NumRecords + r <= state'.retirement.at => raw'[r].ver = 0 \/ raw'[r].gen = Current
    <3> SUFFICES ASSUME NEW r \in Records, NumRecords + r <= state'.retirement.at
                 PROVE  raw'[r].ver = 0 \/ raw'[r].gen = Current
      OBVIOUS
    <3>1. NumRecords + r <= state.retirement.at \/ state.retirement.at = NumRecords + (r - 1)
      <4>1. state.retirement.at \in 0..2 * NumRecords
        BY DEF TypeOK, StateType
      <4> QED BY <1>2, <4>1, SizeAssumption DEF Records
    <3> QED BY <1>1, <1>4, <3>1 DEF CoverInv, HandoverInv, NoRow
  <2>2. Retiring'
    BY <1>1, <1>2 DEF Retiring
  <2>3. \A r \in Records : raw'[r].ver # 0 => raw'[r] = raw[r]
    BY <1>4 DEF NoRow
  <2> QED BY <1>1, <1>2, <1>3, <2>1, <2>2, <2>3 DEF CoverInv, HandoverInv
<1>9. CommittedCovers'
  <2>1. PICK c \in Cursor, n \in Cursor : c = state.cursor /\ n = state.retirement.next
    BY DEF TypeOK, StateType
  <2>2. Covers(c)' /\ Covers(n)'
    BY <1>1, <1>5, <2>1, CoversStay DEF CoverInv, CommittedCovers
  <2> QED BY <1>2, <2>1, <2>2 DEF CommittedCovers
<1>10. ASSUME NEW u \in Tabs PROVE PullCovers(pull[u])'
  <2>1. PICK p \in PullType : p = pull[u]
    BY DEF TypeOK
  <2>2. PullCovers(p)'
    BY <1>5, <2>1, PullStays DEF CoverInv
  <2> QED BY <1>1, <2>1, <2>2
<1> QED BY <1>6, <1>7, <1>8, <1>9, <1>10 DEF CoverInv

\* The end of the walk: the terminal cursor commits, and the handover is over.
LEMMA CoverFinish ==
  ASSUME TypeOK, TypeOK', CursorInv, CoverInv, NEW t \in Tabs, FinishWalk(t)
  PROVE  CoverInv'
<1>1. /\ UNCHANGED <<journal, pinned, raw>> /\ Retiring /\ pull[t].gen = Current
      /\ state.retirement.next = pull[t].page.next /\ state.retirement.at = 2 * NumRecords
  BY DEF FinishWalk, WalkHeld, Current
<1>2. /\ state'.cursor = state.retirement.next /\ state'.generation = state.generation
      /\ state'.localGeneration = state.localGeneration /\ ~state'.handover
      /\ state'.retirement = NoRetirement
  BY DEF FinishWalk, TypeOK, StateType
<1>3. Steady
  BY <1>1, <1>2, Typed DEF Steady, Grows, RowMoves, Current, Since
<1>4. RowInv'
  BY <1>3, RowsStay DEF CoverInv
<1>5. Current' = Current /\ state.generation = Current /\ ~Retiring' /\ state.retirement.next.kind = "delta"
  BY <1>1, <1>2 DEF CoverInv, TagInv, HandoverInv, Current, Retiring, NoRetirement, NoCursor
<1>6. TagInv'
  BY <1>1, <1>2, <1>5 DEF CoverInv, TagInv
<1>7. HandoverInv'
  <2>1. \A r \in Records : NumRecords + r <= state.retirement.at
    BY <1>1, SizeAssumption DEF Records
  <2> QED BY <1>1, <1>2, <1>5, <2>1 DEF CoverInv, HandoverInv
<1>8. PICK c \in Cursor : c = state.retirement.next
  BY DEF TypeOK, StateType
<1>9. Covers(c)'
  BY <1>1, <1>3, <1>8, CoversStay DEF CoverInv, CommittedCovers
<1>10. CommittedCovers'
  BY <1>2, <1>5, <1>8, <1>9 DEF CommittedCovers
<1>11. PICK q : q = pull'[t]
  OBVIOUS
<1>12. /\ q.phase = "settle" /\ q.gen = Current /\ q.page.next = c
       /\ pull' = [pull EXCEPT ![t] = q]
  <2>1. pull' = [pull EXCEPT ![t] = [pull[t] EXCEPT !.phase = "settle"]]
    BY DEF FinishWalk
  <2>2. q = [pull[t] EXCEPT !.phase = "settle"]
    BY <1>11, <2>1 DEF TypeOK
  <2> QED BY <1>1, <1>8, <2>1, <2>2 DEF TypeOK, PullType
<1>13. PullCovers(q)'
  BY <1>5, <1>9, <1>12, Typed DEF PullCovers
<1>14. \A u \in Tabs : PullCovers(pull[u])'
  BY <1>3, <1>12, <1>13, TabsStay
<1> QED BY <1>4, <1>6, <1>7, <1>10, <1>14 DEF CoverInv

----------------------------------------------------------------------------
(* The theorems.                                                            *)

\* Every step keeps the invariant.
LEMMA CoverNext == TypeOK /\ TypeOK' /\ CursorInv /\ CoverInv /\ [Next]_vars => CoverInv'
<1> SUFFICES ASSUME TypeOK, TypeOK', CursorInv, CoverInv, [Next]_vars PROVE CoverInv'
  OBVIOUS
<1>1. ASSUME UNCHANGED <<journal, pinned, state, raw, pull>> PROVE CoverInv'
  BY <1>1, CoverStop
<1>2. ASSUME NEW t \in Tabs, Reject(t) \/ Abort(t) \/ Denied(t, TRUE) \/ Denied(t, FALSE) PROVE CoverInv'
  <2>1. UNCHANGED <<journal, pinned, state, raw>>
    BY <1>2 DEF Reject, Abort, Denied
  <2>2. ASSUME NEW u \in Tabs
        PROVE  \/ pull'[u] = pull[u] \/ pull'[u] = Idle
               \/ pull'[u].gen = pull[u].gen /\ pull'[u].phase = "reset"
    <3>1. CASE Reject(t) \/ Abort(t)
      BY <3>1 DEF Reject, Abort, TypeOK
    <3>2. ASSUME NEW h, Denied(t, h)
          PROVE  \/ pull'[u] = pull[u] \/ pull'[u] = Idle
                 \/ pull'[u].gen = pull[u].gen /\ pull'[u].phase = "reset"
      BY <3>2 DEF Denied, TypeOK, PullType
    <3> QED BY <1>2, <3>1, <3>2
  <2> QED BY <2>1, <2>2, CoverStop
<1>3. CASE Restart
  <2>1. UNCHANGED <<journal, pinned, state, raw>> /\ \A u \in Tabs : pull'[u] = Idle
    BY <1>3 DEF Restart
  <2> QED BY <2>1, CoverStop
<1>4. ASSUME NEW r \in Records, TowerWrite(r, "upsert") \/ TowerWrite(r, "delete") \/ TowerAccept(r)
      PROVE  CoverInv'
  <2>1. \E c : journal' = Append(journal, c)
    BY <1>4 DEF TowerWrite, TowerAccept
  <2>2. UNCHANGED <<pinned, state, raw, pull>>
    BY <1>4 DEF TowerWrite, TowerAccept
  <2> QED BY <2>1, <2>2, CoverTower
<1>5. ASSUME NEW r \in Records, AcceptRemote(r) PROVE CoverInv'
  <2>1. UNCHANGED <<journal, pinned, state, pull>>
    BY <1>5 DEF AcceptRemote
  <2>2. raw' = raw
    BY <1>5, AcceptKeeps
  <2> QED BY <1>1, <2>1, <2>2
<1>6. ASSUME NEW r \in Records, AcknowledgedReconcile(r) PROVE CoverInv'
  <2>1. UNCHANGED <<journal, pinned, state, pull>>
    BY <1>6 DEF AcknowledgedReconcile
  <2>2. raw' = raw
    BY <1>6, ReconcileKeeps DEF AcknowledgedReconcile
  <2> QED BY <1>1, <2>1, <2>2
<1>7. ASSUME NEW r \in Records,
             \/ LocalEdit(r) \/ Acknowledge(r) \/ Republish(r) \/ Fail(r)
             \/ GiveUp(r, TRUE) \/ GiveUp(r, FALSE)
      PROVE  CoverInv'
  BY <1>1, <1>7 DEF LocalEdit, Acknowledge, Republish, Fail, GiveUp
<1>8. CASE UNCHANGED vars
  BY <1>1, <1>8 DEF vars
<1> QED
  BY <1>2, <1>3, <1>4, <1>5, <1>6, <1>7, <1>8, CoverBegin, CoverRead, CoverReset, CoverApply,
     CoverReplay, CoverWalk, CoverFinish, CoverSettle DEF Next, Download

\* Every cursor that is committed, or that a tab or the walk may still commit,
\* stands only for records the canonical table has reached.
THEOREM CoverInvariant == Spec => []CoverInv
<1>1. Init => CoverInv
  BY CoverInit
<1>2. TypeOK /\ TypeOK' /\ CursorInv /\ CoverInv /\ [Next]_vars => CoverInv'
  BY CoverNext
<1> QED BY <1>1, <1>2, TypeCorrect, CursorInvariant, PTL DEF Spec

\* The invariant leaves no record behind the committed cursor.
LEMMA CoverImplies == TypeOK /\ CoverInv => CursorCoversRows
<1> SUFFICES ASSUME TypeOK, CoverInv, state.cursor.kind = "delta",
                    NEW r \in Records, Latest(r) # 0, Latest(r) <= state.cursor.at
             PROVE  IF Deleted(Latest(r))
                    THEN \/ raw[r].ver = 0 \/ raw[r].ver = Latest(r)
                         \/ state.handover /\ raw[r].gen # state.generation
                    ELSE raw[r].ver = Latest(r)
  BY DEF CursorCoversRows
<1>1. DeltaCovers(state.cursor) /\ state.generation = Current /\ state.cursor.at \in Nat
  BY DEF CoverInv, CommittedCovers, Covers, TagInv, TypeOK, StateType, Cursor
<1>2. PICK v, x : v = Latest(r) /\ x = state.cursor.at
  OBVIOUS
<1>3. x \in Nat /\ x <= Len(journal) /\ Reached(r, x) /\ Len(journal) \in Nat
  BY <1>1, <1>2, Typed DEF DeltaCovers
<1>4. IsLast(v, r, 0, Len(journal))
  BY <1>2, LastIsLast, Typed DEF LastFacts, Latest
<1>5. LastIn(r, 0, x) = v
  <2>1. LastIn(r, x, Len(journal)) = 0
    <3>1. PICK w : w = LastIn(r, x, Len(journal))
      OBVIOUS
    <3>2. IsLast(w, r, x, Len(journal))
      BY <3>1, LastIsLast, Typed DEF LastFacts
    <3>3. w = 0
      BY <1>2, <1>3, <1>4, <3>2 DEF IsLast
    <3> QED BY <3>1, <3>3
  <2>2. v = LastIn(r, 0, Len(journal)) /\ journal \in Seq(ChangeType) /\ 0 \in Nat
    BY <1>2, Typed DEF Latest
  <2> QED BY <1>3, <2>1, <2>2, LastSplit
<1>6. \/ raw[r].gen = Current /\ raw[r].ver >= v
      \/ Gone(r, v) /\ (raw[r].ver = 0 \/ raw[r].gen # Current)
  BY <1>2, <1>3, <1>5 DEF Reached
<1>7. raw[r].ver # 0 => raw[r].ver \in 1..Len(journal) /\ journal[raw[r].ver].id = r
  BY Typed DEF CoverInv, RowInv
<1>8. v \in 1..Len(journal) /\ (raw[r].ver # 0 => raw[r].ver <= v)
  BY <1>2, <1>3, <1>4, <1>7 DEF IsLast
<1>9. CASE raw[r].gen = Current /\ raw[r].ver >= v
  BY <1>2, <1>8, <1>9, Typed
<1>10. CASE Gone(r, v) /\ (raw[r].ver = 0 \/ raw[r].gen # Current)
  <2>1. PICK d \in v..Len(journal) : journal[d].id = r /\ Deleted(d)
    BY <1>10 DEF Gone
  <2>2. d = v
    BY <1>4, <1>8, <2>1 DEF IsLast
  <2>3. raw[r].ver # 0 => state.handover
    BY <1>1, <1>10 DEF CoverInv, HandoverInv
  <2> QED BY <1>1, <1>2, <1>10, <2>1, <2>2, <2>3
<1> QED BY <1>6, <1>9, <1>10

\* The delta cursor skips nothing: behind it the canonical table holds exactly
\* the last change of every record, whatever pages, slices, tabs, resets and
\* walks have led there.
THEOREM CursorSkipsNothing == Spec => []CursorCoversRows
BY CoverImplies, CoverInvariant, TypeCorrect, PTL


----------------------------------------------------------------------------
(* The refinement mapping.                                                  *)

\* What the canonical table shows of r, and the committed cursor outside a
\* handover: "held" and "cut" of the replica.
Standing(r) == IF raw[r].ver = 0 \/ Deleted(raw[r].ver) THEN 0 ELSE raw[r].ver
CutNow == IF state.cursor.kind = "delta" /\ ~state.handover THEN state.cursor.at ELSE -1

\* What a replica shows that stands at position i: the last change up to there.
LEMMA ShownIsLast ==
  ASSUME journal \in Seq(ChangeType), NEW r, NEW i \in 0..Len(journal)
  PROVE  Feed!ShownAt(r, i) = IF LastIn(r, 0, i) = 0 \/ Deleted(LastIn(r, 0, i)) THEN 0 ELSE LastIn(r, 0, i)
<1> DEFINE S == {k \in 1..i : journal[k].id = r}
           T == {k \in 1..Len(journal) : 0 < k /\ k <= i /\ journal[k].id = r}
<1>1. S = T
  OBVIOUS
<1>2. Feed!ShownAt(r, i) = IF S = {} \/ journal[CHOOSE m \in S : \A n \in S : n <= m].op = "delete" THEN 0
                           ELSE CHOOSE m \in S : \A n \in S : n <= m
  BY DEF Feed!ShownAt
<1>3. LastIn(r, 0, i) = IF T = {} THEN 0 ELSE CHOOSE m \in T : \A n \in T : n <= m
  BY DEF LastIn
<1>4. T # {} => LastIn(r, 0, i) # 0
  BY LastIsLast DEF LastFacts, IsLast
<1> HIDE DEF S, T
<1> QED BY <1>1, <1>2, <1>3, <1>4 DEF Deleted

\* A record whose canonical row is change w shows the feed up to w.
LEMMA StandsAt ==
  ASSUME TypeOK, RowInv, NEW r \in Records
  PROVE  /\ raw[r].ver \in 0..Len(journal)
         /\ Standing(r) = Feed!ShownAt(r, raw[r].ver)
<1>1. raw[r].ver \in 0..Len(journal) /\ (raw[r].ver # 0 => journal[raw[r].ver].id = r)
  BY Typed DEF RowInv
<1>2. LastIn(r, 0, raw[r].ver) = raw[r].ver
  <2>1. PICK w, v : w = raw[r].ver /\ v = LastIn(r, 0, w)
    OBVIOUS
  <2>2. IsLast(v, r, 0, w)
    BY <2>1, LastIsLast, Typed DEF LastFacts
  <2>3. v = w
    BY <1>1, <2>1, <2>2, Typed DEF IsLast
  <2> QED BY <2>1, <2>3
<1>3. Feed!ShownAt(r, raw[r].ver) = IF raw[r].ver = 0 \/ Deleted(raw[r].ver) THEN 0 ELSE raw[r].ver
  BY <1>1, <1>2, ShownIsLast, Typed
<1> QED BY <1>1, <1>3 DEF Standing

\* So does every record, before a step and after it.
StandFacts == \A r \in Records : Standing(r) = Feed!ShownAt(r, raw[r].ver)

\* Every record stands where the feed would show it, before a step.
LEMMA StandBefore == TypeOK /\ RowInv => StandFacts
BY StandsAt DEF StandFacts

\* And after it.
LEMMA StandAfter == TypeOK' /\ RowInv' => StandFacts'
BY StandBefore, PTL

\* Where the journal stays, a position shows the same after the step.
LEMMA ShownStays ==
  ASSUME UNCHANGED journal, NEW r, NEW i
  PROVE  Feed!ShownAt(r, i)' = Feed!ShownAt(r, i)
BY DEF Feed!ShownAt

----------------------------------------------------------------------------
(* The steps.                                                               *)

\* The replica has no step when neither its rows nor its cursor change.
LEMMA Stutters ==
  ASSUME TypeOK, RowInv, UNCHANGED <<journal, raw>>, CutNow' = CutNow
  PROVE  UNCHANGED Feed!vars
<1>1. \A r \in Records : Standing(r)' = Standing(r)
  BY DEF Standing, Deleted
<1> QED BY <1>1 DEF Standing, CutNow, Feed!vars

\* A change of Tower's is published.
LEMMA Publishes ==
  ASSUME TypeOK, RowInv, UNCHANGED <<raw, state>>,
         NEW r \in Records, NEW op \in {"upsert", "delete"},
         journal' = Append(journal, [id |-> r, op |-> op])
  PROVE  Feed!Next
<1>1. \A x \in Records : Standing(x)' = Standing(x)
  BY Typed DEF Standing, Deleted, RowInv
<1>2. CutNow' = CutNow
  BY DEF CutNow
<1> QED BY <1>1, <1>2 DEF Standing, CutNow, Feed!Next, Feed!Publish

\* The replica advances when its cut does not move back, and every record moves
\* forward along the feed, past the cut.
LEMMA Advances ==
  ASSUME UNCHANGED journal, CutNow' \in -1..Len(journal), CutNow <= CutNow',
         \A r \in Records :
           \E i \in 0..Len(journal) : /\ Standing(r) = Feed!ShownAt(r, i)
                                      /\ \E j \in i..Len(journal) : /\ CutNow' <= j
                                                                    /\ Standing(r)' = Feed!ShownAt(r, j)
  PROVE  Feed!Next
<1>1. CutNow' = (IF state.cursor.kind = "delta" /\ ~state.handover THEN state.cursor.at ELSE -1)'
  BY DEF CutNow
<1> QED BY <1>1 DEF Standing, CutNow, Feed!Next, Feed!Advance, Feed!Open

\* Outside a handover no record stands behind the committed cursor.
CutFacts ==
  CutNow # -1 =>
    /\ CutNow \in 0..Len(journal)
    /\ \A r \in Records : \E j \in raw[r].ver..Len(journal) :
         CutNow <= j /\ Standing(r) = Feed!ShownAt(r, j)

\* The committed cursor is a cut of the replica before a step.
LEMMA CutBefore == TypeOK /\ CoverInv => CutFacts
<1> SUFFICES ASSUME TypeOK, CoverInv, CutNow # -1
             PROVE  /\ CutNow \in 0..Len(journal)
                    /\ \A r \in Records : \E j \in raw[r].ver..Len(journal) :
                         CutNow <= j /\ Standing(r) = Feed!ShownAt(r, j)
  BY DEF CutFacts
<1>1. state.cursor.kind = "delta" /\ ~state.handover /\ CutNow = state.cursor.at
  BY DEF CutNow
<1>2. PICK x : x = state.cursor.at
  OBVIOUS
<1>3. DeltaCovers(state.cursor) /\ x \in Nat
  BY <1>1, <1>2 DEF CoverInv, CommittedCovers, Covers, TypeOK, StateType, Cursor
<1>4. x \in 0..Len(journal) /\ Len(journal) \in Nat
  BY <1>2, <1>3, Typed DEF DeltaCovers
<1>5. ASSUME NEW r \in Records
      PROVE  \E j \in raw[r].ver..Len(journal) : x <= j /\ Standing(r) = Feed!ShownAt(r, j)
  <2>1. PICK u, v : u = raw[r].ver /\ v = LastIn(r, 0, x)
    OBVIOUS
  <2>2. IsLast(v, r, 0, x)
    BY <2>1, LastIsLast, Typed DEF LastFacts
  <2>3. u \in 0..Len(journal) /\ (u # 0 => journal[u].id = r) /\ Standing(r) = Feed!ShownAt(r, u)
    BY <2>1, StandsAt, Typed DEF CoverInv, RowInv
  <2>4. u # 0 => raw[r].gen = Current
    BY <1>1, <2>1 DEF CoverInv, HandoverInv
  <2>5. /\ v = 0 \/ (raw[r].gen = Current /\ u >= v) \/ (Gone(r, v) /\ u = 0)
    BY <1>2, <1>3, <2>1, <2>4 DEF DeltaCovers, Reached
  <2>6. CASE u >= x
    BY <1>4, <2>1, <2>3, <2>6
  <2>7. CASE u < x /\ u = v
    <3>1. Feed!ShownAt(r, x) = Standing(r)
      <4>1. Feed!ShownAt(r, x) = IF v = 0 \/ Deleted(v) THEN 0 ELSE v
        BY <1>4, <2>1, ShownIsLast, Typed
      <4> QED BY <2>1, <2>7, <4>1 DEF Standing
    <3> QED BY <1>4, <2>1, <2>3, <2>7, <3>1
  <2>8. CASE u < x /\ u # v
    <3>1. u = 0 /\ v # 0 /\ Gone(r, v)
      BY <1>4, <2>2, <2>3, <2>5, <2>8 DEF IsLast
    <3>2. PICK d \in v..Len(journal) : journal[d].id = r /\ Deleted(d)
      BY <3>1 DEF Gone
    <3>3. v \in 1..Len(journal)
      BY <2>2, <3>1 DEF IsLast
    <3>4. PICK j : j = IF d < x THEN x ELSE d
      OBVIOUS
    <3>5. j \in x..Len(journal)
      BY <1>4, <3>2, <3>3, <3>4
    <3>6. LastIn(r, 0, j) = d
      <4>1. PICK w : w = LastIn(r, 0, j)
        OBVIOUS
      <4>2. IsLast(w, r, 0, j)
        BY <4>1, LastIsLast, Typed DEF LastFacts
      <4>3. CASE d < x
        <5>1. d = v
          BY <1>4, <2>2, <3>1, <3>2, <3>3, <4>3 DEF IsLast
        <5> QED BY <2>1, <3>4, <4>3, <5>1
      <4>4. CASE ~(d < x)
        <5>1. w = d
          BY <1>4, <3>2, <3>3, <3>4, <4>2, <4>4 DEF IsLast
        <5> QED BY <4>1, <5>1
      <4> QED BY <4>3, <4>4
    <3>7. Feed!ShownAt(r, j) = 0
      BY <1>4, <3>2, <3>5, <3>6, ShownIsLast, Typed
    <3>8. Standing(r) = 0
      BY <2>1, <3>1 DEF Standing
    <3> QED BY <1>4, <2>1, <3>1, <3>5, <3>7, <3>8
  <2> QED BY <1>4, <2>3, <2>6, <2>7, <2>8
<1> QED BY <1>1, <1>2, <1>4, <1>5

\* And after it.
LEMMA CutAfter == TypeOK' /\ CoverInv' => CutFacts'
BY CutBefore, PTL

\* A canonical row that is not dropped does not go back.
LEMMA RowForward ==
  ASSUME TypeOK, TypeOK', CursorInv, CoverInv, Steady,
         NEW r \in Records, raw'[r].ver # 0 \/ raw'[r] = raw[r]
  PROVE  raw[r].ver <= raw'[r].ver
<1>1. CASE raw'[r] = raw[r]
  BY <1>1, Typed
<1>2. CASE raw'[r] # raw[r]
  <2>1. /\ Since # -1 /\ raw'[r].gen = Current
        /\ raw'[r].ver >= LastIn(r, 0, Since)
        /\ raw[r].gen = Current => raw'[r].ver >= raw[r].ver
    BY <1>2 DEF Steady, RowMoves, NoRow
  <2>2. IsLast(LastIn(r, 0, Since), r, 0, Since)
    BY LastIsLast, Typed DEF LastFacts
  <2>3. raw[r].gen # Current /\ raw[r].ver # 0 => raw[r].ver <= LastIn(r, 0, Since)
    BY <2>1, <2>2, Typed DEF IsLast, CoverInv, RowInv
  <2>4. LastIn(r, 0, Since) \in Nat
    BY <2>2, Typed DEF IsLast
  <2> QED BY <2>1, <2>3, <2>4, Typed, TypedNext
<1> QED BY <1>1, <1>2

\* A step that drops no row, and does not move the cut back, advances the replica.
LEMMA Forward ==
  ASSUME TypeOK, TypeOK', CursorInv, CoverInv, CoverInv', Steady, UNCHANGED journal,
         \A r \in Records : raw'[r].ver # 0 \/ raw'[r] = raw[r],
         CutNow <= CutNow'
  PROVE  Feed!Next
<1>1. CutFacts' /\ StandFacts /\ StandFacts'
  BY CutAfter, StandBefore, StandAfter DEF CoverInv
<1>2. CutNow' \in -1..Len(journal)
  BY <1>1, Typed DEF CutFacts
<1>3. ASSUME NEW r \in Records
      PROVE  \E i \in 0..Len(journal) : /\ Standing(r) = Feed!ShownAt(r, i)
                                        /\ \E j \in i..Len(journal) : /\ CutNow' <= j
                                                                      /\ Standing(r)' = Feed!ShownAt(r, j)
  <2>1. PICK i, k : i = raw[r].ver /\ k = raw'[r].ver
    OBVIOUS
  <2>2. i \in 0..Len(journal) /\ Standing(r) = Feed!ShownAt(r, i)
    BY <2>1, StandsAt DEF CoverInv
  <2>3. i <= k
    BY <2>1, RowForward
  <2>4. k \in 0..Len(journal) /\ Standing(r)' = Feed!ShownAt(r, k)
    <3>1. k \in Nat /\ (k # 0 => k <= Len(journal))
      BY <2>1, TypedNext DEF CoverInv, RowInv
    <3>2. Standing(r)' = Feed!ShownAt(r, k)'
      BY <1>1, <2>1 DEF StandFacts
    <3> QED BY <3>1, <3>2, ShownStays, Typed
  <2>5. CASE CutNow' = -1
    BY <2>2, <2>3, <2>4, <2>5
  <2>6. CASE CutNow' # -1
    <3>1. PICK j \in k..Len(journal) : CutNow' <= j /\ Standing(r)' = Feed!ShownAt(r, j)'
      BY <1>1, <2>1, <2>6 DEF CutFacts
    <3>2. Standing(r)' = Feed!ShownAt(r, j)
      BY <3>1, ShownStays
    <3>3. j \in i..Len(journal)
      BY <2>2, <2>3, <2>4, <3>1
    <3> QED BY <2>2, <3>1, <3>2, <3>3
  <2> QED BY <2>5, <2>6
<1> QED BY <1>2, <1>3, Advances

\* A step that leaves the cursor, the handover and the rows as they are.
LEMMA Calm ==
  ASSUME TypeOK, RowInv, UNCHANGED <<journal, raw, state>>
  PROVE  UNCHANGED Feed!vars
BY Stutters DEF CutNow

\* The cut does not exist before the replica is open.
LEMMA CutType ==
  ASSUME TypeOK'
  PROVE  CutNow' = -1 \/ CutNow' \in Nat
BY DEF CutNow, TypeOK, StateType, Cursor

----------------------------------------------------------------------------
(* The actions that are not steps of the replica by their form alone.       *)

\* One slice: records move forward, and the cut with its last slice.
LEMMA ReplicaApply ==
  ASSUME TypeOK, TypeOK', CursorInv, CoverInv, CoverInv', NEW t \in Tabs, Apply(t)
  PROVE  Feed!Next
<1>1. PICK p : p = pull[t]
  OBVIOUS
<1>2. /\ p \in PullType /\ p.cursor = state.cursor /\ PageCovers(p) /\ UNCHANGED journal
      /\ \A r \in Records : SliceRow(p, r)
  BY <1>1, ApplyFacts
<1>3. \A r \in Records : raw'[r].ver # 0 \/ raw'[r] = raw[r]
  BY <1>2 DEF SliceRow
<1>4. CutNow <= CutNow'
  <2>1. CASE CutNow = -1
    BY <2>1, CutType
  <2>2. CASE CutNow # -1
    <3>1. state.cursor.kind = "delta" /\ ~state.handover /\ CutNow = state.cursor.at
      BY <2>2 DEF CutNow
    <3>2. DeltaPageCovers(p) /\ p.page.mode # "snapshot"
      BY <1>2, <3>1 DEF PageCovers, SnapshotPageCovers
    <3>3. state'.cursor = CommittedCursor(p)
      BY <1>1 DEF Apply, TypeOK, StateType
    <3>4. ~state'.handover
      <4>1. state'.handover = (p.page.mode = "snapshot" \/ (state.handover /\ (~Ends(p) \/ Retires(p))))
        BY <1>1 DEF Apply, TypeOK, StateType
      <4> QED BY <3>1, <3>2, <4>1
    <3>5. state'.cursor.kind = "delta" /\ state.cursor.at <= state'.cursor.at
      <4>1. Behind(state.cursor, p.page.next) /\ p.page.next.kind = "delta" /\ state.cursor.at \in Nat
        BY <1>1, <1>2, <3>2 DEF CursorInv, PullAhead, Apply, DeltaPageCovers, TypeOK, StateType, Cursor
      <4> QED BY <3>1, <3>3, <4>1 DEF CommittedCursor, Behind
    <3> QED BY <3>1, <3>4, <3>5 DEF CutNow
  <2> QED BY <2>1, <2>2
<1> QED BY <1>2, <1>3, <1>4, ApplySteady, Forward

\* The walk's end opens the replica again.
LEMMA ReplicaFinish ==
  ASSUME TypeOK, TypeOK', CursorInv, CoverInv, CoverInv', NEW t \in Tabs, FinishWalk(t)
  PROVE  Feed!Next
<1>1. /\ UNCHANGED <<journal, pinned, raw>> /\ Retiring
      /\ state'.localGeneration = state.localGeneration
  BY DEF FinishWalk, WalkHeld, TypeOK, StateType
<1>2. Steady
  BY <1>1, Typed DEF Steady, Grows, RowMoves, Current, Since
<1>3. CutNow = -1
  BY <1>1 DEF CoverInv, HandoverInv, CutNow
<1> QED BY <1>1, <1>2, <1>3, CutType, Forward

\* A reset closes the replica, and may take everything from it.
LEMMA ReplicaReset ==
  ASSUME TypeOK, TypeOK', CursorInv, CoverInv, NEW t \in Tabs, Reset(t)
  PROVE  Feed!Next
<1>1. UNCHANGED journal /\ state'.cursor.kind = "none"
  BY DEF Reset, FreshState, NoCursor
<1>2. CutNow' = -1
  BY <1>1 DEF CutNow
<1>3. CASE pull[t].hide
  <2>1. \A r \in Records : raw'[r].ver = 0
    BY <1>3 DEF Reset, NoRow
  <2>2. \A r \in Records : Standing(r)' = 0
    BY <2>1 DEF Standing
  <2> QED BY <1>1, <1>2, <2>2 DEF Feed!Next, Feed!Forget, Feed!Open, Standing, CutNow
<1>4. CASE ~pull[t].hide
  <2>1. raw' = raw
    BY <1>4 DEF Reset
  <2>2. \A r \in Records : Standing(r)' = Standing(r)
    BY <1>1, <2>1 DEF Standing, Deleted
  <2> QED BY <1>1, <1>2, <2>2 DEF Feed!Next, Feed!Reopen, Feed!Open, Standing, CutNow
<1> QED BY <1>3, <1>4

\* The row a walk drops: Tower has deleted its record after it.
LEMMA ReplicaWalk ==
  ASSUME TypeOK, TypeOK', CursorInv, CoverInv, CoverInv', NEW t \in Tabs, Walk(t)
  PROVE  Feed!Next
<1>1. /\ UNCHANGED <<journal, pinned>> /\ Retiring /\ state.handover
      /\ state.cursor.kind = "delta" /\ state.generation = Current
  <2>1. UNCHANGED <<journal, pinned>> /\ Retiring
    BY DEF Walk, WalkHeld
  <2> QED BY <2>1 DEF CoverInv, HandoverInv, TagInv
<1>2. CutNow = -1 /\ CutNow' = -1
  <2>1. state'.handover = state.handover
    BY DEF Walk, TypeOK, StateType
  <2> QED BY <1>1, <2>1 DEF CutNow
<1>3. ASSUME NEW r \in Records
      PROVE  raw'[r] = raw[r] \/ (raw'[r] = NoRow /\ raw[r].gen # Current)
  <2>1. CASE state.retirement.at < NumRecords
    BY <2>1 DEF Walk
  <2>2. CASE ~(state.retirement.at < NumRecords)
    <3>1. raw' = IF raw[WalkRow].gen # state.generation THEN [raw EXCEPT ![WalkRow] = NoRow] ELSE raw
      BY <2>2 DEF Walk
    <3> QED BY <1>1, <3>1 DEF TypeOK
  <2> QED BY <2>1, <2>2
<1>4. DeltaCovers(state.cursor)
  BY <1>1 DEF CoverInv, CommittedCovers, Covers
<1>5. StandFacts /\ StandFacts'
  BY StandBefore, StandAfter DEF CoverInv
<1>6. ASSUME NEW r \in Records
      PROVE  \E i \in 0..Len(journal) : /\ Standing(r) = Feed!ShownAt(r, i)
                                        /\ \E j \in i..Len(journal) : /\ CutNow' <= j
                                                                      /\ Standing(r)' = Feed!ShownAt(r, j)
  <2>1. PICK u : u = raw[r].ver
    OBVIOUS
  <2>2. u \in 0..Len(journal) /\ Standing(r) = Feed!ShownAt(r, u) /\ Len(journal) \in Nat
    BY <2>1, StandsAt, Typed DEF CoverInv
  <2>3. CASE raw'[r] = raw[r]
    <3>1. Standing(r)' = Standing(r)
      BY <1>1, <2>3 DEF Standing, Deleted
    <3> QED BY <1>2, <2>2, <3>1
  <2>4. CASE u = 0 /\ raw'[r] = NoRow
    <3>1. Standing(r)' = Standing(r)
      BY <2>1, <2>4 DEF Standing, NoRow
    <3> QED BY <1>2, <2>2, <3>1
  <2>5. CASE u # 0 /\ raw'[r] = NoRow /\ raw[r].gen # Current
    <3>1. PICK v, x, s : v = LastIn(r, 0, x) /\ x = state.cursor.at /\ s = Since
      OBVIOUS
    <3>2. Reached(r, x) /\ s <= x /\ x <= Len(journal) /\ s # -1
      BY <1>4, <3>1 DEF DeltaCovers
    <3>3. IsLast(v, r, 0, x)
      BY <3>1, LastIsLast, Typed DEF LastFacts
    <3>4. u <= s /\ journal[u].id = r
      BY <2>1, <2>5, <3>1, <3>2 DEF CoverInv, RowInv
    <3>5. x \in Nat /\ s \in Int
      <4>1. state.cursor \in Cursor
        BY DEF TypeOK, StateType
      <4> QED BY <3>1, <4>1, Typed DEF Cursor
    <3>6. v # 0 /\ u <= v /\ v \in 1..Len(journal)
      BY <2>2, <2>5, <3>2, <3>3, <3>4, <3>5 DEF IsLast
    <3>7. Gone(r, v)
      BY <2>5, <3>1, <3>2, <3>6 DEF Reached
    <3>8. PICK d \in v..Len(journal) : journal[d].id = r /\ Deleted(d)
      BY <3>7 DEF Gone
    <3>9. d \in 0..Len(journal) /\ d \in u..Len(journal) /\ d # 0
      BY <2>2, <3>6, <3>8
    <3>10. LastIn(r, 0, d) = d
      <4>1. PICK w : w = LastIn(r, 0, d)
        OBVIOUS
      <4>2. IsLast(w, r, 0, d)
        BY <4>1, LastIsLast, Typed DEF LastFacts
      <4>3. w = d
        BY <2>2, <3>8, <3>9, <4>2 DEF IsLast
      <4> QED BY <4>1, <4>3
    <3>11. Feed!ShownAt(r, d) = 0
      BY <3>8, <3>9, <3>10, ShownIsLast, Typed
    <3>12. Standing(r)' = 0
      BY <2>5 DEF Standing, NoRow
    <3> QED BY <1>2, <2>2, <3>9, <3>11, <3>12
  <2> QED BY <1>3, <2>1, <2>3, <2>4, <2>5
<1> QED BY <1>1, <1>2, <1>6, Advances, Typed

----------------------------------------------------------------------------
(* The refinement.                                                          *)

\* An empty cache is an empty replica.
LEMMA ReplicaInit == Init => Feed!Init
<1> SUFFICES ASSUME Init PROVE Feed!Init
  OBVIOUS
<1>1. journal \in Seq([id : Records, op : {"upsert"}])
  BY BoundAssumption, SizeAssumption DEF Init, Records
<1>2. \A r \in Records : raw[r].ver = 0
  BY DEF Init, NoRow
<1>3. state.cursor.kind = "none"
  BY DEF Init, FreshState, NoCursor
<1> QED BY <1>1, <1>2, <1>3 DEF Feed!Init, Feed!Open

\* Every step of the cache is a step of the replica, or changes nothing of it.
LEMMA ReplicaNext ==
  TypeOK /\ TypeOK' /\ CursorInv /\ CoverInv /\ CoverInv' /\ [Next]_vars => [Feed!Next]_(Feed!vars)
<1> SUFFICES ASSUME TypeOK, TypeOK', CursorInv, CoverInv, CoverInv', [Next]_vars
             PROVE  Feed!Next \/ UNCHANGED Feed!vars
  OBVIOUS
<1>1. RowInv
  BY DEF CoverInv
<1>2. ASSUME UNCHANGED <<journal, raw, state>> PROVE UNCHANGED Feed!vars
  BY <1>1, <1>2, Calm
<1>3. ASSUME NEW t \in Tabs,
             \/ Begin(t) \/ Read(t) \/ Replay(t) \/ Reject(t) \/ Abort(t)
             \/ Denied(t, TRUE) \/ Denied(t, FALSE)
      PROVE  UNCHANGED Feed!vars
  BY <1>2, <1>3 DEF Begin, Read, Replay, Reject, Abort, Denied
<1>4. ASSUME NEW t \in Tabs, Settle(t) PROVE UNCHANGED Feed!vars
  BY <1>2, <1>4, ReconcileKeeps DEF Settle
<1>5. CASE Restart
  BY <1>2, <1>5 DEF Restart
<1>6. ASSUME NEW r \in Records, TowerWrite(r, "upsert") \/ TowerWrite(r, "delete") \/ TowerAccept(r)
      PROVE  Feed!Next
  <2>1. UNCHANGED <<raw, state>>
    BY <1>6 DEF TowerWrite, TowerAccept
  <2>2. \E op \in {"upsert", "delete"} : journal' = Append(journal, [id |-> r, op |-> op])
    BY <1>6 DEF TowerWrite, TowerAccept
  <2> QED BY <1>1, <2>1, <2>2, Publishes
<1>7. ASSUME NEW r \in Records, AcceptRemote(r) PROVE UNCHANGED Feed!vars
  <2>1. UNCHANGED <<journal, state>> /\ raw' = raw
    BY <1>7, AcceptKeeps DEF AcceptRemote
  <2> QED BY <1>2, <2>1
<1>8. ASSUME NEW r \in Records, AcknowledgedReconcile(r) PROVE UNCHANGED Feed!vars
  BY <1>2, <1>8, ReconcileKeeps DEF AcknowledgedReconcile
<1>9. ASSUME NEW r \in Records,
             \/ LocalEdit(r) \/ Acknowledge(r) \/ Republish(r) \/ Fail(r)
             \/ GiveUp(r, TRUE) \/ GiveUp(r, FALSE)
      PROVE  UNCHANGED Feed!vars
  BY <1>2, <1>9 DEF LocalEdit, Acknowledge, Republish, Fail, GiveUp
<1>10. CASE UNCHANGED vars
  BY <1>2, <1>10 DEF vars
<1> QED
  BY <1>3, <1>4, <1>5, <1>6, <1>7, <1>8, <1>9, <1>10, ReplicaApply, ReplicaWalk, ReplicaFinish,
     ReplicaReset DEF Next, Download

\* The cache is a replica of Tower's feed: no page, slice, second tab, reset or
\* omission walk moves a record back along it, opens the replica while a record is
\* behind its cut, or takes a record away that Tower did not delete.
THEOREM CacheIsReplica == Spec => Replica
<1>1. Init => Feed!Init
  BY ReplicaInit
<1>2. TypeOK /\ TypeOK' /\ CursorInv /\ CoverInv /\ CoverInv' /\ [Next]_vars => [Feed!Next]_(Feed!vars)
  BY ReplicaNext
<1> QED BY <1>1, <1>2, TypeCorrect, CursorInvariant, CoverInvariant, PTL DEF Spec, Replica, Feed!Spec

----------------------------------------------------------------------------
(* Third part: the screen.                                                  *)

----------------------------------------------------------------------------
(* What a steady step leaves true of one record.                            *)

\* A change that is in the journal stays what it is.
LEMMA ChangeStays ==
  ASSUME TypeOK, TypeOK', Grows, NEW v \in 1..Len(journal)
  PROVE  v \in 1..Len(journal') /\ journal'[v] = journal[v] /\ (Deleted(v)' <=> Deleted(v))
BY Typed, TypedNext DEF Grows, Deleted

\* The canonical row of this generation stays one.
LEMMA CurrentStays ==
  ASSUME TypeOK, Steady, NEW r \in Records, raw[r].ver # 0, raw[r].gen = Current
  PROVE  raw'[r].ver # 0 /\ raw'[r].gen = Current'
BY Typed DEF Steady, RowMoves

\* A row that a view or a command holds stays one.
LEMMA RowOfStays ==
  ASSUME TypeOK, TypeOK', Steady, NEW r \in Records, NEW row \in Row, RowOf(row, r)
  PROVE  RowOf(row, r)'
<1>1. Current' = Current /\ Grows
  BY DEF Steady
<1>2. row.ver \in Nat
  BY DEF Row, Version
<1>3. row.ver # 0 => row.ver <= Len(journal') /\ journal'[row.ver].id = r
  BY <1>1, <1>2, ChangeStays, Typed, TypedNext DEF RowOf
<1> QED BY <1>1, <1>3, CurrentStays DEF RowOf

\* What is brought for a record is still no older than change i.
LEMMA BeyondStays ==
  ASSUME TypeOK, TypeOK', RowInv, Steady, NEW r \in Records, NEW i \in Nat, Beyond(r, i)
  PROVE  Beyond(r, i)'
<1>1. /\ Grows /\ RowMoves(r) /\ Current' = Current
      /\ IF Since = -1 THEN Since' = -1 \/ Since' = Len(journal) ELSE Since' = Since
  BY DEF Steady
<1>2. i <= Len(journal')
  BY <1>1, Typed, TypedNext DEF Grows, Beyond
<1>3. CASE Since = -1
  BY <1>1, <1>2, <1>3, Typed, TypedNext DEF Beyond
<1>4. CASE Since # -1 /\ i <= Since
  BY <1>1, <1>2, <1>4 DEF Beyond
<1>5. CASE Since # -1 /\ ~(i <= Since)
  <2>1. i <= raw[r].ver
    BY <1>5 DEF Beyond
  <2>2. raw[r].gen = Current
    BY <1>5, <2>1, Typed DEF RowInv
  <2>3. i <= raw'[r].ver
    BY <1>1, <2>1, <2>2, Typed, TypedNext DEF RowMoves
  <2> QED BY <1>2, <2>3 DEF Beyond
<1> QED BY <1>3, <1>4, <1>5

\* A record stays known.
LEMMA KnownStays ==
  ASSUME TypeOK, TypeOK', CursorInv, Steady, NEW r \in Records, Known(r)
  PROVE  Known(r)'
<1>1. /\ Grows /\ Current' = Current /\ Since <= Len(journal)
      /\ IF Since = -1 THEN Since' = -1 \/ Since' = Len(journal) ELSE Since' = Since
  BY Typed DEF Steady, CursorInv, Since, Current
<1>2. CASE raw[r].ver # 0 /\ raw[r].gen = Current
  BY <1>2, CurrentStays DEF Known
<1>3. CASE LastIn(r, 0, IF Since = -1 THEN Len(journal) ELSE Since) # 0
  <2>1. PICK x : x = IF Since = -1 THEN Len(journal) ELSE Since
    OBVIOUS
  <2>2. PICK y : y = IF Since' = -1 THEN Len(journal') ELSE Since'
    OBVIOUS
  <2>3. x \in Int /\ x <= Len(journal) /\ y \in Int /\ x <= y
    BY <1>1, <2>1, <2>2, Typed, TypedNext DEF Grows
  <2>4. LastIn(r, 0, x)' = LastIn(r, 0, x) /\ LastIn(r, 0, x) # 0
    BY <1>1, <1>3, <2>1, <2>3, LastStays
  <2>5. PICK v, w : v = LastIn(r, 0, x)' /\ w = LastIn(r, 0, y)'
    OBVIOUS
  <2>6. IsLast(v, r, 0, x)' /\ IsLast(w, r, 0, y)'
    BY <2>5, LastIsLastNext, TypedNext DEF LastFacts, IsLast
  <2>7. w # 0
    BY <2>3, <2>4, <2>5, <2>6 DEF IsLast
  <2> QED BY <2>2, <2>5, <2>7 DEF Known
<1> QED BY <1>2, <1>3 DEF Known

\* A record that was deleted and brought back was.
LEMMA RestoredStays ==
  ASSUME TypeOK, TypeOK', Grows, NEW r, NEW b, Restored(r, b)
  PROVE  Restored(r, b)'
<1>1. PICK i \in 1..Len(journal), j \in 1..Len(journal) :
        b < i /\ i < j /\ journal[i] = [id |-> r, op |-> "delete"] /\ journal[j].id = r
  BY DEF Restored
<1>2. i \in 1..Len(journal') /\ j \in 1..Len(journal') /\ journal'[i] = journal[i] /\ journal'[j] = journal[j]
  BY ChangeStays
<1> QED BY <1>1, <1>2 DEF Restored

\* An edit stays recoverable while its row, its warning and its command stay.
LEMMA RecoverableStays ==
  ASSUME TypeOK, TypeOK', RowInv, Steady, NEW r \in Records, Recoverable(r),
         view'[r] = view[r], conflict'[r] = conflict[r], saved'[r] = saved[r],
         cmd'[r].phase # "none" => cmd[r].phase # "none" /\ cmd'[r].base = cmd[r].base,
         Unanswered(r)' => Unanswered(r)
  PROVE  Recoverable(r)'
<1>1. Grows
  BY DEF Steady
<1>2. cmd[r].base \in Nat
  <2>1. cmd[r] \in CommandType
    BY DEF TypeOK
  <2> QED BY <2>1 DEF CommandType, Version
<1>3. CASE cmd'[r].phase = "none"
  BY <1>3 DEF Recoverable, Unanswered
<1>4. CASE cmd'[r].phase # "none"
  <2>1. PICK b : b = cmd[r].base
    OBVIOUS
  <2>2. Beyond(r, b) => Beyond(r, b)'
    BY <1>2, <2>1, BeyondStays
  <2>3. Restored(r, b) => Restored(r, b)'
    BY <1>1, RestoredStays
  <2>4. ASSUME Withheld(r) PROVE Withheld(r)'
    <3>1. PICK i \in 1..Len(journal) : journal[i].id = r /\ Deleted(i) /\ b < i /\ Beyond(r, i)
      BY <2>1, <2>4 DEF Withheld
    <3>2. i \in 1..Len(journal') /\ journal'[i].id = r /\ Deleted(i)' /\ Beyond(r, i)'
      BY <1>1, <3>1, ChangeStays, BeyondStays
    <3> QED BY <1>4, <2>1, <2>4, <3>1, <3>2 DEF Withheld
  <2> QED BY <1>4, <2>1, <2>2, <2>3, <2>4 DEF Recoverable
<1> QED BY <1>3, <1>4

\* What a command is about to put stays sound.
LEMMA CommandOfStays ==
  ASSUME TypeOK, TypeOK', Steady, NEW r \in Records, CommandOf(r),
         cmd'[r].phase # "none" => cmd[r].phase # "none" /\ cmd'[r].prev = cmd[r].prev,
         Answered(r)' => cmd'[r].ver \in 1..Len(journal') /\ journal'[cmd'[r].ver].id = r
  PROVE  CommandOf(r)'
<1>1. cmd[r].prev \in Row
  <2>1. cmd[r] \in CommandType
    BY DEF TypeOK
  <2> QED BY <2>1 DEF CommandType
<1>2. PICK q : q = cmd[r].prev
  OBVIOUS
<1>3. RowOf(q, r) => RowOf(q, r)'
  BY <1>1, <1>2, RowOfStays
<1> QED BY <1>2, <1>3 DEF CommandOf

\* So does the version of an answer.
LEMMA AnswerStays ==
  ASSUME TypeOK, TypeOK', Steady, NEW r \in Records, CommandOf(r), Answered(r), cmd'[r].ver = cmd[r].ver
  PROVE  cmd'[r].ver \in 1..Len(journal') /\ journal'[cmd'[r].ver].id = r
BY ChangeStays DEF CommandOf, Steady

\* A record nothing happens to stays fine in a steady step.
LEMMA FineStays ==
  ASSUME TypeOK, TypeOK', CursorInv, RowInv, Steady, NEW r \in Records, Fine(r),
         raw'[r] = raw[r], view'[r] = view[r], conflict'[r] = conflict[r], saved'[r] = saved[r],
         late'[r] = late[r], cmd'[r] = cmd[r] \/ cmd'[r] = NoCommand,
         Retiring' /\ r <= state'.retirement.at => Retiring /\ r <= state.retirement.at
  PROVE  Fine(r)'
<1>1. Grows /\ Current' = Current
  BY DEF Steady
<1>2. RowOf(view[r], r)'
  <2>1. PICK q \in Row : q = view[r]
    BY DEF TypeOK
  <2>2. RowOf(q, r)'
    BY <2>1, RowOfStays DEF Fine
  <2> QED BY <2>1, <2>2
<1>3. CommandOf(r)'
  <2>1. cmd'[r].phase # "none" => cmd'[r] = cmd[r]
    BY DEF NoCommand
  <2>2. Answered(r)' => cmd'[r] = cmd[r] /\ Answered(r)
    BY <2>1 DEF Answered
  <2> QED BY <2>1, <2>2, AnswerStays, CommandOfStays DEF Fine
<1>4. Claims(r)' => Claims(r)
  BY DEF Claims, NoCommand
<1>5. Watched(r)' => Watched(r)
  BY DEF Watched
<1>6. raw[r].ver # 0 => (Deleted(raw[r].ver)' <=> Deleted(raw[r].ver))
  BY <1>1, ChangeStays, Typed DEF RowInv
<1>7. Follows(r)'
  BY <1>1, <1>4, <1>5, <1>6 DEF Fine, Follows
<1>8. Walked(r)'
  BY <1>1, <1>4, <1>5 DEF Fine, Walked
<1>9. (Shown(r) => Known(r))'
  <2>1. Shown(r)' => Shown(r)
    BY DEF Shown, NoCommand
  <2> QED BY <2>1, KnownStays DEF Fine
<1>10. Recoverable(r)'
  <2>1. /\ cmd'[r].phase # "none" => cmd[r].phase # "none" /\ cmd'[r].base = cmd[r].base
        /\ Unanswered(r)' => Unanswered(r)
    BY DEF NoCommand, Unanswered
  <2> QED BY <2>1, RecoverableStays DEF Fine
<1> QED BY <1>2, <1>3, <1>7, <1>8, <1>9, <1>10 DEF Fine

\* So does a page that is being applied.
LEMMA LivePageStays ==
  ASSUME TypeOK, TypeOK', Grows, NEW p \in PullType, LivePage(p)
  PROVE  LivePage(p)'
<1> SUFFICES ASSUME p.phase = "apply", p.page.mode = "snapshot", NEW r \in Records, p.page.rows[r] # 0
             PROVE  p.page.rows[r] <= Len(journal') /\ ~Deleted(p.page.rows[r])'
  BY DEF LivePage
<1>1. PICK w : w = p.page.rows[r]
  OBVIOUS
<1>2. w \in Nat
  BY <1>1 DEF PullType, Page, Version
<1>3. w # 0 /\ w <= Len(journal) /\ ~Deleted(w)
  BY <1>1 DEF LivePage
<1>4. w \in 1..Len(journal)
  BY <1>2, <1>3, Typed
<1>5. w \in 1..Len(journal') /\ ~Deleted(w)'
  BY <1>3, <1>4, ChangeStays
<1> QED BY <1>1, <1>2, <1>5, TypedNext

\* The pages of a step that reads none.
LEMMA PagesStay ==
  ASSUME TypeOK, TypeOK', ViewInv, Grows,
         \A u \in Tabs : \/ pull'[u] = pull[u] \/ pull'[u].phase # "apply" \/ pull'[u].page.mode = "delta"
                         \/ pull[u].phase = "apply" /\ pull'[u].page = pull[u].page
  PROVE  \A u \in Tabs : LivePage(pull[u])'
<1> SUFFICES ASSUME NEW u \in Tabs PROVE LivePage(pull[u])'
  OBVIOUS
<1>1. PICK p \in PullType : p = pull[u]
  BY DEF TypeOK
<1>2. LivePage(p)'
  BY <1>1, LivePageStays DEF ViewInv
<1> QED BY <1>1, <1>2 DEF LivePage

----------------------------------------------------------------------------
(* The steps.                                                               *)

\* A step that changes nothing of the records, except that commands may end and
\* Tower may add to the journal.
LEMMA ViewCalm ==
  ASSUME TypeOK, TypeOK', CursorInv, CoverInv, ViewInv, Steady,
         UNCHANGED <<raw, view, conflict, saved, late>>,
         \A r \in Records : cmd'[r] = cmd[r] \/ cmd'[r] = NoCommand,
         Retiring' => Retiring /\ state'.retirement.at = state.retirement.at,
         ConvergedInv',
         \A u \in Tabs : \/ pull'[u] = pull[u] \/ pull'[u].phase # "apply" \/ pull'[u].page.mode = "delta"
                         \/ pull[u].phase = "apply" /\ pull'[u].page = pull[u].page
  PROVE  ViewInv'
<1>1. \A u \in Tabs : LivePage(pull[u])'
  BY PagesStay DEF Steady
<1>2. ASSUME NEW r \in Records PROVE Fine(r)'
  BY FineStays DEF ViewInv, CoverInv
<1> QED BY <1>1, <1>2 DEF ViewInv

\* Nothing is shown yet.
LEMMA ViewInit == Init => ViewInv
<1> SUFFICES ASSUME Init PROVE ViewInv
  OBVIOUS
<1>1. /\ Current = 0 /\ ~state.converged /\ ~Retiring
  BY DEF Init, FreshState, Current, Retiring, NoRetirement, NoCursor
<1>2. ASSUME NEW r \in Records PROVE Fine(r)
  <2>1. view[r] = Absent /\ cmd[r] = NoCommand /\ raw[r] = NoRow
    BY DEF Init
  <2>2. RowOf(view[r], r)
    BY <1>1, <2>1 DEF RowOf, Absent
  <2> QED
    BY <1>1, <2>1, <2>2 DEF Fine, CommandOf, Answered, Follows, Claims, Walked, Shown, Recoverable,
       Unanswered, Absent, NoCommand, NoRow
<1>3. ASSUME NEW t \in Tabs PROVE LivePage(pull[t])
  BY DEF Init, LivePage, Idle
<1> QED BY <1>1, <1>2, <1>3 DEF ViewInv, ConvergedInv

\* What a slice does to the rows of one record.
SliceView(p, r) ==
  LET w == Change(p.page, r, p.off, SliceEnd(p))
  IN  IF w # 0 /\ ~Skipped(r, w, p.page.mode, Current)
      THEN /\ raw'[r].ver = w /\ raw'[r].gen = Current
           /\ view'[r] = Materialized(view[r], w, Current)
           /\ conflict'[r] = Conflicted(view[r], w, conflict[r])
      ELSE raw'[r] = raw[r] /\ view'[r] = view[r] /\ conflict'[r] = conflict[r]

\* Applying a slice does that to every record.
LEMMA ApplyViews ==
  ASSUME TypeOK, CoverInv, NEW t \in Tabs, Apply(t), NEW r \in Records
  PROVE  SliceView(pull[t], r)
<1> DEFINE p == pull[t]
           brings == [x \in Records |-> Change(p.page, x, p.off, SliceEnd(p))]
           changed == {x \in Records : brings[x] # 0 /\ ~Skipped(x, brings[x], p.page.mode, Tag(p))}
<1>1. /\ view' = [x \in Records |-> IF x \in changed THEN Materialized(view[x], brings[x], Tag(p)) ELSE view[x]]
      /\ conflict' = [x \in Records |-> IF x \in changed THEN Conflicted(view[x], brings[x], conflict[x]) ELSE conflict[x]]
  BY DEF Apply
<1>2. brings[r] = Change(p.page, r, p.off, SliceEnd(p)) /\ Tag(p) = Current
  BY ApplyFacts
<1>3. r \in changed <=> brings[r] # 0 /\ ~Skipped(r, brings[r], p.page.mode, Tag(p))
  OBVIOUS
<1>4. /\ view'[r] = IF r \in changed THEN Materialized(view[r], brings[r], Tag(p)) ELSE view[r]
      /\ conflict'[r] = IF r \in changed THEN Conflicted(view[r], brings[r], conflict[r]) ELSE conflict[r]
  <2> HIDE DEF changed, brings
  <2> QED BY <1>1, Zenon
<1>5. SliceRow(p, r)
  BY ApplyFacts
<1> HIDE DEF changed, brings
<1> QED BY <1>2, <1>3, <1>4, <1>5 DEF SliceView, SliceRow

\* A change that a slice brings and does not skip: it is no older than the
\* snapshot, newer than a row of this generation, and newer than the snapshot if
\* it deletes the record.
LEMMA Brought ==
  ASSUME TypeOK, TypeOK', CursorInv, CoverInv, ViewInv, NEW t \in Tabs, Apply(t), NEW r \in Records,
         NEW w, w = Change(pull[t].page, r, pull[t].off, SliceEnd(pull[t])),
         w # 0, ~Skipped(r, w, pull[t].page.mode, Current)
  PROVE  /\ Since # -1 /\ w \in 1..Len(journal) /\ journal[w].id = r
         /\ w >= LastIn(r, 0, Since)
         /\ raw[r].gen = Current => w > raw[r].ver
         /\ Deleted(w) => w > Since
<1>1. PICK p, e : p = pull[t] /\ e = SliceEnd(p)
  OBVIOUS
<1>2. /\ p \in PullType /\ PageCovers(p) /\ p.phase = "apply"
      /\ raw'[r].ver = w /\ raw'[r].gen = Current
  <2>1. p \in PullType /\ PageCovers(p) /\ SliceRow(p, r)
    BY <1>1, ApplyFacts
  <2> QED BY <1>1, <2>1 DEF SliceRow, Apply
<1>3. /\ Since # -1 /\ w \in 1..Len(journal) /\ journal[w].id = r
      /\ w >= LastIn(r, 0, Since)
      /\ raw[r].gen = Current => w > raw[r].ver
  <2>1. RowMoves(r)
    BY ApplySteady DEF Steady
  <2>2. raw'[r] # raw[r]
    BY <1>2, Typed DEF Skipped
  <2>3. w \in Nat /\ raw'[r] # NoRow
    BY <1>2, TypedNext DEF NoRow
  <2>4. raw[r].gen = Current => ~(raw[r].ver # 0 /\ raw[r].ver >= w)
    BY DEF Skipped
  <2> QED BY <1>2, <2>1, <2>2, <2>3, <2>4, Typed DEF RowMoves
<1>4. ASSUME Deleted(w) PROVE w > Since
  <2>1. CASE p.page.mode = "snapshot"
    <3>1. w = p.page.rows[r]
      BY <1>1, <2>1 DEF Change
    <3> QED BY <1>1, <1>2, <1>4, <2>1, <3>1 DEF ViewInv, LivePage
  <2>2. CASE p.page.mode # "snapshot"
    <3>1. w = LastIn(r, p.off, e) /\ DeltaPageCovers(p) /\ p.off \in Nat
      BY <1>1, <1>2, <2>2 DEF Change, PageCovers, PullType, Page
    <3>2. IsLast(w, r, p.off, e)
      BY <3>1, LastIsLast, Typed DEF LastFacts
    <3>3. p.off < w /\ w <= e
      BY <3>2 DEF IsLast
    <3>4. p.off = 0 /\ p.page.to = 0 => e = 0
      BY <1>1, <1>2, SliceBounds
    <3> QED BY <1>3, <3>1, <3>3, <3>4, Typed DEF DeltaPageCovers
  <2> QED BY <2>1, <2>2
<1> QED BY <1>3, <1>4

\* What becomes of a view row that a change reaches.
LEMMA Materializing ==
  ASSUME NEW row \in Row, NEW v, NEW g
  PROVE  \/ Deleted(v) /\ Materialized(row, v, g) = Absent
         \/ /\ ~Deleted(v) /\ (row.status = "pending" \/ row.ver > v)
            /\ Materialized(row, v, g).ver = row.ver /\ Materialized(row, v, g).status = row.status
            /\ Materialized(row, v, g).gen = g
         \/ /\ ~Deleted(v) /\ row.status # "pending" /\ ~(row.ver > v)
            /\ Materialized(row, v, g) = [ver |-> v, status |-> "synced", gen |-> g]
BY DEF Materialized, Row

\* A record that a slice changes stays fine.
LEMMA FineApply ==
  ASSUME TypeOK, TypeOK', CursorInv, CoverInv, ViewInv, NEW t \in Tabs, Apply(t), NEW r \in Records,
         NEW w, w = Change(pull[t].page, r, pull[t].off, SliceEnd(pull[t])),
         w # 0, ~Skipped(r, w, pull[t].page.mode, Current)
  PROVE  Fine(r)'
<1>1. /\ Since # -1 /\ w \in 1..Len(journal) /\ journal[w].id = r
      /\ w >= LastIn(r, 0, Since)
      /\ raw[r].gen = Current => w > raw[r].ver
      /\ Deleted(w) => w > Since
  BY Brought
<1>2. /\ raw'[r].ver = w /\ raw'[r].gen = Current
      /\ view'[r] = Materialized(view[r], w, Current)
      /\ conflict'[r] = Conflicted(view[r], w, conflict[r])
  BY ApplyViews DEF SliceView
<1>3. Steady /\ Current' = Current /\ Grows /\ Since' = Since
  BY <1>1, ApplySteady DEF Steady
<1>4. UNCHANGED <<journal, pinned, saved, cmd, late>>
  BY DEF Apply
<1>5. PICK row \in Row : row = view[r]
  BY DEF TypeOK
<1>6. RowOf(row, r) /\ Fine(r)
  BY <1>5 DEF ViewInv, Fine
<1>7. \/ Deleted(w) /\ view'[r] = Absent
      \/ /\ ~Deleted(w) /\ (row.status = "pending" \/ row.ver > w)
         /\ view'[r].ver = row.ver /\ view'[r].status = row.status /\ view'[r].gen = Current
      \/ /\ ~Deleted(w) /\ row.status # "pending" /\ ~(row.ver > w)
         /\ view'[r] = [ver |-> w, status |-> "synced", gen |-> Current]
  BY <1>2, <1>5, Materializing
<1>8. conflict'[r] <=> row.status = "pending" \/ (conflict[r] /\ (Deleted(w) \/ row.ver > w))
  BY <1>2, <1>5, Zenon DEF Conflicted
<1>9. w \in Nat /\ row.ver \in Nat /\ raw[r].ver \in Nat /\ Current \in Nat /\ Since \in Int /\ Len(journal) \in Nat
  BY <1>1, <1>5, Typed DEF Row, Version
<1>10. Deleted(w)' <=> Deleted(w)
  BY <1>4 DEF Deleted
<1>11. RowOf(view[r], r)'
  BY <1>1, <1>2, <1>3, <1>4, <1>6, <1>7, <1>9 DEF RowOf, Absent
<1>12. CommandOf(r)'
  <2>1. Answered(r)' => Answered(r)
    BY <1>4 DEF Answered
  <2> QED BY <1>3, <1>4, <1>6, <2>1, AnswerStays, CommandOfStays DEF Fine
<1>13. Follows(r)'
  <2>1. Watched(r)' => row.status # "pending"
    BY <1>8 DEF Watched
  <2>2. Deleted(raw[r].ver)' <=> Deleted(w)
    BY <1>2, <1>4 DEF Deleted
  <2>3. CASE Deleted(w) /\ view'[r] = Absent
    BY <1>2, <2>2, <2>3 DEF Follows, Claims, Absent
  <2>4. CASE ~Deleted(w) /\ row.ver > w /\ view'[r].ver = row.ver /\ view'[r].status = row.status
    <3>1. row.status # "absent"
      BY <1>6, <1>9, <2>4 DEF RowOf
    <3> QED BY <1>2, <1>9, <1>1, <2>2, <2>4, <3>1 DEF Follows
  <2>5. CASE ~Deleted(w) /\ view'[r] = [ver |-> w, status |-> "synced", gen |-> Current]
    BY <1>2, <1>9, <1>1, <2>2, <2>5 DEF Follows
  <2> QED BY <1>7, <2>1, <2>3, <2>4, <2>5 DEF Follows
<1>14. Walked(r)'
  BY <1>2, <1>3 DEF Walked
<1>15. (Shown(r) => Known(r))'
  BY <1>1, <1>2, <1>3 DEF Known
<1>16. Recoverable(r)'
  <2>1. cmd[r].base \in Nat
    <3>1. cmd[r] \in CommandType
      BY DEF TypeOK
    <3> QED BY <3>1 DEF CommandType, Version
  <2>2. PICK b : b = cmd[r].base
    OBVIOUS
  <2>3. cmd[r].phase # "none" => Beyond(r, b) /\ Beyond(r, b)'
    BY <1>3, <1>6, <2>1, <2>2, BeyondStays DEF Fine, Recoverable, CoverInv
  \* every change before which nothing is brought any more comes before w
  <2>4. ASSUME NEW i \in Nat, Beyond(r, i), Deleted(w) \/ (i \in 1..Len(journal) /\ journal[i].id = r)
        PROVE  i <= w /\ (Deleted(w) => i < w)
    <3>1. CASE i <= raw[r].ver /\ raw[r].gen = Current
      BY <1>1, <1>9, <3>1
    <3>2. CASE i <= Since
      <4>1. CASE Deleted(w)
        BY <1>1, <1>9, <3>2, <4>1
      <4>2. CASE ~Deleted(w)
        <5>1. IsLast(LastIn(r, 0, Since), r, 0, Since)
          BY LastIsLast, Typed DEF LastFacts
        <5>2. i <= LastIn(r, 0, Since) /\ LastIn(r, 0, Since) \in Nat
          BY <1>9, <2>4, <3>2, <4>2, <5>1 DEF IsLast
        <5> QED BY <1>1, <1>9, <4>2, <5>2
      <4> QED BY <4>1, <4>2
    <3>3. raw[r].gen # Current /\ raw[r].ver # 0 => raw[r].ver <= Since
      BY <1>1 DEF CoverInv, RowInv
    <3>4. 0 <= Since
      BY <1>1, <1>9, Typed
    <3> QED BY <1>1, <1>9, <2>4, <3>1, <3>2, <3>3, <3>4 DEF Beyond
  <2>5. Restored(r, b) => Restored(r, b)'
    BY <1>3, RestoredStays
  <2>6. ASSUME Unanswered(r), ~saved[r], view'[r].status # "pending", ~Restored(r, b)'
        PROVE  Withheld(r)'
    <3>1. cmd[r].phase # "none"
      BY <2>6 DEF Unanswered
    <3>2. row.status = "pending" \/ Withheld(r)
      BY <1>5, <1>6, <2>2, <2>5, <2>6 DEF Fine, Recoverable
    <3>3. CASE Deleted(w)
      <4>1. view'[r].status = "absent"
        BY <1>7, <3>3 DEF Absent
      <4>2. conflict'[r]
        BY <1>8, <3>2, <3>3 DEF Withheld
      <4>3. b < w
        BY <2>1, <2>2, <2>3, <2>4, <3>1, <3>3
      <4>4. Beyond(r, w)'
        BY <1>1, <1>2, <1>4, <1>9 DEF Beyond
      <4>5. w \in 1..Len(journal)' /\ journal'[w].id = r /\ cmd'[r].base = b
        BY <1>1, <1>4, <2>2
      <4> QED BY <1>10, <3>3, <4>1, <4>2, <4>3, <4>4, <4>5 DEF Withheld
    <3>4. CASE ~Deleted(w)
      <4>1. row.status # "pending" /\ Withheld(r)
        BY <1>7, <2>6, <3>2, <3>4
      <4>2. PICK i \in 1..Len(journal) : journal[i].id = r /\ Deleted(i) /\ b < i /\ Beyond(r, i)
        BY <2>2, <4>1 DEF Withheld
      <4>3. i <= w /\ i # w
        BY <2>4, <3>4, <4>2
      <4>4. journal[i] = [id |-> r, op |-> "delete"]
        <5>1. journal[i] \in ChangeType
          BY <4>2, Typed
        <5> QED BY <4>2, <5>1 DEF ChangeType, Deleted
      <4>5. Restored(r, b)'
        BY <1>1, <1>4, <1>9, <4>2, <4>3, <4>4 DEF Restored
      <4> QED BY <2>6, <4>5
    <3> QED BY <3>3, <3>4
  <2> QED BY <1>4, <2>2, <2>3, <2>6 DEF Recoverable, Unanswered
<1> QED BY <1>11, <1>12, <1>13, <1>14, <1>15, <1>16 DEF Fine

\* One slice is applied.
LEMMA ViewApply ==
  ASSUME TypeOK, TypeOK', CursorInv, CoverInv, ViewInv, NEW t \in Tabs, Apply(t)
  PROVE  ViewInv'
<1>1. PICK p : p = pull[t]
  OBVIOUS
<1>2. /\ state'.handover = (p.page.mode = "snapshot" \/ (state.handover /\ (~Ends(p) \/ Retires(p))))
      /\ state'.retirement = IF ~Retires(p) THEN NoRetirement
                             ELSE IF Retiring THEN state.retirement ELSE [next |-> p.page.next, at |-> 0]
      /\ state'.converged = (Ends(p) /\ ~Retires(p))
  BY <1>1, SliceState
<1>3. Steady /\ Grows
  BY ApplySteady DEF Steady
<1>4. ConvergedInv'
  <2>1. CASE Ends(p) /\ ~Retires(p)
    <3>1. p.page.mode = "delta"
      BY <2>1 DEF Ends
    <3> QED BY <1>2, <2>1, <3>1 DEF ConvergedInv
  <2>2. CASE ~(Ends(p) /\ ~Retires(p))
    BY <1>2, <2>2 DEF ConvergedInv
  <2> QED BY <2>1, <2>2
<1>5. ASSUME NEW r \in Records PROVE Fine(r)'
  <2>1. PICK w : w = Change(p.page, r, p.off, SliceEnd(p))
    OBVIOUS
  <2>2. CASE w # 0 /\ ~Skipped(r, w, p.page.mode, Current)
    BY <1>1, <2>1, <2>2, FineApply
  <2>3. CASE ~(w # 0 /\ ~Skipped(r, w, p.page.mode, Current))
    <3>1. raw'[r] = raw[r] /\ view'[r] = view[r] /\ conflict'[r] = conflict[r]
      BY <1>1, <2>1, <2>3, ApplyViews DEF SliceView
    <3>2. UNCHANGED <<saved, cmd, late>>
      BY DEF Apply
    <3>3. Retiring' /\ r <= state'.retirement.at => Retiring /\ r <= state.retirement.at
      <4>1. r \in Int /\ r > 0
        BY DEF Records
      <4> QED BY <1>2, <4>1 DEF Retiring, NoRetirement, NoCursor
    <3> QED BY <1>3, <3>1, <3>2, <3>3, FineStays DEF ViewInv, CoverInv
  <2> QED BY <2>2, <2>3
<1>6. \A u \in Tabs : LivePage(pull[u])'
  <2>1. /\ pull[t].phase = "apply" /\ pull' = [pull EXCEPT ![t] =
             [p EXCEPT !.off = SliceEnd(p),
                       !.phase = IF Partial(p) THEN "apply" ELSE IF Retires(p) THEN "walk" ELSE "settle"]]
    BY <1>1 DEF Apply
  <2>2. p \in PullType
    BY <1>1 DEF TypeOK
  <2>3. \A u \in Tabs : pull'[u] = pull[u] \/ (pull[u].phase = "apply" /\ pull'[u].page = pull[u].page)
    BY <1>1, <2>1, <2>2 DEF TypeOK, PullType
  <2> QED BY <1>3, <2>3, PagesStay
<1> QED BY <1>4, <1>5, <1>6 DEF ViewInv

\* Tower answers a read.
LEMMA ViewRead ==
  ASSUME TypeOK, TypeOK', CursorInv, CoverInv, ViewInv, NEW t \in Tabs, Read(t)
  PROVE  ViewInv'
<1>1. PICK c, g, since, page, q :
        /\ c = pull[t].cursor /\ g = pull[t].gen
        /\ since = IF pinned[g] = -1 THEN Len(journal) ELSE pinned[g]
        /\ page = IF c.kind = "delta" THEN DeltaPage(c.at)
                  ELSE SnapshotPage(c.at, IF c.kind = "none" THEN since ELSE c.since)
        /\ q = pull'[t]
  OBVIOUS
<1>2. /\ UNCHANGED <<journal, state, raw, view, conflict, saved, cmd, late>>
      /\ pinned' = IF c.kind = "none" THEN [pinned EXCEPT ![g] = since] ELSE pinned
      /\ pull' = [pull EXCEPT ![t] = [pull[t] EXCEPT !.phase = "apply", !.page = page,
                                                     !.off = page.from, !.again = page.hasMore]]
  BY <1>1 DEF Read
<1>3. Steady
  <2>1. Current' = Current /\ pinned \in [0..MaxResets -> -1..MaxJournal]
    BY <1>2 DEF Current, TypeOK
  <2>2. IF Since = -1 THEN Since' = -1 \/ Since' = Len(journal) ELSE Since' = Since
    BY <1>1, <1>2, <2>1, Typed DEF Since
  <2> QED BY <1>2, <2>1, <2>2, Typed DEF Steady, Grows, RowMoves
<1>4. q.page = page
  <2>1. pull[t] \in PullType
    BY DEF TypeOK
  <2>2. q = [pull[t] EXCEPT !.phase = "apply", !.page = page, !.off = page.from, !.again = page.hasMore]
    BY <1>1, <1>2 DEF TypeOK
  <2> QED BY <2>1, <2>2 DEF PullType
<1>5. ASSUME q.page.mode = "snapshot", NEW r \in Records, q.page.rows[r] # 0
      PROVE  q.page.rows[r] <= Len(journal) /\ ~Deleted(q.page.rows[r])
  <2>1. c.kind # "delta"
    BY <1>1, <1>4, <1>5 DEF DeltaPage
  <2>2. PICK w : w = q.page.rows[r]
    OBVIOUS
  <2>3. Live(r) /\ w = Latest(r)
    BY <1>1, <1>4, <1>5, <2>1, <2>2 DEF SnapshotPage
  <2>4. IsLast(Latest(r), r, 0, Len(journal))
    BY LastIsLast, Typed DEF LastFacts, Latest
  <2> QED BY <1>5, <2>2, <2>3, <2>4, Typed DEF Live, IsLast
<1>6. ASSUME NEW u \in Tabs PROVE LivePage(pull[u])'
  <2>1. CASE u = t
    BY <1>1, <1>2, <1>5, <2>1 DEF LivePage, Deleted
  <2>2. CASE u # t
    <3>1. pull'[u] = pull[u]
      BY <1>2, <2>2 DEF TypeOK
    <3> QED BY <1>2, <3>1 DEF ViewInv, LivePage, Deleted
  <2> QED BY <2>1, <2>2
<1>7. ASSUME NEW r \in Records PROVE Fine(r)'
  BY <1>2, <1>3, FineStays DEF ViewInv, CoverInv, Retiring
<1>8. ConvergedInv'
  BY <1>2 DEF ViewInv, ConvergedInv
<1> QED BY <1>6, <1>7, <1>8 DEF ViewInv

\* Authority is reset: rows are kept until they are confirmed, or hidden.
LEMMA ViewReset ==
  ASSUME TypeOK, TypeOK', CursorInv, CoverInv, ViewInv, NEW t \in Tabs, Reset(t)
  PROVE  ViewInv'
<1>1. /\ Current \in Nat /\ Current' = Current + 1 /\ ~state'.converged /\ ~Retiring'
      /\ UNCHANGED <<journal, pinned, conflict, cmd, late>>
  BY Typed DEF Reset, FreshState, Current, Retiring, NoRetirement, NoCursor
<1>2. Since' = -1
  <2>1. Current' \in 0..MaxResets
    BY TypedNext
  <2> QED BY <1>1, <2>1 DEF Since, CoverInv, TagInv
<1>3. \A u \in Tabs : LivePage(pull[u])'
  <2>1. \A u \in Tabs : pull'[u] = pull[u] \/ pull'[u].phase # "apply"
    <3>1. \A u \in Tabs : u # t => pull'[u] = pull[u]
      BY DEF Reset, TypeOK
    <3>2. pull'[t].phase # "apply"
      <4>1. \A g : [Idle EXCEPT !.phase = "read", !.gen = g].phase = "read"
        BY DEF Idle
      <4>2. pull'[t] = Idle \/ pull'[t] = [Idle EXCEPT !.phase = "read", !.gen = state.localGeneration + 1]
        BY DEF Reset, TypeOK
      <4>3. Idle.phase = "idle"
        BY DEF Idle
      <4>4. PICK g : g = state.localGeneration + 1
        OBVIOUS
      <4>5. pull'[t] = Idle \/ pull'[t] = [Idle EXCEPT !.phase = "read", !.gen = g]
        BY <4>2, <4>4
      <4> QED BY <4>1, <4>3, <4>5
    <3> QED BY <3>1, <3>2
  <2> QED BY <1>1, <2>1, PagesStay, Typed DEF Grows
<1>4. ASSUME NEW r \in Records PROVE Fine(r)'
  <2>1. \/ raw'[r] = raw[r] /\ view'[r] = view[r] /\ saved'[r] = saved[r]
        \/ raw'[r] = NoRow /\ view'[r] = Absent /\ (saved'[r] <=> saved[r] \/ view[r].status = "pending")
    <3>1. CASE pull[t].hide
      <4>1. saved' = [x \in Records |-> saved[x] \/ view[x].status = "pending"]
        BY <3>1 DEF Reset
      <4>2. saved'[r] <=> saved[r] \/ view[r].status = "pending"
        BY <4>1, Zenon
      <4> QED BY <3>1, <4>2 DEF Reset
    <3>2. CASE ~pull[t].hide
      BY <3>2 DEF Reset
    <3> QED BY <3>1, <3>2
  <2>2. Fine(r) /\ view[r].gen \in Int /\ cmd[r].prev.gen \in Int
    <3>1. view[r] \in Row /\ cmd[r] \in CommandType
      BY DEF TypeOK
    <3>2. view[r].gen \in Int
      BY <3>1 DEF Row, Generation
    <3>3. cmd[r].prev.gen \in Int
      BY <3>1 DEF CommandType, Row, Generation
    <3> QED BY <3>2, <3>3 DEF ViewInv
  <2>3. RowOf(view[r], r)' /\ CommandOf(r)'
    BY <1>1, <2>1, <2>2 DEF Fine, RowOf, CommandOf, Answered, Absent
  <2>4. Follows(r)' /\ Walked(r)'
    <3>1. Walked(r)'
      BY <1>1 DEF Walked
    <3>2. CASE raw'[r] = NoRow /\ view'[r] = Absent
      BY <3>1, <3>2 DEF Follows, Claims, NoRow, Absent
    <3>3. CASE raw'[r] = raw[r] /\ view'[r] = view[r]
      <4>1. raw[r].ver # 0 => raw[r].gen # Current'
        BY <1>1, Typed DEF CoverInv, RowInv
      <4> QED BY <1>1, <2>2, <3>1, <3>3, <4>1 DEF Fine, Follows, Claims, Watched, Deleted
    <3> QED BY <2>1, <3>1, <3>2, <3>3
  <2>5. (Shown(r) => Known(r))'
    <3>1. Shown(r)' => Shown(r)
      BY <1>1, <2>1 DEF Shown, Absent
    <3>2. Known(r) => LastIn(r, 0, Len(journal)) # 0
      <4>1. PICK x : x = IF Since = -1 THEN Len(journal) ELSE Since
        OBVIOUS
      <4>2. IsLast(LastIn(r, 0, x), r, 0, x) /\ IsLast(LastIn(r, 0, Len(journal)), r, 0, Len(journal))
        BY LastIsLast, Typed DEF LastFacts
      <4>3. LastIn(r, 0, x) # 0 => LastIn(r, 0, Len(journal)) # 0
        BY <4>2, Typed DEF IsLast
      <4>4. raw[r].ver # 0 => LastIn(r, 0, Len(journal)) # 0
        BY <4>2, Typed DEF IsLast, CoverInv, RowInv
      <4> QED BY <4>1, <4>3, <4>4 DEF Known
    <3>3. LastIn(r, 0, Len(journal))' = LastIn(r, 0, Len(journal))
      BY <1>1 DEF LastIn
    <3> QED BY <1>2, <2>2, <3>1, <3>2, <3>3 DEF Fine, Known
  <2>6. Recoverable(r)'
    <3>1. \A i : Beyond(r, i) => Beyond(r, i)'
      BY <1>1, <1>2 DEF Beyond
    <3>2. \A b : Restored(r, b) => Restored(r, b)'
      BY <1>1 DEF Restored
    <3>3. Withheld(r) => Withheld(r)'
      BY <1>1, <2>1, <3>1 DEF Withheld, Deleted, Absent
    <3> QED BY <1>1, <2>1, <2>2, <3>1, <3>2, <3>3 DEF Fine, Recoverable, Unanswered
  <2> QED BY <2>3, <2>4, <2>5, <2>6 DEF Fine
<1> QED BY <1>1, <1>3, <1>4 DEF ViewInv, ConvergedInv

\* One row of the walk.
LEMMA ViewWalk ==
  ASSUME TypeOK, TypeOK', CursorInv, CoverInv, ViewInv, NEW t \in Tabs, Walk(t)
  PROVE  ViewInv'
<1>1. /\ UNCHANGED <<journal, pinned, conflict, cmd, pull, late>> /\ Retiring
      /\ state'.localGeneration = state.localGeneration
      /\ state'.retirement.at = state.retirement.at + 1 /\ state.retirement.at \in Nat
      /\ state'.converged = state.converged /\ state'.handover = state.handover
  BY DEF Walk, WalkHeld, TypeOK, StateType
<1>2. state.generation = Current /\ Current' = Current /\ Since' = Since
  BY <1>1 DEF CoverInv, TagInv, HandoverInv, Current, Since
<1>3. ASSUME NEW r \in Records
      PROVE  \/ /\ raw'[r] = raw[r] /\ view'[r] = view[r] /\ saved'[r] = saved[r]
                /\ r <= state.retirement.at + 1 => r <= state.retirement.at \/ ~Omitted(r)
             \/ /\ Omitted(r) /\ raw'[r] = raw[r] /\ view'[r] = Absent
                /\ IF view[r].status = "pending" THEN saved'[r] ELSE saved'[r] = saved[r]
             \/ /\ raw[r].gen # Current /\ raw'[r] = NoRow /\ view'[r] = view[r] /\ saved'[r] = saved[r]
                /\ r <= state.retirement.at
  <2>1. CASE state.retirement.at < NumRecords
    <3>1. WalkRow = state.retirement.at + 1
      BY <1>1, <2>1, SizeAssumption DEF WalkRow
    <3>2. CASE r = WalkRow /\ Omitted(r)
      <4>1. /\ view' = [view EXCEPT ![r] = Absent] /\ UNCHANGED raw
            /\ saved' = IF view[r].status = "pending" THEN [saved EXCEPT ![r] = TRUE] ELSE saved
        BY <2>1, <3>2 DEF Walk
      <4> QED BY <3>2, <4>1 DEF TypeOK
    <3>3. CASE ~(r = WalkRow /\ Omitted(r))
      <4>1. view'[r] = view[r] /\ saved'[r] = saved[r] /\ UNCHANGED raw
        <5>1. \E x \in Records : /\ x = WalkRow
                                 /\ view' = IF Omitted(x) THEN [view EXCEPT ![x] = Absent] ELSE view
                                 /\ saved' = IF Omitted(x) /\ view[x].status = "pending" THEN [saved EXCEPT ![x] = TRUE] ELSE saved
                                 /\ UNCHANGED raw
          BY <1>1, <2>1, <3>1, SizeAssumption DEF Walk, Records
        <5> QED BY <3>3, <5>1 DEF TypeOK
      <4>2. r <= state.retirement.at + 1 => r <= state.retirement.at \/ r = WalkRow
        BY <1>1, <3>1, SizeAssumption DEF Records
      <4> QED BY <3>3, <4>1, <4>2
    <3> QED BY <3>2, <3>3
  <2>2. CASE ~(state.retirement.at < NumRecords)
    <3>1. /\ raw' = IF raw[WalkRow].gen # state.generation THEN [raw EXCEPT ![WalkRow] = NoRow] ELSE raw
          /\ UNCHANGED <<view, saved>>
      BY <2>2 DEF Walk
    <3>2. r <= state.retirement.at
      BY <1>1, <2>2, SizeAssumption DEF Records
    <3> QED BY <1>2, <3>1, <3>2 DEF TypeOK
  <2> QED BY <2>1, <2>2
<1>4. Steady /\ Grows
  BY <1>1, <1>2, <1>3, Typed DEF Steady, Grows, RowMoves
<1>5. ASSUME NEW r \in Records PROVE Fine(r)'
  <2>1. Fine(r) /\ RowInv
    BY DEF ViewInv, CoverInv
  <2>2. PICK row \in Row : row = view[r]
    BY DEF TypeOK
  <2>3. RowOf(view[r], r)'
    <3>1. RowOf(row, r)'
      BY <1>4, <2>1, <2>2, RowOfStays DEF Fine
    <3>2. CASE view'[r] = view[r]
      BY <2>2, <3>1, <3>2
    <3>3. CASE view'[r] = Absent
      BY <1>2, <3>3, Typed DEF RowOf, Absent
    <3> QED BY <1>3, <3>2, <3>3
  <2>4. CommandOf(r)'
    <3>1. Answered(r)' => Answered(r)
      BY <1>1 DEF Answered
    <3> QED BY <1>1, <1>4, <2>1, <3>1, AnswerStays, CommandOfStays DEF Fine
  <2>5. (Shown(r) => Known(r))'
    <3>1. Shown(r)' => Shown(r)
      BY <1>1, <1>3 DEF Shown, Absent
    <3> QED BY <1>4, <2>1, <3>1, KnownStays DEF Fine
  \* a row that claims to be Tower's and is not omitted is of this generation
  <2>6. ASSUME Watched(r), Claims(r), r <= state.retirement.at \/ ~Omitted(r) PROVE raw[r].gen = Current
    <3>1. CASE r <= state.retirement.at
      BY <1>1, <2>1, <2>6, <3>1 DEF Fine, Walked
    <3>2. CASE ~Omitted(r)
      <4>1. view[r].status # "absent" /\ raw[r].ver # 0
        BY <2>1, <2>6 DEF Claims, Fine, Follows
      <4> QED BY <1>2, <2>1, <3>2, <4>1 DEF Omitted, Confirmed, LocalCreation, Fine, RowOf
    <3> QED BY <2>6, <3>1, <3>2
  <2>7. Watched(r)' <=> Watched(r)
    BY <1>1 DEF Watched
  <2>8. CASE /\ raw'[r] = raw[r] /\ view'[r] = view[r] /\ saved'[r] = saved[r]
             /\ r <= state.retirement.at + 1 => r <= state.retirement.at \/ ~Omitted(r)
    <3>1. (Claims(r)' <=> Claims(r)) /\ (Deleted(raw[r].ver)' <=> Deleted(raw[r].ver))
      BY <1>1, <2>8 DEF Claims, Deleted
    <3>2. Follows(r)'
      BY <1>2, <2>1, <2>7, <2>8, <3>1 DEF Fine, Follows
    <3>3. Walked(r)'
      BY <1>1, <1>2, <2>6, <2>7, <2>8, <3>1 DEF Walked
    <3>4. Recoverable(r)'
      BY <1>1, <1>4, <2>1, <2>8, RecoverableStays DEF Fine, Unanswered
    <3> QED BY <2>3, <2>4, <2>5, <3>2, <3>3, <3>4 DEF Fine
  <2>9. CASE /\ Omitted(r) /\ raw'[r] = raw[r] /\ view'[r] = Absent
             /\ IF view[r].status = "pending" THEN saved'[r] ELSE saved'[r] = saved[r]
    <3>1. raw[r].ver = 0 \/ Deleted(raw[r].ver) \/ raw[r].gen # Current
      BY <1>2, <2>9 DEF Omitted, Confirmed
    <3>2. Deleted(raw[r].ver)' <=> Deleted(raw[r].ver)
      BY <1>1, <2>9 DEF Deleted
    <3>3. Follows(r)' /\ Walked(r)'
      BY <1>2, <2>9, <3>1, <3>2 DEF Follows, Walked, Claims, Absent
    <3>4. view[r].status # "absent"
      BY <2>9 DEF Omitted
    <3>5. \A i : Beyond(r, i) => Beyond(r, i)'
      BY <1>1, <1>2, <2>9 DEF Beyond
    <3>6. \A b : Restored(r, b) => Restored(r, b)'
      BY <1>1 DEF Restored
    <3>7. Recoverable(r)'
      BY <1>1, <2>1, <2>9, <3>4, <3>5, <3>6 DEF Fine, Recoverable, Unanswered, Withheld
    <3> QED BY <2>3, <2>4, <2>5, <3>3, <3>7 DEF Fine
  <2>10. CASE /\ raw[r].gen # Current /\ raw'[r] = NoRow /\ view'[r] = view[r] /\ saved'[r] = saved[r]
              /\ r <= state.retirement.at
    <3>1. Claims(r)' <=> Claims(r)
      BY <1>1, <2>10 DEF Claims
    <3>2. ~(Watched(r) /\ Claims(r))
      BY <2>6, <2>10
    <3>3. Follows(r)' /\ Walked(r)'
      BY <2>7, <2>10, <3>1, <3>2 DEF Follows, Walked, NoRow
    <3>4. Recoverable(r)'
      BY <1>1, <1>4, <2>1, <2>10, RecoverableStays DEF Fine, Unanswered
    <3> QED BY <2>3, <2>4, <2>5, <3>3, <3>4 DEF Fine
  <2> QED BY <1>3, <2>8, <2>9, <2>10
<1>6. \A u \in Tabs : LivePage(pull[u])'
  BY <1>1, <1>4, PagesStay
<1>7. ConvergedInv'
  BY <1>1 DEF ViewInv, ConvergedInv
<1> QED BY <1>5, <1>6, <1>7 DEF ViewInv

----------------------------------------------------------------------------
(* Warnings and commands.                                                   *)

\* While journal, loop and canonical table stay, so does what is said of them.
LEMMA TableStays ==
  ASSUME TypeOK, UNCHANGED <<journal, pinned, state, raw>>, NEW r \in Records
  PROVE  /\ Steady /\ Grows /\ Current' = Current /\ (Retiring' <=> Retiring)
         /\ \A v : Deleted(v)' <=> Deleted(v)
         /\ \A row : RowOf(row, r)' <=> RowOf(row, r)
         /\ \A i : Beyond(r, i)' <=> Beyond(r, i)
         /\ \A b : Restored(r, b)' <=> Restored(r, b)
         /\ Known(r)' <=> Known(r)
<1>1. Current' = Current /\ Since' = Since /\ (Retiring' <=> Retiring)
  BY DEF Current, Since, Retiring
<1>2. Steady /\ Grows
  BY <1>1, Typed DEF Steady, Grows, RowMoves
<1>3. \A v : Deleted(v)' <=> Deleted(v)
  BY DEF Deleted
<1>4. \A row : RowOf(row, r)' <=> RowOf(row, r)
  BY <1>1 DEF RowOf
<1>5. \A i : Beyond(r, i)' <=> Beyond(r, i)
  BY <1>1 DEF Beyond
<1>6. \A b : Restored(r, b)' <=> Restored(r, b)
  BY DEF Restored
<1>7. Known(r)' <=> Known(r)
  BY <1>1 DEF Known, LastIn
<1> QED BY <1>1, <1>2, <1>3, <1>4, <1>5, <1>6, <1>7

\* A command that goes on with what it was begun with.
GoesOn(r) ==
  /\ cmd'[r].prev = cmd[r].prev /\ cmd'[r].ver = cmd[r].ver /\ cmd'[r].base = cmd[r].base
  /\ cmd'[r].phase # "none" <=> cmd[r].phase # "none"
  /\ Answered(r)' <=> Answered(r)
  /\ Unanswered(r)' <=> Unanswered(r)

\* A row that is shown anew from a canonical row of this generation, or stays
\* because it is newer, is fine without its warning, and so is one that is taken
\* away with it.
LEMMA FineAnew ==
  ASSUME TypeOK, TypeOK', CoverInv, ViewInv, UNCHANGED <<journal, pinned, state, raw>>,
         NEW r \in Records, GoesOn(r),
         raw[r].ver # 0, raw[r].gen = Current,
         \/ Deleted(raw[r].ver) /\ view'[r] = Absent /\ conflict'[r]
         \/ ~Deleted(raw[r].ver) /\ view'[r] = [ver |-> raw[r].ver, status |-> "synced", gen |-> Current]
         \/ ~Deleted(raw[r].ver) /\ view'[r] = view[r] /\ view[r].status = "synced" /\ view[r].ver > raw[r].ver,
         Unanswered(r) => saved'[r] \/ Restored(r, cmd[r].base)
  PROVE  Fine(r)'
<1>1. /\ Current' = Current
      /\ \A v : Deleted(v)' <=> Deleted(v)
      /\ \A row : RowOf(row, r)' <=> RowOf(row, r)
      /\ \A i : Beyond(r, i)' <=> Beyond(r, i)
      /\ \A b : Restored(r, b)' <=> Restored(r, b)
      /\ Known(r)' <=> Known(r)
  BY TableStays
<1>2. Fine(r) /\ raw[r].ver <= Len(journal) /\ journal[raw[r].ver].id = r
  BY DEF ViewInv, CoverInv, RowInv
<1>3. Current \in Nat /\ raw[r].ver \in Nat
  BY Typed
<1>4. RowOf(view[r], r)'
  <2>1. RowOf(Absent, r)
    BY <1>3 DEF RowOf, Absent
  <2>2. RowOf([ver |-> raw[r].ver, status |-> "synced", gen |-> Current], r)
    BY <1>2, <1>3 DEF RowOf
  <2>3. RowOf(view[r], r)
    BY <1>2 DEF Fine
  <2>4. RowOf(view'[r], r)
    BY <2>1, <2>2, <2>3
  <2> QED BY <1>1, <2>4 DEF RowOf
<1>5. CommandOf(r)'
  BY <1>1, <1>2 DEF Fine, CommandOf, GoesOn
<1>6. Follows(r)'
  <2>1. Deleted(raw[r].ver)' <=> Deleted(raw[r].ver)
    BY <1>1 DEF Deleted
  <2>2. CASE conflict'[r]
    BY <2>2 DEF Follows, Watched
  <2>3. CASE view'[r] = [ver |-> raw[r].ver, status |-> "synced", gen |-> Current] /\ ~Deleted(raw[r].ver)
    BY <1>3, <2>1, <2>3 DEF Follows
  <2>4. CASE view'[r] = view[r] /\ view[r].status = "synced" /\ view[r].ver > raw[r].ver /\ ~Deleted(raw[r].ver)
    <3>1. view[r].ver \in Nat
      BY DEF TypeOK, Row, Version
    <3> QED BY <1>3, <2>1, <2>4, <3>1 DEF Follows
  <2> QED BY <2>2, <2>3, <2>4
<1>7. Walked(r)'
  BY <1>1 DEF Walked
<1>8. (Shown(r) => Known(r))'
  BY <1>1 DEF Known
<1>9. Recoverable(r)'
  BY <1>1, <1>2 DEF Fine, Recoverable, GoesOn
<1> QED BY <1>4, <1>5, <1>6, <1>7, <1>8, <1>9 DEF Fine

\* What the reconciliation of conflicts does to one record.
LEMMA ReconcileViews ==
  ASSUME ReconcileConflicts, NEW r \in Records
  PROVE  IF Reconciled(r) /\ ~Newer(r)
         THEN /\ view'[r] = Materialized(view[r], raw[r].ver, state.generation)
              /\ conflict'[r] = Conflicted(view[r], raw[r].ver, TRUE)
         ELSE /\ view'[r] = view[r]
              /\ conflict'[r] <=> conflict[r] /\ ~Reconciled(r)
<1> DEFINE again == {x \in Records : Reconciled(x) /\ ~Newer(x)}
<1>1. /\ view' = [x \in Records |-> IF x \in again THEN Materialized(view[x], raw[x].ver, state.generation) ELSE view[x]]
      /\ conflict' = [x \in Records |-> IF x \in again THEN Conflicted(view[x], raw[x].ver, TRUE)
                                        ELSE conflict[x] /\ ~Reconciled(x)]
  BY DEF ReconcileConflicts
<1>2. r \in again <=> Reconciled(r) /\ ~Newer(r)
  OBVIOUS
<1> HIDE DEF again
<1>3. view'[r] = IF r \in again THEN Materialized(view[r], raw[r].ver, state.generation) ELSE view[r]
  BY <1>1
<1>4. CASE r \in again
  <2>1. conflict'[r] = Conflicted(view[r], raw[r].ver, TRUE)
    BY <1>1, <1>4, Zenon
  <2> QED BY <1>2, <1>3, <1>4, <2>1
<1>5. CASE r \notin again
  <2>1. conflict'[r] <=> conflict[r] /\ ~Reconciled(r)
    BY <1>1, <1>5, Zenon
  <2> QED BY <1>2, <1>3, <1>5, <2>1
<1> QED BY <1>4, <1>5

\* Conflicts are reconciled, while at most one command goes on.
LEMMA FineReconcile ==
  ASSUME TypeOK, TypeOK', CursorInv, CoverInv, ViewInv, ReconcileConflicts,
         UNCHANGED <<journal, pinned, state, saved, late>>, NEW r \in Records, GoesOn(r)
  PROVE  Fine(r)'
<1>1. UNCHANGED raw
  BY ReconcileKeeps
<1>2. Fine(r)
  BY DEF ViewInv
<1>3. CASE ~Reconciled(r)
  <2>1. view'[r] = view[r] /\ (conflict'[r] <=> conflict[r])
    BY <1>3, ReconcileViews
  <2>2. /\ Current' = Current /\ Steady /\ (Retiring' <=> Retiring)
        /\ \A v : Deleted(v)' <=> Deleted(v)
        /\ \A row : RowOf(row, r)' <=> RowOf(row, r)
        /\ \A i : Beyond(r, i)' <=> Beyond(r, i)
        /\ \A b : Restored(r, b)' <=> Restored(r, b)
        /\ Known(r)' <=> Known(r)
    BY <1>1, TableStays
  <2>3. RowOf(view[r], r)' /\ CommandOf(r)'
    BY <1>2, <2>1, <2>2 DEF Fine, CommandOf, GoesOn, RowOf
  <2>4. (Claims(r)' <=> Claims(r)) /\ (Watched(r)' <=> Watched(r)) /\ (Shown(r)' <=> Shown(r))
    BY <2>1 DEF Claims, Watched, Shown, GoesOn
  <2>5. Follows(r)' /\ Walked(r)' /\ (Shown(r) => Known(r))'
    BY <1>1, <1>2, <2>1, <2>2, <2>4 DEF Fine, Follows, Walked
  <2>6. Recoverable(r)'
    <3>1. Withheld(r)' <=> Withheld(r)
      BY <2>1, <2>2 DEF Withheld, GoesOn
    <3> QED BY <1>2, <2>1, <2>2, <3>1 DEF Fine, Recoverable, GoesOn
  <2> QED BY <2>3, <2>5, <2>6 DEF Fine
<1>4. CASE Reconciled(r)
  <2>1. raw[r].ver # 0 /\ raw[r].gen = Current /\ state.generation = Current /\ view[r].status = "synced"
    BY <1>4, SettleableTag DEF Reconciled, Settleable, CoverInv, TagInv
  <2>2. Unanswered(r) => saved'[r] \/ Restored(r, cmd[r].base)
    BY <1>2, <2>1 DEF Fine, Recoverable, Withheld
  <2>3. CASE Newer(r)
    BY <1>1, <1>4, <2>1, <2>2, <2>3, ReconcileViews, FineAnew DEF Newer
  <2>4. CASE ~Newer(r)
    <3>1. /\ view'[r] = Materialized(view[r], raw[r].ver, Current)
          /\ conflict'[r] = Conflicted(view[r], raw[r].ver, TRUE)
      BY <1>4, <2>1, <2>4, ReconcileViews
    <3>2. view[r] \in Row
      BY DEF TypeOK
    <3>3. CASE Deleted(raw[r].ver)
      <4>1. conflict'[r]
        BY <3>1, <3>3 DEF Conflicted
      <4>2. view'[r] = Absent
        BY <3>1, <3>3 DEF Materialized
      <4> QED BY <1>1, <2>1, <2>2, <3>3, <4>1, <4>2, FineAnew
    <3>4. CASE ~Deleted(raw[r].ver)
      <4>1. ~(view[r].ver > raw[r].ver)
        BY <2>4, <3>4 DEF Newer
      <4>2. view'[r] = [ver |-> raw[r].ver, status |-> "synced", gen |-> Current]
        BY <2>1, <3>1, <3>4, <4>1 DEF Materialized
      <4> QED BY <1>1, <2>1, <2>2, <3>4, <4>2, FineAnew
    <3> QED BY <3>3, <3>4
  <2> QED BY <2>3, <2>4
<1> QED BY <1>3, <1>4

\* A loop has applied a page and reconciles.
LEMMA ViewSettle ==
  ASSUME TypeOK, TypeOK', CursorInv, CoverInv, ViewInv, NEW t \in Tabs, Settle(t)
  PROVE  ViewInv'
<1>1. UNCHANGED <<journal, pinned, state, saved, cmd, late>> /\ ReconcileConflicts
  BY DEF Settle
<1>2. ASSUME NEW r \in Records PROVE Fine(r)'
  BY <1>1, FineReconcile DEF GoesOn, Answered, Unanswered
<1>3. \A u \in Tabs : LivePage(pull[u])'
  <2>1. \A u \in Tabs : pull'[u] = pull[u] \/ pull'[u].phase # "apply"
    <3>1. \A u \in Tabs : u # t => pull'[u] = pull[u]
      BY DEF Settle, TypeOK
    <3>2. pull'[t].phase # "apply"
      <4>1. PICK q : q = [Idle EXCEPT !.phase = "read", !.cursor = pull[t].page.next, !.gen = pull[t].gen]
        OBVIOUS
      <4>2. q.phase = "read" /\ Idle.phase = "idle"
        BY <4>1 DEF Idle
      <4>3. pull' = [pull EXCEPT ![t] = IF pull[t].again THEN q ELSE Idle]
        BY <4>1 DEF Settle
      <4> QED BY <4>2, <4>3 DEF TypeOK
    <3> QED BY <3>1, <3>2
  <2> QED BY <1>1, <2>1, PagesStay, Typed DEF Grows
<1>4. ConvergedInv'
  BY <1>1 DEF ViewInv, ConvergedInv
<1> QED BY <1>2, <1>3, <1>4 DEF ViewInv

\* A step of the screen or of one command: the loops and the table stay.
LEMMA ViewScreen ==
  ASSUME TypeOK, TypeOK', CursorInv, CoverInv, ViewInv, UNCHANGED <<journal, pinned, state, raw, pull>>,
         NEW r \in Records, Fine(r)',
         \A x \in Records : x # r => /\ view'[x] = view[x] /\ conflict'[x] = conflict[x]
                                     /\ saved'[x] = saved[x] /\ late'[x] = late[x] /\ cmd'[x] = cmd[x]
  PROVE  ViewInv'
<1>1. Steady /\ Grows
  BY TableStays
<1>2. ASSUME NEW x \in Records, x # r PROVE Fine(x)'
  BY <1>1, <1>2, FineStays DEF ViewInv, CoverInv, Retiring
<1>3. \A u \in Tabs : LivePage(pull[u])'
  BY <1>1, PagesStay
<1>4. ConvergedInv'
  BY DEF ViewInv, ConvergedInv
<1> QED BY <1>2, <1>3, <1>4 DEF ViewInv

\* After an answer the withheld conflicts are reconciled.
LEMMA ViewAcknowledgedReconcile ==
  ASSUME TypeOK, TypeOK', CursorInv, CoverInv, ViewInv, NEW r \in Records, AcknowledgedReconcile(r)
  PROVE  ViewInv'
<1>1. /\ UNCHANGED <<journal, pinned, state, saved, pull, late>> /\ ReconcileConflicts
      /\ cmd[r].phase = "acknowledged"
      /\ cmd' = [cmd EXCEPT ![r] = [cmd[r] EXCEPT !.phase = IF conflict[r] THEN "rematerialized" ELSE "reconciled"]]
  BY DEF AcknowledgedReconcile
<1>2. cmd[r] \in CommandType
  BY DEF TypeOK
<1>3. GoesOn(r)
  <2>1. cmd'[r] = [cmd[r] EXCEPT !.phase = IF conflict[r] THEN "rematerialized" ELSE "reconciled"]
    BY <1>1 DEF TypeOK
  <2>2. /\ cmd'[r].phase \in {"rematerialized", "reconciled"}
        /\ cmd'[r].prev = cmd[r].prev /\ cmd'[r].ver = cmd[r].ver /\ cmd'[r].base = cmd[r].base
    BY <1>2, <2>1 DEF CommandType
  <2> QED BY <1>1, <2>2 DEF GoesOn, Answered, Unanswered
<1>4. ASSUME NEW x \in Records, x # r PROVE GoesOn(x)
  BY <1>1, <1>4 DEF GoesOn, Answered, Unanswered, TypeOK
<1>5. ASSUME NEW x \in Records PROVE Fine(x)'
  BY <1>1, <1>3, <1>4, FineReconcile
<1>6. \A u \in Tabs : LivePage(pull[u])'
  BY <1>1, PagesStay, Typed DEF Grows
<1>7. ConvergedInv'
  BY <1>1 DEF ViewInv, ConvergedInv
<1> QED BY <1>5, <1>6, <1>7 DEF ViewInv

\* The user takes Tower's version.
LEMMA ViewAccept ==
  ASSUME TypeOK, TypeOK', CursorInv, CoverInv, ViewInv, NEW r \in Records, AcceptRemote(r)
  PROVE  ViewInv'
<1>1. /\ UNCHANGED <<journal, pinned, state, cmd, pull, late>> /\ Settleable(r)
      /\ saved' = [saved EXCEPT ![r] = TRUE]
      /\ view' = [view EXCEPT ![r] = Materialized(Absent, raw[r].ver, state.generation)]
      /\ conflict' = [conflict EXCEPT ![r] = Conflicted(Absent, raw[r].ver, TRUE)]
  BY DEF AcceptRemote
<1>2. UNCHANGED raw
  BY AcceptKeeps
<1>3. raw[r].ver # 0 /\ raw[r].gen = Current /\ state.generation = Current /\ raw[r].ver \in Nat
  BY <1>1, SettleableTag, Typed DEF Settleable, CoverInv, TagInv
<1>4. saved'[r] /\ GoesOn(r)
  BY <1>1 DEF TypeOK, GoesOn, Answered, Unanswered
<1>5. view'[r] = Materialized(Absent, raw[r].ver, Current) /\ conflict'[r] = Conflicted(Absent, raw[r].ver, TRUE)
  BY <1>1, <1>3 DEF TypeOK
<1>6. Fine(r)'
  <2>1. CASE Deleted(raw[r].ver)
    <3>1. conflict'[r]
      BY <1>5, <2>1 DEF Conflicted
    <3>2. view'[r] = Absent
      BY <1>5, <2>1 DEF Materialized
    <3> QED BY <1>1, <1>2, <1>3, <1>4, <2>1, <3>1, <3>2, FineAnew
  <2>2. CASE ~Deleted(raw[r].ver)
    <3>1. view'[r] = [ver |-> raw[r].ver, status |-> "synced", gen |-> Current]
      BY <1>3, <1>5, <2>2 DEF Materialized, Absent
    <3> QED BY <1>1, <1>2, <1>3, <1>4, <2>2, <3>1, FineAnew
  <2> QED BY <2>1, <2>2
<1> QED BY <1>1, <1>2, <1>6, ViewScreen DEF TypeOK

\* An edit is shown, and its command goes out.
LEMMA ViewEdit ==
  ASSUME TypeOK, TypeOK', CursorInv, CoverInv, ViewInv, NEW r \in Records, LocalEdit(r)
  PROVE  ViewInv'
<1>1. /\ UNCHANGED <<journal, pinned, state, raw, conflict, saved, pull, late>>
      /\ cmd[r].phase = "none" /\ view[r].status = "synced"
      /\ cmd' = [cmd EXCEPT ![r] = [phase |-> "sent", ver |-> 0, prev |-> view[r], base |-> raw[r].ver]]
      /\ view' = [view EXCEPT ![r] = [view[r] EXCEPT !.status = "pending"]]
  BY DEF LocalEdit
<1>2. view[r] \in Row /\ Fine(r)
  BY DEF TypeOK, ViewInv
<1>3. /\ cmd'[r].phase = "sent" /\ cmd'[r].prev = view[r] /\ cmd'[r].base = raw[r].ver
  BY <1>1 DEF TypeOK
<1>4. view'[r].status = "pending" /\ view'[r].ver = view[r].ver /\ view'[r].gen = view[r].gen
  <2>1. view'[r] = [view[r] EXCEPT !.status = "pending"]
    BY <1>1 DEF TypeOK
  <2> QED BY <1>2, <2>1 DEF Row
<1>5. /\ Current' = Current /\ (Retiring' <=> Retiring)
      /\ \A v : Deleted(v)' <=> Deleted(v)
      /\ \A row : RowOf(row, r)' <=> RowOf(row, r)
      /\ \A i : Beyond(r, i)' <=> Beyond(r, i)
      /\ Known(r)' <=> Known(r)
  BY <1>1, TableStays
<1>6. RowOf(view[r], r)' /\ CommandOf(r)'
  <2>1. CommandOf(r)'
    BY <1>1, <1>2, <1>3, <1>5 DEF CommandOf, Answered, Fine
  <2>2. RowOf(view[r], r)'
    BY <1>1, <1>2, <1>4, <1>5 DEF RowOf, Fine
  <2> QED BY <2>1, <2>2
<1>7. Follows(r)' /\ Walked(r)' /\ (Shown(r) => Known(r))'
  <2>1. Claims(r) /\ Shown(r) /\ (Watched(r)' <=> Watched(r))
    BY <1>1 DEF Claims, Shown, Watched
  <2> QED BY <1>1, <1>2, <1>4, <1>5, <2>1 DEF Fine, Follows, Walked
<1>8. Recoverable(r)'
  <2>1. Beyond(r, raw[r].ver)
    BY Typed DEF CoverInv, RowInv, Beyond
  <2> QED BY <1>3, <1>4, <1>5, <2>1 DEF Recoverable
<1>9. Fine(r)'
  BY <1>6, <1>7, <1>8 DEF Fine
<1> QED BY <1>1, <1>9, ViewScreen DEF TypeOK

\* A put of a row of Tower's, or of a failed edit that ends its command.
LEMMA ViewPut ==
  ASSUME TypeOK, TypeOK', CursorInv, CoverInv, ViewInv, NEW r \in Records,
         UNCHANGED <<journal, pinned, state, raw, conflict, saved, pull>>,
         NEW row \in Row, Put(row, r), RowOf(row, r), row.status # "absent",
         cmd[r].phase # "none", ~Unanswered(r)',
         \A x \in Records : x # r => cmd'[x] = cmd[x],
         \/ cmd'[r].phase = "none"
         \/ /\ cmd'[r].prev = cmd[r].prev /\ cmd'[r].ver = cmd[r].ver /\ cmd'[r].base = cmd[r].base
            /\ Answered(r)' => Answered(r)
            /\ row.status = "synced"
  PROVE  ViewInv'
<1>1. view'[r] = row /\ (late'[r] <=> late[r] \/ Overtakes(row, r))
  <2>1. view' = [view EXCEPT ![r] = row] /\ late' = [late EXCEPT ![r] = late[r] \/ Overtakes(row, r)]
    BY DEF Put
  <2>2. view'[r] = row
    BY <2>1 DEF TypeOK
  <2>3. late \in [Records -> BOOLEAN]
    BY DEF TypeOK
  <2>4. late'[r] <=> late[r] \/ Overtakes(row, r)
    BY <2>1, <2>3, Zenon
  <2> QED BY <2>2, <2>4
<1>2. Fine(r) /\ row.ver \in Nat /\ view[r].ver \in Nat /\ raw[r].ver \in Nat /\ view[r] \in Row
  <2>1. view[r] \in Row
    BY DEF TypeOK
  <2> QED BY <2>1, Typed DEF ViewInv, Row, Version
<1>3. /\ Current' = Current /\ (Retiring' <=> Retiring)
      /\ \A v : Deleted(v)' <=> Deleted(v)
      /\ \A q : RowOf(q, r)' <=> RowOf(q, r)
      /\ \A i : Beyond(r, i)' <=> Beyond(r, i)
      /\ Known(r)' <=> Known(r)
  BY TableStays
<1>4. RowOf(view[r], r)' /\ CommandOf(r)'
  <2>1. CommandOf(r)'
    BY <1>2, <1>3 DEF Fine, CommandOf, Answered
  <2>2. RowOf(view[r], r)'
    BY <1>1, <1>3 DEF RowOf
  <2> QED BY <2>1, <2>2
\* a watched row that now claims to be Tower's was watched, claimed to be, and was no newer
<1>5. ASSUME Watched(r)', Claims(r)' PROVE Watched(r) /\ Claims(r) /\ view[r].ver <= row.ver
  <2>1. row.status = "synced"
    BY <1>1, <1>5 DEF Claims
  <2>2. ~late[r] /\ ~conflict[r] /\ ~Overtakes(row, r)
    BY <1>1, <1>5 DEF Watched
  <2>3. view[r].status # "absent" /\ view[r].ver <= row.ver
    BY <1>2, <2>1, <2>2 DEF Overtakes
  <2> QED BY <1>2, <2>2, <2>3 DEF Watched, Claims, Row
<1>6. Follows(r)'
  <2>1. Deleted(raw[r].ver)' <=> Deleted(raw[r].ver)
    BY DEF Deleted
  <2> QED BY <1>1, <1>2, <1>5, <2>1 DEF Fine, Follows
<1>7. Walked(r)' /\ (Shown(r) => Known(r))'
  BY <1>2, <1>3, <1>5 DEF Fine, Walked, Shown
<1>8. Recoverable(r)'
  BY <1>2, <1>3 DEF Fine, Recoverable
<1>9. Fine(r)'
  BY <1>4, <1>6, <1>7, <1>8 DEF Fine
<1> QED BY <1>9, ViewScreen DEF Put, TypeOK

\* Tower accepts a command, which makes its row the newest.
LEMMA ViewTowerAccept ==
  ASSUME TypeOK, TypeOK', CursorInv, CoverInv, ViewInv, NEW r \in Records, TowerAccept(r)
  PROVE  ViewInv'
<1>1. /\ UNCHANGED <<pinned, state, raw, view, conflict, saved, pull, late>>
      /\ cmd[r].phase = "sent"
      /\ journal' = Append(journal, [id |-> r, op |-> "upsert"])
      /\ cmd' = [cmd EXCEPT ![r] = [cmd[r] EXCEPT !.phase = "accepted", !.ver = Len(journal) + 1]]
  BY DEF TowerAccept
<1>2. cmd[r] \in CommandType
  BY DEF TypeOK
<1>3. /\ cmd'[r].phase = "accepted" /\ cmd'[r].ver = Len(journal) + 1
      /\ cmd'[r].prev = cmd[r].prev /\ cmd'[r].base = cmd[r].base
  <2>1. cmd'[r] = [cmd[r] EXCEPT !.phase = "accepted", !.ver = Len(journal) + 1]
    BY <1>1 DEF TypeOK
  <2> QED BY <1>2, <2>1 DEF CommandType
<1>4. Grows /\ Len(journal') = Len(journal) + 1 /\ journal'[Len(journal) + 1].id = r
  BY <1>1, Typed DEF Grows
<1>5. Steady /\ (Retiring' <=> Retiring) /\ Current' = Current
  BY <1>1, <1>4, Typed DEF Steady, RowMoves, Current, Since, Retiring
<1>6. ASSUME NEW x \in Records, x # r PROVE Fine(x)'
  <2>1. cmd'[x] = cmd[x]
    BY <1>1, <1>6 DEF TypeOK
  <2> QED BY <1>1, <1>5, <2>1, FineStays DEF ViewInv, CoverInv
<1>7. Fine(r)'
  <2>1. Fine(r) /\ RowInv
    BY DEF ViewInv, CoverInv
  <2>2. RowOf(view[r], r)'
    <3>1. PICK q \in Row : q = view[r]
      BY DEF TypeOK
    <3>2. RowOf(q, r)'
      BY <1>5, <2>1, <3>1, RowOfStays DEF Fine
    <3> QED BY <1>1, <3>1, <3>2
  <2>3. CommandOf(r)'
    BY <1>1, <1>3, <1>4, <1>5, <2>1, CommandOfStays, Typed DEF Fine
  <2>4. (Claims(r)' <=> Claims(r)) /\ (Watched(r)' <=> Watched(r)) /\ (Shown(r)' <=> Shown(r))
    BY <1>1, <1>3 DEF Claims, Watched, Shown
  <2>5. raw[r].ver # 0 => (Deleted(raw[r].ver)' <=> Deleted(raw[r].ver))
    BY <1>1, <1>4, <2>1, ChangeStays, Typed DEF RowInv
  <2>6. Follows(r)' /\ Walked(r)'
    BY <1>1, <1>5, <2>1, <2>4, <2>5 DEF Fine, Follows, Walked
  <2>7. (Shown(r) => Known(r))'
    BY <1>5, <2>1, <2>4, KnownStays DEF Fine
  <2>8. Recoverable(r)'
    BY <1>1, <1>3, <1>5, <2>1, RecoverableStays DEF Fine, Unanswered
  <2> QED BY <2>2, <2>3, <2>6, <2>7, <2>8 DEF Fine
<1>8. \A u \in Tabs : LivePage(pull[u])'
  BY <1>1, <1>4, PagesStay
<1>9. ConvergedInv'
  BY <1>1 DEF ViewInv, ConvergedInv
<1> QED BY <1>6, <1>7, <1>8, <1>9 DEF ViewInv

\* The puts of a command: of the row of the answer, twice, of the previous row,
\* and of the previous row or the failed edit once more.
LEMMA ViewCommand ==
  ASSUME TypeOK, TypeOK', CursorInv, CoverInv, ViewInv, NEW r \in Records,
         \/ Acknowledge(r) \/ Republish(r) \/ Fail(r) \/ GiveUp(r, TRUE) \/ GiveUp(r, FALSE)
  PROVE  ViewInv'
<1>1. UNCHANGED <<journal, pinned, state, raw, conflict, saved, pull>>
  BY DEF Acknowledge, Republish, Fail, GiveUp
<1>2. cmd[r] \in CommandType /\ CommandOf(r) /\ Current \in Nat
  BY Typed DEF TypeOK, ViewInv, Fine
<1>3. cmd[r].prev \in Row
  BY <1>2 DEF CommandType
<1>4. ASSUME Answered(r)
      PROVE  RowOf(Accepted(r), r) /\ Accepted(r) \in Row /\ Accepted(r).status = "synced"
  <2>1. cmd[r].ver \in 1..Len(journal) /\ journal[cmd[r].ver].id = r
    BY <1>2, <1>4 DEF CommandOf
  <2>2. Accepted(r) \in Row
    BY <1>2, BoundAssumption DEF Accepted, Row, CommandType, Generation
  <2> QED BY <1>2, <2>1, <2>2 DEF RowOf, Accepted
<1>5. CASE Acknowledge(r)
  <2>1. cmd' = [cmd EXCEPT ![r] = [cmd[r] EXCEPT !.phase = "acknowledged"]] /\ Put(Accepted(r), r)
        /\ cmd[r].phase = "accepted"
    BY <1>5 DEF Acknowledge
  <2>2. cmd'[r] = [cmd[r] EXCEPT !.phase = "acknowledged"] /\ \A x \in Records : x # r => cmd'[x] = cmd[x]
    BY <2>1 DEF TypeOK
  <2>3. /\ cmd'[r].phase = "acknowledged" /\ cmd'[r].prev = cmd[r].prev
        /\ cmd'[r].ver = cmd[r].ver /\ cmd'[r].base = cmd[r].base
    BY <1>2, <2>2 DEF CommandType
  <2>4. Answered(r) /\ ~Unanswered(r)'
    BY <2>1, <2>3 DEF Answered, Unanswered
  <2> QED BY <1>1, <1>4, <2>1, <2>2, <2>3, <2>4, ViewPut
<1>6. CASE Republish(r)
  <2>1. cmd' = [cmd EXCEPT ![r] = NoCommand] /\ Put(Accepted(r), r)
        /\ cmd[r].phase \in {"reconciled", "rematerialized"}
    BY <1>6 DEF Republish
  <2>2. cmd'[r].phase = "none" /\ \A x \in Records : x # r => cmd'[x] = cmd[x]
    BY <2>1 DEF TypeOK, NoCommand
  <2>3. Answered(r) /\ ~Unanswered(r)'
    BY <2>1, <2>2 DEF Answered, Unanswered
  <2> QED BY <1>1, <1>4, <2>1, <2>2, <2>3, ViewPut
<1>7. CASE Fail(r)
  <2>1. cmd' = [cmd EXCEPT ![r] = [cmd[r] EXCEPT !.phase = "failed"]] /\ Put(cmd[r].prev, r)
        /\ cmd[r].phase # "none"
    BY <1>7 DEF Fail
  <2>2. cmd'[r] = [cmd[r] EXCEPT !.phase = "failed"] /\ \A x \in Records : x # r => cmd'[x] = cmd[x]
    BY <2>1 DEF TypeOK
  <2>3. /\ cmd'[r].phase = "failed" /\ cmd'[r].prev = cmd[r].prev
        /\ cmd'[r].ver = cmd[r].ver /\ cmd'[r].base = cmd[r].base
    BY <1>2, <2>2 DEF CommandType
  <2>4. ~Answered(r)' /\ ~Unanswered(r)'
    BY <2>3 DEF Answered, Unanswered
  <2>5. RowOf(cmd[r].prev, r) /\ cmd[r].prev.status = "synced"
    BY <1>2, <2>1 DEF CommandOf
  <2> QED BY <1>1, <1>3, <2>1, <2>2, <2>3, <2>4, <2>5, ViewPut
<1>8. ASSUME NEW b \in BOOLEAN, GiveUp(r, b) PROVE ViewInv'
  <2>1. PICK row : row = IF b THEN cmd[r].prev ELSE [cmd[r].prev EXCEPT !.status = "pending"]
    OBVIOUS
  <2>2. cmd' = [cmd EXCEPT ![r] = NoCommand] /\ Put(row, r) /\ cmd[r].phase = "failed"
    BY <1>8, <2>1 DEF GiveUp
  <2>3. cmd'[r].phase = "none" /\ \A x \in Records : x # r => cmd'[x] = cmd[x]
    BY <2>2 DEF TypeOK, NoCommand
  <2>4. ~Unanswered(r)'
    BY <2>3 DEF Unanswered
  <2>5. RowOf(cmd[r].prev, r) /\ cmd[r].prev.status = "synced"
    BY <1>2, <2>2 DEF CommandOf
  <2>6. row \in Row /\ row.status # "absent" /\ RowOf(row, r)
    <3>1. CASE b
      BY <1>3, <2>1, <2>5, <3>1
    <3>2. CASE ~b
      <4>1. row = [cmd[r].prev EXCEPT !.status = "pending"]
        BY <2>1, <3>2
      <4>2. /\ row \in Row /\ row.status = "pending"
            /\ row.ver = cmd[r].prev.ver /\ row.gen = cmd[r].prev.gen
        BY <1>3, <4>1 DEF Row
      <4> QED BY <2>5, <4>2 DEF RowOf
    <3> QED BY <3>1, <3>2
  <2> QED BY <1>1, <2>2, <2>3, <2>4, <2>6, ViewPut
<1> QED BY <1>5, <1>6, <1>7, <1>8

\* A loop begins, goes on from another tab's commit, or ends its walk.
LEMMA ViewLoop ==
  ASSUME TypeOK, TypeOK', CursorInv, CoverInv, ViewInv, NEW t \in Tabs,
         Begin(t) \/ Replay(t) \/ FinishWalk(t)
  PROVE  ViewInv'
<1>1. UNCHANGED <<journal, pinned, raw, view, conflict, saved, cmd, late>>
  BY DEF Begin, Replay, FinishWalk
<1>2. /\ Current' = Current /\ ConvergedInv'
      /\ Retiring' => Retiring /\ state'.retirement.at = state.retirement.at
  <2>1. CASE Begin(t) \/ Replay(t)
    <3>1. UNCHANGED state
      BY <2>1 DEF Begin, Replay
    <3> QED BY <3>1 DEF Current, ViewInv, ConvergedInv, Retiring
  <2>2. CASE FinishWalk(t)
    <3>1. /\ state'.localGeneration = state.localGeneration /\ ~state'.handover
          /\ state'.retirement = NoRetirement
      BY <2>2 DEF FinishWalk, TypeOK, StateType
    <3> QED BY <3>1 DEF Current, ConvergedInv, Retiring, NoRetirement, NoCursor
  <2> QED BY <2>1, <2>2
<1>3. Steady
  BY <1>1, <1>2, Typed DEF Steady, Grows, RowMoves, Since
<1>4. \/ pull'[t].phase # "apply" \/ pull'[t].page.mode = "delta"
  <2>1. pull[t] \in PullType
    BY DEF TypeOK
  <2>2. CASE Begin(t)
    <3>1. PICK q : q = [NoPage EXCEPT !.next = state.retirement.next]
      OBVIOUS
    <3>2. q.mode = "delta" /\ NoPage.mode = "delta"
      BY <3>1 DEF NoPage
    <3>3. PICK x : x = IF Resumes THEN q ELSE NoPage
      OBVIOUS
    <3>4. pull'[t] = [Idle EXCEPT !.phase = IF Resumes THEN "apply" ELSE "read",
                                  !.cursor = state.cursor, !.gen = state.localGeneration,
                                  !.page = x, !.again = Resumes]
      BY <2>2, <3>1, <3>3 DEF Begin, TypeOK
    <3>5. pull'[t].page = x
      BY <3>4 DEF Idle
    <3> QED BY <3>2, <3>3, <3>5
  <2>3. CASE Replay(t)
    <3>1. pull'[t] = [pull[t] EXCEPT !.phase = "settle",
                                     !.again = pull[t].again \/ pull[t].off + SubSize < pull[t].page.to]
      BY <2>3 DEF Replay, TypeOK
    <3> QED BY <2>1, <3>1 DEF PullType
  <2>4. CASE FinishWalk(t)
    <3>1. pull' = [pull EXCEPT ![t] = [pull[t] EXCEPT !.phase = "settle"]]
      BY <2>4 DEF FinishWalk
    <3>2. pull'[t] = [pull[t] EXCEPT !.phase = "settle"]
      BY <3>1 DEF TypeOK
    <3> QED BY <2>1, <3>2 DEF PullType
  <2> QED BY <2>2, <2>3, <2>4
<1>5. \A u \in Tabs : u # t => pull'[u] = pull[u]
  BY DEF Begin, Replay, FinishWalk, TypeOK
<1> QED BY <1>1, <1>2, <1>3, <1>4, <1>5, ViewCalm

\* A loop stops or is refused, Tower changes a record, the browser restarts.
LEMMA ViewOther ==
  ASSUME TypeOK, TypeOK', CursorInv, CoverInv, ViewInv,
         \/ \E t \in Tabs : Reject(t) \/ Abort(t) \/ Denied(t, TRUE) \/ Denied(t, FALSE)
         \/ \E r \in Records : TowerWrite(r, "upsert") \/ TowerWrite(r, "delete")
         \/ Restart
         \/ UNCHANGED vars
  PROVE  ViewInv'
<1>1. UNCHANGED <<pinned, state, raw, view, conflict, saved, late>>
  BY DEF Reject, Abort, Denied, TowerWrite, Restart, vars
<1>2. Grows
  <2>1. UNCHANGED journal \/ \E c : journal' = Append(journal, c)
    BY DEF Reject, Abort, Denied, TowerWrite, Restart, vars
  <2> QED BY <2>1, Typed DEF Grows
<1>3. Steady
  <2>1. Current' = Current /\ Since' = Since
    BY <1>1 DEF Current, Since
  <2> QED BY <1>1, <1>2, <2>1, Typed DEF Steady, RowMoves
<1>4. \A r \in Records : cmd'[r] = cmd[r] \/ cmd'[r] = NoCommand
  BY DEF Reject, Abort, Denied, TowerWrite, Restart, vars
<1>5. ASSUME NEW u \in Tabs PROVE pull'[u] = pull[u] \/ pull'[u].phase # "apply"
  <2>1. pull[u] \in PullType
    BY DEF TypeOK
  <2>2. Idle.phase = "idle"
    BY DEF Idle
  <2>3. ASSUME NEW t \in Tabs, Reject(t) \/ Abort(t) PROVE pull'[u] = pull[u] \/ pull'[u] = Idle
    BY <2>3 DEF Reject, Abort, TypeOK
  <2>4. ASSUME NEW t \in Tabs, NEW h, Denied(t, h) PROVE pull'[u] = pull[u] \/ pull'[u].phase # "apply"
    <3>1. pull' = [pull EXCEPT ![t] = [pull[t] EXCEPT !.phase = "reset", !.hide = h]]
      BY <2>4 DEF Denied
    <3>2. u = t => pull'[u] = [pull[u] EXCEPT !.phase = "reset", !.hide = h]
      BY <3>1 DEF TypeOK
    <3> QED BY <2>1, <3>1, <3>2 DEF TypeOK, PullType
  <2>5. ASSUME NEW r \in Records, TowerWrite(r, "upsert") \/ TowerWrite(r, "delete") PROVE pull'[u] = pull[u]
    BY <2>5 DEF TowerWrite
  <2>6. CASE Restart
    BY <2>2, <2>6 DEF Restart
  <2>7. CASE UNCHANGED vars
    BY <2>7 DEF vars
  <2> QED BY <2>2, <2>3, <2>4, <2>5, <2>6, <2>7
<1>6. Retiring' => Retiring /\ state'.retirement.at = state.retirement.at
  BY <1>1 DEF Retiring
<1>7. ConvergedInv'
  BY <1>1 DEF ViewInv, ConvergedInv
<1> QED BY <1>1, <1>3, <1>4, <1>5, <1>6, <1>7, ViewCalm

----------------------------------------------------------------------------
(* The theorems.                                                            *)

\* Every step keeps the invariant.
LEMMA ViewNext == TypeOK /\ TypeOK' /\ CursorInv /\ CoverInv /\ ViewInv /\ [Next]_vars => ViewInv'
<1> SUFFICES ASSUME TypeOK, TypeOK', CursorInv, CoverInv, ViewInv, [Next]_vars PROVE ViewInv'
  OBVIOUS
<1>1. ASSUME NEW t \in Tabs, Download(t) \/ Abort(t) \/ Denied(t, TRUE) \/ Denied(t, FALSE) PROVE ViewInv'
  BY <1>1, ViewLoop, ViewRead, ViewReset, ViewApply, ViewWalk, ViewSettle, ViewOther DEF Download
<1>2. ASSUME NEW r \in Records,
             \/ TowerWrite(r, "upsert") \/ TowerWrite(r, "delete")
             \/ LocalEdit(r) \/ TowerAccept(r) \/ AcceptRemote(r)
             \/ Acknowledge(r) \/ AcknowledgedReconcile(r) \/ Republish(r)
             \/ Fail(r) \/ GiveUp(r, TRUE) \/ GiveUp(r, FALSE)
      PROVE  ViewInv'
  BY <1>2, ViewOther, ViewEdit, ViewTowerAccept, ViewAccept, ViewCommand, ViewAcknowledgedReconcile
<1>3. CASE Restart \/ UNCHANGED vars
  BY <1>3, ViewOther
<1> QED BY <1>1, <1>2, <1>3 DEF Next

\* What each view row, its command and its warning say of the canonical row stays
\* true: the screen falls behind the table only under a warning or after a put
\* that is known to have come late.
THEOREM ViewInvariant == Spec => []ViewInv
<1>1. Init => ViewInv
  BY ViewInit
<1>2. TypeOK /\ TypeOK' /\ CursorInv /\ CoverInv /\ ViewInv /\ [Next]_vars => ViewInv'
  BY ViewNext
<1> QED BY <1>1, <1>2, TypeCorrect, CursorInvariant, CoverInvariant, PTL DEF Spec

\* A withheld edit still has its warning.
LEMMA ViewImpliesRecoverable == ViewInv => EditRecoverable
BY DEF ViewInv, Fine, Recoverable, Unanswered, Withheld, EditRecoverable

\* While a command is unanswered its edit is shown, warned of or saved, unless
\* Tower has deleted its record and brought it back.
THEOREM EditsAreRecoverable == Spec => []EditRecoverable
BY ViewImpliesRecoverable, ViewInvariant, PTL

\* What stands behind a watched row that claims to be Tower's, once the loop has
\* converged at the end of the journal.
LEMMA ViewImpliesConverged == TypeOK /\ CoverInv /\ ViewInv => ConvergedIsTower
<1> SUFFICES ASSUME TypeOK, CoverInv, ViewInv, CaughtUp, NEW r \in Records, Quiet(r), ~late[r]
             PROVE  ShowsTower(r)
  BY DEF ConvergedIsTower
<1>1. PICK n, v : n = Len(journal) /\ v = Latest(r)
  OBVIOUS
<1>2. /\ n \in Nat /\ IsLast(v, r, 0, n) /\ v = LastIn(r, 0, n)
  BY <1>1, LastIsLast, Typed DEF LastFacts, Latest
<1>3. state.cursor.kind = "delta" /\ state.cursor.at = n
  BY <1>1 DEF CaughtUp, DeltaCursor
<1>4. Reached(r, n)
  BY <1>3 DEF CoverInv, CommittedCovers, Covers, DeltaCovers
<1>5. raw[r].ver # 0 => raw[r].gen = Current /\ raw[r].ver \in 1..n /\ journal[raw[r].ver].id = r
  BY <1>1, <1>3, Typed DEF CaughtUp, ViewInv, ConvergedInv, CoverInv, HandoverInv, RowInv
<1>6. Fine(r) /\ Watched(r) /\ view[r] \in Row /\ view[r].status # "pending"
  BY DEF ViewInv, Quiet, Watched, TypeOK
<1>7. raw[r].ver # 0 => raw[r].ver = v \/ (raw[r].ver < v /\ v # 0)
  BY <1>1, <1>2, <1>5 DEF IsLast
<1>8. CASE Live(r)
  <2>1. v # 0 /\ ~Deleted(v) /\ v \in 1..n
    BY <1>1, <1>2, <1>8 DEF Live, IsLast
  <2>2. raw[r].ver = v
    <3>1. ~Gone(r, v)
      BY <1>1, <1>2, <2>1 DEF Gone, IsLast
    <3>2. raw[r].gen = Current /\ raw[r].ver >= v
      BY <1>2, <1>4, <2>1, <3>1 DEF Reached
    <3> QED BY <1>5, <1>7, <2>1, <3>2, Typed
  <2>3. raw[r].gen = Current
    BY <1>5, <2>1, <2>2
  <2>4. view[r].status = "synced"
    BY <1>6, <2>1, <2>2, <2>3 DEF Fine, Follows, Row
  <2>5. v <= view[r].ver
    BY <1>6, <2>2, <2>4 DEF Fine, Follows, Claims
  <2>6. view[r].ver \in 1..n /\ journal[view[r].ver].id = r
    BY <1>1, <1>6, <2>1, <2>5 DEF Fine, RowOf, Row, Version
  <2>7. view[r].ver <= v
    BY <1>1, <1>2, <2>1, <2>6 DEF IsLast
  <2>8. view[r].ver = v
    BY <2>1, <2>5, <2>6, <2>7
  <2> QED BY <1>1, <1>8, <2>4, <2>8 DEF ShowsTower
<1>9. CASE ~Live(r)
  <2>1. ASSUME view[r].status = "synced" PROVE FALSE
    <3>1. /\ raw[r].ver # 0 /\ raw[r].ver <= view[r].ver
          /\ Deleted(raw[r].ver) => raw[r].ver # view[r].ver
      BY <1>6, <2>1 DEF Fine, Follows, Claims
    <3>2. v # 0 /\ Deleted(v) /\ v \in 1..n
      BY <1>1, <1>2, <1>7, <1>9, <3>1 DEF Live, IsLast
    <3>3. view[r].ver \in 1..n /\ journal[view[r].ver].id = r
      BY <1>1, <1>5, <1>6, <3>1 DEF Fine, RowOf, Row, Version
    <3>4. view[r].ver <= v
      BY <1>1, <1>2, <3>2, <3>3 DEF IsLast
    <3>5. raw[r].ver = v
      <4>1. raw[r].gen = Current /\ raw[r].ver >= v
        BY <1>2, <1>4, <1>5, <3>1, <3>2 DEF Reached
      <4> QED BY <1>5, <1>7, <3>1, <3>2, <4>1
    <3> QED BY <3>1, <3>2, <3>3, <3>4, <3>5
  <2>2. view[r].status = "absent"
    BY <1>6, <2>1 DEF Row
  <2> QED BY <1>9, <2>2 DEF ShowsTower
<1> QED BY <1>8, <1>9

\* When the loop reports convergence at the end of the journal, every record
\* without command, warning or late put is shown exactly as Tower has it.
THEOREM ConvergedShowsTower == Spec => []ConvergedIsTower
BY ViewImpliesConverged, ViewInvariant, CoverInvariant, TypeCorrect, PTL

\* The rows that a step takes off the screen were deleted at Tower: the change
\* that does it is a deletion that is newer than the canonical row, or the
\* canonical row itself is one.
LEMMA ViewLiveRows ==
  ASSUME TypeOK, TypeOK', CursorInv, CoverInv, ViewInv, [Next]_vars,
         NEW r \in Records, view[r].status # "absent", view'[r].status = "absent"
  PROVE  \/ state'.localGeneration > state.localGeneration
         \/ \E i \in 1..Len(journal) : journal[i].id = r /\ Deleted(i) /\ i > raw[r].ver
         \/ raw[r].ver # 0 /\ Deleted(raw[r].ver)
<1> DEFINE Goal == \/ state'.localGeneration > state.localGeneration
                   \/ \E i \in 1..Len(journal) : journal[i].id = r /\ Deleted(i) /\ i > raw[r].ver
                   \/ raw[r].ver # 0 /\ Deleted(raw[r].ver)
<1>1. view'[r] # view[r] /\ view[r] \in Row /\ Fine(r)
  BY DEF TypeOK, ViewInv
<1>2. ASSUME NEW t \in Tabs, Apply(t) PROVE Goal
  <2>1. PICK w : w = Change(pull[t].page, r, pull[t].off, SliceEnd(pull[t]))
    OBVIOUS
  <2>2. w # 0 /\ ~Skipped(r, w, pull[t].page.mode, Current) /\ view'[r] = Materialized(view[r], w, Current)
    BY <1>1, <1>2, <2>1, ApplyViews DEF SliceView
  <2>3. /\ Since # -1 /\ w \in 1..Len(journal) /\ journal[w].id = r
        /\ raw[r].gen = Current => w > raw[r].ver
        /\ Deleted(w) => w > Since
    BY <1>2, <2>1, <2>2, Brought
  <2>4. Deleted(w)
    BY <1>1, <2>2, Materializing
  <2>5. w > raw[r].ver
    BY <2>3, <2>4, Typed DEF CoverInv, RowInv
  <2> QED BY <2>3, <2>4, <2>5
<1>3. ASSUME NEW t \in Tabs, Reset(t) PROVE Goal
  BY <1>3, Typed DEF Reset, FreshState, Current
<1>4. ASSUME NEW t \in Tabs, Walk(t) PROVE Goal
  <2>1. Omitted(r) /\ Retiring /\ state.generation = Current /\ state.cursor.kind = "delta"
    <3>1. Retiring /\ state.cursor.kind = "delta" /\ state.generation = Current
      BY <1>4 DEF Walk, WalkHeld, CoverInv, HandoverInv, TagInv
    <3>2. Omitted(r)
      <4>1. state.retirement.at \in Nat
        BY DEF TypeOK, StateType
      <4>2. \E x : /\ x = WalkRow
                   /\ view' = view \/ (Omitted(x) /\ view' = [view EXCEPT ![x] = Absent])
        BY <1>4, <4>1 DEF Walk
      <4> QED BY <1>1, <4>2 DEF TypeOK
    <3> QED BY <3>1, <3>2
  <2>2. DeltaCovers(state.cursor)
    BY <2>1 DEF CoverInv, CommittedCovers, Covers
  <2>3. PICK x, v : x = state.cursor.at /\ v = LastIn(r, 0, x)
    OBVIOUS
  <2>4. Since # -1 /\ Since <= x /\ x <= Len(journal) /\ x \in Nat /\ Reached(r, x) /\ IsLast(v, r, 0, x)
    BY <2>2, <2>3, LastIsLast, Typed DEF DeltaCovers, LastFacts, TypeOK, StateType, Cursor
  <2>5. raw[r].ver = 0 \/ raw[r].gen # Current \/ Deleted(raw[r].ver)
    BY <2>1 DEF Omitted, Confirmed
  <2>6. CASE raw[r].ver # 0 /\ Deleted(raw[r].ver)
    BY <2>6
  <2>7. CASE raw[r].ver = 0 \/ raw[r].gen # Current
    <3>1. LastIn(r, 0, Since) # 0
      BY <1>1, <2>1, <2>4, <2>7 DEF Fine, Known, Shown
    <3>2. IsLast(LastIn(r, 0, Since), r, 0, Since)
      BY LastIsLast, Typed DEF LastFacts
    <3>3. v # 0
      BY <2>4, <3>1, <3>2, Typed DEF IsLast
    <3>4. Gone(r, v)
      BY <2>3, <2>4, <2>7, <3>3, Typed DEF Reached, IsLast
    <3>5. PICK d \in v..Len(journal) : journal[d].id = r /\ Deleted(d)
      BY <3>4 DEF Gone
    <3>6. CASE raw[r].ver = 0
      BY <2>4, <3>3, <3>5, <3>6, Typed DEF IsLast
    <3>7. CASE raw[r].ver # 0
      <4>1. raw[r].ver <= v
        <5>1. raw[r].ver \in 1..Len(journal) /\ journal[raw[r].ver].id = r /\ raw[r].ver <= Since
          BY <2>4, <2>7, <3>7, Typed DEF CoverInv, RowInv
        <5> QED BY <2>4, <3>3, <5>1, Typed DEF IsLast
      <4>2. d \in 1..Len(journal) /\ raw[r].ver <= d
        BY <2>4, <3>3, <3>5, <4>1, Typed DEF IsLast
      <4>3. d = raw[r].ver \/ d > raw[r].ver
        BY <4>2, Typed
      <4> QED BY <3>5, <3>7, <4>2, <4>3
    <3> QED BY <3>6, <3>7
  <2> QED BY <2>5, <2>6, <2>7
<1>5. ASSUME ReconcileConflicts PROVE Goal
  <2>1. Reconciled(r) /\ view'[r] = Materialized(view[r], raw[r].ver, state.generation)
    BY <1>1, <1>5, ReconcileViews
  <2>2. Deleted(raw[r].ver)
    BY <1>1, <2>1, Materializing
  <2> QED BY <2>1, <2>2 DEF Reconciled, Settleable
<1>6. ASSUME NEW x \in Records, AcceptRemote(x) PROVE Goal
  <2>1. view' = [view EXCEPT ![x] = Materialized(Absent, raw[x].ver, state.generation)] /\ raw[x].ver # 0
    BY <1>6 DEF AcceptRemote, Settleable
  <2>2. x = r /\ view'[r] = Materialized(Absent, raw[r].ver, state.generation)
    BY <1>1, <2>1 DEF TypeOK
  <2>3. Absent.status = "absent" /\ Absent.ver = 0 /\ raw[r].ver \in Nat
    BY Typed DEF Absent
  <2>4. ~Deleted(raw[r].ver) =>
          Materialized(Absent, raw[r].ver, state.generation) = [ver |-> raw[r].ver, status |-> "synced", gen |-> state.generation]
    BY <2>3 DEF Materialized
  <2> QED BY <1>1, <2>1, <2>2, <2>4
<1>7. ASSUME NEW x \in Records,
             LocalEdit(x) \/ Acknowledge(x) \/ Republish(x) \/ Fail(x) \/ GiveUp(x, TRUE) \/ GiveUp(x, FALSE)
      PROVE  Goal
  <2>1. x = r
    BY <1>1, <1>7 DEF LocalEdit, Acknowledge, Republish, Fail, GiveUp, Put, TypeOK
  <2>2. view'[r].status # "absent"
    <3>1. cmd[r] \in CommandType /\ CommandOf(r)
      BY <1>1 DEF TypeOK, Fine
    <3>2. Fail(r) \/ GiveUp(r, TRUE) \/ GiveUp(r, FALSE) => cmd[r].prev \in Row /\ cmd[r].prev.status = "synced"
      BY <3>1 DEF CommandOf, CommandType, Fail, GiveUp
    <3>3. CASE LocalEdit(r)
      <4>1. view'[r] = [view[r] EXCEPT !.status = "pending"]
        BY <3>3 DEF LocalEdit, TypeOK
      <4> QED BY <1>1, <4>1 DEF Row
    <3>4. CASE Acknowledge(r) \/ Republish(r)
      <4>1. view'[r] = Accepted(r)
        BY <3>4 DEF Acknowledge, Republish, Put, TypeOK
      <4> QED BY <4>1 DEF Accepted
    <3>5. CASE Fail(r) \/ GiveUp(r, TRUE)
      <4>1. view'[r] = cmd[r].prev
        BY <3>5 DEF Fail, GiveUp, Put, TypeOK
      <4> QED BY <3>2, <3>5, <4>1
    <3>6. CASE GiveUp(r, FALSE)
      <4>1. view'[r] = [cmd[r].prev EXCEPT !.status = "pending"]
        BY <3>6 DEF GiveUp, Put, TypeOK
      <4> QED BY <3>2, <3>6, <4>1 DEF Row
    <3> QED BY <1>7, <2>1, <3>3, <3>4, <3>5, <3>6
  <2> QED BY <2>2
<1> HIDE DEF Goal
<1>8. ASSUME UNCHANGED view PROVE Goal
  BY <1>1, <1>8
<1>9. ASSUME NEW t \in Tabs, Download(t) \/ Abort(t) \/ Denied(t, TRUE) \/ Denied(t, FALSE) PROVE Goal
  <2>1. Begin(t) \/ Read(t) \/ Replay(t) \/ FinishWalk(t) \/ Reject(t) \/ Abort(t)
          \/ Denied(t, TRUE) \/ Denied(t, FALSE) => UNCHANGED view
    BY DEF Begin, Read, Replay, FinishWalk, Reject, Abort, Denied
  <2>2. Settle(t) => ReconcileConflicts
    BY DEF Settle
  <2> QED BY <1>2, <1>3, <1>4, <1>5, <1>8, <1>9, <2>1, <2>2 DEF Download
<1>10. ASSUME NEW x \in Records,
             \/ TowerWrite(x, "upsert") \/ TowerWrite(x, "delete")
             \/ LocalEdit(x) \/ TowerAccept(x) \/ AcceptRemote(x)
             \/ Acknowledge(x) \/ AcknowledgedReconcile(x) \/ Republish(x)
             \/ Fail(x) \/ GiveUp(x, TRUE) \/ GiveUp(x, FALSE)
      PROVE  Goal
  <2>1. TowerWrite(x, "upsert") \/ TowerWrite(x, "delete") \/ TowerAccept(x) => UNCHANGED view
    BY DEF TowerWrite, TowerAccept
  <2>2. AcknowledgedReconcile(x) => ReconcileConflicts
    BY DEF AcknowledgedReconcile
  <2> QED BY <1>5, <1>6, <1>7, <1>8, <1>10, <2>1, <2>2
<1>11. ASSUME Restart \/ UNCHANGED vars PROVE Goal
  BY <1>8, <1>11 DEF Restart, vars
<1>12. Goal
  BY <1>9, <1>10, <1>11 DEF Next
<1> QED BY <1>12 DEF Goal

\* No stale page, replay, reconciliation or omission walk takes a live row off
\* the screen.
THEOREM LiveRowsRemain == Spec => LiveRowsStay
<1>1. TypeOK /\ TypeOK' /\ CursorInv /\ CoverInv /\ ViewInv /\ [Next]_vars
        => [\A r \in Records : view[r].status # "absent" /\ view'[r].status = "absent" =>
              \/ state'.localGeneration > state.localGeneration
              \/ \E i \in 1..Len(journal) : journal[i].id = r /\ Deleted(i) /\ i > raw[r].ver
              \/ raw[r].ver # 0 /\ Deleted(raw[r].ver)]_vars
  BY ViewLiveRows
<1> QED BY <1>1, TypeCorrect, CursorInvariant, CoverInvariant, ViewInvariant, PTL DEF Spec, LiveRowsStay
============================================================================
