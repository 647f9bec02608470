--------------------------- MODULE EditLeaseProofs ---------------------------
(***************************************************************************)
(* Proofs about EditLease for any number of leases, visits and faults: its *)
(* types, that an editor waiting for edit access is answered, and that no  *)
(* lease is left at Tower that the tab does not know of.                   *)
(***************************************************************************)
EXTENDS EditLease, TLAPS

\* A request has a lease from the moment it is about one.
RequestInv ==
  /\ acq.pc # "granted" => acq.lease = 0
  /\ acq.pc = "granted" => acq.lease # 0
  /\ ren.pc = "none" => ren = NoRen
  /\ ren.pc # "none" => ren.lease # 0
  /\ rel.pc = "none" => rel.lease = 0
  /\ rel.pc # "none" => rel.lease # 0

\* An editor that is closed waits for nothing.
EditorInv == ~ed.open => ed.access = "ready"

\* Leases are given out in order.
LeaseOrder ==
  /\ lease <= leases /\ session.lease <= leases /\ acq.lease <= leases
  /\ ren.lease <= leases /\ rel.lease <= leases

\* A lease that was given back is not in force any more, and none is asked for
\* while the session has one.
CrossingInv ==
  /\ rel.pc = "released" => lease # rel.lease
  /\ acq.pc # "none" => astray \/ session.lease = 0

LeaseInv ==
  TypeOK /\ RequestInv /\ EditorInv /\ LeaseOrder /\ CrossingInv /\ AcquiringIsAnswered /\ LeaseKnown

----------------------------------------------------------------------------
(* Values and their fields.                                                 *)

Access == {"ready", "acquiring", "editing", "blocked", "recovery"}

\* The values of a tab without editor, session or request.
LEMMA Values ==
  /\ Closed \in EditorType /\ ~Closed.open /\ Closed.access = "ready"
  /\ NoSession \in SessionType /\ ~NoSession.held /\ NoSession.lease = 0
  /\ NoAcq \in AcquireType /\ NoAcq.pc = "none" /\ NoAcq.lease = 0
  /\ NoRen \in RenewType /\ NoRen.pc = "none" /\ NoRen.lease = 0
  /\ NoRel \in ReleaseType /\ NoRel.pc = "none" /\ NoRel.lease = 0
  /\ NoSave \in SaveType
<1>1. 0 \in 0..MaxLeases /\ 0 \in 0..MaxVisits
  BY BoundAssumption
<1>2. Closed \in EditorType /\ ~Closed.open /\ Closed.access = "ready"
  BY DEF Closed, EditorType
<1>3. NoSession \in SessionType /\ ~NoSession.held /\ NoSession.lease = 0
  BY <1>1 DEF NoSession, SessionType
<1>4. NoAcq \in AcquireType /\ NoAcq.pc = "none" /\ NoAcq.lease = 0
  BY <1>1 DEF NoAcq, AcquireType
<1>5. NoRen \in RenewType /\ NoRen.pc = "none" /\ NoRen.lease = 0
  BY <1>1 DEF NoRen, RenewType
<1>6. NoRel \in ReleaseType /\ NoRel.pc = "none" /\ NoRel.lease = 0
  BY <1>1 DEF NoRel, ReleaseType
<1>7. NoSave \in SaveType
  BY <1>1 DEF NoSave, SaveType
<1> QED BY <1>2, <1>3, <1>4, <1>5, <1>6, <1>7

\* The numbers of a typed state.
LEMMA Numbers ==
  ASSUME TypeOK
  PROVE  /\ lease \in Int /\ leases \in Nat /\ MaxLeases \in Nat
         /\ session.lease \in Nat /\ acq.lease \in Nat /\ ren.lease \in Nat /\ rel.lease \in Nat
<1>1. lease \in Int /\ leases \in Nat /\ MaxLeases \in Nat
  BY BoundAssumption DEF TypeOK, Theirs
<1>2. session.lease \in Nat
  BY DEF TypeOK, SessionType
<1>3. acq.lease \in Nat
  BY DEF TypeOK, AcquireType
<1>4. ren.lease \in Nat
  BY DEF TypeOK, RenewType
<1>5. rel.lease \in Nat
  BY DEF TypeOK, ReleaseType
<1> QED BY <1>1, <1>2, <1>3, <1>4, <1>5

\* An editor whose access changes keeps the rest.
LEMMA Accessed ==
  ASSUME NEW e \in EditorType, NEW a \in Access
  PROVE  /\ [e EXCEPT !.access = a] \in EditorType
         /\ [e EXCEPT !.access = a].open = e.open /\ [e EXCEPT !.access = a].access = a
BY DEF EditorType, Access

\* The same of a draft.
LEMMA Drafted ==
  ASSUME NEW e \in EditorType, NEW d \in BOOLEAN
  PROVE  /\ [e EXCEPT !.dirty = d] \in EditorType
         /\ [e EXCEPT !.dirty = d].open = e.open /\ [e EXCEPT !.dirty = d].access = e.access
BY DEF EditorType

\* A release under way stays the one it is, or one of the session's lease begins.
ReleaseMoves ==
  /\ rel' \in ReleaseType
  /\ \/ rel'.pc = rel.pc /\ rel'.lease = rel.lease
     \/ rel.pc = "none" /\ rel'.pc = "sent" /\ rel'.lease = session.lease /\ session.lease # 0

\* What a release changes.
LEMMA ReleaseEffect ==
  ASSUME TypeOK, NEW exit \in BOOLEAN, Release(exit)
  PROVE  renewing' = FALSE /\ ReleaseMoves
<1>1. rel \in ReleaseType /\ session.lease \in 0..MaxLeases /\ renewing' = FALSE
  BY DEF TypeOK, SessionType, Release
<1>2. CASE session.lease = 0
  BY <1>1, <1>2 DEF Release, ReleaseMoves
<1>3. CASE session.lease # 0 /\ rel.pc = "none"
  <2>1. rel' = [pc |-> "sent", lease |-> session.lease, exit |-> exit]
    BY <1>3 DEF Release
  <2> QED BY <1>1, <1>3, <2>1 DEF ReleaseMoves, ReleaseType
<1>4. CASE session.lease # 0 /\ rel.pc # "none"
  <2>1. rel' = [rel EXCEPT !.exit = rel.exit \/ exit]
    BY <1>4 DEF Release
  <2> QED BY <1>1, <2>1 DEF ReleaseMoves, ReleaseType
<1> QED BY <1>2, <1>3, <1>4

----------------------------------------------------------------------------
(* The steps keep the invariant.                                            *)

\* Nothing is asked for yet.
LEMMA LeaseInit == Init => LeaseInv
<1> SUFFICES ASSUME Init PROVE LeaseInv
  OBVIOUS
<1>1. TypeOK
  <2>1. 0 \in 0..MaxLeases /\ 0 \in Theirs..MaxLeases /\ 0 \in 0..MaxVisits /\ 0 \in 0..MaxFaults
    BY BoundAssumption DEF Theirs
  <2> QED BY <2>1, Values DEF Init, TypeOK
<1>2. RequestInv /\ EditorInv /\ LeaseOrder /\ CrossingInv /\ AcquiringIsAnswered /\ LeaseKnown
  BY Values DEF Init, RequestInv, EditorInv, LeaseOrder, CrossingInv, AcquiringIsAnswered, LeaseKnown
<1> QED BY <1>1, <1>2 DEF LeaseInv

\* A step that moves no lease keeps what is said of them.
LEMMA LeasesStay ==
  ASSUME LeaseInv, UNCHANGED <<lease, leases, session, acq, ren, astray>>, ReleaseMoves
  PROVE  RequestInv' /\ LeaseOrder' /\ CrossingInv' /\ LeaseKnown'
BY Numbers DEF LeaseInv, RequestInv, LeaseOrder, CrossingInv, LeaseKnown, ReleaseMoves

\* An editor that waits for no more than before is still answered.
LEMMA EditorStays ==
  ASSUME EditorInv, AcquiringIsAnswered, UNCHANGED <<acq, visits>>,
         ed'.access \in {ed.access, "ready"} \/ (ed'.open /\ ed'.access # "acquiring"),
         ed'.open = ed.open \/ ed'.access = "ready" \/ ed'.open
  PROVE  EditorInv' /\ AcquiringIsAnswered'
BY DEF EditorInv, AcquiringIsAnswered

\* The steps of other people and of Tower's clock.
LEMMA LeaseOthers ==
  ASSUME LeaseInv, OthersTake \/ OthersLeave \/ Expire
  PROVE  LeaseInv'
<1>1. TypeOK /\ RequestInv /\ EditorInv /\ AcquiringIsAnswered
  BY DEF LeaseInv
<1>2. UNCHANGED <<ed, session, renewing, acq, ren, rel, leaving, save, astray, leases, visits>>
  BY DEF OthersTake, OthersLeave, Expire, Fault, local, requests, counters
<1>3. lease' \in {0, Theirs}
  BY DEF OthersTake, OthersLeave, Expire
<1>4. behind' \in BOOLEAN
  BY <1>1 DEF OthersTake, OthersLeave, Expire, Fault, TypeOK, EditorType
<1>5. faults' \in 0..MaxFaults
  BY <1>1, BoundAssumption DEF OthersTake, OthersLeave, Expire, Fault, counters, TypeOK
<1>6. lease' \in Theirs..MaxLeases
  BY <1>3, BoundAssumption DEF Theirs
<1>7. TypeOK'
  BY <1>1, <1>2, <1>4, <1>5, <1>6 DEF TypeOK
<1>8. RequestInv' /\ EditorInv' /\ AcquiringIsAnswered'
  BY <1>1, <1>2 DEF RequestInv, EditorInv, AcquiringIsAnswered
<1>9. LeaseOrder' /\ CrossingInv' /\ LeaseKnown'
  BY <1>1, <1>2, <1>3, Numbers DEF LeaseInv, RequestInv, LeaseOrder, CrossingInv, LeaseKnown, Theirs
<1> QED BY <1>7, <1>8, <1>9 DEF LeaseInv

\* The document is opened, closed or hidden.
LEMMA LeaseOpen ==
  ASSUME LeaseInv, Open \/ Close \/ Hide
  PROVE  LeaseInv'
<1>1. TypeOK /\ EditorInv /\ AcquiringIsAnswered
  BY DEF LeaseInv
<1>2. ed' \in EditorType /\ ed'.access = "ready"
  <2>1. CASE Open
    <3>1. ed' = [Closed EXCEPT !.open = TRUE]
      BY <2>1 DEF Open
    <3> QED BY <3>1 DEF Closed, EditorType
  <2>2. CASE Close
    BY <2>2, Values DEF Close
  <2>3. CASE Hide
    <3>1. ed' = [ed EXCEPT !.access = "ready"] /\ "ready" \in Access
      BY <2>3 DEF Hide, Access
    <3> QED BY <1>1, <3>1, Accessed DEF TypeOK
  <2> QED BY <2>1, <2>2, <2>3
<1>3. /\ UNCHANGED <<lease, leases, session, acq, ren, save, astray, faults>>
      /\ visits' \in 0..MaxVisits /\ behind' \in BOOLEAN
  <2>1. UNCHANGED <<lease, leases, session, acq, ren, save, astray, faults>>
    BY DEF Open, Close, Hide, local, requests, counters
  <2>2. visits' = visits \/ (visits < MaxVisits /\ visits' = visits + 1)
    BY DEF Open, Close, Hide, counters
  <2>3. visits' \in 0..MaxVisits
    BY <1>1, <2>2, BoundAssumption DEF TypeOK
  <2>4. behind' \in {behind, FALSE}
    BY DEF Open, Close, Hide
  <2> QED BY <1>1, <2>1, <2>3, <2>4 DEF TypeOK
<1>4. renewing' \in BOOLEAN /\ leaving' \in BOOLEAN /\ ReleaseMoves
  <2>1. \/ Release(FALSE) /\ UNCHANGED leaving
        \/ leaving' = TRUE /\ renewing' \in {renewing, FALSE} /\ UNCHANGED rel
        \/ UNCHANGED <<renewing, leaving, rel>>
    BY DEF Open, Close, Hide, Leave, local, requests
  <2>2. CASE Release(FALSE) /\ UNCHANGED leaving
    BY <1>1, <2>2, ReleaseEffect DEF TypeOK
  <2>3. CASE leaving' \in {leaving, TRUE} /\ renewing' \in {renewing, FALSE} /\ UNCHANGED rel
    BY <1>1, <2>3 DEF TypeOK, ReleaseMoves
  <2> QED BY <2>1, <2>2, <2>3
<1>5. TypeOK'
  BY <1>1, <1>2, <1>3, <1>4 DEF TypeOK, ReleaseMoves
<1>6. EditorInv' /\ AcquiringIsAnswered'
  BY <1>2 DEF EditorInv, AcquiringIsAnswered
<1> QED BY <1>3, <1>4, <1>5, <1>6, LeasesStay DEF LeaseInv

\* The user begins to edit: a lease is used again, or asked for.
LEMMA LeaseEdit ==
  ASSUME LeaseInv, Edit
  PROVE  LeaseInv'
<1>1. TypeOK /\ RequestInv
  BY DEF LeaseInv
<1>2. UNCHANGED <<lease, behind, session, ren, rel, leaving, save, astray, leases, visits, faults>>
  BY DEF Edit, counters
<1>3. PICK e : Begins(e) /\ e \in EditorType /\ e.open /\ e.access = "ready"
  <2>1. PICK typed \in BOOLEAN : Begins([ed EXCEPT !.access = "ready", !.dirty = ed.dirty \/ typed])
    BY DEF Edit
  <2>2. PICK e : e = [ed EXCEPT !.access = "ready", !.dirty = ed.dirty \/ typed]
    OBVIOUS
  <2>3. e \in EditorType /\ e.open /\ e.access = "ready"
    BY <1>1, <2>2 DEF Edit, TypeOK, EditorType
  <2> QED BY <2>1, <2>2, <2>3
<1>4. /\ ed' \in EditorType /\ ed'.open /\ renewing' \in BOOLEAN
      /\ \/ acq' = acq /\ ed'.access # "acquiring"
         \/ /\ acq = NoAcq /\ acq' = [pc |-> "sent", visit |-> visits, lease |-> 0] /\ session.lease = 0
  <2>1. /\ ed' = IF acq # NoAcq THEN e ELSE [e EXCEPT !.access = IF session.lease # 0 THEN "editing" ELSE "acquiring"]
        /\ acq' = IF acq = NoAcq /\ session.lease = 0 THEN [pc |-> "sent", visit |-> visits, lease |-> 0] ELSE acq
        /\ renewing' \in BOOLEAN
    BY <1>3 DEF Begins
  <2>2. \A a \in Access : /\ [e EXCEPT !.access = a] \in EditorType
                          /\ [e EXCEPT !.access = a].open = e.open /\ [e EXCEPT !.access = a].access = a
    BY <1>3, Accessed
  <2>3. CASE acq # NoAcq
    BY <1>3, <2>1, <2>3
  <2>4. CASE acq = NoAcq /\ session.lease # 0
    <3>1. ed' = [e EXCEPT !.access = "editing"] /\ acq' = acq /\ "editing" \in Access
      BY <2>1, <2>4 DEF Access
    <3> QED BY <1>3, <2>1, <2>2, <3>1
  <2>5. CASE acq = NoAcq /\ session.lease = 0
    <3>1. ed' = [e EXCEPT !.access = "acquiring"] /\ "acquiring" \in Access
      BY <2>1, <2>5 DEF Access
    <3> QED BY <1>3, <2>1, <2>2, <2>5, <3>1
  <2> QED BY <2>3, <2>4, <2>5
<1>5. CASE acq' = acq /\ ed'.access # "acquiring"
  <2>1. TypeOK' /\ EditorInv' /\ AcquiringIsAnswered'
    BY <1>1, <1>2, <1>4, <1>5 DEF TypeOK, EditorInv, AcquiringIsAnswered
  <2>2. ReleaseMoves
    BY <1>1, <1>2 DEF ReleaseMoves, TypeOK
  <2> QED BY <1>2, <1>5, <2>1, <2>2, LeasesStay DEF LeaseInv
<1>6. CASE acq = NoAcq /\ acq' = [pc |-> "sent", visit |-> visits, lease |-> 0] /\ session.lease = 0
  <2>1. acq' \in AcquireType /\ acq'.pc = "sent" /\ acq'.visit = visits /\ acq'.lease = 0
    BY <1>1, <1>6, BoundAssumption DEF TypeOK, AcquireType
  <2>2. TypeOK' /\ EditorInv' /\ AcquiringIsAnswered'
    BY <1>1, <1>2, <1>4, <2>1 DEF TypeOK, EditorInv, AcquiringIsAnswered
  <2>3. RequestInv' /\ LeaseOrder' /\ CrossingInv' /\ LeaseKnown'
    BY <1>1, <1>2, <1>6, <2>1, Numbers, Values DEF LeaseInv, RequestInv, LeaseOrder, CrossingInv, LeaseKnown
  <2> QED BY <2>2, <2>3 DEF LeaseInv
<1> QED BY <1>4, <1>5, <1>6

\* The user types, or the editor notices that the document has changed at Tower.
LEMMA LeaseDraft ==
  ASSUME LeaseInv, Type \/ Diverge
  PROVE  LeaseInv'
<1>1. TypeOK /\ EditorInv /\ AcquiringIsAnswered
  BY DEF LeaseInv
<1>2. UNCHANGED <<lease, behind, session, acq, ren, leaving, save, astray, leases, visits, faults>> /\ ed.open
  BY DEF Type, Diverge, local, requests, counters
<1>3. ed' \in EditorType /\ ed'.open = ed.open /\ (ed'.access = ed.access \/ ed'.access = "recovery")
  <2>1. CASE Type
    BY <1>1, <2>1, Drafted DEF Type, TypeOK
  <2>2. CASE Diverge
    <3>1. ed' = [ed EXCEPT !.access = "recovery"] /\ "recovery" \in Access
      BY <2>2 DEF Diverge, Access
    <3> QED BY <1>1, <3>1, Accessed DEF TypeOK
  <2> QED BY <2>1, <2>2
<1>4. renewing' \in BOOLEAN /\ ReleaseMoves
  BY <1>1, ReleaseEffect DEF Type, Diverge, local, requests, TypeOK, ReleaseMoves
<1>5. TypeOK'
  BY <1>1, <1>2, <1>3, <1>4 DEF TypeOK, ReleaseMoves
<1>6. EditorInv' /\ AcquiringIsAnswered'
  BY <1>1, <1>2, <1>3 DEF EditorInv, AcquiringIsAnswered
<1> QED BY <1>2, <1>4, <1>5, <1>6, LeasesStay DEF LeaseInv

\* A draft is discarded, and the session with it.
LEMMA LeaseDiscard ==
  ASSUME LeaseInv, Discard
  PROVE  LeaseInv'
<1>1. TypeOK /\ RequestInv /\ EditorInv /\ AcquiringIsAnswered
  BY DEF LeaseInv
<1>2. /\ UNCHANGED <<lease, renewing, acq, ren, rel, leaving, save, leases, visits, faults>>
      /\ session' = NoSession /\ behind' = FALSE /\ astray' = (astray \/ session # NoSession) /\ ed.open
  BY DEF Discard, requests, counters
<1>3. ed' \in EditorType /\ ed'.open /\ ed'.access # "acquiring"
  <2>1. ed' = [ed EXCEPT !.dirty = FALSE, !.access = IF lease # 0 THEN "blocked" ELSE "ready"]
    BY DEF Discard
  <2> QED BY <1>1, <1>2, <2>1 DEF TypeOK, EditorType
<1>4. TypeOK'
  BY <1>1, <1>2, <1>3, Values DEF TypeOK
<1>5. EditorInv' /\ AcquiringIsAnswered' /\ RequestInv'
  BY <1>1, <1>2, <1>3 DEF EditorInv, AcquiringIsAnswered, RequestInv
<1>6. LeaseOrder' /\ CrossingInv'
  BY <1>1, <1>2, Values, Numbers DEF LeaseInv, LeaseOrder, CrossingInv
<1>7. LeaseKnown'
  <2>1. CASE session = NoSession
    BY <1>2, <2>1 DEF LeaseInv, LeaseKnown
  <2>2. CASE session # NoSession
    BY <1>2, <2>2 DEF LeaseKnown
  <2> QED BY <2>1, <2>2
<1> QED BY <1>4, <1>5, <1>6, <1>7 DEF LeaseInv

\* Tower grants or refuses a lease.
LEMMA LeaseAcquireArrive ==
  ASSUME LeaseInv, AcquireArrive
  PROVE  LeaseInv'
<1>1. TypeOK /\ RequestInv /\ EditorInv /\ AcquiringIsAnswered /\ acq \in AcquireType
  BY DEF LeaseInv, TypeOK
<1>2. UNCHANGED <<behind, ed, session, renewing, ren, rel, leaving, save, astray, visits, faults>> /\ acq.pc = "sent"
  BY DEF AcquireArrive, local
<1>3. \/ /\ leases < MaxLeases /\ lease' = leases + 1 /\ leases' = leases + 1
         /\ acq' = [acq EXCEPT !.pc = "granted", !.lease = leases + 1]
      \/ acq' = [acq EXCEPT !.pc = "refused"] /\ UNCHANGED <<lease, leases>>
  BY DEF AcquireArrive
<1>4. CASE /\ leases < MaxLeases /\ lease' = leases + 1 /\ leases' = leases + 1
           /\ acq' = [acq EXCEPT !.pc = "granted", !.lease = leases + 1]
  <2>1. leases + 1 \in 0..MaxLeases /\ leases + 1 \in Theirs..MaxLeases
    BY <1>1, <1>4, Numbers DEF Theirs
  <2>2. acq' \in AcquireType /\ acq'.pc = "granted" /\ acq'.lease = leases + 1 /\ acq'.visit = acq.visit
    BY <1>1, <1>4, <2>1 DEF AcquireType
  <2>3. TypeOK'
    BY <1>1, <1>2, <1>4, <2>1, <2>2 DEF TypeOK
  <2>4. EditorInv' /\ AcquiringIsAnswered' /\ RequestInv'
    BY <1>1, <1>2, <2>2, Numbers DEF EditorInv, AcquiringIsAnswered, RequestInv
  <2>5. LeaseOrder' /\ CrossingInv' /\ LeaseKnown'
    BY <1>1, <1>2, <1>4, <2>2, Numbers DEF LeaseInv, LeaseOrder, CrossingInv, LeaseKnown
  <2> QED BY <2>3, <2>4, <2>5 DEF LeaseInv
<1>5. CASE acq' = [acq EXCEPT !.pc = "refused"] /\ UNCHANGED <<lease, leases>>
  <2>1. acq' \in AcquireType /\ acq'.pc = "refused" /\ acq'.lease = acq.lease /\ acq'.visit = acq.visit
    BY <1>1, <1>5 DEF AcquireType
  <2>2. TypeOK'
    BY <1>1, <1>2, <1>5, <2>1 DEF TypeOK
  <2>3. EditorInv' /\ AcquiringIsAnswered' /\ RequestInv'
    BY <1>1, <1>2, <2>1 DEF EditorInv, AcquiringIsAnswered, RequestInv
  <2>4. LeaseOrder' /\ CrossingInv' /\ LeaseKnown'
    BY <1>2, <1>5, <2>1 DEF LeaseInv, LeaseOrder, CrossingInv, LeaseKnown
  <2> QED BY <2>2, <2>3, <2>4 DEF LeaseInv
<1> QED BY <1>3, <1>4, <1>5

\* The answer to a request for a lease: one that comes too late is given back.
LEMMA LeaseAcquireAnswer ==
  ASSUME LeaseInv, AcquireAnswer
  PROVE  LeaseInv'
<1>1. TypeOK /\ RequestInv /\ EditorInv /\ AcquiringIsAnswered
  BY DEF LeaseInv
<1>2. PICK current : current = (ed.open /\ acq.visit = visits) /\ current \in BOOLEAN
  OBVIOUS
<1>3. /\ UNCHANGED <<lease, behind, ren, leaving, save, astray, leases, visits, faults>>
      /\ acq.pc \in {"granted", "refused"} /\ acq' = NoAcq
      /\ IF acq.pc = "granted" THEN Granted(current) ELSE Refused
      /\ ed' = IF ~current THEN ed
               ELSE [ed EXCEPT !.access = IF acq.pc = "granted" THEN "editing" ELSE "blocked"]
  BY <1>2 DEF AcquireAnswer, counters
<1>4. ed' \in EditorType /\ EditorInv' /\ AcquiringIsAnswered'
  <2>1. CASE ~current
    <3>1. ed' = ed /\ ed \in EditorType
      BY <1>1, <1>3, <2>1 DEF TypeOK
    <3>2. ed.access # "acquiring"
      BY <1>1, <1>2, <2>1 DEF AcquiringIsAnswered, EditorInv
    <3> QED BY <1>1, <3>1, <3>2 DEF AcquiringIsAnswered, EditorInv
  <2>2. CASE current
    <3>1. PICK a \in Access : a # "acquiring" /\ ed' = [ed EXCEPT !.access = a]
      BY <1>3, <2>2 DEF Access
    <3>2. ed' \in EditorType /\ ed'.open = ed.open /\ ed'.access = a
      BY <1>1, <3>1, Accessed DEF TypeOK
    <3> QED BY <1>2, <2>2, <3>1, <3>2 DEF AcquiringIsAnswered, EditorInv
  <2> QED BY <1>2, <2>1, <2>2
<1>5. CASE acq.pc = "granted"
  <2>1. /\ session' = [lease |-> acq.lease, held |-> TRUE] /\ renewing' = current
        /\ rel' = IF current \/ rel # NoRel THEN rel ELSE [pc |-> "sent", lease |-> acq.lease, exit |-> FALSE]
    BY <1>3, <1>5 DEF Granted
  <2>2. acq.lease # 0 /\ acq.lease \in 0..MaxLeases
    BY <1>1, <1>5 DEF RequestInv, TypeOK, AcquireType
  <2>3. session' \in SessionType /\ session'.lease = acq.lease
    BY <2>1, <2>2 DEF SessionType
  <2>4. /\ rel' \in ReleaseType
        /\ \/ rel' = rel
           \/ rel = NoRel /\ rel'.pc = "sent" /\ rel'.lease = acq.lease
    <3>1. CASE rel' = rel
      BY <1>1, <3>1 DEF TypeOK
    <3>2. CASE rel' # rel
      <4>1. rel = NoRel /\ rel' = [pc |-> "sent", lease |-> acq.lease, exit |-> FALSE]
        BY <2>1, <3>2
      <4> QED BY <2>2, <4>1 DEF ReleaseType
    <3> QED BY <3>1, <3>2
  <2>5. TypeOK'
    BY <1>1, <1>2, <1>3, <1>4, <2>1, <2>2, <2>3, <2>4, Values DEF TypeOK
  <2>6. RequestInv'
    BY <1>1, <1>3, <2>2, <2>4, Values DEF RequestInv
  <2>7. LeaseOrder' /\ CrossingInv' /\ LeaseKnown'
    BY <1>1, <1>3, <1>5, <2>2, <2>3, <2>4, Values, Numbers
       DEF LeaseInv, RequestInv, LeaseOrder, CrossingInv, LeaseKnown
  <2> QED BY <1>4, <2>5, <2>6, <2>7 DEF LeaseInv
<1>6. CASE acq.pc = "refused"
  <2>1. session' = NoSession /\ UNCHANGED <<renewing, rel>>
    BY <1>3, <1>6 DEF Refused
  <2>2. TypeOK'
    BY <1>1, <1>3, <1>4, <2>1, Values DEF TypeOK
  <2>3. RequestInv'
    BY <1>1, <1>3, <2>1, Values DEF RequestInv
  <2>4. LeaseOrder' /\ CrossingInv' /\ LeaseKnown'
    BY <1>1, <1>3, <1>6, <2>1, Values, Numbers DEF LeaseInv, RequestInv, LeaseOrder, CrossingInv, LeaseKnown
  <2> QED BY <1>4, <2>2, <2>3, <2>4 DEF LeaseInv
<1> QED BY <1>3, <1>5, <1>6

\* The renewal timer.
LEMMA LeaseRenew ==
  ASSUME LeaseInv, Renew
  PROVE  LeaseInv'
<1>1. TypeOK /\ RequestInv /\ EditorInv /\ AcquiringIsAnswered
  BY DEF LeaseInv
<1>2. UNCHANGED <<lease, behind, ed, session, acq, rel, leaving, save, astray, leases, visits, faults>>
  BY DEF Renew, counters
<1>3. /\ renewing' \in BOOLEAN /\ ren' \in RenewType
      /\ \/ ren' = ren
         \/ session.lease # 0 /\ ren'.pc # "none" /\ ren'.lease = session.lease
  <2>1. CASE session.lease # 0
    <3>1. ren' = [pc |-> IF lease = session.lease THEN "renewed" ELSE "refused", lease |-> session.lease]
      BY <2>1 DEF Renew
    <3>2. session.lease \in 0..MaxLeases /\ renewing' \in BOOLEAN
      BY <1>1, <2>1 DEF Renew, TypeOK, SessionType
    <3> QED BY <2>1, <3>1, <3>2 DEF RenewType
  <2>2. CASE session.lease = 0
    BY <1>1, <2>2 DEF Renew, TypeOK
  <2> QED BY <2>1, <2>2
<1>4. TypeOK'
  BY <1>1, <1>2, <1>3 DEF TypeOK
<1>5. RequestInv' /\ EditorInv' /\ AcquiringIsAnswered'
  BY <1>1, <1>2, <1>3 DEF RequestInv, EditorInv, AcquiringIsAnswered
<1>6. LeaseOrder' /\ CrossingInv' /\ LeaseKnown'
  BY <1>2, <1>3 DEF LeaseInv, LeaseOrder, CrossingInv, LeaseKnown
<1> QED BY <1>4, <1>5, <1>6 DEF LeaseInv

\* The answer to a renewal: it confirms the lease it was made for.
LEMMA LeaseRenewAnswer ==
  ASSUME LeaseInv, RenewAnswer
  PROVE  LeaseInv'
<1>1. TypeOK /\ RequestInv /\ EditorInv /\ AcquiringIsAnswered
  BY DEF LeaseInv
<1>2. /\ UNCHANGED <<lease, behind, acq, rel, leaving, save, leases, visits, faults>>
      /\ ren # NoRen /\ ren' = NoRen /\ astray' = (astray \/ ren.lease # session.lease)
  BY DEF RenewAnswer, counters
<1>3. ren.lease # 0 /\ ren.lease \in 0..MaxLeases
  BY <1>1, <1>2 DEF RequestInv, TypeOK, RenewType
<1>4. /\ session' \in SessionType /\ (session'.held => session'.lease # 0)
      /\ session'.lease = ren.lease \/ session'.lease = session.lease
      /\ renewing' \in BOOLEAN
  <2>1. CASE ren.pc = "renewed"
    <3>1. session' = [lease |-> ren.lease, held |-> TRUE] /\ UNCHANGED renewing
      BY <2>1 DEF RenewAnswer
    <3> QED BY <1>1, <1>3, <3>1 DEF SessionType, TypeOK
  <2>2. CASE ren.pc # "renewed"
    <3>1. session' = [session EXCEPT !.held = FALSE] /\ renewing' = FALSE
      BY <2>2 DEF RenewAnswer
    <3> QED BY <1>1, <3>1 DEF SessionType, TypeOK
  <2> QED BY <2>1, <2>2
<1>5. ed' \in EditorType /\ EditorInv' /\ AcquiringIsAnswered'
  <2>1. CASE ed' = ed
    BY <1>1, <1>2, <2>1 DEF TypeOK, EditorInv, AcquiringIsAnswered
  <2>2. CASE ed' # ed
    <3>1. ed.open /\ ed' = [ed EXCEPT !.access = "blocked"] /\ "blocked" \in Access
      BY <2>2 DEF RenewAnswer, Access
    <3>2. ed' \in EditorType /\ ed'.open = ed.open /\ ed'.access = "blocked"
      BY <1>1, <3>1, Accessed DEF TypeOK
    <3> QED BY <3>1, <3>2 DEF EditorInv, AcquiringIsAnswered
  <2> QED BY <2>1, <2>2
<1>6. TypeOK'
  BY <1>1, <1>2, <1>4, <1>5, Values DEF TypeOK
<1>7. RequestInv'
  BY <1>1, <1>2, Values DEF RequestInv
<1>8. LeaseOrder'
  BY <1>1, <1>2, <1>4, Values, Numbers DEF LeaseInv, LeaseOrder
<1>9. CrossingInv' /\ LeaseKnown'
  <2>1. CASE ren.lease = session.lease
    <3>1. session'.lease = session.lease /\ astray' = (astray \/ FALSE)
      BY <1>2, <1>4, <2>1
    <3>2. astray => astray'
      BY <3>1
    <3> QED BY <1>2, <3>1, <3>2 DEF LeaseInv, CrossingInv, LeaseKnown
  <2>2. CASE ren.lease # session.lease
    <3>1. astray'
      BY <1>2, <2>2
    <3> QED BY <1>2, <3>1 DEF LeaseInv, CrossingInv, LeaseKnown
  <2> QED BY <2>1, <2>2
<1> QED BY <1>5, <1>6, <1>7, <1>8, <1>9 DEF LeaseInv

\* The wait for the saves is over, and the lease is given back.
LEMMA LeaseReleaseWhenSafe ==
  ASSUME LeaseInv, ReleaseWhenSafe
  PROVE  LeaseInv'
<1>1. TypeOK /\ EditorInv /\ AcquiringIsAnswered
  BY DEF LeaseInv
<1>2. /\ UNCHANGED <<lease, behind, ed, session, acq, ren, save, astray, leases, visits, faults>>
      /\ leaving' = FALSE /\ Release(FALSE)
  BY DEF ReleaseWhenSafe, counters
<1>3. renewing' = FALSE /\ ReleaseMoves
  BY <1>1, <1>2, ReleaseEffect
<1>4. TypeOK' /\ EditorInv' /\ AcquiringIsAnswered'
  BY <1>1, <1>2, <1>3 DEF TypeOK, EditorInv, AcquiringIsAnswered, ReleaseMoves
<1> QED BY <1>2, <1>3, <1>4, LeasesStay DEF LeaseInv

\* A release reaches Tower.
LEMMA LeaseReleaseArrive ==
  ASSUME LeaseInv, ReleaseArrive
  PROVE  LeaseInv'
<1>1. TypeOK /\ RequestInv /\ EditorInv /\ AcquiringIsAnswered
  BY DEF LeaseInv
<1>2. /\ UNCHANGED <<behind, ed, session, renewing, acq, ren, leaving, save, astray, leases, visits, faults>>
      /\ rel.pc = "sent" /\ lease' = IF lease = rel.lease THEN 0 ELSE lease
  BY DEF ReleaseArrive, local, counters
<1>3. rel' \in ReleaseType /\ rel'.pc = "released" /\ rel'.lease = rel.lease
  <2>1. rel' = [rel EXCEPT !.pc = "released"] /\ rel \in ReleaseType
    BY <1>1 DEF ReleaseArrive, TypeOK
  <2> QED BY <2>1 DEF ReleaseType
<1>4. 0 \in Theirs..MaxLeases
  BY BoundAssumption DEF Theirs
<1>5. TypeOK'
  BY <1>1, <1>2, <1>3, <1>4 DEF TypeOK
<1>6. RequestInv' /\ EditorInv' /\ AcquiringIsAnswered'
  BY <1>1, <1>2, <1>3 DEF RequestInv, EditorInv, AcquiringIsAnswered
<1>7. LeaseOrder' /\ CrossingInv' /\ LeaseKnown'
  BY <1>1, <1>2, <1>3, Numbers DEF LeaseInv, RequestInv, LeaseOrder, CrossingInv, LeaseKnown
<1> QED BY <1>5, <1>6, <1>7 DEF LeaseInv

\* The answer to a release, whatever it says, ends the session.
LEMMA LeaseReleaseAnswer ==
  ASSUME LeaseInv, ReleaseAnswer
  PROVE  LeaseInv'
<1>1. TypeOK /\ RequestInv /\ EditorInv /\ AcquiringIsAnswered
  BY DEF LeaseInv
<1>2. /\ UNCHANGED <<lease, behind, renewing, acq, ren, leaving, save, leases, visits, faults>>
      /\ rel.pc = "released" /\ rel' = NoRel /\ session' = NoSession
      /\ astray' = (astray \/ session.lease \notin {0, rel.lease})
  BY DEF ReleaseAnswer, counters
<1>3. ed' \in EditorType /\ EditorInv' /\ AcquiringIsAnswered'
  <2>1. CASE ed' = ed
    BY <1>1, <1>2, <2>1 DEF TypeOK, EditorInv, AcquiringIsAnswered
  <2>2. CASE ed' # ed
    <3>1. ed' = [ed EXCEPT !.access = "ready"] /\ "ready" \in Access
      BY <2>2 DEF ReleaseAnswer, ExitDone, Access
    <3>2. ed' \in EditorType /\ ed'.access = "ready"
      BY <1>1, <3>1, Accessed DEF TypeOK
    <3> QED BY <3>2 DEF EditorInv, AcquiringIsAnswered
  <2> QED BY <2>1, <2>2
<1>4. TypeOK'
  BY <1>1, <1>2, <1>3, Values DEF TypeOK
<1>5. RequestInv'
  BY <1>1, <1>2, Values DEF RequestInv
<1>6. LeaseOrder' /\ CrossingInv'
  BY <1>1, <1>2, Values, Numbers DEF LeaseInv, LeaseOrder, CrossingInv
<1>7. LeaseKnown'
  <2>1. CASE session.lease \in {0, rel.lease}
    <3>1. lease # rel.lease /\ (astray => astray')
      BY <1>2 DEF LeaseInv, CrossingInv
    <3> QED BY <1>2, <2>1, <3>1 DEF LeaseInv, LeaseKnown
  <2>2. CASE session.lease \notin {0, rel.lease}
    BY <1>2, <2>2 DEF LeaseKnown
  <2> QED BY <2>1, <2>2
<1> QED BY <1>3, <1>4, <1>5, <1>6, <1>7 DEF LeaseInv

\* A save goes out and reaches Tower.
LEMMA LeaseSave ==
  ASSUME LeaseInv, SaveBegin \/ SaveArrive
  PROVE  LeaseInv'
<1>1. TypeOK /\ EditorInv /\ AcquiringIsAnswered
  BY DEF LeaseInv
<1>2. UNCHANGED <<lease, behind, ed, session, renewing, acq, ren, rel, leaving, astray, leases, visits, faults>>
  BY DEF SaveBegin, SaveArrive, local, requests, counters
<1>3. save' \in SaveType
  <2>1. CASE SaveBegin
    <3>1. PICK exit \in BOOLEAN : save' = [pc |-> "sent", lease |-> session.lease, exit |-> exit, visit |-> visits]
      BY <2>1 DEF SaveBegin
    <3>2. session.lease \in 0..MaxLeases /\ visits \in 0..MaxVisits
      BY <1>1 DEF TypeOK, SessionType
    <3> QED BY <3>1, <3>2 DEF SaveType
  <2>2. CASE SaveArrive
    <3>1. save' = [save EXCEPT !.pc = IF lease = save.lease THEN "accepted" ELSE "refused"] /\ save \in SaveType
      BY <1>1, <2>2 DEF SaveArrive, TypeOK
    <3> QED BY <3>1 DEF SaveType
  <2> QED BY <2>1, <2>2
<1>4. TypeOK' /\ EditorInv' /\ AcquiringIsAnswered' /\ ReleaseMoves
  BY <1>1, <1>2, <1>3 DEF TypeOK, EditorInv, AcquiringIsAnswered, ReleaseMoves
<1> QED BY <1>2, <1>4, LeasesStay DEF LeaseInv

\* The answer to a save, which may end edit mode and give the lease back.
LEMMA LeaseSaveAnswer ==
  ASSUME LeaseInv, SaveAnswer
  PROVE  LeaseInv'
<1>1. TypeOK /\ EditorInv /\ AcquiringIsAnswered
  BY DEF LeaseInv
<1>2. PICK accepted, exits, current :
        /\ accepted = (save.pc = "accepted") /\ exits = (accepted /\ save.exit)
        /\ current = (ed.open /\ save.visit = visits)
  OBVIOUS
<1>3. /\ UNCHANGED <<lease, behind, session, acq, ren, leaving, astray, leases, visits, faults>> /\ save' = NoSave
      /\ IF exits THEN Release(TRUE) ELSE UNCHANGED <<renewing, rel>>
  BY <1>2 DEF SaveAnswer, Over, counters
<1>4. ed' \in EditorType /\ EditorInv' /\ AcquiringIsAnswered'
  <2>1. PICK typed \in BOOLEAN :
          LET e == IF accepted /\ current THEN [ed EXCEPT !.dirty = typed] ELSE ed
          IN  ed' = IF exits /\ session.lease = 0 THEN ExitDone(e) ELSE e
    BY <1>2 DEF SaveAnswer
  <2>2. PICK e : /\ e = IF accepted /\ current THEN [ed EXCEPT !.dirty = typed] ELSE ed
                 /\ ed' = e \/ ed' = [e EXCEPT !.access = "ready"]
    BY <2>1 DEF ExitDone
  <2>3. e \in EditorType /\ e.open = ed.open /\ e.access = ed.access
    BY <1>1, <2>2, Drafted DEF TypeOK
  <2>4. ed' \in EditorType /\ ed'.open = ed.open /\ ed'.access \in {ed.access, "ready"}
    <3>1. "ready" \in Access
      BY DEF Access
    <3>2. CASE ed' = e
      BY <2>3, <3>2
    <3>3. CASE ed' = [e EXCEPT !.access = "ready"]
      BY <2>3, <3>1, <3>3, Accessed
    <3> QED BY <2>2, <3>2, <3>3
  <2> QED BY <1>1, <1>3, <2>4 DEF EditorInv, AcquiringIsAnswered
<1>5. renewing' \in BOOLEAN /\ ReleaseMoves
  <2>1. CASE exits
    BY <1>1, <1>3, <2>1, ReleaseEffect
  <2>2. CASE ~exits
    BY <1>1, <1>3, <2>2 DEF TypeOK, ReleaseMoves
  <2> QED BY <2>1, <2>2
<1>6. TypeOK'
  BY <1>1, <1>3, <1>4, <1>5, Values DEF TypeOK, ReleaseMoves
<1> QED BY <1>3, <1>4, <1>5, <1>6, LeasesStay DEF LeaseInv

\* An answer is lost.
LEMMA LeaseLose ==
  ASSUME LeaseInv, Lose
  PROVE  LeaseInv'
<1>1. TypeOK /\ RequestInv /\ EditorInv /\ AcquiringIsAnswered
  BY DEF LeaseInv
<1>2. UNCHANGED <<lease, behind, leases, visits, ed, session, renewing, rel, leaving>> /\ astray' = TRUE
  BY DEF Lose, Fault, local
<1>3. faults' \in 0..MaxFaults
  BY <1>1, BoundAssumption DEF Lose, Fault, TypeOK
<1>4. /\ acq' \in AcquireType /\ acq'.visit = acq.visit /\ (acq.pc # "none" => acq'.pc # "none")
      /\ acq' = acq \/ (acq'.pc = "refused" /\ acq'.lease = 0)
  <2>1. CASE acq' = acq
    BY <1>1, <2>1 DEF TypeOK
  <2>2. CASE acq' # acq
    <3>1. acq' = [acq EXCEPT !.pc = "refused", !.lease = 0] /\ acq \in AcquireType /\ 0 \in 0..MaxLeases
      BY <1>1, <2>2, BoundAssumption DEF Lose, TypeOK
    <3> QED BY <3>1 DEF AcquireType
  <2> QED BY <2>1, <2>2
<1>5. ren' \in RenewType /\ (ren' = ren \/ (ren'.pc = "refused" /\ ren'.lease = ren.lease /\ ren.pc # "none"))
  <2>1. CASE ren' = ren
    BY <1>1, <2>1 DEF TypeOK
  <2>2. CASE ren' # ren
    <3>1. ren' = [ren EXCEPT !.pc = "refused"] /\ ren \in RenewType /\ ren.pc = "renewed"
      BY <1>1, <2>2 DEF Lose, TypeOK
    <3> QED BY <3>1 DEF RenewType
  <2> QED BY <2>1, <2>2
<1>6. save' \in SaveType
  <2>1. save' = save \/ save' = [save EXCEPT !.pc = "refused"]
    BY DEF Lose
  <2> QED BY <1>1, <2>1 DEF TypeOK, SaveType
<1>7. TypeOK'
  BY <1>1, <1>2, <1>3, <1>4, <1>5, <1>6 DEF TypeOK
<1>8. RequestInv' /\ EditorInv' /\ AcquiringIsAnswered'
  BY <1>1, <1>2, <1>4, <1>5 DEF RequestInv, EditorInv, AcquiringIsAnswered
<1>9. LeaseOrder' /\ CrossingInv' /\ LeaseKnown'
  BY <1>1, <1>2, <1>4, <1>5, Numbers DEF LeaseInv, LeaseOrder, CrossingInv, LeaseKnown
<1> QED BY <1>7, <1>8, <1>9 DEF LeaseInv

\* The tab is reloaded.
LEMMA LeaseCrash ==
  ASSUME LeaseInv, Crash
  PROVE  LeaseInv'
<1>1. TypeOK
  BY DEF LeaseInv
<1>2. /\ UNCHANGED <<behind, leases, visits, lease>> /\ astray' = TRUE
      /\ ed' = Closed /\ session' = NoSession /\ renewing' = FALSE
      /\ acq' = NoAcq /\ ren' = NoRen /\ rel' = NoRel /\ leaving' = FALSE /\ save' = NoSave
  BY DEF Crash, Fault
<1>3. faults' \in 0..MaxFaults
  BY <1>1, BoundAssumption DEF Crash, Fault, TypeOK
<1>4. TypeOK'
  BY <1>1, <1>2, <1>3, Values DEF TypeOK
<1>5. RequestInv' /\ EditorInv' /\ AcquiringIsAnswered'
  BY <1>2, Values DEF RequestInv, EditorInv, AcquiringIsAnswered
<1>6. LeaseOrder' /\ CrossingInv' /\ LeaseKnown'
  BY <1>1, <1>2, Values, Numbers DEF LeaseInv, LeaseOrder, CrossingInv, LeaseKnown
<1> QED BY <1>4, <1>5, <1>6 DEF LeaseInv

----------------------------------------------------------------------------
(* The theorems.                                                            *)

\* Every step keeps the invariant.
LEMMA LeaseNext == LeaseInv /\ [Next]_vars => LeaseInv'
<1> SUFFICES ASSUME LeaseInv, [Next]_vars PROVE LeaseInv'
  OBVIOUS
<1>1. CASE UNCHANGED vars
  <2>1. TypeOK' /\ EditorInv' /\ AcquiringIsAnswered' /\ ReleaseMoves
    BY <1>1 DEF LeaseInv, TypeOK, EditorInv, AcquiringIsAnswered, ReleaseMoves, vars, local, requests, counters
  <2> QED BY <1>1, <2>1, LeasesStay DEF LeaseInv, vars, local, requests, counters
<1> QED
  BY <1>1, LeaseOthers, LeaseOpen, LeaseEdit, LeaseDraft, LeaseDiscard, LeaseAcquireArrive, LeaseAcquireAnswer,
     LeaseRenew, LeaseRenewAnswer, LeaseReleaseWhenSafe, LeaseReleaseArrive, LeaseReleaseAnswer,
     LeaseSave, LeaseSaveAnswer, LeaseLose, LeaseCrash DEF Next

\* What is known of the leases, the requests for them and the editor stays true.
THEOREM LeaseInvariant == Spec => []LeaseInv
BY LeaseInit, LeaseNext, PTL DEF Spec

\* Every reachable state is well typed; a session that is held has a lease.
THEOREM TypeCorrect == Spec => []TypeOK
<1>1. LeaseInv => TypeOK
  BY DEF LeaseInv
<1> QED BY <1>1, LeaseInvariant, PTL

\* An editor that waits for edit access waits for an answer that will be its own.
THEOREM WaitingIsAnswered == Spec => []AcquiringIsAnswered
<1>1. LeaseInv => AcquiringIsAnswered
  BY DEF LeaseInv
<1> QED BY <1>1, LeaseInvariant, PTL

\* Tower keeps no lease for this tab that the tab has forgotten, however requests
\* for leases, renewals, releases and saves cross.
THEOREM LeaseIsKnown == Spec => []LeaseKnown
<1>1. LeaseInv => LeaseKnown
  BY DEF LeaseInv
<1> QED BY <1>1, LeaseInvariant, PTL
=============================================================================
