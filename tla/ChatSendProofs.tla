---------------------------- MODULE ChatSendProofs ----------------------------
(***************************************************************************)
(* Proofs about ChatSend for any number of messages, versions, faults and  *)
(* changes of workspace: that a message is kept, and kept once, and that a *)
(* late answer does not take one back.  Everything that is said is said of *)
(* one message.                                                            *)
(***************************************************************************)
EXTENDS ChatSend, TLAPS

\* Version v, deleted or not, is one message m has had at Tower: a deletion is the last.
Had(m, v, gone) == v <= tower[m].v /\ (gone => tower[m].gone /\ v = tower[m].v)

\* What the client has read, stored, shows or was answered are versions Tower had.
PastInv(m) ==
  /\ tower[m].gone => tower[m].v > 0
  /\ Had(m, raw[m].v, raw[m].gone) /\ Had(m, page[m].v, page[m].gone) /\ Had(m, typed[m].v, typed[m].gone)
  /\ Had(m, row[m].v, row[m].gone) /\ Had(m, list[m].row.v, list[m].row.gone)
  /\ call[m].pc = "answered" => Had(m, call[m].at, call[m].gone) /\ call[m].at > 0

\* A request is a creation or an edit; an edit was made from a version that can have
\* a next one, and is carried out only beside no optimistic row.
CallInv(m) ==
  /\ call[m].what = "none" <=> call[m].pc = "none"
  /\ call[m].pc = "put" => call[m].what = "create"
  /\ call[m].pc = "refused" => call[m].what = "edit"
  /\ kind[m] = "none" =>
       tower[m].v = 0 /\ call[m].what = "none" /\ m \notin stray /\ local[m] = "none" /\ list[m].local = "none"
  /\ call[m].what = "edit" =>
       /\ ~call[m].gone
       /\ call[m].pc = "sent" => call[m].at < MaxVersions /\ (local[m] = "none" \/ m \in blind \/ tower[m].gone)
       /\ call[m].pc = "answered" => local[m] = "none" \/ m \in blind

\* A row that is shown is stored, or the message was deleted; what the record delta
\* has brought is stored, or was deleted; only such a message is withheld.
StoreInv(m) ==
  /\ Visible(list[m].row) => Visible(row[m]) \/ tower[m].gone
  /\ raw[m].v > 0 /\ ~raw[m].gone => row[m].v > 0
  /\ row[m].v = 0 => row[m] = NoRow
  /\ m \in withheld => raw[m].v > 0

\* WrittenOnce and RowKeepsUp of one message.
Written(m) ==
  /\ kind[m] # "none" => tower[m].v > 0 \/ local[m] # "none" \/ m \in returned
  /\ (local[m] # "none" /\ Visible(row[m])) => m \in blind
KeepsUp(m) == (Visible(row[m]) /\ row[m].v < raw[m].v) => m \in withheld \cup revived

MessageInv(m) == PastInv(m) /\ CallInv(m) /\ StoreInv(m) /\ Written(m) /\ KeepsUp(m)
ChatInv == TypeOK /\ \A m \in Messages : MessageInv(m)

----------------------------------------------------------------------------
(* Values and their fields.                                                 *)

\* The rows the code makes are rows.
LEMMA Rows ==
  /\ NoRow \in RowType /\ NoRow.v = 0 /\ ~NoRow.gone /\ ~NoRow.pending /\ ~NoRow.recon
  /\ \A v \in 0..MaxVersions, g \in BOOLEAN :
       /\ [NoRow EXCEPT !.v = v] \in RowType /\ [NoRow EXCEPT !.v = v].v = v /\ ~[NoRow EXCEPT !.v = v].gone
       /\ [NoRow EXCEPT !.v = v, !.delta = TRUE] \in RowType
       /\ [NoRow EXCEPT !.v = v, !.delta = TRUE].v = v /\ ~[NoRow EXCEPT !.v = v, !.delta = TRUE].gone
       /\ [NoRow EXCEPT !.v = v, !.gone = g, !.recon = TRUE] \in RowType
       /\ [NoRow EXCEPT !.v = v, !.gone = g, !.recon = TRUE].v = v
       /\ [NoRow EXCEPT !.v = v, !.gone = g, !.recon = TRUE].gone = g
  /\ \A r \in RowType, p \in BOOLEAN :
       [r EXCEPT !.pending = p] \in RowType /\ [r EXCEPT !.pending = p].v = r.v /\ [r EXCEPT !.pending = p].gone = r.gone
<1>1. NoRow \in RowType /\ NoRow.v = 0 /\ ~NoRow.gone /\ ~NoRow.pending /\ ~NoRow.recon
  BY BoundAssumption DEF NoRow, RowType
<1>2. ASSUME NEW v \in 0..MaxVersions, NEW g \in BOOLEAN
      PROVE  /\ [NoRow EXCEPT !.v = v] \in RowType /\ [NoRow EXCEPT !.v = v].v = v /\ ~[NoRow EXCEPT !.v = v].gone
             /\ [NoRow EXCEPT !.v = v, !.delta = TRUE] \in RowType
             /\ [NoRow EXCEPT !.v = v, !.delta = TRUE].v = v /\ ~[NoRow EXCEPT !.v = v, !.delta = TRUE].gone
             /\ [NoRow EXCEPT !.v = v, !.gone = g, !.recon = TRUE] \in RowType
             /\ [NoRow EXCEPT !.v = v, !.gone = g, !.recon = TRUE].v = v
             /\ [NoRow EXCEPT !.v = v, !.gone = g, !.recon = TRUE].gone = g
  BY DEF NoRow, RowType
<1>3. ASSUME NEW r \in RowType, NEW p \in BOOLEAN
      PROVE  [r EXCEPT !.pending = p] \in RowType /\ [r EXCEPT !.pending = p].v = r.v /\ [r EXCEPT !.pending = p].gone = r.gone
  BY DEF RowType
<1> QED BY <1>1, <1>2, <1>3

\* The other values of a message nothing is known of.
LEMMA Values ==
  /\ MaxVersions \in Nat \ {0} /\ 0 \in 0..MaxVersions /\ 1 \in 0..MaxVersions
  /\ Absent \in Version /\ Absent.v = 0 /\ ~Absent.gone
  /\ NoPage \in [Messages -> Version] /\ \A m \in Messages : NoPage[m] = Absent
  /\ NoCall \in CallType /\ NoCall.pc = "none" /\ NoCall.what = "none" /\ NoCall.at = 0 /\ ~NoCall.gone
  /\ Unlisted \in ListType /\ Unlisted.local = "none" /\ Unlisted.row = NoRow
<1>1. MaxVersions \in Nat \ {0} /\ 0 \in 0..MaxVersions /\ 1 \in 0..MaxVersions
  BY BoundAssumption
<1>2. Absent \in Version /\ Absent.v = 0 /\ ~Absent.gone
  BY <1>1 DEF Absent, Version
<1>3. NoPage \in [Messages -> Version] /\ \A m \in Messages : NoPage[m] = Absent
  BY <1>2 DEF NoPage
<1>4. NoCall \in CallType /\ NoCall.pc = "none" /\ NoCall.what = "none" /\ NoCall.at = 0 /\ ~NoCall.gone
  BY <1>1 DEF NoCall, CallType
<1>5. Unlisted \in ListType /\ Unlisted.local = "none" /\ Unlisted.row = NoRow
  BY Rows DEF Unlisted, ListType, Status
<1> QED BY <1>1, <1>2, <1>3, <1>4, <1>5

\* The types of what is stored for one message.
LEMMA Typed ==
  ASSUME TypeOK, NEW m \in Messages
  PROVE  /\ tower[m] \in Version /\ raw[m] \in Version /\ page[m] \in Version /\ typed[m] \in Version
         /\ row[m] \in RowType /\ list[m] \in ListType /\ list[m].row \in RowType /\ call[m] \in CallType
         /\ local[m] \in Status /\ list[m].local \in Status
         /\ call[m].at \in 0..MaxVersions /\ call[m].gone \in BOOLEAN
         /\ tower[m].v \in 0..MaxVersions /\ raw[m].v \in 0..MaxVersions /\ page[m].v \in 0..MaxVersions
         /\ typed[m].v \in 0..MaxVersions /\ row[m].v \in 0..MaxVersions /\ list[m].row.v \in 0..MaxVersions
         /\ tower[m].gone \in BOOLEAN /\ raw[m].gone \in BOOLEAN /\ page[m].gone \in BOOLEAN
         /\ typed[m].gone \in BOOLEAN /\ row[m].gone \in BOOLEAN /\ list[m].row.gone \in BOOLEAN
<1>1. /\ tower[m] \in Version /\ raw[m] \in Version /\ page[m] \in Version /\ typed[m] \in Version
      /\ row[m] \in RowType /\ list[m] \in ListType /\ call[m] \in CallType /\ local[m] \in Status
  BY DEF TypeOK
<1>2. list[m].row \in RowType /\ list[m].local \in Status
  BY <1>1 DEF ListType
<1>3. call[m].at \in 0..MaxVersions /\ call[m].gone \in BOOLEAN
  BY <1>1 DEF CallType
<1>4. \A x \in Version : x.v \in 0..MaxVersions /\ x.gone \in BOOLEAN
  BY DEF Version
<1>5. \A x \in RowType : x.v \in 0..MaxVersions /\ x.gone \in BOOLEAN
  BY DEF RowType
<1> QED BY <1>1, <1>2, <1>3, <1>4, <1>5

----------------------------------------------------------------------------
(* One message at a time.                                                   *)

\* Nothing happens to message m.
Untouched(m) ==
  /\ tower'[m] = tower[m] /\ (m \in stray' => m \in stray) /\ kind'[m] = kind[m] /\ local'[m] = local[m]
  /\ row'[m] = row[m] /\ raw'[m] = raw[m] /\ (m \in withheld' <=> m \in withheld) /\ list'[m] = list[m]
  /\ call'[m] = call[m] /\ page'[m] = page[m] /\ typed'[m] = typed[m]
  /\ (m \in returned => m \in returned') /\ (m \in blind => m \in blind') /\ (m \in revived => m \in revived')

\* Then what is known of it stays.
LEMMA MessageStays ==
  ASSUME NEW m \in Messages, MessageInv(m), Untouched(m)
  PROVE  MessageInv(m)'
<1>1. PastInv(m)'
  BY DEF MessageInv, Untouched, PastInv, Had
<1>2. CallInv(m)'
  BY DEF MessageInv, Untouched, CallInv
<1>3. StoreInv(m)'
  BY DEF MessageInv, Untouched, StoreInv, Visible
<1>4. Written(m)' /\ KeepsUp(m)'
  BY DEF MessageInv, Untouched, Written, KeepsUp, Visible
<1> QED BY <1>1, <1>2, <1>3, <1>4 DEF MessageInv

\* A step about one message.
LEMMA OneMessage ==
  ASSUME ChatInv, TypeOK', NEW m \in Messages, PastInv(m)', CallInv(m)', StoreInv(m)', Written(m)', KeepsUp(m)',
         \A k \in Messages : k # m => Untouched(k)
  PROVE  ChatInv'
<1>1. ASSUME NEW k \in Messages PROVE MessageInv(k)'
  <2>1. CASE k = m
    BY <2>1 DEF MessageInv
  <2>2. CASE k # m
    BY <2>2, MessageStays DEF ChatInv
  <2> QED BY <2>1, <2>2
<1> QED BY <1>1 DEF ChatInv

----------------------------------------------------------------------------
(* Tower.                                                                   *)

\* Message m goes on at Tower, or stays; a deleted one stays.
Grows(m) ==
  /\ tower'[m].v >= tower[m].v /\ (tower[m].gone => tower'[m] = tower[m])
  /\ tower'[m].gone => tower'[m].v > 0
  /\ kind[m] # "none" \/ tower'[m] = tower[m]

\* A version it has had, it still has had.
LEMMA HadStays ==
  ASSUME TypeOK, NEW m \in Messages, Grows(m), tower'[m] \in Version,
         NEW v \in 0..MaxVersions, NEW gone \in BOOLEAN, Had(m, v, gone)
  PROVE  v <= tower'[m].v /\ (gone => tower'[m].gone /\ v = tower'[m].v)
<1>1. tower[m].v \in Nat /\ tower'[m].v \in Nat /\ v \in Nat
  BY Typed DEF Version
<1> QED BY <1>1 DEF Had, Grows

\* What Tower does takes nothing from what is known here.
LEMMA TowerGoesOn ==
  ASSUME TypeOK, NEW m \in Messages, MessageInv(m), Grows(m), tower'[m] \in Version,
         local'[m] = local[m], row'[m] = row[m], raw'[m] = raw[m], withheld' = withheld, list'[m] = list[m],
         page'[m] = page[m], typed'[m] = typed[m], kind'[m] = kind[m], returned' = returned, blind' = blind,
         revived' = revived,
         call'[m] = call[m]
         \/ (call'[m].pc = "answered" =>
               /\ call'[m].at > 0 /\ call'[m].at <= tower'[m].v
               /\ call'[m].gone => tower'[m].gone /\ call'[m].at = tower'[m].v)
  PROVE  PastInv(m)' /\ StoreInv(m)' /\ Written(m)' /\ KeepsUp(m)'
<1>1. PastInv(m) /\ StoreInv(m) /\ Written(m) /\ KeepsUp(m) /\ tower[m].v \in Nat /\ tower'[m].v \in Nat
  BY Typed DEF MessageInv, Version
<1>2. PastInv(m)'
  <2>1. \A v \in 0..MaxVersions, gone \in BOOLEAN : Had(m, v, gone) => v <= tower'[m].v /\ (gone => tower'[m].gone /\ v = tower'[m].v)
    BY HadStays
  <2>2. call'[m].pc = "answered" =>
          /\ call'[m].at > 0 /\ call'[m].at <= tower'[m].v
          /\ call'[m].gone => tower'[m].gone /\ call'[m].at = tower'[m].v
    BY <1>1, <2>1, Typed DEF PastInv
  <2>3. /\ raw[m].v <= tower'[m].v /\ (raw[m].gone => tower'[m].gone /\ raw[m].v = tower'[m].v)
        /\ page[m].v <= tower'[m].v /\ (page[m].gone => tower'[m].gone /\ page[m].v = tower'[m].v)
        /\ typed[m].v <= tower'[m].v /\ (typed[m].gone => tower'[m].gone /\ typed[m].v = tower'[m].v)
        /\ row[m].v <= tower'[m].v /\ (row[m].gone => tower'[m].gone /\ row[m].v = tower'[m].v)
        /\ list[m].row.v <= tower'[m].v /\ (list[m].row.gone => tower'[m].gone /\ list[m].row.v = tower'[m].v)
    BY <1>1, <2>1, Typed DEF PastInv
  <2> QED BY <2>2, <2>3 DEF PastInv, Had, Grows
<1>3. StoreInv(m)'
  BY <1>1 DEF StoreInv, Visible, Grows
<1>4. Written(m)' /\ KeepsUp(m)'
  BY <1>1 DEF Written, KeepsUp, Visible, Grows
<1> QED BY <1>2, <1>3, <1>4

\* Other people edit or delete a message.
LEMMA ChatOthers ==
  ASSUME ChatInv, NEW m \in Messages, OthersEdit(m) \/ OthersDelete(m)
  PROVE  ChatInv'
<1>1. TypeOK /\ MessageInv(m)
  BY DEF ChatInv
<1>2. /\ tower[m].v \in 1..(MaxVersions - 1) /\ ~tower[m].gone
      /\ UNCHANGED <<stray, kind, stored, delta, list, call, reads, home, returned, history, counters>>
  BY DEF OthersEdit, OthersDelete
<1>3. PICK x \in Version : tower' = [tower EXCEPT ![m] = x] /\ x.v = tower[m].v + 1
  <2>1. CASE OthersEdit(m)
    <3>1. tower' = [tower EXCEPT ![m] = [tower[m] EXCEPT !.v = tower[m].v + 1]]
      BY <2>1 DEF OthersEdit
    <3>2. [tower[m] EXCEPT !.v = tower[m].v + 1] \in Version /\ [tower[m] EXCEPT !.v = tower[m].v + 1].v = tower[m].v + 1
      BY <1>1, <1>2, Typed, Values DEF Version
    <3> QED BY <3>1, <3>2
  <2>2. CASE OthersDelete(m)
    <3>1. tower' = [tower EXCEPT ![m] = [v |-> tower[m].v + 1, gone |-> TRUE]]
      BY <2>2 DEF OthersDelete
    <3>2. [v |-> tower[m].v + 1, gone |-> TRUE] \in Version
      BY <1>1, <1>2, Typed, Values DEF Version
    <3> QED BY <3>1, <3>2
  <2> QED BY <2>1, <2>2
<1>4. tower' \in [Messages -> Version] /\ tower'[m] = x /\ \A k \in Messages : k # m => tower'[k] = tower[k]
  BY <1>1, <1>3 DEF TypeOK
<1>5. TypeOK'
  BY <1>1, <1>2, <1>4 DEF TypeOK, stored, delta, reads, counters
<1>6. kind[m] # "none" /\ Grows(m)
  BY <1>1, <1>2, <1>3, <1>4, Values DEF MessageInv, CallInv, Grows
<1>7. PastInv(m)' /\ StoreInv(m)' /\ Written(m)' /\ KeepsUp(m)'
  BY <1>1, <1>2, <1>4, <1>6, TowerGoesOn DEF stored, delta, reads, history
<1>8. CallInv(m)'
  BY <1>1, <1>2, <1>4, <1>6 DEF MessageInv, CallInv, stored, history
<1>9. \A k \in Messages : k # m => Untouched(k)
  BY <1>2, <1>4 DEF Untouched, stored, delta, reads, history
<1> QED BY <1>5, <1>7, <1>8, <1>9, OneMessage

\* A creation is carried out once.
LEMMA CreatedGrows ==
  ASSUME TypeOK, NEW m \in Messages, MessageInv(m), kind[m] # "none", tower' = [tower EXCEPT ![m] = Created(m)]
  PROVE  /\ Created(m) \in Version /\ Created(m).v > 0 /\ Grows(m)
         /\ tower' \in [Messages -> Version] /\ tower'[m] = Created(m)
         /\ \A k \in Messages : k # m => tower'[k] = tower[k]
<1>1. tower[m] \in Version
  BY Typed
<1>2. tower[m].v = 0 => tower[m] = Absent
  <2>1. tower[m].v = 0 => ~tower[m].gone
    BY DEF MessageInv, PastInv
  <2> QED BY <1>1, <2>1 DEF Version, Absent
<1>3. /\ Created(m) \in Version /\ Created(m).v > 0 /\ Created(m).v >= tower[m].v
      /\ tower[m].gone => Created(m) = tower[m]
  <2>1. CASE tower[m] = Absent
    <3>1. Created(m) = [v |-> 1, gone |-> FALSE]
      BY <2>1 DEF Created
    <3> QED BY <2>1, <3>1, Values DEF Version
  <2>2. CASE tower[m] # Absent
    BY <1>1, <1>2, <2>2, Typed DEF Created
  <2> QED BY <2>1, <2>2
<1>4. /\ tower' \in [Messages -> Version] /\ tower'[m] = Created(m)
      /\ \A k \in Messages : k # m => tower'[k] = tower[k]
  BY <1>3 DEF TypeOK
<1> QED BY <1>3, <1>4 DEF Grows

\* A creation given up by the client reaches Tower after all.
LEMMA ChatStray ==
  ASSUME ChatInv, NEW m \in Messages, StrayArrives(m)
  PROVE  ChatInv'
<1>1. TypeOK /\ MessageInv(m)
  BY DEF ChatInv
<1>2. /\ m \in stray /\ stray' = stray \ {m} /\ tower' = [tower EXCEPT ![m] = Created(m)]
      /\ UNCHANGED <<kind, stored, delta, list, call, reads, home, returned, history, counters>>
  BY DEF StrayArrives
<1>3. kind[m] # "none"
  BY <1>1, <1>2 DEF MessageInv, CallInv
<1>4. /\ Created(m) \in Version /\ Created(m).v > 0 /\ Grows(m)
      /\ tower' \in [Messages -> Version] /\ tower'[m] = Created(m)
      /\ \A k \in Messages : k # m => tower'[k] = tower[k]
  BY <1>1, <1>2, <1>3, CreatedGrows
<1>5. TypeOK'
  BY <1>1, <1>2, <1>4 DEF TypeOK, stored, delta, reads, counters
<1>6. PastInv(m)' /\ StoreInv(m)' /\ Written(m)' /\ KeepsUp(m)'
  BY <1>1, <1>2, <1>4, TowerGoesOn DEF stored, delta, reads, history
<1>7. CallInv(m)'
  BY <1>1, <1>2, <1>3, <1>4 DEF MessageInv, CallInv, stored, history, Grows
<1>8. \A k \in Messages : k # m => Untouched(k)
  BY <1>2, <1>4 DEF Untouched, stored, delta, reads, history
<1> QED BY <1>5, <1>6, <1>7, <1>8, OneMessage

\* A creation reaches Tower.
LEMMA ChatCreateArrives ==
  ASSUME ChatInv, NEW m \in Messages, CreateArrives(m)
  PROVE  ChatInv'
<1>1. TypeOK /\ MessageInv(m) /\ call[m] \in CallType
  BY Typed DEF ChatInv
<1>2. /\ call[m].pc = "sent" /\ call[m].what = "create" /\ tower' = [tower EXCEPT ![m] = Created(m)]
      /\ UNCHANGED <<stray, kind, stored, delta, list, reads, home, returned, history, counters>>
  BY DEF CreateArrives
<1>3. kind[m] # "none"
  BY <1>1, <1>2 DEF MessageInv, CallInv
<1>4. /\ Created(m) \in Version /\ Created(m).v > 0 /\ Grows(m)
      /\ tower' \in [Messages -> Version] /\ tower'[m] = Created(m)
      /\ \A k \in Messages : k # m => tower'[k] = tower[k]
  BY <1>1, <1>2, <1>3, CreatedGrows
<1>5. PICK d \in CallType : /\ call' = [call EXCEPT ![m] = d]
                            /\ d.pc = "answered" /\ d.what = "create" /\ d.at = Created(m).v /\ d.gone = Created(m).gone
  <2>1. Created(m).v \in 0..MaxVersions /\ Created(m).gone \in BOOLEAN
    BY <1>4 DEF Version
  <2>2. PICK d : d = [call[m] EXCEPT !.pc = "answered", !.at = Created(m).v, !.gone = Created(m).gone]
    OBVIOUS
  <2>3. d \in CallType /\ d.pc = "answered" /\ d.what = "create" /\ d.at = Created(m).v /\ d.gone = Created(m).gone
    BY <1>1, <1>2, <2>1, <2>2 DEF CallType
  <2>4. call' = [call EXCEPT ![m] = d]
    BY <2>2 DEF CreateArrives
  <2> QED BY <2>3, <2>4
<1>6. call' \in [Messages -> CallType] /\ call'[m] = d /\ \A k \in Messages : k # m => call'[k] = call[k]
  BY <1>1, <1>5 DEF TypeOK
<1>7. TypeOK'
  BY <1>1, <1>2, <1>4, <1>6 DEF TypeOK, stored, delta, reads, counters
<1>8. PastInv(m)' /\ StoreInv(m)' /\ Written(m)' /\ KeepsUp(m)'
  <2>1. /\ call'[m].at > 0 /\ call'[m].at <= tower'[m].v
        /\ call'[m].gone => tower'[m].gone /\ call'[m].at = tower'[m].v
    BY <1>4, <1>5, <1>6 DEF Version
  <2> QED BY <1>1, <1>2, <1>4, <2>1, TowerGoesOn DEF stored, delta, reads, history
<1>9. CallInv(m)'
  BY <1>1, <1>2, <1>3, <1>5, <1>6 DEF MessageInv, CallInv
<1>10. \A k \in Messages : k # m => Untouched(k)
  BY <1>2, <1>4, <1>6 DEF Untouched, stored, delta, reads, history
<1> QED BY <1>7, <1>8, <1>9, <1>10, OneMessage

\* An edit reaches Tower, and is carried out if it was made from the version there.
LEMMA ChatEditArrives ==
  ASSUME ChatInv, NEW m \in Messages, EditArrives(m)
  PROVE  ChatInv'
<1>1. TypeOK /\ MessageInv(m) /\ call[m] \in CallType /\ tower[m] \in Version
  BY Typed DEF ChatInv
<1>2. /\ call[m].pc = "sent" /\ call[m].what = "edit"
      /\ UNCHANGED <<stray, kind, stored, delta, list, reads, home, returned, history, counters>>
  BY DEF EditArrives
<1>3. kind[m] # "none" /\ call[m].at < MaxVersions /\ call[m].at \in Nat /\ tower[m].v \in Nat
  BY <1>1, <1>2, Typed DEF MessageInv, CallInv
<1>4. PICK d \in CallType :
        /\ call' = [call EXCEPT ![m] = d] /\ d.what = "edit" /\ d.gone = call[m].gone
        /\ \/ /\ d.pc = "answered" /\ d.at = tower[m].v + 1
              /\ tower[m].v = call[m].at /\ ~tower[m].gone /\ tower' = [tower EXCEPT ![m].v = tower[m].v + 1]
           \/ d.pc = "refused" /\ tower' = tower
  <2>1. CASE tower[m].v = call[m].at /\ ~tower[m].gone
    <3>1. PICK d : d = [call[m] EXCEPT !.pc = "answered", !.at = call[m].at + 1]
      OBVIOUS
    <3>2. call[m].at + 1 \in 0..MaxVersions
      BY <1>3, Values
    <3>3. d \in CallType /\ d.what = "edit" /\ d.pc = "answered" /\ d.at = call[m].at + 1 /\ d.gone = call[m].gone
      BY <1>1, <1>2, <3>1, <3>2 DEF CallType
    <3>4. call' = [call EXCEPT ![m] = d]
      BY <2>1, <3>1 DEF EditArrives
    <3>5. tower' = [tower EXCEPT ![m].v = tower[m].v + 1]
      BY <2>1 DEF EditArrives
    <3> QED BY <2>1, <3>3, <3>4, <3>5
  <2>2. CASE ~(tower[m].v = call[m].at /\ ~tower[m].gone)
    <3>1. PICK d : d = [call[m] EXCEPT !.pc = "refused"]
      OBVIOUS
    <3>2. d \in CallType /\ d.what = "edit" /\ d.pc = "refused" /\ d.gone = call[m].gone
      BY <1>1, <1>2, <3>1 DEF CallType
    <3>3. call' = [call EXCEPT ![m] = d] /\ tower' = tower
      BY <2>2, <3>1 DEF EditArrives
    <3> QED BY <3>2, <3>3
  <2> QED BY <2>1, <2>2
<1>5. call' \in [Messages -> CallType] /\ call'[m] = d /\ \A k \in Messages : k # m => call'[k] = call[k]
  BY <1>1, <1>4 DEF TypeOK
<1>6. /\ tower' \in [Messages -> Version] /\ Grows(m) /\ \A k \in Messages : k # m => tower'[k] = tower[k]
      /\ d.pc = "answered" => tower'[m].v = d.at /\ tower'[m].gone = tower[m].gone
  <2>1. CASE d.pc = "refused" /\ tower' = tower
    BY <1>1, <1>3, <2>1 DEF Grows, MessageInv, PastInv, TypeOK
  <2>2. CASE ~tower[m].gone /\ tower' = [tower EXCEPT ![m].v = tower[m].v + 1] /\ tower[m].v = call[m].at
             /\ d.pc = "answered" /\ d.at = tower[m].v + 1
    <3>1. PICK x : x = [tower[m] EXCEPT !.v = tower[m].v + 1]
      OBVIOUS
    <3>2. x \in Version /\ x.v = tower[m].v + 1 /\ x.gone = tower[m].gone
      BY <1>1, <1>3, <2>2, <3>1, Values DEF Version
    <3>3. tower' \in [Messages -> Version] /\ tower'[m] = x /\ \A k \in Messages : k # m => tower'[k] = tower[k]
      BY <1>1, <2>2, <3>1, <3>2 DEF TypeOK
    <3> QED BY <1>3, <2>2, <3>2, <3>3 DEF Grows
  <2> QED BY <1>4, <2>1, <2>2
<1>7. TypeOK'
  BY <1>1, <1>2, <1>5, <1>6 DEF TypeOK, stored, delta, reads, counters
<1>8. ~call[m].gone
  BY <1>1, <1>2 DEF MessageInv, CallInv
<1>9. PastInv(m)' /\ StoreInv(m)' /\ Written(m)' /\ KeepsUp(m)'
  <2>1. call'[m].pc = "answered" =>
          /\ call'[m].at > 0 /\ call'[m].at <= tower'[m].v
          /\ call'[m].gone => tower'[m].gone /\ call'[m].at = tower'[m].v
    BY <1>3, <1>4, <1>5, <1>6, <1>8
  <2>2. tower'[m] \in Version
    BY <1>6
  <2> QED BY <1>1, <1>2, <1>6, <2>1, <2>2, TowerGoesOn DEF stored, delta, reads, history
<1>10. CallInv(m)'
  BY <1>1, <1>2, <1>3, <1>4, <1>5, <1>8 DEF MessageInv, CallInv, stored, history
<1>11. \A k \in Messages : k # m => Untouched(k)
  BY <1>2, <1>5, <1>6 DEF Untouched, stored, delta, reads, history
<1> QED BY <1>7, <1>9, <1>10, <1>11, OneMessage

----------------------------------------------------------------------------
(* Sending.                                                                 *)

\* The optimistic row is put and shown, and a creation begun.
LEMMA Starting ==
  ASSUME TypeOK, NEW m \in Messages, MessageInv(m), Start(m), kind'[m] # "none",
         UNCHANGED <<external, row, delta, reads>>,
         m \in returned => m \in returned', m \in revived => m \in revived',
         Visible(row[m]) => m \in blind'
  PROVE  /\ local' \in [Messages -> Status] /\ list' \in [Messages -> ListType] /\ call' \in [Messages -> CallType]
         /\ PastInv(m)' /\ CallInv(m)' /\ StoreInv(m)' /\ Written(m)' /\ KeepsUp(m)'
         /\ \A k \in Messages : k # m => local'[k] = local[k] /\ list'[k] = list[k] /\ call'[k] = call[k]
<1>1. PICK d : d = [NoCall EXCEPT !.pc = "put", !.what = "create", !.here = TRUE]
  OBVIOUS
<1>2. d \in CallType /\ d.pc = "put" /\ d.what = "create"
  BY <1>1, Values DEF CallType, NoCall
<1>3. PICK l : l = [list[m] EXCEPT !.local = "pending"]
  OBVIOUS
<1>4. l \in ListType /\ l.local = "pending" /\ l.row = list[m].row
  BY <1>3, Typed DEF ListType, Status
<1>5. /\ local' = [local EXCEPT ![m] = "pending"] /\ list' = [list EXCEPT ![m] = l] /\ call' = [call EXCEPT ![m] = d]
  BY <1>1, <1>3 DEF Start
<1>6. /\ local' \in [Messages -> Status] /\ list' \in [Messages -> ListType] /\ call' \in [Messages -> CallType]
      /\ local'[m] = "pending" /\ list'[m] = l /\ call'[m] = d
      /\ \A k \in Messages : k # m => local'[k] = local[k] /\ list'[k] = list[k] /\ call'[k] = call[k]
  BY <1>2, <1>4, <1>5 DEF TypeOK, Status
<1>7. PastInv(m)' /\ CallInv(m)'
  BY <1>2, <1>4, <1>6 DEF MessageInv, PastInv, CallInv, Had, external, delta, reads
<1>8. StoreInv(m)'
  BY <1>4, <1>6 DEF MessageInv, StoreInv, Visible, external, delta
<1>9. Written(m)' /\ KeepsUp(m)'
  BY <1>6 DEF MessageInv, Written, KeepsUp, Visible, external, delta
<1> QED BY <1>6, <1>7, <1>8, <1>9

\* A message is written.
LEMMA ChatCompose ==
  ASSUME ChatInv, NEW m \in Messages, Compose(m)
  PROVE  ChatInv'
<1>1. TypeOK /\ MessageInv(m) /\ Start(m) /\ kind[m] = "none"
  BY DEF ChatInv, Compose
<1>2. UNCHANGED <<external, row, delta, reads, home, returned, history, counters>>
  BY DEF Compose
<1>3. PICK k \in {"message", "reply", "thread"} : kind' = [kind EXCEPT ![m] = k]
  BY DEF Compose
<1>4. /\ kind' \in [Messages -> {"none", "message", "reply", "thread"}] /\ kind'[m] # "none"
      /\ \A n \in Messages : n # m => kind'[n] = kind[n]
  BY <1>1, <1>3 DEF TypeOK
<1>5. ~Visible(row[m])
  <2>1. tower[m].v = 0 /\ row[m].v <= tower[m].v /\ row[m].v \in Nat
    BY <1>1, Typed DEF MessageInv, CallInv, PastInv, Had
  <2> QED BY <2>1 DEF Visible
<1>6. /\ local' \in [Messages -> Status] /\ list' \in [Messages -> ListType] /\ call' \in [Messages -> CallType]
      /\ PastInv(m)' /\ CallInv(m)' /\ StoreInv(m)' /\ Written(m)' /\ KeepsUp(m)'
      /\ \A n \in Messages : n # m => local'[n] = local[n] /\ list'[n] = list[n] /\ call'[n] = call[n]
  BY <1>1, <1>2, <1>4, <1>5, Starting DEF history
<1>7. TypeOK'
  BY <1>1, <1>2, <1>4, <1>6 DEF TypeOK, external, delta, reads, counters
<1>8. \A n \in Messages : n # m => Untouched(n)
  BY <1>2, <1>4, <1>6 DEF Untouched, external, delta, reads, history
<1> QED BY <1>6, <1>7, <1>8, OneMessage

\* A failed message is sent again.
LEMMA ChatResend ==
  ASSUME ChatInv, NEW m \in Messages, Resend(m)
  PROVE  ChatInv'
<1>1. TypeOK /\ MessageInv(m) /\ Start(m) /\ "failed" \in {local[m], list[m].local}
  BY DEF ChatInv, Resend
<1>2. UNCHANGED <<external, kind, row, delta, reads, home, returned, astray, cut, revived, counters>>
  BY DEF Resend
<1>3. kind'[m] # "none"
  BY <1>1, <1>2 DEF MessageInv, CallInv
<1>4. blind \subseteq blind' /\ (Visible(row[m]) => m \in blind')
  BY DEF Resend
<1>5. /\ local' \in [Messages -> Status] /\ list' \in [Messages -> ListType] /\ call' \in [Messages -> CallType]
      /\ PastInv(m)' /\ CallInv(m)' /\ StoreInv(m)' /\ Written(m)' /\ KeepsUp(m)'
      /\ \A n \in Messages : n # m => local'[n] = local[n] /\ list'[n] = list[n] /\ call'[n] = call[n]
  BY <1>1, <1>2, <1>3, <1>4, Starting
<1>6. TypeOK'
  BY <1>1, <1>2, <1>5 DEF TypeOK, external, delta, reads, counters
<1>7. \A n \in Messages : n # m => Untouched(n)
  BY <1>2, <1>4, <1>5 DEF Untouched, external, delta, reads
<1> QED BY <1>5, <1>6, <1>7, OneMessage

\* A creation fails: its row stays, or its text is in the composer.
LEMMA CreationFails ==
  ASSUME TypeOK, NEW m \in Messages, MessageInv(m), call[m].what = "create", CreateFails(m),
         tower' = tower, stray' \subseteq stray \cup {m}, kind' = kind, row' = row, raw' = raw,
         withheld' = withheld, page' = page, typed' = typed, blind' = blind, revived' = revived
  PROVE  /\ local' \in [Messages -> Status] /\ list' \in [Messages -> ListType] /\ call' \in [Messages -> CallType]
         /\ returned' \subseteq Messages
         /\ PastInv(m)' /\ CallInv(m)' /\ StoreInv(m)' /\ Written(m)' /\ KeepsUp(m)'
         /\ \A n \in Messages : n # m => Untouched(n)
<1>1. kind[m] # "none" /\ PastInv(m) /\ CallInv(m) /\ StoreInv(m) /\ Written(m) /\ KeepsUp(m)
  BY DEF MessageInv, CallInv
<1>2. PICK left \in Status :
        /\ left = IF kind[m] = "thread" THEN "none" ELSE IF local[m] = "none" THEN "none" ELSE "failed"
        /\ local' = (IF Reaches(m) THEN [local EXCEPT ![m] = left] ELSE local)
        /\ list' = list \/ list' = [list EXCEPT ![m].local = left]
  BY DEF CreateFails, Status
<1>3. call' = [call EXCEPT ![m] = NoCall] /\ returned' = (IF kind[m] = "thread" THEN returned \cup {m} ELSE returned)
  BY DEF CreateFails
<1>4. call' \in [Messages -> CallType] /\ call'[m] = NoCall /\ \A n \in Messages : n # m => call'[n] = call[n]
  BY <1>3, Values DEF TypeOK
<1>5. /\ local' \in [Messages -> Status] /\ \A n \in Messages : n # m => local'[n] = local[n]
      /\ local'[m] \in {left, local[m]}
  BY <1>2 DEF TypeOK
<1>6. /\ list' \in [Messages -> ListType] /\ list'[m].row = list[m].row
      /\ \A n \in Messages : n # m => list'[n] = list[n]
  <2>1. PICK l : l = [list[m] EXCEPT !.local = left]
    OBVIOUS
  <2>2. l \in ListType /\ l.row = list[m].row
    BY <2>1, Typed DEF ListType
  <2>3. list' = list \/ list' = [list EXCEPT ![m] = l]
    BY <1>2, <2>1
  <2> QED BY <2>2, <2>3 DEF TypeOK
<1>7. PastInv(m)' /\ CallInv(m)'
  BY <1>1, <1>4, <1>6, Values DEF PastInv, CallInv, Had
<1>8. StoreInv(m)'
  BY <1>1, <1>6 DEF StoreInv, Visible
<1>9. Written(m)' /\ KeepsUp(m)'
  BY <1>1, <1>2, <1>3, <1>5 DEF Written, KeepsUp, Visible
<1>10. \A n \in Messages : n # m => Untouched(n)
  BY <1>3, <1>4, <1>5, <1>6 DEF Untouched
<1>11. returned' \subseteq Messages
  BY <1>3 DEF TypeOK
<1> QED BY <1>4, <1>5, <1>6, <1>7, <1>8, <1>9, <1>10, <1>11

\* The request of a creation leaves, or fails where it would leave for another workspace.
LEMMA ChatSends ==
  ASSUME ChatInv, NEW m \in Messages, Send(m)
  PROVE  ChatInv'
<1>1. TypeOK /\ MessageInv(m) /\ call[m].pc = "put" /\ call[m].what = "create" /\ kind[m] # "none"
  BY DEF ChatInv, Send, MessageInv, CallInv
<1>2. UNCHANGED <<external, kind, row, delta, reads, home, astray, blind, revived, counters>>
  BY DEF Send
<1>3. CASE home
  <2>1. PICK d : d = [call[m] EXCEPT !.pc = "sent"]
    OBVIOUS
  <2>2. d \in CallType /\ d.pc = "sent" /\ d.what = "create"
    BY <1>1, <2>1, Typed DEF CallType
  <2>3. call' = [call EXCEPT ![m] = d] /\ UNCHANGED <<local, list, returned, cut>>
    BY <1>3, <2>1 DEF Send
  <2>4. call' \in [Messages -> CallType] /\ call'[m] = d /\ \A n \in Messages : n # m => call'[n] = call[n]
    BY <1>1, <2>2, <2>3 DEF TypeOK
  <2>5. TypeOK'
    BY <1>1, <1>2, <2>3, <2>4 DEF TypeOK, external, delta, reads, counters
  <2>6. PastInv(m)' /\ CallInv(m)'
    BY <1>1, <1>2, <2>2, <2>3, <2>4 DEF MessageInv, PastInv, CallInv, Had, external, delta, reads
  <2>7. StoreInv(m)' /\ Written(m)' /\ KeepsUp(m)'
    BY <1>1, <1>2, <2>3 DEF MessageInv, StoreInv, Written, KeepsUp, Visible, external, delta
  <2>8. \A n \in Messages : n # m => Untouched(n)
    BY <1>2, <2>3, <2>4 DEF Untouched, external, delta, reads
  <2> QED BY <2>5, <2>6, <2>7, <2>8, OneMessage
<1>4. CASE ~home
  <2>1. CreateFails(m)
    BY <1>4 DEF Send
  <2>2. /\ local' \in [Messages -> Status] /\ list' \in [Messages -> ListType] /\ call' \in [Messages -> CallType]
        /\ returned' \subseteq Messages
        /\ PastInv(m)' /\ CallInv(m)' /\ StoreInv(m)' /\ Written(m)' /\ KeepsUp(m)'
        /\ \A n \in Messages : n # m => Untouched(n)
    BY <1>1, <1>2, <2>1, CreationFails DEF external, delta, reads
  <2>3. TypeOK'
    BY <1>1, <1>2, <2>2 DEF TypeOK, external, delta, reads, counters
  <2> QED BY <2>2, <2>3, OneMessage
<1> QED BY <1>3, <1>4

\* What the answer of a creation leaves in the database is a version Tower had, and
\* does not fall behind the record delta unnoticed.
LEMMA AcceptedIsPast ==
  ASSUME TypeOK, NEW m \in Messages, MessageInv(m), call[m].pc = "answered"
  PROVE  /\ Accepted(m) \in RowType /\ Accepted(m).v > 0
         /\ Had(m, Accepted(m).v, Accepted(m).gone)
         /\ Visible(row[m]) => Visible(Accepted(m)) \/ tower[m].gone
         /\ (Visible(Accepted(m)) /\ Accepted(m).v < raw[m].v /\ ~(raw[m].gone /\ row[m] = NoRow)) =>
              m \in withheld \cup revived
<1>1. /\ PastInv(m) /\ StoreInv(m) /\ KeepsUp(m) /\ Had(m, call[m].at, call[m].gone) /\ call[m].at > 0
      /\ call[m].at \in 0..MaxVersions /\ call[m].gone \in BOOLEAN /\ call[m].at \in Nat
      /\ row[m] \in RowType /\ row[m].v \in Nat /\ raw[m].v \in Nat /\ tower[m].v \in Nat /\ row[m].gone \in BOOLEAN
  BY Typed DEF MessageInv, PastInv
<1>2. CASE CanonicalWins(row[m], call[m].at)
  <2>1. Accepted(m) = row[m]
    BY <1>2 DEF Accepted
  <2>2. row[m].v > 0
    BY <1>2 DEF CanonicalWins
  <2> QED BY <1>1, <2>1, <2>2 DEF PastInv, KeepsUp
<1>3. CASE ~CanonicalWins(row[m], call[m].at)
  <2>1. PICK r : r = [NoRow EXCEPT !.v = call[m].at, !.gone = call[m].gone, !.recon = TRUE]
    OBVIOUS
  <2>2. r \in RowType /\ r.v = call[m].at /\ r.gone = call[m].gone
    BY <1>1, <2>1 DEF RowType, NoRow
  <2>3. Accepted(m) = r
    BY <1>3, <2>1 DEF Accepted
  <2>4. Visible(r) \/ tower[m].gone
    BY <1>1, <2>2 DEF Visible, Had
  <2>5. row[m].v > 0 => row[m].v <= call[m].at
    BY <1>1, <1>3 DEF CanonicalWins
  <2>6. ASSUME r.v < raw[m].v, ~(raw[m].gone /\ row[m] = NoRow)
        PROVE  m \in withheld \cup revived
    <3>1. row[m].v > 0
      <4>1. raw[m].v > 0
        BY <1>1, <2>2, <2>6
      <4>2. CASE raw[m].gone
        BY <1>1, <2>6, <4>2 DEF StoreInv
      <4>3. CASE ~raw[m].gone
        BY <1>1, <4>1, <4>3 DEF StoreInv
      <4> QED BY <4>2, <4>3
    <3>2. row[m].v < raw[m].v
      BY <1>1, <2>2, <2>5, <2>6, <3>1
    <3>3. ~row[m].gone
      BY <1>1, <3>2 DEF PastInv, Had
    <3> QED BY <1>1, <3>1, <3>2, <3>3 DEF KeepsUp, Visible
  <2> QED BY <1>1, <2>2, <2>3, <2>4, <2>6
<1> QED BY <1>2, <1>3

\* A creation is answered.
LEMMA ChatCreateAnswer ==
  ASSUME ChatInv, NEW m \in Messages, CreateAnswer(m)
  PROVE  ChatInv'
<1>1. /\ TypeOK /\ MessageInv(m) /\ call[m].pc = "answered" /\ call[m].what = "create" /\ kind[m] # "none"
      /\ call' = [call EXCEPT ![m] = NoCall]
      /\ UNCHANGED <<external, kind, delta, reads, home, returned, blind, counters>>
  BY DEF ChatInv, CreateAnswer, MessageInv, CallInv
<1>2. call' \in [Messages -> CallType] /\ call'[m] = NoCall /\ \A n \in Messages : n # m => call'[n] = call[n]
  BY <1>1, Values DEF TypeOK
<1>3. PastInv(m) /\ CallInv(m) /\ StoreInv(m) /\ Written(m) /\ KeepsUp(m)
  BY <1>1 DEF MessageInv
<1>4. CASE Reaches(m)
  <2>1. PICK r \in RowType :
          /\ r = Accepted(m) /\ r.v > 0 /\ Had(m, r.v, r.gone)
          /\ Visible(row[m]) => Visible(r) \/ tower[m].gone
          /\ (Visible(r) /\ r.v < raw[m].v /\ ~(raw[m].gone /\ row[m] = NoRow)) => m \in withheld \cup revived
    BY <1>1, AcceptedIsPast
  <2>2. /\ local' = [local EXCEPT ![m] = "none"] /\ row' = [row EXCEPT ![m] = r]
        /\ list' = list \/ list' = [list EXCEPT ![m] = [local |-> "none", row |-> r]]
        /\ revived' = (IF raw[m].gone /\ row[m] = NoRow THEN revived \cup {m} ELSE revived)
        /\ UNCHANGED <<astray, cut>>
    BY <1>4, <2>1 DEF CreateAnswer
  <2>3. /\ local' \in [Messages -> Status] /\ row' \in [Messages -> RowType]
        /\ local'[m] = "none" /\ row'[m] = r
        /\ \A n \in Messages : n # m => local'[n] = local[n] /\ row'[n] = row[n]
    BY <1>1, <2>1, <2>2 DEF TypeOK, Status
  <2>4. PICK l : l = [local |-> "none", row |-> r]
    OBVIOUS
  <2>5. l \in ListType /\ l.row = r /\ l.local = "none"
    BY <2>1, <2>4 DEF ListType, Status
  <2>6. /\ list' \in [Messages -> ListType] /\ list'[m] \in {list[m], l}
        /\ \A n \in Messages : n # m => list'[n] = list[n]
    BY <1>1, <2>2, <2>4, <2>5 DEF TypeOK
  <2>7. TypeOK'
    BY <1>1, <1>2, <2>3, <2>6 DEF TypeOK, external, delta, reads, counters
  <2>8. PastInv(m)'
    BY <1>1, <1>2, <1>3, <2>1, <2>3, <2>5, <2>6, Values DEF PastInv, Had, external, delta, reads
  <2>9. CallInv(m)'
    BY <1>1, <1>2, Values DEF CallInv
  <2>10. StoreInv(m)'
    BY <1>1, <1>3, <2>1, <2>3, <2>5, <2>6 DEF StoreInv, Visible, external, delta
  <2>11. tower[m].v > 0
    BY <1>1, <1>3, Typed DEF PastInv, Had
  <2>12. Written(m)' /\ KeepsUp(m)'
    BY <1>1, <2>1, <2>2, <2>3, <2>11 DEF Written, KeepsUp, Visible, external, delta
  <2>13. \A n \in Messages : n # m => Untouched(n)
    BY <1>1, <1>2, <2>2, <2>3, <2>6 DEF Untouched, external, delta, reads
  <2> QED BY <2>7, <2>8, <2>9, <2>10, <2>12, <2>13, OneMessage
<1>5. CASE ~Reaches(m)
  <2>1. UNCHANGED <<local, row, list, revived>>
    BY <1>5 DEF CreateAnswer
  <2>2. TypeOK'
    BY <1>1, <1>2, <2>1 DEF TypeOK, external, delta, reads, counters
  <2>3. PastInv(m)' /\ CallInv(m)'
    BY <1>1, <1>2, <1>3, <2>1, Values DEF PastInv, CallInv, Had, external, delta, reads
  <2>4. StoreInv(m)' /\ Written(m)' /\ KeepsUp(m)'
    BY <1>1, <1>3, <2>1 DEF StoreInv, Written, KeepsUp, Visible, external, delta
  <2>5. \A n \in Messages : n # m => Untouched(n)
    BY <1>1, <1>2, <2>1 DEF Untouched, external, delta, reads
  <2> QED BY <2>2, <2>3, <2>4, <2>5, OneMessage
<1> QED BY <1>4, <1>5

----------------------------------------------------------------------------
(* Editing.                                                                 *)

\* Tower's row is marked as pending, or no longer, in the database and in the list.
LEMMA Marking ==
  ASSUME TypeOK, NEW m \in Messages, NEW p \in BOOLEAN, Marked(m, p)
  PROVE  /\ row' \in [Messages -> RowType] /\ row'[m].v = row[m].v /\ row'[m].gone = row[m].gone
         /\ row[m].v = 0 /\ row[m] = NoRow => row'[m] = NoRow
         /\ list' \in [Messages -> ListType] /\ list'[m].row = row'[m] /\ list'[m].local = list[m].local
         /\ \A n \in Messages : n # m => row'[n] = row[n] /\ list'[n] = list[n]
<1>1. PICK r \in RowType :
        /\ r.v = row[m].v /\ r.gone = row[m].gone /\ (row[m] = NoRow => r = NoRow)
        /\ row' = [row EXCEPT ![m] = r] /\ list' = [list EXCEPT ![m].row = r]
  <2>1. CASE row[m] = NoRow
    <3>1. row' = [row EXCEPT ![m] = NoRow] /\ list' = [list EXCEPT ![m].row = NoRow]
      BY <2>1 DEF Marked
    <3> QED BY <2>1, <3>1, Rows
  <2>2. CASE row[m] # NoRow
    <3>1. PICK r : r = [row[m] EXCEPT !.pending = p]
      OBVIOUS
    <3>2. r \in RowType /\ r.v = row[m].v /\ r.gone = row[m].gone
      BY <3>1, Typed DEF RowType
    <3>3. row' = [row EXCEPT ![m] = r] /\ list' = [list EXCEPT ![m].row = r]
      BY <2>2, <3>1 DEF Marked
    <3> QED BY <2>2, <3>2, <3>3
  <2> QED BY <2>1, <2>2
<1>2. PICK l : l = [list[m] EXCEPT !.row = r]
  OBVIOUS
<1>3. l \in ListType /\ l.row = r /\ l.local = list[m].local
  BY <1>1, <1>2, Typed DEF ListType
<1>4. list' = [list EXCEPT ![m] = l]
  BY <1>1, <1>2
<1> QED BY <1>1, <1>3, <1>4 DEF TypeOK

\* Marking takes nothing from what is known of the message.
LEMMA MarkedStays ==
  ASSUME TypeOK, NEW m \in Messages, MessageInv(m), NEW p \in BOOLEAN, Marked(m, p), call'[m].pc # "answered",
         UNCHANGED <<external, kind, local, delta, reads, blind, revived>>, m \in returned => m \in returned'
  PROVE  PastInv(m)' /\ StoreInv(m)' /\ Written(m)' /\ KeepsUp(m)'
<1>1. PastInv(m) /\ StoreInv(m) /\ Written(m) /\ KeepsUp(m)
  BY DEF MessageInv
<1>2. /\ row' \in [Messages -> RowType] /\ row'[m].v = row[m].v /\ row'[m].gone = row[m].gone
      /\ row[m].v = 0 /\ row[m] = NoRow => row'[m] = NoRow
      /\ list'[m].row = row'[m]
  BY Marking
<1>3. PastInv(m)' /\ StoreInv(m)'
  BY <1>1, <1>2 DEF PastInv, StoreInv, Had, Visible, external, delta, reads
<1>4. Written(m)' /\ KeepsUp(m)'
  BY <1>1, <1>2 DEF Written, KeepsUp, Visible, external, delta
<1> QED BY <1>3, <1>4

\* An edit is begun, over a row the list shows.
LEMMA ChatEdit ==
  ASSUME ChatInv, NEW m \in Messages, Edit(m)
  PROVE  ChatInv'
<1>1. /\ TypeOK /\ MessageInv(m) /\ Visible(list[m].row) /\ tower[m].v < MaxVersions /\ Marked(m, TRUE)
      /\ UNCHANGED <<external, kind, local, delta, reads, home, returned, history, counters>>
  BY DEF ChatInv, Edit
<1>2. PastInv(m) /\ CallInv(m) /\ StoreInv(m) /\ Written(m)
  BY <1>1 DEF MessageInv
<1>3. PICK d \in CallType : /\ call' = [call EXCEPT ![m] = d] /\ d.pc = "sent" /\ d.what = "edit"
                            /\ d.at = list[m].row.v /\ ~d.gone
  <2>1. PICK d : d = [NoCall EXCEPT !.pc = "sent", !.what = "edit", !.at = list[m].row.v, !.here = TRUE]
    OBVIOUS
  <2>2. d \in CallType /\ d.pc = "sent" /\ d.what = "edit" /\ d.at = list[m].row.v /\ ~d.gone
    BY <1>1, <2>1, Typed DEF CallType, NoCall
  <2>3. call' = [call EXCEPT ![m] = d]
    BY <2>1 DEF Edit
  <2> QED BY <2>2, <2>3
<1>4. call' \in [Messages -> CallType] /\ call'[m] = d /\ \A n \in Messages : n # m => call'[n] = call[n]
  BY <1>1, <1>3 DEF TypeOK
<1>5. /\ row' \in [Messages -> RowType] /\ list' \in [Messages -> ListType] /\ list'[m].local = list[m].local
      /\ \A n \in Messages : n # m => row'[n] = row[n] /\ list'[n] = list[n]
  BY <1>1, Marking
<1>6. TypeOK'
  BY <1>1, <1>4, <1>5 DEF TypeOK, external, delta, reads, counters
<1>7. PastInv(m)' /\ StoreInv(m)' /\ Written(m)' /\ KeepsUp(m)'
  BY <1>1, <1>3, <1>4, MarkedStays DEF history
<1>8. CallInv(m)'
  <2>1. list[m].row.v > 0 /\ list[m].row.v <= tower[m].v /\ list[m].row.v \in Nat /\ tower[m].v \in Nat
    BY <1>1, <1>2, Typed DEF Visible, PastInv, Had
  <2>2. kind[m] # "none" /\ d.at < MaxVersions
    BY <1>1, <1>2, <1>3, <2>1, Values DEF CallInv
  <2>3. local[m] = "none" \/ m \in blind \/ tower[m].gone
    BY <1>1, <1>2 DEF StoreInv, Written
  <2> QED BY <1>1, <1>3, <1>4, <2>2, <2>3 DEF CallInv, external, history
<1>9. \A n \in Messages : n # m => Untouched(n)
  BY <1>1, <1>4, <1>5 DEF Untouched, external, delta, reads, history
<1> QED BY <1>6, <1>7, <1>8, <1>9, OneMessage

\* An edit fails.
LEMMA EditingFails ==
  ASSUME TypeOK, NEW m \in Messages, MessageInv(m), call[m].what = "edit", EditFails(m),
         tower' = tower, stray' \subseteq stray, UNCHANGED <<kind, delta, reads, blind, revived>>
  PROVE  /\ row' \in [Messages -> RowType] /\ list' \in [Messages -> ListType] /\ call' \in [Messages -> CallType]
         /\ PastInv(m)' /\ CallInv(m)' /\ StoreInv(m)' /\ Written(m)' /\ KeepsUp(m)'
         /\ \A n \in Messages : n # m => Untouched(n)
<1>1. PastInv(m) /\ CallInv(m) /\ StoreInv(m) /\ Written(m) /\ KeepsUp(m) /\ kind[m] # "none"
  BY DEF MessageInv, CallInv
<1>2. call' = [call EXCEPT ![m] = NoCall] /\ UNCHANGED <<local, returned>>
  BY DEF EditFails
<1>3. call' \in [Messages -> CallType] /\ call'[m] = NoCall /\ \A n \in Messages : n # m => call'[n] = call[n]
  BY <1>2, Values DEF TypeOK
<1>4. CallInv(m)'
  BY <1>1, <1>3, Values DEF CallInv
<1>5. PICK p \in BOOLEAN : Marked(m, FALSE) \/ UNCHANGED <<row, list>>
  BY DEF EditFails
<1>6. /\ row' \in [Messages -> RowType] /\ list' \in [Messages -> ListType]
      /\ row'[m].v = row[m].v /\ row'[m].gone = row[m].gone /\ (row[m].v = 0 /\ row[m] = NoRow => row'[m] = NoRow)
      /\ list'[m].row \in {list[m].row, row'[m]}
      /\ \A n \in Messages : n # m => row'[n] = row[n] /\ list'[n] = list[n]
  <2>1. CASE Marked(m, FALSE)
    BY <2>1, Marking
  <2>2. CASE UNCHANGED <<row, list>>
    BY <2>2 DEF TypeOK
  <2> QED BY <1>5, <2>1, <2>2
<1>7. PastInv(m)' /\ StoreInv(m)'
  BY <1>1, <1>3, <1>6, Values DEF PastInv, StoreInv, Had, Visible, delta, reads
<1>8. Written(m)' /\ KeepsUp(m)'
  BY <1>1, <1>2, <1>6 DEF Written, KeepsUp, Visible, delta
<1>9. \A n \in Messages : n # m => Untouched(n)
  BY <1>2, <1>3, <1>6 DEF Untouched, delta, reads
<1> QED BY <1>3, <1>4, <1>6, <1>7, <1>8, <1>9

\* An edit is refused.
LEMMA ChatEditRefused ==
  ASSUME ChatInv, NEW m \in Messages, EditRefused(m)
  PROVE  ChatInv'
<1>1. /\ TypeOK /\ MessageInv(m) /\ EditFails(m) /\ call[m].what = "edit"
      /\ UNCHANGED <<external, kind, delta, reads, home, astray, blind, revived, counters>>
  BY DEF ChatInv, EditRefused, MessageInv, CallInv
<1>2. /\ row' \in [Messages -> RowType] /\ list' \in [Messages -> ListType] /\ call' \in [Messages -> CallType]
      /\ PastInv(m)' /\ CallInv(m)' /\ StoreInv(m)' /\ Written(m)' /\ KeepsUp(m)'
      /\ \A n \in Messages : n # m => Untouched(n)
  BY <1>1, EditingFails DEF external
<1>3. UNCHANGED <<local, returned>>
  BY <1>1 DEF EditFails
<1>4. TypeOK'
  BY <1>1, <1>2, <1>3 DEF TypeOK, external, delta, reads, counters
<1> QED BY <1>2, <1>4, OneMessage

\* The answer of an edit is put as it is.
LEMMA ChatEditAnswer ==
  ASSUME ChatInv, NEW m \in Messages, EditAnswer(m)
  PROVE  ChatInv'
<1>1. /\ TypeOK /\ MessageInv(m) /\ call[m].pc = "answered" /\ call[m].what = "edit"
      /\ call' = [call EXCEPT ![m] = NoCall]
      /\ UNCHANGED <<external, kind, local, delta, reads, home, returned, blind, counters>>
  BY DEF ChatInv, EditAnswer
<1>2. PastInv(m) /\ CallInv(m) /\ StoreInv(m) /\ Written(m) /\ KeepsUp(m) /\ kind[m] # "none"
  BY <1>1 DEF MessageInv, CallInv
<1>3. call' \in [Messages -> CallType] /\ call'[m] = NoCall /\ \A n \in Messages : n # m => call'[n] = call[n]
  BY <1>1, Values DEF TypeOK
<1>4. CallInv(m)'
  BY <1>1, <1>2, <1>3, Values DEF CallInv
<1>5. /\ call[m].at > 0 /\ call[m].at <= tower[m].v /\ (local[m] = "none" \/ m \in blind)
      /\ call[m].at \in 0..MaxVersions /\ tower[m].v \in Nat /\ raw[m].v \in Nat
  BY <1>1, <1>2, Typed DEF PastInv, CallInv, Had
<1>6. CASE home
  <2>1. PICK r : r = [NoRow EXCEPT !.v = call[m].at]
    OBVIOUS
  <2>2. r \in RowType /\ r.v = call[m].at /\ ~r.gone
    BY <1>5, <2>1 DEF NoRow, RowType
  <2>3. /\ row' = [row EXCEPT ![m] = r] /\ list' = [list EXCEPT ![m].row = r]
        /\ revived' = (IF Older(m) THEN revived \cup {m} ELSE revived)
    BY <1>6, <2>1 DEF EditAnswer
  <2>4. PICK l : l = [list[m] EXCEPT !.row = r]
    OBVIOUS
  <2>5. l \in ListType /\ l.row = r /\ l.local = list[m].local
    BY <1>1, <2>2, <2>4, Typed DEF ListType
  <2>6. /\ row' \in [Messages -> RowType] /\ row'[m] = r /\ list' \in [Messages -> ListType] /\ list'[m] = l
        /\ \A n \in Messages : n # m => row'[n] = row[n] /\ list'[n] = list[n]
    BY <1>1, <2>2, <2>3, <2>4, <2>5 DEF TypeOK
  <2>7. TypeOK'
    BY <1>1, <1>3, <2>6 DEF TypeOK, external, delta, reads, counters
  <2>8. PastInv(m)'
    BY <1>1, <1>2, <1>3, <1>5, <2>2, <2>5, <2>6, Values DEF PastInv, Had, external, delta, reads
  <2>9. StoreInv(m)'
    BY <1>1, <1>2, <1>5, <2>2, <2>5, <2>6 DEF StoreInv, Visible, external, delta
  <2>10. Written(m)'
    BY <1>1, <1>2, <1>5 DEF Written, external
  <2>11. KeepsUp(m)'
    BY <1>1, <2>2, <2>3, <2>6 DEF KeepsUp, Older, delta
  <2>12. \A n \in Messages : n # m => Untouched(n)
    BY <1>1, <1>3, <2>3, <2>6 DEF Untouched, external, delta, reads
  <2> QED BY <1>4, <2>7, <2>8, <2>9, <2>10, <2>11, <2>12, OneMessage
<1>7. CASE ~home
  <2>1. UNCHANGED <<row, list, revived>>
    BY <1>7 DEF EditAnswer
  <2>2. TypeOK'
    BY <1>1, <1>3, <2>1 DEF TypeOK, external, delta, reads, counters
  <2>3. PastInv(m)'
    BY <1>1, <1>2, <1>3, <2>1, Values DEF PastInv, Had, external, delta, reads
  <2>4. StoreInv(m)' /\ Written(m)' /\ KeepsUp(m)'
    BY <1>1, <1>2, <2>1 DEF StoreInv, Written, KeepsUp, Visible, external, delta
  <2>5. \A n \in Messages : n # m => Untouched(n)
    BY <1>1, <1>3, <2>1 DEF Untouched, external, delta, reads
  <2> QED BY <1>4, <2>2, <2>3, <2>4, <2>5, OneMessage
<1> QED BY <1>6, <1>7

\* A request or its answer is lost.
LEMMA ChatLose ==
  ASSUME ChatInv, NEW m \in Messages, Lose(m)
  PROVE  ChatInv'
<1>1. /\ TypeOK /\ MessageInv(m) /\ faults < MaxFaults /\ faults' = faults + 1
      /\ stray' = (IF call[m].pc = "sent" /\ call[m].what = "create" THEN stray \cup {m} ELSE stray)
      /\ UNCHANGED <<tower, kind, delta, reads, home, astray, blind, revived, switches>>
  BY DEF ChatInv, Lose
<1>2. stray' \subseteq Messages /\ faults' \in 0..MaxFaults
  <2>1. faults \in 0..MaxFaults /\ MaxFaults \in Nat
    BY <1>1, BoundAssumption DEF TypeOK
  <2>2. faults' \in 0..MaxFaults
    BY <1>1, <2>1
  <2> QED BY <1>1, <2>2 DEF TypeOK
<1>3. CASE call[m].what = "create" /\ CreateFails(m) /\ UNCHANGED row
  <2>1. /\ local' \in [Messages -> Status] /\ list' \in [Messages -> ListType] /\ call' \in [Messages -> CallType]
        /\ returned' \subseteq Messages
        /\ PastInv(m)' /\ CallInv(m)' /\ StoreInv(m)' /\ Written(m)' /\ KeepsUp(m)'
        /\ \A n \in Messages : n # m => Untouched(n)
    BY <1>1, <1>3, CreationFails DEF delta, reads
  <2>2. TypeOK'
    BY <1>1, <1>2, <1>3, <2>1 DEF TypeOK, delta, reads
  <2> QED BY <2>1, <2>2, OneMessage
<1>4. CASE call[m].what = "edit" /\ EditFails(m)
  <2>1. stray' = stray
    BY <1>1, <1>4
  <2>2. /\ row' \in [Messages -> RowType] /\ list' \in [Messages -> ListType] /\ call' \in [Messages -> CallType]
        /\ PastInv(m)' /\ CallInv(m)' /\ StoreInv(m)' /\ Written(m)' /\ KeepsUp(m)'
        /\ \A n \in Messages : n # m => Untouched(n)
    BY <1>1, <1>4, <2>1, EditingFails
  <2>3. UNCHANGED <<local, returned>>
    BY <1>4 DEF EditFails
  <2>4. TypeOK'
    BY <1>1, <1>2, <2>2, <2>3 DEF TypeOK, delta, reads
  <2> QED BY <2>2, <2>4, OneMessage
<1> QED BY <1>3, <1>4 DEF Lose

----------------------------------------------------------------------------
(* The reads, and what the page shows.                                      *)

\* The conflict of a message is looked at again.
LEMMA ChatReconcile ==
  ASSUME ChatInv, NEW m \in Messages, Reconcile(m)
  PROVE  ChatInv'
<1>1. /\ TypeOK /\ MessageInv(m) /\ m \in withheld
      /\ UNCHANGED <<external, kind, raw, list, call, reads, home, returned, history, counters>>
  BY DEF ChatInv, Reconcile
<1>2. /\ PastInv(m) /\ CallInv(m) /\ StoreInv(m) /\ Written(m) /\ KeepsUp(m)
      /\ raw[m].v \in 0..MaxVersions /\ tower[m].v \in Nat /\ raw[m].gone \in BOOLEAN
  BY <1>1, Typed DEF MessageInv
<1>3. CASE row[m].v > raw[m].v /\ ~raw[m].gone
  <2>1. withheld' = withheld \ {m} /\ UNCHANGED <<row, local>>
    BY <1>3 DEF Reconcile
  <2>2. TypeOK'
    BY <1>1, <2>1 DEF TypeOK, external, reads, counters
  <2>3. PastInv(m)' /\ CallInv(m)'
    BY <1>1, <1>2, <2>1 DEF PastInv, CallInv, Had, external, reads, history
  <2>4. StoreInv(m)' /\ Written(m)'
    BY <1>1, <1>2, <2>1 DEF StoreInv, Written, Visible, external, history
  <2>5. KeepsUp(m)'
    <3>1. ~(row[m].v < raw[m].v)
      BY <1>1, <1>3, Typed
    <3> QED BY <1>1, <2>1, <3>1 DEF KeepsUp
  <2>6. \A n \in Messages : n # m => Untouched(n)
    BY <1>1, <2>1 DEF Untouched, external, reads, history
  <2> QED BY <2>2, <2>3, <2>4, <2>5, <2>6, OneMessage
<1>4. CASE raw[m].gone
  <2>1. row' = [row EXCEPT ![m] = NoRow] /\ UNCHANGED <<local, withheld>>
    BY <1>4 DEF Reconcile
  <2>2. row' \in [Messages -> RowType] /\ row'[m] = NoRow /\ \A n \in Messages : n # m => row'[n] = row[n]
    <3>1. row \in [Messages -> RowType] /\ NoRow \in RowType
      BY <1>1, Rows DEF TypeOK
    <3> QED BY <2>1, <3>1
  <2>3. TypeOK'
    BY <1>1, <2>1, <2>2 DEF TypeOK, external, reads, counters
  <2>4. row'[m].v = 0 /\ ~row'[m].gone
    BY <2>2, Rows
  <2>5. PastInv(m)' /\ CallInv(m)'
    BY <1>1, <1>2, <2>1, <2>4 DEF PastInv, CallInv, Had, external, reads, history
  <2>6. StoreInv(m)'
    BY <1>1, <1>2, <1>4, <2>1, <2>2, <2>4 DEF StoreInv, PastInv, Had, Visible, external
  <2>7. Written(m)' /\ KeepsUp(m)'
    BY <1>1, <1>2, <2>1, <2>4 DEF Written, KeepsUp, Visible, external
  <2>8. \A n \in Messages : n # m => Untouched(n)
    BY <1>1, <2>1, <2>2 DEF Untouched, external, reads, history
  <2> QED BY <2>3, <2>5, <2>6, <2>7, <2>8, OneMessage
<1>5. CASE ~(row[m].v > raw[m].v) /\ ~raw[m].gone
  <2>1. PICK r : r = [NoRow EXCEPT !.v = raw[m].v, !.delta = TRUE]
    OBVIOUS
  <2>2. r \in RowType /\ r.v = raw[m].v /\ ~r.gone
    BY <1>2, <2>1 DEF NoRow, RowType
  <2>3. row' = [row EXCEPT ![m] = r] /\ local' = [local EXCEPT ![m] = "none"] /\ withheld' = withheld \ {m}
    BY <1>5, <2>1 DEF Reconcile
  <2>4. /\ row' \in [Messages -> RowType] /\ row'[m] = r
        /\ local' \in [Messages -> Status] /\ local'[m] = "none"
        /\ \A n \in Messages : n # m => row'[n] = row[n] /\ local'[n] = local[n]
    BY <1>1, <2>2, <2>3 DEF TypeOK, Status
  <2>5. TypeOK'
    BY <1>1, <2>3, <2>4 DEF TypeOK, external, reads, counters
  <2>6. raw[m].v > 0 /\ tower[m].v > 0
    BY <1>1, <1>2 DEF StoreInv, PastInv, Had
  <2>7. PastInv(m)' /\ CallInv(m)'
    BY <1>1, <1>2, <2>2, <2>4 DEF PastInv, CallInv, Had, external, reads, history
  <2>8. StoreInv(m)' /\ Written(m)' /\ KeepsUp(m)'
    BY <1>1, <1>2, <2>2, <2>4, <2>6 DEF StoreInv, Written, KeepsUp, Visible, external, history
  <2>9. \A n \in Messages : n # m => Untouched(n)
    BY <1>1, <2>3, <2>4 DEF Untouched, external, reads, history
  <2> QED BY <2>5, <2>7, <2>8, <2>9, OneMessage
<1> QED BY <1>3, <1>4, <1>5

\* A page of the record delta is read.
LEMMA ChatReadPage ==
  ASSUME ChatInv, ReadPage
  PROVE  ChatInv'
<1>1. /\ TypeOK /\ page' = tower
      /\ UNCHANGED <<external, kind, stored, delta, list, call, typed, home, returned, history, counters>>
  BY DEF ChatInv, ReadPage
<1>2. TypeOK'
  BY <1>1 DEF TypeOK, external, stored, delta, counters
<1>3. ASSUME NEW m \in Messages PROVE MessageInv(m)'
  <2>1. MessageInv(m) /\ tower[m].v <= tower[m].v
    BY <1>1, Typed DEF ChatInv
  <2>2. PastInv(m)'
    BY <1>1, <2>1 DEF MessageInv, PastInv, Had, external, stored, delta
  <2>3. CallInv(m)' /\ StoreInv(m)'
    BY <1>1, <2>1 DEF MessageInv, CallInv, StoreInv, Visible, external, stored, delta, history
  <2>4. Written(m)' /\ KeepsUp(m)'
    BY <1>1, <2>1 DEF MessageInv, Written, KeepsUp, Visible, external, stored, delta, history
  <2> QED BY <2>2, <2>3, <2>4 DEF MessageInv
<1> QED BY <1>2, <1>3 DEF ChatInv

\* The messages of the open channel are read.
LEMMA ChatOpenChannel ==
  ASSUME ChatInv, OpenChannel
  PROVE  ChatInv'
<1>1. /\ TypeOK /\ typed' = [m \in Messages |-> IF tower[m].gone THEN Absent ELSE tower[m]]
      /\ UNCHANGED <<external, kind, stored, delta, list, call, page, home, returned, history, counters>>
  BY DEF ChatInv, OpenChannel
<1>2. typed' \in [Messages -> Version] /\ \A m \in Messages : typed'[m] = Absent \/ (typed'[m] = tower[m] /\ ~tower[m].gone)
  BY <1>1, Values, Typed
<1>3. TypeOK'
  BY <1>1, <1>2 DEF TypeOK, external, stored, delta, counters
<1>4. ASSUME NEW m \in Messages PROVE MessageInv(m)'
  <2>1. MessageInv(m) /\ tower[m].v \in Nat
    BY <1>1, Typed DEF ChatInv
  <2>2. typed'[m].v <= tower[m].v /\ ~typed'[m].gone
    BY <1>2, <2>1, Values
  <2>3. PastInv(m)'
    BY <1>1, <2>1, <2>2 DEF MessageInv, PastInv, Had, external, stored, delta
  <2>4. CallInv(m)' /\ StoreInv(m)'
    BY <1>1, <2>1 DEF MessageInv, CallInv, StoreInv, Visible, external, stored, delta, history
  <2>5. Written(m)' /\ KeepsUp(m)'
    BY <1>1, <2>1 DEF MessageInv, Written, KeepsUp, Visible, external, stored, delta, history
  <2> QED BY <2>3, <2>4, <2>5 DEF MessageInv
<1> QED BY <1>3, <1>4 DEF ChatInv

\* What materialize leaves of one message for which the page has a change.
LEMMA MaterialisedIsPast ==
  ASSUME TypeOK, NEW m \in Messages, MessageInv(m), page[m].v > raw[m].v,
         NEW r, r = Materialised(m, page[m]), NEW l, l = Superseded(m, page[m])
  PROVE  /\ r \in RowType /\ l \in {local[m], "none"}
         /\ Had(m, r.v, r.gone) /\ (r.v = 0 => r = NoRow)
         /\ Visible(r) \/ r = row[m] \/ page[m].gone
         /\ ~page[m].gone => r.v > 0
         /\ l # local[m] => ~page[m].gone
         /\ (l # "none" /\ Visible(r)) => l = local[m] /\ Visible(row[m])
         /\ Visible(r) /\ r.v < page[m].v => Held(m, page[m])
<1>1. /\ PastInv(m) /\ StoreInv(m) /\ row[m] \in RowType /\ row[m].v \in Nat /\ page[m].v \in 0..MaxVersions
      /\ raw[m].v \in Nat /\ page[m].gone \in BOOLEAN /\ tower[m].v \in Nat
  BY Typed DEF MessageInv
<1>2. NoRow \in RowType /\ NoRow.v = 0 /\ ~NoRow.gone /\ ~NoRow.pending /\ ~NoRow.recon
  BY Rows
<1>3. CASE page[m].gone
  <2>1. r = NoRow /\ l = local[m]
    BY <1>3 DEF Materialised, Superseded
  <2> QED BY <1>1, <1>2, <1>3, <2>1 DEF Had, Visible
<1>4. CASE ~page[m].gone /\ Held(m, page[m])
  <2>1. r = row[m] /\ l = local[m]
    BY <1>4 DEF Materialised, Superseded
  <2>2. row[m].v > 0
    <3>1. row[m] # NoRow
      BY <1>2, <1>4 DEF Held
    <3> QED BY <1>1, <3>1 DEF StoreInv
  <2> QED BY <1>1, <1>4, <2>1, <2>2 DEF PastInv
<1>5. CASE ~page[m].gone /\ ~Held(m, page[m]) /\ row[m].v > page[m].v
  <2>1. r = row[m] /\ l = local[m]
    BY <1>5 DEF Materialised, Superseded
  <2> QED BY <1>1, <1>5, <2>1 DEF PastInv
<1>6. CASE ~page[m].gone /\ ~Held(m, page[m]) /\ ~(row[m].v > page[m].v)
  <2>1. PICK x : x = [NoRow EXCEPT !.v = page[m].v, !.delta = TRUE]
    OBVIOUS
  <2>2. x \in RowType /\ x.v = page[m].v /\ ~x.gone
    BY <1>1, <2>1 DEF NoRow, RowType
  <2>3. r = x /\ l = "none"
    BY <1>6, <2>1 DEF Materialised, Superseded
  <2>4. x.v > 0
    BY <1>1, <2>2
  <2> QED BY <1>1, <1>6, <2>2, <2>3, <2>4 DEF PastInv, Had, Visible
<1> QED BY <1>3, <1>4, <1>5, <1>6

\* A page of the record delta is committed.
LEMMA ChatCommitPage ==
  ASSUME ChatInv, CommitPage
  PROVE  ChatInv'
<1>1. /\ TypeOK /\ page' = NoPage /\ typed' = NoPage
      /\ UNCHANGED <<external, kind, list, call, home, returned, history, counters>>
  BY DEF ChatInv, CommitPage
<1> DEFINE changed == {m \in Messages : page[m].v > raw[m].v}
<1>2. /\ raw' = [m \in Messages |-> IF m \in changed THEN page[m] ELSE raw[m]]
      /\ row' = [m \in Messages |-> IF m \in changed THEN Materialised(m, page[m]) ELSE row[m]]
      /\ local' = [m \in Messages |-> IF m \in changed THEN Superseded(m, page[m]) ELSE local[m]]
      /\ withheld' = {m \in withheld : m \notin changed \/ page[m].gone \/ row[m].v > page[m].v}
                     \cup {m \in changed : Held(m, page[m])}
  BY DEF CommitPage
<1>3. ASSUME NEW m \in Messages, page[m].v > raw[m].v
      PROVE  /\ raw'[m] = page[m] /\ row'[m] = Materialised(m, page[m]) /\ local'[m] = Superseded(m, page[m])
             /\ Held(m, page[m]) => m \in withheld'
  BY <1>2, <1>3
<1>4. ASSUME NEW m \in Messages, ~(page[m].v > raw[m].v)
      PROVE  /\ raw'[m] = raw[m] /\ row'[m] = row[m] /\ local'[m] = local[m]
             /\ m \in withheld' <=> m \in withheld
  BY <1>2, <1>4
<1>5. withheld' \subseteq Messages
  BY <1>1, <1>2 DEF TypeOK
<1>6. ASSUME NEW m \in Messages
      PROVE  raw'[m] \in Version /\ row'[m] \in RowType /\ local'[m] \in Status
  <2>1. CASE page[m].v > raw[m].v
    <3>1. Materialised(m, page[m]) \in RowType /\ Superseded(m, page[m]) \in {local[m], "none"}
      BY <1>1, <2>1, MaterialisedIsPast DEF ChatInv
    <3> QED BY <1>1, <1>3, <2>1, <3>1, Typed DEF Status
  <2>2. CASE ~(page[m].v > raw[m].v)
    BY <1>1, <1>4, <2>2, Typed
  <2> QED BY <2>1, <2>2
<1>7. TypeOK'
  <2>1. raw' \in [Messages -> Version] /\ row' \in [Messages -> RowType] /\ local' \in [Messages -> Status]
    BY <1>2, <1>6
  <2> QED BY <1>1, <1>5, <2>1, Values DEF TypeOK, external, counters
<1>8. ASSUME NEW m \in Messages PROVE MessageInv(m)'
  <2>1. MessageInv(m) /\ PastInv(m) /\ CallInv(m) /\ StoreInv(m) /\ Written(m) /\ KeepsUp(m)
    BY DEF ChatInv, MessageInv
  <2>2. /\ page'[m].v = 0 /\ ~page'[m].gone /\ typed'[m].v = 0 /\ ~typed'[m].gone
        /\ tower[m].v \in Nat /\ row[m].v \in Nat /\ raw[m].v \in Nat /\ page[m].v \in Nat
    BY <1>1, Values, Typed
  <2>3. CASE page[m].v > raw[m].v
    <3>1. /\ raw'[m] = page[m] /\ (Held(m, page[m]) => m \in withheld') /\ local'[m] \in {local[m], "none"}
          /\ Had(m, row'[m].v, row'[m].gone) /\ (row'[m].v = 0 => row'[m] = NoRow)
          /\ Visible(row'[m]) \/ row'[m] = row[m] \/ page[m].gone
          /\ ~page[m].gone => row'[m].v > 0
          /\ (local'[m] # local[m] => ~page[m].gone)
          /\ (local'[m] # "none" /\ Visible(row'[m])) => local'[m] = local[m] /\ Visible(row[m])
          /\ (Visible(row'[m]) /\ row'[m].v < page[m].v => Held(m, page[m]))
      BY <1>1, <1>3, <2>1, <2>3, MaterialisedIsPast
    <3>2. PastInv(m)' /\ CallInv(m)'
      BY <1>1, <2>1, <2>2, <3>1 DEF PastInv, CallInv, Had, external, history
    <3>3. StoreInv(m)'
      <4>1. Visible(list[m].row) => Visible(row'[m]) \/ tower[m].gone
        BY <2>1, <3>1 DEF StoreInv, PastInv, Had
      <4>2. raw'[m].v > 0
        BY <2>2, <2>3, <3>1
      <4> QED BY <1>1, <3>1, <4>1, <4>2 DEF StoreInv, Visible, external
    <3>4. tower[m].v > 0
      BY <2>1, <2>2, <2>3 DEF PastInv, Had
    <3>5. Written(m)' /\ KeepsUp(m)'
      BY <1>1, <2>1, <3>1, <3>4 DEF Written, KeepsUp, Visible, external, history
    <3> QED BY <3>2, <3>3, <3>5 DEF MessageInv
  <2>4. CASE ~(page[m].v > raw[m].v)
    <3>1. /\ raw'[m] = raw[m] /\ row'[m] = row[m] /\ local'[m] = local[m] /\ (m \in withheld' <=> m \in withheld)
      BY <1>4, <2>4
    <3>2. PastInv(m)' /\ CallInv(m)'
      BY <1>1, <2>1, <2>2, <3>1 DEF PastInv, CallInv, Had, external, history
    <3>3. StoreInv(m)' /\ Written(m)' /\ KeepsUp(m)'
      BY <1>1, <2>1, <3>1 DEF StoreInv, Written, KeepsUp, Visible, external, history
    <3> QED BY <3>2, <3>3 DEF MessageInv
  <2> QED BY <2>3, <2>4
<1> QED BY <1>7, <1>8 DEF ChatInv

\* The answer of the channel read is taken.
LEMMA ChatCommitTyped ==
  ASSUME ChatInv, CommitTyped
  PROVE  ChatInv'
<1>1. /\ TypeOK /\ typed' = NoPage
      /\ UNCHANGED <<external, kind, delta, list, call, page, home, returned, history, counters>>
  BY DEF ChatInv, CommitTyped
<1> DEFINE taken == {m \in Messages : typed[m].v > 0 /\ row[m].v <= typed[m].v}
           put == {m \in taken : ~raw[m].gone /\ raw[m].v <= typed[m].v}
<1>2. /\ local' = [m \in Messages |-> IF m \in taken THEN "none" ELSE local[m]]
      /\ row' = [m \in Messages |-> IF m \in put THEN [NoRow EXCEPT !.v = typed[m].v] ELSE row[m]]
  BY DEF CommitTyped
<1>3. ASSUME NEW m \in Messages
      PROVE  /\ row'[m] \in RowType /\ local'[m] \in Status
             /\ local'[m] = local[m] \/ (local'[m] = "none" /\ typed[m].v > 0)
             /\ \/ row'[m] = row[m]
                \/ /\ row'[m].v = typed[m].v /\ ~row'[m].gone /\ typed[m].v > 0
                   /\ ~raw[m].gone /\ raw[m].v <= typed[m].v /\ local'[m] = "none"
  <2>1. local'[m] = local[m] \/ (local'[m] = "none" /\ typed[m].v > 0)
    BY <1>2
  <2>2. local'[m] \in Status
    BY <1>1, <2>1, Typed DEF Status
  <2>3. CASE m \in put
    <3>1. PICK r : r = [NoRow EXCEPT !.v = typed[m].v]
      OBVIOUS
    <3>2. r \in RowType /\ r.v = typed[m].v /\ ~r.gone
      BY <1>1, <3>1, Typed DEF NoRow, RowType
    <3>3. row'[m] = r /\ local'[m] = "none" /\ typed[m].v > 0 /\ ~raw[m].gone /\ raw[m].v <= typed[m].v
      BY <1>2, <2>3, <3>1
    <3> QED BY <2>2, <2>1, <3>2, <3>3
  <2>4. CASE m \notin put
    <3>1. row'[m] = row[m]
      BY <1>2, <2>4
    <3> QED BY <1>1, <2>1, <2>2, <3>1, Typed
  <2> QED BY <2>3, <2>4
<1>4. TypeOK'
  <2>1. row' \in [Messages -> RowType] /\ local' \in [Messages -> Status]
    BY <1>2, <1>3
  <2> QED BY <1>1, <2>1, Values DEF TypeOK, external, delta, counters
<1>5. ASSUME NEW m \in Messages PROVE MessageInv(m)'
  <2>1. PastInv(m) /\ CallInv(m) /\ StoreInv(m) /\ Written(m) /\ KeepsUp(m)
    BY DEF ChatInv, MessageInv
  <2>2. /\ typed'[m].v = 0 /\ ~typed'[m].gone
        /\ tower[m].v \in Nat /\ row[m].v \in Nat /\ raw[m].v \in Nat /\ typed[m].v \in Nat
    BY <1>1, Values, Typed
  <2>3. typed[m].v <= tower[m].v
    BY <2>1 DEF PastInv, Had
  <2>4. PastInv(m)' /\ CallInv(m)'
    BY <1>1, <1>3, <2>1, <2>2, <2>3 DEF PastInv, CallInv, Had, external, delta, history
  <2>5. StoreInv(m)' /\ KeepsUp(m)'
    BY <1>1, <1>3, <2>1, <2>2 DEF StoreInv, KeepsUp, Visible, external, delta, history
  <2>6. Written(m)'
    BY <1>1, <1>3, <2>1, <2>2, <2>3 DEF Written, Visible, external, history
  <2> QED BY <2>4, <2>5, <2>6 DEF MessageInv
<1> QED BY <1>4, <1>5 DEF ChatInv

\* The page shows what is stored.
LEMMA ChatRefresh ==
  ASSUME ChatInv, Refresh
  PROVE  ChatInv'
<1>1. /\ TypeOK /\ list' = [m \in Messages |-> Refreshed(m)]
      /\ UNCHANGED <<external, kind, stored, delta, call, reads, home, returned, history, counters>>
  BY DEF ChatInv, Refresh
<1>2. ASSUME NEW m \in Messages
      PROVE  /\ list'[m] \in ListType /\ list'[m].local \in {local[m], list[m].local}
             /\ list'[m].row \in {row[m], list[m].row, NoRow}
             /\ list'[m].row = row[m] \/ ~Visible(row[m])
  <2>1. PICK r : r = IF Visible(row[m]) THEN row[m]
                     ELSE IF list[m].row.pending \/ list[m].row.recon THEN list[m].row ELSE NoRow
    OBVIOUS
  <2>2. PICK l : l = IF list[m].local = "pending" /\ local[m] = "none" /\ ~Visible(row[m]) THEN "pending" ELSE local[m]
    OBVIOUS
  <2>3. list'[m] = [local |-> l, row |-> r]
    BY <1>1, <2>1, <2>2 DEF Refreshed
  <2>4. r \in {row[m], list[m].row, NoRow} /\ (r = row[m] \/ ~Visible(row[m]))
    BY <2>1
  <2>5. r \in RowType
    <3>1. row[m] \in RowType /\ list[m].row \in RowType /\ NoRow \in RowType
      BY <1>1, Typed, Rows
    <3> QED BY <2>4, <3>1
  <2>6. l \in {local[m], list[m].local} /\ l \in Status
    BY <1>1, <2>2, Typed
  <2> QED BY <2>3, <2>4, <2>5, <2>6 DEF ListType
<1>3. TypeOK'
  <2>1. list' \in [Messages -> ListType]
    BY <1>1, <1>2
  <2> QED BY <1>1, <2>1 DEF TypeOK, external, stored, delta, reads, counters
<1>4. ASSUME NEW m \in Messages PROVE MessageInv(m)'
  <2>1. PastInv(m) /\ CallInv(m) /\ StoreInv(m) /\ Written(m) /\ KeepsUp(m)
    BY DEF ChatInv, MessageInv
  <2>2. NoRow.v = 0 /\ ~NoRow.gone
    BY Rows
  <2>3. \/ list'[m].row.v = 0 /\ ~list'[m].row.gone
        \/ list'[m].row \in {row[m], list[m].row}
    BY <1>2, <2>2
  <2>4. Had(m, list'[m].row.v, list'[m].row.gone)
    BY <1>1, <2>1, <2>3, Typed DEF PastInv, Had
  <2>5. PastInv(m)' /\ CallInv(m)'
    BY <1>1, <1>2, <2>1, <2>4 DEF PastInv, CallInv, Had, external, stored, delta, reads, history
  <2>6. StoreInv(m)'
    BY <1>1, <1>2, <2>1, <2>3 DEF StoreInv, Visible, external, stored, delta
  <2>7. Written(m)' /\ KeepsUp(m)'
    BY <1>1, <2>1 DEF Written, KeepsUp, Visible, external, stored, delta, history
  <2> QED BY <2>5, <2>6, <2>7 DEF MessageInv
<1> QED BY <1>3, <1>4 DEF ChatInv

----------------------------------------------------------------------------
(* Switches and faults.                                                     *)

\* What a switch or a lost page leaves of one message.
LEMMA Forgotten ==
  ASSUME TypeOK, NEW m \in Messages, MessageInv(m),
         tower' = tower, UNCHANGED <<kind, stored, delta, returned, blind, revived>>,
         m \in stray' => m \in stray \/ call[m].what # "none", list'[m] = Unlisted, page' = NoPage, typed' = NoPage,
         /\ call'[m].pc \in {"none", call[m].pc} /\ call'[m].what = (IF call'[m].pc = "none" THEN "none" ELSE call[m].what)
         /\ call'[m].pc # "none" => call'[m].at = call[m].at /\ call'[m].gone = call[m].gone
  PROVE  MessageInv(m)'
<1>1. /\ PastInv(m) /\ CallInv(m) /\ StoreInv(m) /\ Written(m) /\ KeepsUp(m) /\ tower[m].v \in Nat
      /\ page'[m].v = 0 /\ ~page'[m].gone /\ typed'[m].v = 0 /\ ~typed'[m].gone
      /\ list'[m].local = "none" /\ list'[m].row.v = 0 /\ ~list'[m].row.gone
  <2>1. PastInv(m) /\ CallInv(m) /\ StoreInv(m) /\ Written(m) /\ KeepsUp(m) /\ tower[m].v \in Nat
    BY Typed DEF MessageInv
  <2>2. page'[m].v = 0 /\ ~page'[m].gone /\ typed'[m].v = 0 /\ ~typed'[m].gone
    BY Values
  <2>3. NoRow.v = 0 /\ ~NoRow.gone
    BY Rows
  <2>4. list'[m].local = "none" /\ list'[m].row.v = 0 /\ ~list'[m].row.gone
    BY <2>3, Values
  <2> QED BY <2>1, <2>2, <2>4
<1>2. PastInv(m)'
  BY <1>1 DEF PastInv, CallInv, Had, stored, delta
<1>3. CallInv(m)'
  BY <1>1 DEF CallInv, stored
<1>4. StoreInv(m)' /\ Written(m)' /\ KeepsUp(m)'
  BY <1>1 DEF StoreInv, Written, KeepsUp, Visible, stored, delta
<1> QED BY <1>2, <1>3, <1>4 DEF MessageInv

\* The workspace is switched.
LEMMA ChatSwitch ==
  ASSUME ChatInv, Switch
  PROVE  ChatInv'
<1>1. /\ TypeOK /\ switches < MaxSwitches /\ switches' = switches + 1 /\ home' = ~home
      /\ list' = [m \in Messages |-> Unlisted] /\ page' = NoPage /\ typed' = NoPage
      /\ call' = [m \in Messages |-> [call[m] EXCEPT !.here = FALSE]]
      /\ UNCHANGED <<external, kind, stored, delta, returned, history, faults>>
  BY DEF ChatInv, Switch
<1>2. ASSUME NEW m \in Messages
      PROVE  /\ call'[m] \in CallType /\ call'[m].pc = call[m].pc /\ call'[m].what = call[m].what
             /\ call'[m].at = call[m].at /\ call'[m].gone = call[m].gone
  <2>1. call'[m] = [call[m] EXCEPT !.here = FALSE] /\ call[m] \in CallType
    BY <1>1, Typed
  <2> QED BY <2>1 DEF CallType
<1>3. switches' \in 0..MaxSwitches
  <2>1. switches \in 0..MaxSwitches /\ MaxSwitches \in Nat
    BY <1>1, BoundAssumption DEF TypeOK
  <2> QED BY <1>1, <2>1
<1>4. TypeOK'
  <2>1. call' \in [Messages -> CallType] /\ list' \in [Messages -> ListType] /\ home' \in BOOLEAN
    BY <1>1, <1>2, Values
  <2> QED BY <1>1, <1>3, <2>1, Values DEF TypeOK, external, stored, delta
<1>5. ASSUME NEW m \in Messages PROVE MessageInv(m)'
  <2>1. MessageInv(m) /\ (call[m].what = "none" <=> call[m].pc = "none")
    BY DEF ChatInv, MessageInv, CallInv
  <2> QED BY <1>1, <1>2, <2>1, Forgotten DEF external, history
<1> QED BY <1>4, <1>5 DEF ChatInv

\* The page is lost, and loaded again.
LEMMA ChatReload ==
  ASSUME ChatInv, Reload
  PROVE  ChatInv'
<1>1. /\ TypeOK /\ faults < MaxFaults /\ faults' = faults + 1 /\ home' = TRUE
      /\ stray' = stray \cup {m \in Messages : call[m].pc = "sent" /\ call[m].what = "create"}
      /\ list' = [m \in Messages |-> Unlisted] /\ page' = NoPage /\ typed' = NoPage
      /\ call' = [m \in Messages |-> NoCall]
      /\ UNCHANGED <<tower, kind, stored, delta, returned, astray, blind, revived, switches>>
  BY DEF ChatInv, Reload
<1>2. faults' \in 0..MaxFaults
  <2>1. faults \in 0..MaxFaults /\ MaxFaults \in Nat
    BY <1>1, BoundAssumption DEF TypeOK
  <2> QED BY <1>1, <2>1
<1>3. TypeOK'
  <2>1. call' \in [Messages -> CallType] /\ list' \in [Messages -> ListType] /\ stray' \subseteq Messages
    BY <1>1, Values DEF TypeOK
  <2> QED BY <1>1, <1>2, <2>1, Values DEF TypeOK, stored, delta
<1>4. ASSUME NEW m \in Messages PROVE MessageInv(m)'
  <2>1. MessageInv(m) /\ (m \in stray' => m \in stray \/ call[m].what # "none") /\ list'[m] = Unlisted
    BY <1>1 DEF ChatInv
  <2>2. call'[m].pc = "none" /\ call'[m].what = "none"
    BY <1>1, Values
  <2> QED BY <1>1, <2>1, <2>2, Forgotten
<1> QED BY <1>3, <1>4 DEF ChatInv

----------------------------------------------------------------------------
(* The theorems.                                                            *)

\* At first there is no message.
LEMMA ChatBegins == Init => ChatInv
<1> SUFFICES ASSUME Init PROVE ChatInv
  OBVIOUS
<1>1. TypeOK
  <2>1. faults \in 0..MaxFaults /\ switches \in 0..MaxSwitches
    BY BoundAssumption DEF Init
  <2>2. /\ tower \in [Messages -> Version] /\ raw \in [Messages -> Version]
        /\ page \in [Messages -> Version] /\ typed \in [Messages -> Version]
        /\ list \in [Messages -> ListType] /\ call \in [Messages -> CallType]
    BY Values DEF Init
  <2>3. row \in [Messages -> RowType]
    BY Rows DEF Init
  <2>4. /\ local \in [Messages -> Status] /\ kind \in [Messages -> {"none", "message", "reply", "thread"}]
        /\ stray \subseteq Messages /\ withheld \subseteq Messages /\ returned \subseteq Messages /\ home \in BOOLEAN
    BY DEF Init, Status
  <2> QED BY <2>1, <2>2, <2>3, <2>4 DEF TypeOK
<1>2. ASSUME NEW m \in Messages PROVE MessageInv(m)
  <2>1. /\ tower[m].v = 0 /\ ~tower[m].gone /\ raw[m].v = 0 /\ ~raw[m].gone
        /\ page[m].v = 0 /\ ~page[m].gone /\ typed[m].v = 0 /\ ~typed[m].gone
        /\ call[m].pc = "none" /\ call[m].what = "none"
        /\ list[m].local = "none" /\ list[m].row = NoRow
    BY Values DEF Init
  <2>2. row[m] = NoRow /\ NoRow.v = 0 /\ ~NoRow.gone
    BY Rows DEF Init
  <2>3. /\ stray = {} /\ kind[m] = "none" /\ local[m] = "none" /\ withheld = {}
    BY DEF Init
  <2> QED BY <2>1, <2>2, <2>3 DEF MessageInv, PastInv, CallInv, StoreInv, Written, KeepsUp, Had, Visible
<1> QED BY <1>1, <1>2 DEF ChatInv

\* Every step keeps the invariant.
LEMMA ChatGoesOn == ChatInv /\ [Next]_vars => ChatInv'
<1> SUFFICES ASSUME ChatInv, [Next]_vars PROVE ChatInv'
  OBVIOUS
<1>1. ASSUME NEW m \in Messages,
             Compose(m) \/ Resend(m) \/ Edit(m) \/ Own(m) \/ Reconcile(m)
             \/ OthersEdit(m) \/ OthersDelete(m) \/ StrayArrives(m) \/ Lose(m)
      PROVE  ChatInv'
  BY <1>1, ChatCompose, ChatResend, ChatEdit, ChatSends, ChatCreateArrives, ChatCreateAnswer, ChatEditArrives,
     ChatEditRefused, ChatEditAnswer, ChatReconcile, ChatOthers, ChatStray, ChatLose DEF Own
<1>2. CASE Loop \/ OpenChannel \/ CommitTyped \/ Refresh \/ Switch \/ Reload
  BY <1>2, ChatReadPage, ChatCommitPage, ChatOpenChannel, ChatCommitTyped, ChatRefresh, ChatSwitch, ChatReload DEF Loop
<1>3. CASE UNCHANGED vars
  <2>1. TypeOK'
    BY <1>3 DEF ChatInv, TypeOK, vars, external, stored, delta, reads, counters
  <2>2. ASSUME NEW m \in Messages PROVE MessageInv(m)'
    <3>1. MessageInv(m) /\ Untouched(m)
      BY <1>3 DEF ChatInv, Untouched, vars, external, stored, delta, reads, history
    <3> QED BY <3>1, MessageStays
  <2> QED BY <2>1, <2>2 DEF ChatInv
<1> QED BY <1>1, <1>2, <1>3 DEF Next

\* The invariant holds in every state, for any number of messages, versions, faults
\* and switches.
THEOREM ChatInvariant == Spec => []ChatInv
BY ChatBegins, ChatGoesOn, PTL DEF Spec

\* Every variable holds a value the code can store in it.
THEOREM TypeCorrect == Spec => []TypeOK
<1>1. ChatInv => TypeOK
  BY DEF ChatInv
<1> QED BY <1>1, ChatInvariant, PTL

\* A message is kept, and kept once: until Tower has it its row or its text is there,
\* and no optimistic row stands beside Tower's but that of a message sent again.
THEOREM KeptOnce == Spec => []WrittenOnce
<1>1. ChatInv => WrittenOnce
  BY DEF ChatInv, MessageInv, Written, WrittenOnce
<1> QED BY <1>1, ChatInvariant, PTL

\* No late answer takes a message back behind the record delta without a conflict that
\* remembers it, the answers put without a look at the row apart.
THEOREM RowsKeepUp == Spec => []RowKeepsUp
<1>1. ChatInv => RowKeepsUp
  BY DEF ChatInv, MessageInv, KeepsUp, RowKeepsUp
<1> QED BY <1>1, ChatInvariant, PTL
=============================================================================
