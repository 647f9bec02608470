-------------------------- MODULE TowerCommandProofs --------------------------
(***************************************************************************)
(* Proofs about TowerCommand for any records, workspaces and number of     *)
(* commands: its types, that a row shown as synced was applied at Tower,   *)
(* and that the answers to commands neither cross workspaces nor replace   *)
(* the row of a later command.                                             *)
(***************************************************************************)
EXTENDS TowerCommand, FiniteSets, FiniteSetTheorems, TLAPS

Ids == 1..Len(calls)

\* The services before the one in use are gone, and a call of the one in use belongs
\* to the current workspace.
ServiceInv ==
  /\ disposed = 0..(service - 1)
  /\ \A i \in Ids : /\ calls[i].service <= service
                    /\ calls[i].service = service => calls[i].ws = current

\* A call that has taken or joined the command of another took that of a call of its
\* record that ran itself.
LeaderInv ==
  \A i \in Ids : LET j == calls[i].leader IN
    j \in Ids /\ calls[j].record = calls[i].record /\ calls[j].leader = j

\* What is known of a call by its phase and its result.
PhaseInv ==
  \A i \in Ids :
    /\ calls[i].phase \in {"resolved", "settled"} <=> calls[i].result # "none"
    /\ calls[i].phase = "edited" => calls[i].record \in Files /\ calls[i].gen = 0
    /\ calls[i].phase \in {"edited", "shown", "sent", "accepted", "refused", "reconciled"} => calls[i].leader = i
    /\ calls[i].phase \in {"shown", "sent", "accepted", "refused", "reconciled"} => calls[i].gen # 0
    /\ calls[i].phase \in {"edited", "shown", "sent"} => i \notin applied
    /\ calls[i].phase \in {"accepted", "reconciled"} => i \in applied /\ calls[i].ver # 0
    /\ calls[i].result = "answered" => calls[i].leader \in applied /\ calls[i].ver # 0

\* A row of record r is by a call on r, and by one that was applied if it is synced.
Known(r, row) ==
  /\ row.by # 0 => row.by \in Ids /\ calls[row.by].record = r
  /\ row.status = "synced" => row.by \in {0} \cup applied

\* So are the rows stored, and those remembered by the calls to put them back.
RowInv ==
  /\ \A w \in Workspaces, r \in Records : Known(r, db[w][r])
  /\ \A i \in Ids : calls[i].prev # NoRow /\ Known(calls[i].record, calls[i].prev)

\* The calls on a record run in the order they were made, and count their generations
\* in that order.
OrderInv ==
  /\ \A i \in Ids : calls[i].service = service => calls[i].gen <= generation[service][calls[i].record]
  /\ \A i, j \in Ids : calls[i].record = calls[j].record =>
       /\ calls[j].phase = "edited" /\ calls[i].phase # "edited" => i < j
       /\ i < j /\ calls[i].gen # 0 /\ calls[j].gen # 0 =>
            /\ calls[i].service <= calls[j].service
            /\ calls[i].service = calls[j].service => calls[i].gen < calls[j].gen

\* No generation outruns the calls, no version the requests that were applied.
BoundInv ==
  /\ applied \subseteq Ids
  /\ \A s \in Services, r \in Records : generation[s][r] # 0 =>
       \E i \in Ids : calls[i].record = r /\ calls[i].phase # "edited" /\ generation[s][r] <= i
  /\ \A r \in Records : tower[r].ver <= Cardinality(applied) + 1

CommandInv ==
  TypeOK /\ ServiceInv /\ LeaderInv /\ PhaseInv /\ RowInv /\ OrderInv /\ BoundInv

----------------------------------------------------------------------------
(* Values and their fields.                                                 *)

Phases == {"edited", "shown", "joined", "sent", "accepted", "refused", "reconciled", "resolved", "settled"}
Results == {"none", "answered", "stale", "thrown"}

\* The bounds are numbers, and no record is both a file and a channel.
LEMMA Bounds ==
  /\ MaxCalls \in Nat /\ MaxSwitches \in Nat /\ Services = 0..MaxSwitches /\ CallIds = 1..MaxCalls
  /\ Content = 0..MaxCalls /\ Ver = 0..(MaxCalls + 1)
  /\ Files \cap Channels = {} /\ Records = Files \cup Channels
BY BoundAssumption, RecordAssumption DEF Services, CallIds, Content, Ver, Records

\* The rows the code puts are rows, and only NoRow has no status.
LEMMA Rows ==
  /\ NoRow \in Row /\ NoRow.by = 0 /\ NoRow.status = "none"
  /\ \A row \in Row : row.by \in Content /\ row.ver \in Ver /\ (row # NoRow => row.ver # 0 /\ row.status # "none")
  /\ \A n \in Content, row \in Row \ {NoRow} :
       /\ Pending(n, row) \in Row \ {NoRow} /\ Pending(n, row).by = n /\ Pending(n, row).status = "pending"
       /\ Failed(n, row) \in Row \ {NoRow} /\ Failed(n, row).by = n /\ Failed(n, row).status = "failed"
  /\ \A n \in Content, v \in Ver \ {0} :
       Synced(n, v) \in Row \ {NoRow} /\ Synced(n, v).by = n /\ Synced(n, v).status = "synced"
<1>1. 0 \in Content /\ 0 \in Ver
  BY Bounds
<1>2. NoRow \in Row /\ NoRow.by = 0 /\ NoRow.ver = 0 /\ NoRow.status = "none"
  BY DEF NoRow, Row
<1>3. \A row \in Row : row # NoRow => row \in [by : Content, ver : Ver \ {0}, status : {"synced", "pending", "failed"}]
  BY DEF Row
<1>4. \A row \in [by : Content, ver : Ver \ {0}, status : {"synced", "pending", "failed"}] : row \in Row \ {NoRow}
  BY <1>2 DEF Row
<1>5. \A row \in Row : row.by \in Content /\ row.ver \in Ver /\ (row # NoRow => row.ver # 0 /\ row.status # "none")
  BY <1>1, <1>2, <1>3
<1>6. ASSUME NEW n \in Content, NEW row \in Row \ {NoRow}
      PROVE  /\ Pending(n, row) \in Row \ {NoRow} /\ Pending(n, row).by = n /\ Pending(n, row).status = "pending"
             /\ Failed(n, row) \in Row \ {NoRow} /\ Failed(n, row).by = n /\ Failed(n, row).status = "failed"
  BY <1>3, <1>4 DEF Pending, Failed
<1>7. ASSUME NEW n \in Content, NEW v \in Ver \ {0}
      PROVE  Synced(n, v) \in Row \ {NoRow} /\ Synced(n, v).by = n /\ Synced(n, v).status = "synced"
  BY <1>4 DEF Synced
<1> QED BY <1>2, <1>5, <1>6, <1>7

\* The fields of a call.
LEMMA Fields ==
  ASSUME NEW c \in CallType
  PROVE  /\ c.record \in Records /\ c.ws \in Workspaces /\ c.prev \in Row /\ c.service \in Services
         /\ c.gen \in Content /\ c.leader \in CallIds /\ c.ver \in Ver /\ c.phase \in Phases /\ c.result \in Results
BY DEF CallType, Phases, Results

\* The calls c and d are the same command.
Same(c, d) ==
  /\ d.record = c.record /\ d.ws = c.ws /\ d.prev = c.prev /\ d.service = c.service
  /\ d.gen = c.gen /\ d.leader = c.leader

\* One call of a sequence is replaced.
LEMMA Replaced ==
  ASSUME NEW s \in Seq(CallType), NEW i \in 1..Len(s), NEW c \in CallType
  PROVE  LET t == [s EXCEPT ![i] = c]
         IN  t \in Seq(CallType) /\ Len(t) = Len(s) /\ t[i] = c /\ \A k \in 1..Len(s) : k # i => t[k] = s[k]
OBVIOUS

\* One call is added.
LEMMA Added ==
  ASSUME NEW s \in Seq(CallType), NEW c \in CallType
  PROVE  LET t == Append(s, c)
         IN  /\ t \in Seq(CallType) /\ Len(t) = Len(s) + 1 /\ t[Len(s) + 1] = c
             /\ \A k \in 1..Len(s) : k # Len(s) + 1 => t[k] = s[k]
OBVIOUS

\* What TypeOK says of the calls and the databases, in the form the steps need.
LEMMA Typed ==
  ASSUME TypeOK
  PROVE  /\ calls \in Seq(CallType) /\ Len(calls) \in Nat /\ Len(calls) <= MaxCalls /\ Ids \subseteq CallIds
         /\ \A k \in Ids : calls[k] \in CallType
         /\ \A w \in Workspaces, r \in Records : db[w][r] \in Row
         /\ service \in Nat /\ service <= MaxSwitches
         /\ \A s \in Services, r \in Records : generation[s][r] \in Nat
         /\ \A r \in Records : tower[r].ver \in Nat
BY Bounds DEF TypeOK, Ids

\* A put leaves every other row alone.
LEMMA Putting ==
  ASSUME TypeOK, NEW r \in Records, NEW row \in Row, Put(r, row)
  PROVE  /\ db' \in [Workspaces -> [Records -> Row]] /\ db'[current][r] = row
         /\ \A w \in Workspaces, q \in Records : w # current \/ q # r => db'[w][q] = db[w][q]
BY DEF TypeOK, Put

----------------------------------------------------------------------------
(* Calls go on.                                                             *)

\* What a call is does not change in a step, nor whether it has been issued.
CallsKept ==
  /\ Len(calls') = Len(calls)
  /\ \A k \in Ids : Same(calls[k], calls'[k]) /\ (calls'[k].phase = "edited" <=> calls[k].phase = "edited")

\* Then what is said of services, leaders and generations stays.
LEMMA OrderStays ==
  ASSUME CommandInv, CallsKept, UNCHANGED <<current, service, disposed, generation>>
  PROVE  /\ Ids' = Ids /\ ServiceInv' /\ LeaderInv' /\ OrderInv'
         /\ \A s \in Services, r \in Records : generation'[s][r] # 0 =>
              \E i \in Ids' : calls'[i].record = r /\ calls'[i].phase # "edited" /\ generation'[s][r] <= i
<1>1. Ids' = Ids /\ \A k \in Ids : Same(calls[k], calls'[k]) /\ (calls'[k].phase = "edited" <=> calls[k].phase = "edited")
  BY DEF CallsKept, Ids
<1>2. ServiceInv'
  BY <1>1 DEF CommandInv, ServiceInv, Same
<1>3. LeaderInv'
  BY <1>1 DEF CommandInv, LeaderInv, Same
<1>4. OrderInv'
  BY <1>1 DEF CommandInv, OrderInv, Same
<1>5. \A s \in Services, r \in Records : generation'[s][r] # 0 =>
        \E i \in Ids' : calls'[i].record = r /\ calls'[i].phase # "edited" /\ generation'[s][r] <= i
  BY <1>1 DEF CommandInv, BoundInv, Same
<1> QED BY <1>1, <1>2, <1>3, <1>4, <1>5

\* Call i goes on to phase p with result x and version v.
Moves(i, p, x, v) == calls' = [calls EXCEPT ![i] = [calls[i] EXCEPT !.phase = p, !.result = x, !.ver = v]]

\* One call goes on and the others do not.
LEMMA CallMoves ==
  ASSUME TypeOK, NEW i \in Ids, NEW p \in Phases \ {"edited"}, NEW x \in Results, NEW v \in Ver,
         Moves(i, p, x, v), calls[i].phase # "edited"
  PROVE  /\ calls' \in Seq(CallType) /\ CallsKept /\ Ids' = Ids
         /\ calls'[i].phase = p /\ calls'[i].result = x /\ calls'[i].ver = v
         /\ \A k \in Ids : k # i => calls'[k] = calls[k]
<1>1. calls \in Seq(CallType) /\ calls[i] \in CallType /\ i \in 1..Len(calls)
  BY Typed DEF Ids
<1>2. PICK d : d = [calls[i] EXCEPT !.phase = p, !.result = x, !.ver = v]
  OBVIOUS
<1>3. d \in CallType /\ Same(calls[i], d) /\ d.phase = p /\ d.result = x /\ d.ver = v
  BY <1>1, <1>2 DEF CallType, Same, Phases, Results
<1>4. calls' = [calls EXCEPT ![i] = d]
  BY <1>2 DEF Moves
<1>5. calls' \in Seq(CallType) /\ Len(calls') = Len(calls) /\ calls'[i] = d /\ \A k \in Ids : k # i => calls'[k] = calls[k]
  BY <1>1, <1>3, <1>4, Replaced DEF Ids
<1>6. CallsKept
  BY <1>3, <1>5 DEF CallsKept, Same
<1> QED BY <1>3, <1>5, <1>6 DEF Ids

\* What is known of a row is not forgotten.
LEMMA KnownStays ==
  ASSUME Len(calls) \in Nat, Len(calls') \in Nat, Len(calls) <= Len(calls'), applied \subseteq applied',
         \A k \in Ids : calls'[k].record = calls[k].record, NEW r, NEW row, Known(r, row)
  PROVE  /\ row.by # 0 => row.by \in Ids' /\ calls'[row.by].record = r
         /\ row.status = "synced" => row.by \in {0} \cup applied'
BY DEF Known, Ids

\* The rows stay known when at most one is put and the calls keep what they put back.
LEMMA RowsStay ==
  ASSUME CommandInv, CallsKept, applied \subseteq applied', NEW r \in Records,
         \/ UNCHANGED db
         \/ \E row \in Row : /\ Put(r, row)
                             /\ row.by # 0 => row.by \in Ids /\ calls[row.by].record = r
                             /\ row.status = "synced" => row.by \in {0} \cup applied
  PROVE  RowInv' /\ db' \in [Workspaces -> [Records -> Row]]
<1>1. TypeOK /\ RowInv
  BY DEF CommandInv
<1>2. Ids' = Ids /\ \A k \in Ids : calls'[k].record = calls[k].record /\ calls'[k].prev = calls[k].prev
  BY DEF CallsKept, Same, Ids
<1>3. \A k \in Ids : calls'[k].prev # NoRow /\ Known(calls[k].record, calls[k].prev)
  BY <1>1, <1>2 DEF RowInv
<1>4. \A k \in Ids' : (calls[k].prev # NoRow /\ Known(calls[k].record, calls[k].prev))'
  BY <1>2, <1>3 DEF Known
<1>5. \A w \in Workspaces, q \in Records : Known(q, db[w][q])'
  <2>1. CASE UNCHANGED db
    BY <1>1, <1>2, <2>1 DEF RowInv, Known
  <2>2. CASE ~UNCHANGED db
    <3>1. PICK row \in Row : /\ Put(r, row)
                             /\ row.by # 0 => row.by \in Ids /\ calls[row.by].record = r
                             /\ row.status = "synced" => row.by \in {0} \cup applied
      BY <2>2
    <3>2. db'[current][r] = row /\ \A w \in Workspaces, q \in Records : w # current \/ q # r => db'[w][q] = db[w][q]
      BY <1>1, <3>1, Putting
    <3>3. ASSUME NEW w \in Workspaces, NEW q \in Records
          PROVE  Known(q, db[w][q])'
      <4>1. CASE w = current /\ q = r
        BY <1>2, <3>1, <3>2, <4>1 DEF Known
      <4>2. CASE w # current \/ q # r
        BY <1>1, <1>2, <3>2, <4>2 DEF RowInv, Known
      <4> QED BY <4>1, <4>2
    <3> QED BY <3>3
  <2> QED BY <2>1, <2>2
<1>6. db' \in [Workspaces -> [Records -> Row]]
  BY <1>1, Putting DEF TypeOK
<1> QED BY <1>4, <1>5, <1>6 DEF RowInv

\* The two together, for a step in which one call goes on, Tower applies nothing and
\* at most one row is put.
LEMMA CallGoesOn ==
  ASSUME CommandInv, NEW i \in Ids, NEW p \in Phases \ {"edited"}, NEW x \in Results, NEW v \in Ver,
         Moves(i, p, x, v), calls[i].phase # "edited",
         UNCHANGED <<current, service, disposed, generation, tower, applied>>,
         NEW r \in Records,
         \/ UNCHANGED db
         \/ \E row \in Row : /\ Put(r, row)
                             /\ row.by # 0 => row.by \in Ids /\ calls[row.by].record = r
                             /\ row.status = "synced" => row.by \in {0} \cup applied,
         p \in {"resolved", "settled"} <=> x # "none",
         p \in {"shown", "sent", "accepted", "refused", "reconciled"} => calls[i].leader = i /\ calls[i].gen # 0,
         p \in {"shown", "sent"} => i \notin applied,
         p \in {"accepted", "reconciled"} => i \in applied /\ v # 0,
         x = "answered" => calls[i].leader \in applied /\ v # 0
  PROVE  CommandInv'
<1>1. TypeOK /\ PhaseInv /\ BoundInv
  BY DEF CommandInv
<1>2. /\ calls' \in Seq(CallType) /\ CallsKept /\ Ids' = Ids
      /\ calls'[i].phase = p /\ calls'[i].result = x /\ calls'[i].ver = v
      /\ \A k \in Ids : k # i => calls'[k] = calls[k]
  BY <1>1, CallMoves
<1>3. RowInv' /\ db' \in [Workspaces -> [Records -> Row]]
  BY <1>2, RowsStay
<1>4. TypeOK'
  BY <1>1, <1>2, <1>3 DEF TypeOK, CallsKept
<1>5. ServiceInv' /\ LeaderInv' /\ OrderInv' /\ BoundInv'
  BY <1>1, <1>2, OrderStays DEF BoundInv
<1>6. PhaseInv'
  <2>1. Same(calls[i], calls'[i])
    BY <1>2 DEF CallsKept
  <2>2. ASSUME NEW k \in Ids', k # i
        PROVE  /\ calls'[k] = calls[k] /\ k \in Ids
    BY <1>2, <2>2
  <2> QED BY <1>1, <1>2, <2>1, <2>2 DEF PhaseInv, Same
<1> QED BY <1>3, <1>4, <1>5, <1>6 DEF CommandInv

\* The ways the steps write that a call goes on.
LEMMA Moving ==
  ASSUME TypeOK, NEW i \in Ids
  PROVE  /\ \A p \in Phases : calls' = [calls EXCEPT ![i].phase = p] => Moves(i, p, calls[i].result, calls[i].ver)
         /\ \A x \in Results : Resolved(i, x) => Moves(i, "resolved", x, calls[i].ver)
         /\ \A x \in Results, v \in Ver :
              calls' = [calls EXCEPT ![i] = [@ EXCEPT !.phase = "resolved", !.result = x, !.ver = v]]
                => Moves(i, "resolved", x, v)
         /\ \A p \in Phases, v \in Ver :
              calls' = [calls EXCEPT ![i] = [@ EXCEPT !.phase = p, !.ver = v]] => Moves(i, p, calls[i].result, v)
<1>1. calls \in Seq(CallType) /\ calls[i] \in CallType
  BY Typed
<1>2. \A p \in Phases : [calls[i] EXCEPT !.phase = p]
                          = [calls[i] EXCEPT !.phase = p, !.result = calls[i].result, !.ver = calls[i].ver]
  BY <1>1 DEF CallType
<1>3. \A x \in Results : [calls[i] EXCEPT !.phase = "resolved", !.result = x]
                           = [calls[i] EXCEPT !.phase = "resolved", !.result = x, !.ver = calls[i].ver]
  BY <1>1 DEF CallType
<1>4. \A p \in Phases, v \in Ver : [calls[i] EXCEPT !.phase = p, !.ver = v]
                                     = [calls[i] EXCEPT !.phase = p, !.result = calls[i].result, !.ver = v]
  BY <1>1 DEF CallType
<1>5. ASSUME NEW p \in Phases, calls' = [calls EXCEPT ![i].phase = p]
      PROVE  Moves(i, p, calls[i].result, calls[i].ver)
  BY <1>2, <1>5 DEF Moves
<1>6. ASSUME NEW x \in Results, Resolved(i, x)
      PROVE  Moves(i, "resolved", x, calls[i].ver)
  BY <1>3, <1>6 DEF Moves, Resolved
<1>7. ASSUME NEW p \in Phases, NEW v \in Ver, calls' = [calls EXCEPT ![i] = [@ EXCEPT !.phase = p, !.ver = v]]
      PROVE  Moves(i, p, calls[i].result, v)
  BY <1>4, <1>7 DEF Moves
<1>8. ASSUME NEW x \in Results, NEW v \in Ver,
             calls' = [calls EXCEPT ![i] = [@ EXCEPT !.phase = "resolved", !.result = x, !.ver = v]]
      PROVE  Moves(i, "resolved", x, v)
  BY <1>8 DEF Moves
<1> QED BY <1>5, <1>6, <1>7, <1>8

----------------------------------------------------------------------------
(* The steps keep the invariant.                                            *)

\* A request is sent, or dropped with its service.
LEMMA CommandSend ==
  ASSUME CommandInv, NEW i \in Ids, Send(i)
  PROVE  CommandInv'
<1>1. TypeOK /\ PhaseInv /\ calls[i] \in CallType
  BY Typed DEF CommandInv
<1>2. calls[i].record \in Records /\ calls[i].ver \in Ver /\ calls[i].result \in Results
  BY <1>1, Fields
<1>3. calls[i].phase = "shown" /\ UNCHANGED <<current, service, disposed, generation, db, tower, applied>>
  BY DEF Send
<1>4. calls[i].result = "none" /\ calls[i].leader = i /\ calls[i].gen # 0 /\ i \notin applied
  BY <1>1, <1>3 DEF PhaseInv
<1>5. CASE Live(i)
  <2>1. "sent" \in Phases \ {"edited"} /\ Moves(i, "sent", calls[i].result, calls[i].ver)
    BY <1>1, <1>5, Moving DEF Send, Phases
  <2> QED BY <1>2, <1>3, <1>4, <2>1, CallGoesOn
<1>6. CASE ~Live(i)
  <2>1. "resolved" \in Phases \ {"edited"} /\ "thrown" \in Results
    BY DEF Phases, Results
  <2>2. Moves(i, "resolved", "thrown", calls[i].ver)
    BY <1>1, <1>6, <2>1, Moving DEF Send
  <2> QED BY <1>2, <1>3, <2>1, <2>2, CallGoesOn
<1> QED BY <1>5, <1>6

\* An answer comes back: reconciled if it is the newest command's, dropped if not.
LEMMA CommandAcknowledge ==
  ASSUME CommandInv, NEW i \in Ids, Acknowledge(i)
  PROVE  CommandInv'
<1>1. TypeOK /\ PhaseInv /\ calls[i] \in CallType /\ i \in Content
  BY Typed, Bounds DEF CommandInv, Ids
<1>2. calls[i].record \in Records /\ calls[i].ver \in Ver /\ calls[i].result \in Results
  BY <1>1, Fields
<1>3. calls[i].phase = "accepted" /\ UNCHANGED <<current, service, disposed, generation, tower, applied>>
  BY DEF Acknowledge
<1>4. calls[i].result = "none" /\ calls[i].leader = i /\ calls[i].gen # 0 /\ i \in applied /\ calls[i].ver # 0
  BY <1>1, <1>3 DEF PhaseInv
<1>5. CASE Live(i) /\ Latest(i)
  <2>1. "reconciled" \in Phases \ {"edited"}
    BY DEF Phases
  <2>2. Moves(i, "reconciled", calls[i].result, calls[i].ver)
    BY <1>1, <1>5, <2>1, Moving DEF Acknowledge
  <2>3. Put(calls[i].record, Synced(i, calls[i].ver))
    BY <1>5 DEF Acknowledge
  <2>4. PICK row \in Row : row = Synced(i, calls[i].ver) /\ row.by = i /\ row.status = "synced"
    BY <1>1, <1>2, <1>4, Rows
  <2>5. \E q \in Row : /\ Put(calls[i].record, q)
                       /\ q.by # 0 => q.by \in Ids /\ calls[q.by].record = calls[i].record
                       /\ q.status = "synced" => q.by \in {0} \cup applied
    BY <1>4, <2>3, <2>4
  <2> QED BY <1>2, <1>3, <1>4, <2>1, <2>2, <2>5, CallGoesOn
<1>6. CASE ~(Live(i) /\ Latest(i))
  <2>1. "resolved" \in Phases \ {"edited"} /\ "thrown" \in Results /\ "stale" \in Results
    BY DEF Phases, Results
  <2>2. PICK x \in {"thrown", "stale"} : Resolved(i, x) /\ UNCHANGED db
    BY <1>6 DEF Acknowledge
  <2>3. Moves(i, "resolved", x, calls[i].ver) /\ x \in Results /\ x # "none" /\ x # "answered"
    BY <1>1, <2>1, <2>2, Moving
  <2> QED BY <1>2, <1>3, <2>1, <2>2, <2>3, CallGoesOn
<1> QED BY <1>5, <1>6

\* The reconciled row is stored.
LEMMA CommandComplete ==
  ASSUME CommandInv, NEW i \in Ids, Complete(i)
  PROVE  CommandInv'
<1>1. TypeOK /\ PhaseInv /\ calls[i] \in CallType
  BY Typed DEF CommandInv
<1>2. calls[i].record \in Records /\ calls[i].ver \in Ver
  BY <1>1, Fields
<1>3. calls[i].phase = "reconciled" /\ UNCHANGED <<current, service, disposed, generation, db, tower, applied>>
  BY DEF Complete
<1>4. calls[i].leader \in applied /\ calls[i].ver # 0
  BY <1>1, <1>3 DEF PhaseInv
<1>5. "resolved" \in Phases \ {"edited"} /\ "thrown" \in Results /\ "answered" \in Results
  BY DEF Phases, Results
<1>6. PICK x \in {"thrown", "answered"} : Resolved(i, x)
  BY DEF Complete
<1>7. Moves(i, "resolved", x, calls[i].ver) /\ x \in Results /\ x # "none"
  BY <1>1, <1>5, <1>6, Moving
<1> QED BY <1>2, <1>3, <1>4, <1>5, <1>7, CallGoesOn

\* A command fails: the newest puts back the row it found.
LEMMA CommandFail ==
  ASSUME CommandInv, NEW i \in Ids, Fail(i)
  PROVE  CommandInv'
<1>1. TypeOK /\ PhaseInv /\ RowInv /\ calls[i] \in CallType
  BY Typed DEF CommandInv
<1>2. calls[i].record \in Records /\ calls[i].ver \in Ver /\ calls[i].prev \in Row
  BY <1>1, Fields
<1>3. calls[i].phase = "refused" /\ UNCHANGED <<current, service, disposed, generation, tower, applied>>
  BY DEF Fail
<1>4. "resolved" \in Phases \ {"edited"} /\ "thrown" \in Results
  BY DEF Phases, Results
<1>5. Moves(i, "resolved", "thrown", calls[i].ver)
  BY <1>1, <1>4, Moving DEF Fail
<1>6. \/ UNCHANGED db
      \/ \E q \in Row : /\ Put(calls[i].record, q)
                        /\ q.by # 0 => q.by \in Ids /\ calls[q.by].record = calls[i].record
                        /\ q.status = "synced" => q.by \in {0} \cup applied
  BY <1>1, <1>2 DEF Fail, RowInv, Known
<1> QED BY <1>2, <1>3, <1>4, <1>5, <1>6, CallGoesOn

\* A call that has joined another takes its result.
LEMMA CommandJoin ==
  ASSUME CommandInv, NEW i \in Ids, Join(i)
  PROVE  CommandInv'
<1>1. TypeOK /\ PhaseInv /\ LeaderInv /\ calls[i] \in CallType
  BY Typed DEF CommandInv
<1>2. PICK j : j = calls[i].leader /\ j \in Ids /\ calls[j].leader = j
  BY <1>1 DEF LeaderInv
<1>3. calls[i].record \in Records /\ calls[j].ver \in Ver /\ calls[j].result \in Results
  BY <1>1, <1>2, Typed, Fields
<1>4. calls[i].phase = "joined" /\ UNCHANGED <<current, service, disposed, generation, db, tower, applied>>
  BY DEF Join
<1>5. calls[j].result # "none" /\ (calls[j].result = "answered" => j \in applied /\ calls[j].ver # 0)
  BY <1>1, <1>2 DEF Join, Joined, PhaseInv
<1>6. "resolved" \in Phases \ {"edited"}
  BY DEF Phases
<1>7. Moves(i, "resolved", calls[j].result, calls[j].ver)
  BY <1>1, <1>2, <1>3, Moving DEF Join
<1> QED BY <1>2, <1>3, <1>4, <1>5, <1>6, <1>7, CallGoesOn

\* A call has come back, and its caller puts the row it makes of the result.
LEMMA CommandSettle ==
  ASSUME CommandInv, NEW i \in Ids, Settle(i)
  PROVE  CommandInv'
<1>1. TypeOK /\ PhaseInv /\ LeaderInv /\ RowInv /\ calls[i] \in CallType /\ i \in Content
  BY Typed, Bounds DEF CommandInv, Ids
<1>2. /\ calls[i].record \in Records /\ calls[i].ver \in Ver /\ calls[i].prev \in Row /\ calls[i].result \in Results
      /\ calls[i].leader \in Content
  BY <1>1, Fields, Bounds
<1>3. calls[i].phase = "resolved" /\ UNCHANGED <<current, service, disposed, generation, tower, applied>>
  BY DEF Settle
<1>4. /\ calls[i].result # "none" /\ calls[i].leader \in Ids /\ calls[calls[i].leader].record = calls[i].record
      /\ calls[i].result = "answered" => calls[i].leader \in applied /\ calls[i].ver # 0
  BY <1>1, <1>3 DEF PhaseInv, LeaderInv
<1>5. "settled" \in Phases \ {"edited"}
  BY DEF Phases
<1>6. Moves(i, "settled", calls[i].result, calls[i].ver)
  BY <1>1, <1>5, Moving DEF Settle
<1>7. \/ UNCHANGED db
      \/ calls[i].result = "answered" /\ Put(calls[i].record, Synced(calls[i].leader, calls[i].ver))
      \/ Put(calls[i].record, Failed(i, calls[i].prev))
  BY DEF Settle, SettledFile
<1>8. \/ UNCHANGED db
      \/ \E q \in Row : /\ Put(calls[i].record, q)
                        /\ q.by # 0 => q.by \in Ids /\ calls[q.by].record = calls[i].record
                        /\ q.status = "synced" => q.by \in {0} \cup applied
  <2>1. CASE UNCHANGED db
    BY <2>1
  <2>2. CASE calls[i].result = "answered" /\ Put(calls[i].record, Synced(calls[i].leader, calls[i].ver))
    <3>1. PICK row \in Row : row = Synced(calls[i].leader, calls[i].ver) /\ row.by = calls[i].leader
      BY <1>2, <1>4, <2>2, Rows
    <3> QED BY <1>4, <2>2, <3>1
  <2>3. CASE Put(calls[i].record, Failed(i, calls[i].prev))
    <3>1. calls[i].prev # NoRow
      BY <1>1 DEF RowInv
    <3>2. PICK row \in Row : row = Failed(i, calls[i].prev) /\ row.by = i /\ row.status = "failed"
      BY <1>1, <1>2, <3>1, Rows
    <3> QED BY <2>3, <3>2
  <2> QED BY <1>7, <2>1, <2>2, <2>3
<1> QED BY <1>2, <1>3, <1>4, <1>5, <1>6, <1>8, CallGoesOn

\* Tower refuses a request, or its answer is lost.
LEMMA CommandRefuse ==
  ASSUME CommandInv, NEW i \in Ids, Refuse(i)
  PROVE  CommandInv'
<1>1. TypeOK /\ PhaseInv /\ calls[i] \in CallType
  BY Typed DEF CommandInv
<1>2. calls[i].record \in Records /\ calls[i].ver \in Ver /\ calls[i].result \in Results
  BY <1>1, Fields
<1>3. calls[i].phase \in {"sent", "accepted"} /\ UNCHANGED <<current, service, disposed, generation, db, tower, applied>>
  BY DEF Refuse
<1>4. calls[i].result = "none" /\ calls[i].leader = i /\ calls[i].gen # 0
  BY <1>1, <1>3 DEF PhaseInv
<1>5. "refused" \in Phases \ {"edited"}
  BY DEF Phases
<1>6. Moves(i, "refused", calls[i].result, calls[i].ver)
  BY <1>1, <1>5, Moving DEF Refuse
<1> QED BY <1>2, <1>3, <1>4, <1>5, <1>6, CallGoesOn

\* Tower applies a request.
LEMMA CommandApply ==
  ASSUME CommandInv, NEW i \in Ids, Apply(i)
  PROVE  CommandInv'
<1>1. TypeOK /\ PhaseInv /\ BoundInv /\ calls[i] \in CallType
  BY Typed DEF CommandInv
<1>2. PICK r \in Records : r = calls[i].record
  BY <1>1, Fields
<1>3. calls[i].phase = "sent" /\ UNCHANGED <<current, service, disposed, generation, db>> /\ applied' = applied \cup {i}
  BY DEF Apply
<1>4. tower' = [tower EXCEPT ![r] = [by |-> i, ver |-> tower[r].ver + 1]]
  BY <1>2 DEF Apply
<1>5. calls[i].result = "none" /\ calls[i].leader = i /\ calls[i].gen # 0 /\ i \notin applied
  BY <1>1, <1>3 DEF PhaseInv
<1>6. /\ IsFiniteSet(applied') /\ Cardinality(applied) \in Nat /\ Cardinality(applied') = Cardinality(applied) + 1
      /\ Cardinality(applied') <= Len(calls)
  <2>1. Len(calls) \in Nat /\ IsFiniteSet(Ids) /\ Cardinality(Ids) = Len(calls)
    <3>1. PICK n \in Nat : n = Len(calls)
      BY <1>1, Typed
    <3>2. IsFiniteSet(1..n) /\ Cardinality(1..n) = n
      <4>1. /\ IsFiniteSet(1..n)
            /\ Cardinality(1..n) = IF 1 > n THEN 0 ELSE n - 1 + 1
        BY FS_Interval, 1 \in Int, n \in Int, Zenon
      <4> QED BY <3>1, <4>1
    <3> QED BY <3>1, <3>2 DEF Ids
  <2>2. applied \subseteq Ids /\ applied' \subseteq Ids
    BY <1>1, <1>3 DEF BoundInv
  <2>3. IsFiniteSet(applied) /\ IsFiniteSet(applied') /\ Cardinality(applied') <= Cardinality(Ids)
    BY <2>1, <2>2, FS_Subset
  <2> QED BY <1>3, <1>5, <2>1, <2>3, FS_CardinalityType, FS_AddElement
<1>7. /\ tower[r].ver \in Nat /\ tower[r].ver <= Cardinality(applied) + 1
      /\ tower[r].ver + 1 \in Ver \ {0} /\ i \in Content
  <2>1. tower[r].ver \in Nat /\ tower[r].ver <= Cardinality(applied) + 1
    BY <1>1, Typed DEF BoundInv
  <2> QED BY <1>1, <1>6, <2>1, Typed, Bounds DEF Ids
<1>8. "accepted" \in Phases \ {"edited"} /\ calls[i].result \in Results
  BY <1>5 DEF Phases, Results
<1>9. Moves(i, "accepted", calls[i].result, tower[r].ver + 1)
  BY <1>1, <1>2, <1>7, <1>8, Moving DEF Apply
<1>10. /\ calls' \in Seq(CallType) /\ CallsKept /\ Ids' = Ids
       /\ calls'[i].phase = "accepted" /\ calls'[i].result = calls[i].result /\ calls'[i].ver = tower[r].ver + 1
       /\ \A k \in Ids : k # i => calls'[k] = calls[k]
  BY <1>1, <1>3, <1>7, <1>8, <1>9, CallMoves
<1>11. RowInv' /\ db' \in [Workspaces -> [Records -> Row]]
  BY <1>3, <1>10, RowsStay
<1>12. TypeOK'
  <2>1. tower' \in [Records -> [by : Content, ver : Ver]]
    BY <1>1, <1>4, <1>7 DEF TypeOK
  <2>2. applied' \in SUBSET CallIds
    BY <1>1, <1>3, Typed DEF TypeOK
  <2> QED BY <1>1, <1>3, <1>10, <1>11, <2>1, <2>2 DEF TypeOK, CallsKept
<1>13. ServiceInv' /\ LeaderInv' /\ OrderInv'
  BY <1>3, <1>10, OrderStays
<1>14. BoundInv'
  <2>1. \A q \in Records : tower'[q].ver <= Cardinality(applied') + 1
    <3>1. ASSUME NEW q \in Records
          PROVE  tower'[q].ver <= Cardinality(applied') + 1
      <4>1. tower[q].ver \in Nat /\ tower[q].ver <= Cardinality(applied) + 1
        BY <1>1, Typed DEF BoundInv
      <4>2. tower'[q] = IF q = r THEN [by |-> i, ver |-> tower[r].ver + 1] ELSE tower[q]
        BY <1>1, <1>4 DEF TypeOK
      <4> QED BY <1>6, <1>7, <4>1, <4>2
    <3> QED BY <3>1
  <2>2. applied' \subseteq Ids'
    BY <1>1, <1>3, <1>10 DEF BoundInv
  <2> QED BY <1>3, <1>10, <2>1, <2>2, OrderStays DEF BoundInv
<1>15. PhaseInv'
  <2>1. Same(calls[i], calls'[i])
    BY <1>10 DEF CallsKept
  <2>2. ASSUME NEW k \in Ids', k # i
        PROVE  calls'[k] = calls[k] /\ k \in Ids
    BY <1>10, <2>2
  <2> QED BY <1>1, <1>3, <1>5, <1>7, <1>10, <2>1, <2>2 DEF PhaseInv, Same
<1> QED BY <1>11, <1>12, <1>13, <1>14, <1>15 DEF CommandInv

\* The user selects another workspace.
LEMMA CommandSwitch ==
  ASSUME CommandInv, NEW w \in Workspaces, Switch(w)
  PROVE  CommandInv'
<1>1. TypeOK /\ ServiceInv /\ BoundInv /\ service \in Nat
  BY Typed DEF CommandInv
<1>2. /\ service < MaxSwitches /\ current' = w /\ service' = service + 1 /\ disposed' = disposed \cup {service}
      /\ generation' = [generation EXCEPT ![service] = [r \in Records |-> 0]]
      /\ UNCHANGED <<calls, db, tower, applied>>
  BY DEF Switch
<1>3. Ids' = Ids /\ service \in Services /\ 0 \in Content
  BY <1>1, <1>2, Bounds DEF Ids
<1>4. /\ generation' \in [Services -> [Records -> Content]]
      /\ \A s \in Services, r \in Records : generation'[s][r] \in {0, generation[s][r]}
  BY <1>1, <1>2, <1>3 DEF TypeOK
<1>5. TypeOK'
  <2>1. service' \in Services /\ disposed' \in SUBSET Services
    BY <1>1, <1>2, <1>3, Bounds DEF TypeOK
  <2> QED BY <1>1, <1>2, <1>4, <2>1 DEF TypeOK
<1>6. \A k \in Ids : calls[k].service \in Nat /\ calls[k].service # service'
  <2>1. \A k \in Ids : calls[k].service \in Services /\ calls[k].service <= service
    BY <1>1, Typed, Fields DEF ServiceInv
  <2> QED BY <1>1, <1>2, <2>1, Bounds
<1>7. ServiceInv'
  <2>1. disposed' = 0..(service' - 1)
    BY <1>1, <1>2 DEF ServiceInv
  <2>2. \A k \in Ids : calls[k].service <= service'
    BY <1>1, <1>2, <1>6 DEF ServiceInv
  <2> QED BY <1>2, <1>3, <1>6, <2>1, <2>2 DEF ServiceInv
<1>8. LeaderInv' /\ PhaseInv' /\ RowInv'
  BY <1>2, <1>3 DEF CommandInv, LeaderInv, PhaseInv, RowInv, Known
<1>9. OrderInv'
  BY <1>2, <1>3, <1>6 DEF CommandInv, OrderInv
<1>10. BoundInv'
  <2>1. \A s \in Services, r \in Records : generation'[s][r] # 0 => generation'[s][r] = generation[s][r]
    BY <1>4
  <2> QED BY <1>1, <1>2, <1>3, <2>1 DEF BoundInv
<1> QED BY <1>5, <1>7, <1>8, <1>9, <1>10 DEF CommandInv

\* At the start there are no calls, and every row is the one Tower holds.
LEMMA CommandInit == Init => CommandInv
<1> SUFFICES ASSUME Init PROVE CommandInv
  OBVIOUS
<1>1. Ids = {} /\ Len(calls) = 0 /\ calls \in Seq(CallType)
  BY DEF Init, Ids
<1>2. 0 \in Services /\ 0 \in Content /\ 1 \in Ver \ {0} /\ 0 <= MaxCalls
  BY Bounds
<1>3. Synced(0, 1) \in Row /\ Synced(0, 1).by = 0 /\ NoRow \in Row /\ NoRow.by = 0 /\ NoRow.status = "none"
  BY <1>2, Rows
<1>4. TypeOK
  <2>1. db \in [Workspaces -> [Records -> Row]]
    BY <1>3 DEF Init
  <2>2. tower \in [Records -> [by : Content, ver : Ver]] /\ generation \in [Services -> [Records -> Content]]
    BY <1>2 DEF Init
  <2> QED BY <1>1, <1>2, <2>1, <2>2 DEF Init, TypeOK
<1>5. ServiceInv /\ LeaderInv /\ PhaseInv /\ OrderInv
  BY <1>1 DEF Init, ServiceInv, LeaderInv, PhaseInv, OrderInv
<1>6. RowInv
  <2>1. \A w \in Workspaces, r \in Records : db[w][r] \in {Synced(0, 1), NoRow}
    BY DEF Init
  <2> QED BY <1>1, <1>3, <2>1 DEF RowInv, Known
<1>7. BoundInv
  <2>1. Cardinality(applied) = 0
    BY FS_EmptySet DEF Init
  <2> QED BY <1>1, <2>1 DEF Init, BoundInv
<1> QED BY <1>4, <1>5, <1>6, <1>7 DEF CommandInv

----------------------------------------------------------------------------
(* A call begins: an edit is noted, a command issued.                       *)

\* Call n, in its place among the calls: an edit that was noted is issued in its turn.
PlacedAt(n, d) ==
  \/ /\ n \in Ids /\ calls' = [calls EXCEPT ![n] = d]
     /\ calls[n].phase = "edited" /\ calls[n].record = d.record /\ d.leader = n /\ d.phase # "edited"
     /\ \A j \in 1..(n - 1) : calls[j].record = d.record => calls[j].phase # "edited"
  \/ /\ n = Len(calls) + 1 /\ calls' = Append(calls, d)
     /\ d.phase = "edited" \/ \A j \in Ids : calls[j].record = d.record => calls[j].phase # "edited"

\* The call d, as the n-th, is one the service can have begun.
Fresh(n, d) ==
  /\ d.service = service /\ d.ws = current
  /\ d.prev # NoRow /\ Known(d.record, d.prev)
  /\ \/ d.leader = n
     \/ d.leader \in Ids /\ d.leader # n /\ calls[d.leader].leader = d.leader /\ calls[d.leader].record = d.record
  /\ \/ d.phase = "edited" /\ d.record \in Files /\ d.gen = 0 /\ d.leader = n /\ d.result = "none"
     \/ d.phase = "shown" /\ d.gen = generation[service][d.record] + 1 /\ d.leader = n /\ d.result = "none"
     \/ d.phase = "joined" /\ d.gen = 0 /\ d.result = "none"
     \/ d.phase = "resolved" /\ d.gen = 0 /\ d.result = "answered" /\ d.leader \in applied /\ d.ver # 0

\* Whatever way a call begins, it comes after the calls issued before.
LEMMA CallPlaced ==
  ASSUME CommandInv, NEW n \in CallIds, NEW d \in CallType, PlacedAt(n, d)
  PROVE  /\ calls' \in Seq(CallType) /\ Len(calls) <= Len(calls') /\ Len(calls') <= MaxCalls /\ Ids' = Ids \cup {n}
         /\ calls'[n] = d /\ \A k \in Ids : k # n => calls'[k] = calls[k]
         /\ \A k \in Ids : calls'[k].record = calls[k].record
         /\ \A k \in Ids : k # n /\ calls[k].record = d.record =>
              /\ calls[k].phase = "edited" => n < k \/ d.phase = "edited"
              /\ calls[k].phase # "edited" => k < n
         /\ n \notin applied /\ (n \in Ids => calls[n].phase = "edited" /\ calls[n].record = d.record /\ d.leader = n)
<1>1. TypeOK /\ PhaseInv /\ OrderInv /\ BoundInv /\ calls \in Seq(CallType) /\ Len(calls) \in Nat /\ Len(calls) <= MaxCalls
  BY Typed DEF CommandInv
<1>2. CASE /\ n \in Ids /\ calls' = [calls EXCEPT ![n] = d]
           /\ calls[n].phase = "edited" /\ calls[n].record = d.record /\ d.leader = n /\ d.phase # "edited"
           /\ \A j \in 1..(n - 1) : calls[j].record = d.record => calls[j].phase # "edited"
  <2>1. calls' \in Seq(CallType) /\ Len(calls') = Len(calls) /\ calls'[n] = d /\ \A k \in Ids : k # n => calls'[k] = calls[k]
    BY <1>1, <1>2, Replaced DEF Ids
  <2>2. Ids' = Ids \cup {n} /\ n \notin applied
    BY <1>1, <1>2, <2>1 DEF Ids, PhaseInv
  <2>3. \A k \in Ids : k # n /\ calls[k].record = d.record =>
          /\ calls[k].phase = "edited" => n < k
          /\ calls[k].phase # "edited" => k < n
    BY <1>1, <1>2 DEF OrderInv, Ids
  <2>4. \A k \in Ids : calls'[k].record = calls[k].record
    BY <1>2, <2>1
  <2> QED BY <1>1, <1>2, <2>1, <2>2, <2>3, <2>4
<1>3. CASE /\ n = Len(calls) + 1 /\ calls' = Append(calls, d)
           /\ d.phase = "edited" \/ \A j \in Ids : calls[j].record = d.record => calls[j].phase # "edited"
  <2>1. calls' \in Seq(CallType) /\ Len(calls') = n /\ calls'[n] = d /\ \A k \in Ids : k # n => calls'[k] = calls[k]
    BY <1>1, <1>3, Added DEF Ids
  <2>2. Ids' = Ids \cup {n} /\ n \notin Ids /\ n <= MaxCalls /\ \A k \in Ids : k < n
    BY <1>1, <1>3, <2>1, Bounds DEF Ids
  <2>3. n \notin applied
    BY <1>1, <2>2 DEF BoundInv
  <2>4. \A k \in Ids : calls'[k].record = calls[k].record
    BY <2>1, <2>2
  <2>5. \A k \in Ids : k # n /\ calls[k].record = d.record =>
          /\ calls[k].phase = "edited" => n < k \/ d.phase = "edited"
          /\ calls[k].phase # "edited" => k < n
    BY <1>3, <2>2
  <2>6. Len(calls) <= Len(calls') /\ Len(calls') <= MaxCalls
    BY <1>1, <1>3, <2>1, <2>2
  <2> QED BY <2>1, <2>2, <2>3, <2>4, <2>5, <2>6
<1> QED BY <1>2, <1>3 DEF PlacedAt

\* A call that begins keeps the invariant.
LEMMA CallBegins ==
  ASSUME CommandInv, NEW n \in CallIds, NEW d \in CallType, PlacedAt(n, d), Fresh(n, d),
         UNCHANGED <<current, service, disposed, tower, applied>>,
         generation' = IF d.phase = "shown" THEN [generation EXCEPT ![service][d.record] = d.gen] ELSE generation,
         UNCHANGED db \/ \E row \in Row : Put(d.record, row) /\ row.by = n /\ row.status # "synced"
  PROVE  CommandInv'
<1>1. TypeOK /\ ServiceInv /\ LeaderInv /\ PhaseInv /\ RowInv /\ OrderInv /\ BoundInv
  BY DEF CommandInv
<1>2. /\ calls' \in Seq(CallType) /\ Len(calls) <= Len(calls') /\ Len(calls') <= MaxCalls /\ Ids' = Ids \cup {n}
      /\ calls'[n] = d /\ \A k \in Ids : k # n => calls'[k] = calls[k]
      /\ \A k \in Ids : calls'[k].record = calls[k].record
  BY CallPlaced
<1>3. /\ \A k \in Ids : k # n /\ calls[k].record = d.record =>
           /\ calls[k].phase = "edited" => n < k \/ d.phase = "edited"
           /\ calls[k].phase # "edited" => k < n
      /\ n \notin applied /\ (n \in Ids => calls[n].phase = "edited" /\ calls[n].record = d.record /\ d.leader = n)
  BY CallPlaced
<1>4. d.record \in Records /\ d.gen \in Content /\ d.gen \in Nat /\ service \in Services /\ service \in Nat
      /\ \A k \in Ids : calls[k].gen \in Nat /\ calls[k].service \in Nat
  <2>1. d.record \in Records /\ d.gen \in Content
    BY Fields
  <2>2. ASSUME NEW k \in Ids
        PROVE  calls[k].gen \in Content /\ calls[k].service \in Services
    BY <1>1, Typed, Fields
  <2>3. service \in Services /\ service \in Nat
    BY <1>1, Typed DEF TypeOK
  <2> QED BY <2>1, <2>2, <2>3, Bounds
<1>5. /\ \A s \in Services, r \in Records : generation[s][r] \in Nat
      /\ generation' \in [Services -> [Records -> Content]]
      /\ \A s \in Services, r \in Records :
           generation'[s][r] = IF d.phase = "shown" /\ s = service /\ r = d.record THEN d.gen ELSE generation[s][r]
  BY <1>1, <1>4, Typed DEF TypeOK
<1>6. RowInv' /\ db' \in [Workspaces -> [Records -> Row]]
  <2>1. \A w \in Workspaces, q \in Records : Known(q, db[w][q])'
    <3>1. CASE UNCHANGED db
      BY <1>1, <1>2, <3>1 DEF RowInv, Known
    <3>2. CASE ~UNCHANGED db
      <4>1. PICK row \in Row : Put(d.record, row) /\ row.by = n /\ row.status # "synced"
        BY <3>2
      <4>2. /\ db'[current][d.record] = row
            /\ \A w \in Workspaces, q \in Records : w # current \/ q # d.record => db'[w][q] = db[w][q]
        BY <1>1, <1>4, <4>1, Putting
      <4>3. ASSUME NEW w \in Workspaces, NEW q \in Records
            PROVE  Known(q, db[w][q])'
        <5>1. CASE w = current /\ q = d.record
          BY <1>2, <4>1, <4>2, <5>1 DEF Known
        <5>2. CASE w # current \/ q # d.record
          BY <1>1, <1>2, <4>2, <5>2 DEF RowInv, Known
        <5> QED BY <5>1, <5>2
      <4> QED BY <4>3
    <3> QED BY <3>1, <3>2
  <2>2. ASSUME NEW k \in Ids' PROVE calls'[k].prev # NoRow /\ Known(calls[k].record, calls[k].prev)'
    <3>1. CASE k = n
      BY <1>2, <3>1 DEF Fresh, Known
    <3>2. CASE k # n
      BY <1>1, <1>2, <3>2 DEF RowInv, Known
    <3> QED BY <3>1, <3>2
  <2>3. db' \in [Workspaces -> [Records -> Row]]
    BY <1>1, <1>4, Putting DEF TypeOK
  <2> QED BY <2>1, <2>2, <2>3 DEF RowInv
<1>7. TypeOK'
  BY <1>1, <1>2, <1>5, <1>6 DEF TypeOK
<1>8. ServiceInv'
  BY <1>1, <1>2, <1>4 DEF ServiceInv, Fresh
<1>9. LeaderInv'
  <2>1. ASSUME NEW k \in Ids'
        PROVE  calls'[k].leader \in Ids' /\ calls'[calls'[k].leader].record = calls'[k].record
               /\ calls'[calls'[k].leader].leader = calls'[k].leader
    <3>1. CASE k = n
      BY <1>2, <1>3, <3>1 DEF Fresh
    <3>2. CASE k # n
      BY <1>1, <1>2, <1>3, <3>2 DEF LeaderInv
    <3> QED BY <3>1, <3>2
  <2> QED BY <2>1 DEF LeaderInv
<1>10. PhaseInv'
  <2>1. /\ d.phase \in {"resolved", "settled"} <=> d.result # "none"
        /\ d.phase = "edited" => d.record \in Files /\ d.gen = 0
        /\ d.phase \in {"edited", "shown", "sent", "accepted", "refused", "reconciled"} => d.leader = n
        /\ d.phase \in {"shown", "sent", "accepted", "refused", "reconciled"} => d.gen # 0
        /\ d.phase \notin {"accepted", "reconciled"}
        /\ d.result = "answered" => d.leader \in applied /\ d.ver # 0
    BY <1>4, <1>5 DEF Fresh
  <2>2. ASSUME NEW k \in Ids', k # n PROVE calls'[k] = calls[k] /\ k \in Ids
    BY <1>2, <2>2
  <2> QED BY <1>1, <1>2, <1>3, <2>1, <2>2 DEF PhaseInv
<1>11. OrderInv'
  <2>1. \A k \in Ids' : calls'[k].service = service => calls'[k].gen <= generation'[service][calls'[k].record]
    <3>1. ASSUME NEW k \in Ids', calls'[k].service = service
          PROVE  calls'[k].gen <= generation'[service][calls'[k].record]
      <4>1. CASE k = n
        BY <1>2, <1>4, <1>5, <4>1 DEF Fresh
      <4>2. CASE k # n
        <5>1. k \in Ids /\ calls'[k] = calls[k] /\ calls[k].record \in Records
          BY <1>1, <1>2, <4>2, Typed, Fields
        <5>2. calls[k].gen <= generation[service][calls[k].record]
          BY <1>1, <3>1, <5>1 DEF OrderInv
        <5> QED BY <1>4, <1>5, <5>1, <5>2 DEF Fresh
      <4> QED BY <4>1, <4>2
    <3> QED BY <3>1
  <2>2. ASSUME NEW i \in Ids', NEW j \in Ids', calls'[i].record = calls'[j].record
        PROVE  /\ calls'[j].phase = "edited" /\ calls'[i].phase # "edited" => i < j
               /\ i < j /\ calls'[i].gen # 0 /\ calls'[j].gen # 0 =>
                    /\ calls'[i].service <= calls'[j].service
                    /\ calls'[i].service = calls'[j].service => calls'[i].gen < calls'[j].gen
    <3>1. CASE i # n /\ j # n
      BY <1>1, <1>2, <2>2, <3>1 DEF OrderInv
    <3>2. CASE i = n /\ j = n
      <4>1. n \in Nat /\ ~(i < j)
        BY <3>2, Bounds
      <4> QED BY <3>2, <4>1
    <3>3. CASE i = n /\ j # n
      <4>1. j \in Ids /\ calls'[j] = calls[j] /\ calls[j].record = d.record /\ calls'[i] = d
        BY <1>2, <2>2, <3>3
      <4>2. calls[j].gen # 0 => calls[j].phase # "edited"
        BY <1>1, <4>1 DEF PhaseInv
      <4> QED BY <1>3, <3>3, <4>1, <4>2 DEF Ids
    <3>4. CASE i # n /\ j = n
      <4>1. i \in Ids /\ calls'[i] = calls[i] /\ calls[i].record = d.record /\ calls'[j] = d
        BY <1>2, <2>2, <3>4
      <4>2. calls[i].service <= service /\ (calls[i].service = service => calls[i].gen <= generation[service][d.record])
        BY <1>1, <4>1 DEF ServiceInv, OrderInv
      <4>3. d.phase = "edited" /\ calls[i].phase # "edited" => i < n
        BY <1>3, <3>4, <4>1
      <4>4. d.gen # 0 => d.gen = generation[service][d.record] + 1
        BY DEF Fresh
      <4>5. generation[service][d.record] \in Nat /\ calls[i].gen \in Nat /\ d.service = service
        BY <1>4, <1>5, <4>1 DEF Fresh
      <4> QED BY <3>4, <4>1, <4>2, <4>3, <4>4, <4>5
    <3> QED BY <3>1, <3>2, <3>3, <3>4
  <2> QED BY <2>1, <2>2 DEF OrderInv
<1>12. BoundInv'
  <2>1. ASSUME NEW s \in Services, NEW r \in Records, generation'[s][r] # 0
        PROVE  \E i \in Ids' : calls'[i].record = r /\ calls'[i].phase # "edited" /\ generation'[s][r] <= i
    <3>1. CASE generation'[s][r] = generation[s][r]
      <4>1. PICK i \in Ids : calls[i].record = r /\ calls[i].phase # "edited" /\ generation[s][r] <= i
        BY <1>1, <2>1, <3>1 DEF BoundInv
      <4>2. i # n
        BY <1>3, <4>1
      <4> QED BY <1>2, <3>1, <4>1, <4>2
    <3>2. CASE d.phase = "shown" /\ s = service /\ r = d.record
      <4>1. generation'[s][r] = generation[service][d.record] + 1 /\ n \in Nat \ {0}
        BY <1>5, <3>2, Bounds DEF Fresh
      <4>2. generation[service][d.record] < n
        <5>1. CASE generation[service][d.record] = 0
          BY <4>1, <5>1
        <5>2. CASE generation[service][d.record] # 0
          <6>1. PICK i \in Ids : calls[i].record = d.record /\ calls[i].phase # "edited"
                                 /\ generation[service][d.record] <= i
            BY <1>1, <1>4, <5>2 DEF BoundInv
          <6>2. i # n /\ i < n
            BY <1>3, <6>1
          <6>3. generation[service][d.record] \in Nat /\ i \in Nat
            BY <1>4, <1>5 DEF Ids
          <6> QED BY <4>1, <6>1, <6>2, <6>3
        <5> QED BY <5>1, <5>2
      <4>3. generation[service][d.record] \in Nat
        BY <1>4, <1>5
      <4>4. generation'[s][r] <= n
        BY <4>1, <4>2, <4>3
      <4> QED BY <1>2, <3>2, <4>4
    <3> QED BY <1>5, <3>1, <3>2
  <2>2. applied' \subseteq Ids'
    BY <1>1, <1>2 DEF BoundInv
  <2> QED BY <1>1, <2>1, <2>2 DEF BoundInv
<1> QED BY <1>6, <1>7, <1>8, <1>9, <1>10, <1>11, <1>12 DEF CommandInv

\* The calls on a record of the current database, as it is now.
LEMMA NewCallFields ==
  ASSUME CommandInv, NEW r \in Records, Len(calls) < MaxCalls, db[current][r].status # "none"
  PROVE  LET c == NewCall(r) IN
         /\ Len(calls) + 1 \in CallIds /\ c \in CallType /\ c.record = r /\ c.phase = "edited" /\ c.result = "none"
         /\ c.prev = db[current][r] /\ c.prev \in Row \ {NoRow} /\ Known(r, c.prev)
         /\ c.gen = 0 /\ c.leader = Len(calls) + 1 /\ c.service = service /\ c.ws = current
<1>1. TypeOK /\ RowInv /\ Len(calls) \in Nat
  BY Typed DEF CommandInv
<1>2. db[current][r] \in Row \ {NoRow} /\ Known(r, db[current][r]) /\ current \in Workspaces /\ service \in Services
  BY <1>1, Typed, Rows DEF TypeOK, RowInv
<1>3. 0 \in Content /\ 0 \in Ver /\ Len(calls) + 1 \in CallIds
  BY <1>1, Bounds
<1> QED BY <1>2, <1>3 DEF NewCall, CallType

\* The user edits a file: the row is put, the command not yet issued.
LEMMA CommandEditFile ==
  ASSUME CommandInv, NEW r \in Files, EditFile(r)
  PROVE  CommandInv'
<1>1. r \in Records /\ Len(calls) < MaxCalls /\ db[current][r].status # "none"
  BY DEF EditFile, Records
<1>2. PICK c, n : c = NewCall(r) /\ n = Len(calls) + 1
  OBVIOUS
<1>3. /\ n \in CallIds /\ c \in CallType /\ c.record = r /\ c.phase = "edited" /\ c.result = "none"
      /\ c.prev = db[current][r] /\ c.prev \in Row \ {NoRow} /\ Known(r, c.prev)
      /\ c.gen = 0 /\ c.leader = n /\ c.service = service /\ c.ws = current
  BY <1>1, <1>2, NewCallFields
<1>4. PlacedAt(n, c) /\ Fresh(n, c)
  BY <1>2, <1>3 DEF EditFile, PlacedAt, Fresh
<1>5. UNCHANGED <<current, service, disposed, tower, applied, generation>>
  BY DEF EditFile
<1>6. \E row \in Row : Put(c.record, row) /\ row.by = n /\ row.status # "synced"
  <2>1. n \in Content /\ Put(r, Pending(n, c.prev))
    BY <1>2, <1>3, Bounds DEF EditFile
  <2>2. PICK row \in Row : row = Pending(n, c.prev) /\ row.by = n /\ row.status = "pending"
    BY <1>3, <2>1, Rows
  <2> QED BY <1>3, <2>1, <2>2
<1> QED BY <1>3, <1>4, <1>5, <1>6, CallBegins

\* A command on c is issued as call n: it takes a result, joins a call, or runs.
LEMMA CommandIssued ==
  ASSUME CommandInv, NEW n \in CallIds, NEW c \in CallType,
         c.phase = "edited" /\ c.result = "none" /\ c.gen = 0 /\ c.leader = n, c.prev # NoRow, Known(c.record, c.prev),
         \/ n \in Ids /\ c = calls[n] /\ c.record \in Files
            /\ \A j \in 1..(n - 1) : calls[j].record = c.record => calls[j].phase # "edited"
         \/ n = Len(calls) + 1 /\ \A j \in Ids : calls[j].record = c.record => calls[j].phase # "edited",
         Command(n, c), UNCHANGED <<current, service, disposed, tower, applied>>
  PROVE  CommandInv'
<1>1. TypeOK /\ PhaseInv /\ LeaderInv /\ BoundInv /\ OrderInv /\ Len(calls) \in Nat
  BY Typed DEF CommandInv
<1>2. PICK r \in Records : r = c.record
  BY Fields
<1>3. current \in Workspaces /\ service \in Services
  BY <1>1 DEF TypeOK
<1>4. PICK asked : asked = [c EXCEPT !.service = service, !.ws = current]
  OBVIOUS
<1>5. /\ asked \in CallType /\ asked.record = r /\ asked.prev = c.prev /\ asked.service = service /\ asked.ws = current
      /\ asked.gen = 0 /\ asked.leader = n /\ asked.result = "none"
  BY <1>2, <1>3, <1>4 DEF CallType
<1>6. ASSUME NEW d \in CallType, calls' = IF n > Len(calls) THEN Append(calls, d) ELSE [calls EXCEPT ![n] = d],
             d.record = r, n \in Ids => d.leader = n, d.phase # "edited"
      PROVE  PlacedAt(n, d)
  <2>1. CASE n \in Ids
    <3>1. calls' = [calls EXCEPT ![n] = d] /\ calls[n].record = r /\ calls[n].phase = "edited"
      BY <1>1, <1>2, <1>6, <2>1 DEF Ids
    <3> QED BY <1>1, <1>2, <1>6, <2>1, <3>1 DEF PlacedAt, Ids
  <2>2. CASE n \notin Ids
    BY <1>1, <1>2, <1>6, <2>2 DEF PlacedAt
  <2> QED BY <2>1, <2>2
<1>7. ASSUME NEW i \in Ids, SameMutation(i, r)
      PROVE  n \notin Ids /\ i # n /\ calls[i].record = r
  BY <1>1, <1>2, <1>7, Bounds DEF SameMutation, Ids
<1>8. ASSUME NEW i \in Ids, Reusable(i, r, n), UNCHANGED <<generation, db>>,
             calls' = LET d == [asked EXCEPT !.leader = i, !.ver = calls[i].ver, !.phase = "resolved", !.result = "answered"]
                      IN  IF n > Len(calls) THEN Append(calls, d) ELSE [calls EXCEPT ![n] = d]
      PROVE  CommandInv'
  <2>1. PICK d : d = [asked EXCEPT !.leader = i, !.ver = calls[i].ver, !.phase = "resolved", !.result = "answered"]
    OBVIOUS
  <2>2. /\ n \notin Ids /\ i # n /\ calls[i].record = r /\ calls[i].leader = i /\ calls[i].result = "answered"
        /\ i \in applied /\ calls[i].ver # 0 /\ calls[i].ver \in Ver /\ i \in CallIds
    BY <1>1, <1>7, <1>8, Typed, Fields DEF Reusable, Completed, PhaseInv
  <2>3. /\ d \in CallType /\ d.record = r /\ d.prev = c.prev /\ d.service = service /\ d.ws = current /\ d.gen = 0
        /\ d.leader = i /\ d.ver = calls[i].ver /\ d.phase = "resolved" /\ d.result = "answered"
    BY <1>5, <2>1, <2>2 DEF CallType
  <2>4. PlacedAt(n, d)
    BY <1>6, <1>8, <2>1, <2>2, <2>3
  <2>5. Fresh(n, d)
    BY <1>2, <2>2, <2>3 DEF Fresh
  <2> QED BY <1>8, <2>3, <2>4, <2>5, CallBegins
<1>9. ASSUME NEW i \in Ids, Joinable(i, r, n), UNCHANGED <<generation, db>>,
             calls' = LET d == [asked EXCEPT !.leader = i, !.phase = "joined"]
                      IN  IF n > Len(calls) THEN Append(calls, d) ELSE [calls EXCEPT ![n] = d]
      PROVE  CommandInv'
  <2>1. PICK d : d = [asked EXCEPT !.leader = i, !.phase = "joined"]
    OBVIOUS
  <2>2. n \notin Ids /\ i # n /\ calls[i].record = r /\ calls[i].leader = i /\ i \in CallIds
    BY <1>1, <1>7, <1>9, Typed DEF Joinable, InFlight
  <2>3. /\ d \in CallType /\ d.record = r /\ d.prev = c.prev /\ d.service = service /\ d.ws = current /\ d.gen = 0
        /\ d.leader = i /\ d.phase = "joined" /\ d.result = "none"
    BY <1>5, <2>1, <2>2 DEF CallType
  <2>4. PlacedAt(n, d)
    BY <1>6, <1>9, <2>1, <2>2, <2>3
  <2>5. Fresh(n, d)
    BY <1>2, <2>2, <2>3 DEF Fresh
  <2> QED BY <1>9, <2>3, <2>4, <2>5, CallBegins
<1>10. ASSUME generation' = [generation EXCEPT ![service][r] = generation[service][r] + 1], Put(r, Pending(n, c.prev)),
              calls' = LET d == [asked EXCEPT !.gen = generation[service][r] + 1, !.phase = "shown"]
                       IN  IF n > Len(calls) THEN Append(calls, d) ELSE [calls EXCEPT ![n] = d]
       PROVE  CommandInv'
  <2>1. PICK d : d = [asked EXCEPT !.gen = generation[service][r] + 1, !.phase = "shown"]
    OBVIOUS
  <2>2. generation[service][r] + 1 \in Content
    <3>1. generation[service][r] \in Nat /\ n \in 1..MaxCalls /\ MaxCalls \in Nat
      BY <1>1, <1>3, Typed, Bounds
    <3>2. generation[service][r] < n
      <4>1. CASE generation[service][r] = 0
        BY <3>1, <4>1
      <4>2. CASE generation[service][r] # 0
        <5>1. PICK i \in Ids : calls[i].record = r /\ calls[i].phase # "edited" /\ generation[service][r] <= i
          BY <1>1, <1>3, <4>2 DEF BoundInv
        <5>2. i < n
          <6>1. CASE n \in Ids
            BY <1>1, <1>2, <5>1, <6>1 DEF OrderInv, Ids
          <6>2. CASE n \notin Ids
            BY <1>1, <6>2 DEF Ids
          <6> QED BY <6>1, <6>2
        <5> QED BY <3>1, <5>1, <5>2 DEF Ids
      <4> QED BY <4>1, <4>2
    <3> QED BY <3>1, <3>2, Bounds
  <2>3. /\ d \in CallType /\ d.record = r /\ d.prev = c.prev /\ d.service = service /\ d.ws = current
        /\ d.gen = generation[service][r] + 1 /\ d.leader = n /\ d.phase = "shown" /\ d.result = "none"
    BY <1>5, <2>1, <2>2 DEF CallType
  <2>4. PlacedAt(n, d)
    BY <1>6, <1>10, <2>1, <2>3
  <2>5. Fresh(n, d)
    BY <1>2, <2>3 DEF Fresh
  <2>6. \E row \in Row : Put(d.record, row) /\ row.by = n /\ row.status # "synced"
    <3>1. n \in Content /\ c.prev \in Row \ {NoRow}
      BY Fields, Bounds
    <3>2. PICK row \in Row : row = Pending(n, c.prev) /\ row.by = n /\ row.status = "pending"
      BY <3>1, Rows
    <3> QED BY <1>10, <2>3, <3>2
  <2> QED BY <1>10, <2>3, <2>4, <2>5, <2>6, CallBegins
<1> QED
  BY <1>2, <1>4, <1>8, <1>9, <1>10 DEF Command, Ids

\* An edit of a file is issued, in its turn.
LEMMA CommandIssueFile ==
  ASSUME CommandInv, NEW i \in Ids, IssueFile(i)
  PROVE  CommandInv'
<1>1. TypeOK /\ PhaseInv /\ RowInv
  BY DEF CommandInv
<1>2. calls[i] \in CallType /\ i \in CallIds
  BY <1>1, Typed
<1>3. /\ calls[i].phase = "edited" /\ calls[i].result = "none" /\ calls[i].gen = 0 /\ calls[i].leader = i
      /\ calls[i].record \in Files /\ calls[i].prev # NoRow /\ Known(calls[i].record, calls[i].prev)
  BY <1>1 DEF IssueFile, PhaseInv, RowInv
<1> QED BY <1>2, <1>3, CommandIssued DEF IssueFile

\* A command on a channel is issued at once.
LEMMA CommandUpdateChannel ==
  ASSUME CommandInv, NEW r \in Channels, UpdateChannel(r)
  PROVE  CommandInv'
<1>1. PhaseInv /\ r \in Records /\ Len(calls) < MaxCalls /\ db[current][r].status # "none"
  BY DEF UpdateChannel, Records, CommandInv
<1>2. PICK c, n : c = NewCall(r) /\ n = Len(calls) + 1
  OBVIOUS
<1>3. /\ n \in CallIds /\ c \in CallType /\ c.record = r /\ c.phase = "edited" /\ c.result = "none"
      /\ c.prev = db[current][r] /\ c.prev \in Row \ {NoRow} /\ Known(r, c.prev)
      /\ c.gen = 0 /\ c.leader = n /\ c.service = service /\ c.ws = current
  BY <1>1, <1>2, NewCallFields
<1>4. \A j \in Ids : calls[j].record = c.record => calls[j].phase # "edited"
  BY <1>1, <1>3, Bounds DEF PhaseInv
<1>5. Command(n, c) /\ UNCHANGED <<current, service, disposed, tower, applied>>
  BY <1>2 DEF UpdateChannel
<1> QED BY <1>2, <1>3, <1>4, <1>5, CommandIssued

----------------------------------------------------------------------------
(* The theorems.                                                            *)

\* Every step keeps the invariant.
LEMMA CommandNext == CommandInv /\ [Next]_vars => CommandInv'
<1> SUFFICES ASSUME CommandInv, [Next]_vars PROVE CommandInv'
  OBVIOUS
<1>1. CASE UNCHANGED vars
  <2>1. Ids' = Ids
    BY <1>1 DEF vars, Ids
  <2> QED BY <1>1, <2>1 DEF CommandInv, TypeOK, ServiceInv, LeaderInv, PhaseInv, RowInv, Known, OrderInv, BoundInv, vars
<1>2. CASE \E i \in Ids : Step(i) \/ Answer(i)
  BY <1>2, CommandIssueFile, CommandSend, CommandAcknowledge, CommandComplete, CommandFail, CommandJoin, CommandSettle,
     CommandApply, CommandRefuse DEF Step, Answer
<1> QED BY <1>1, <1>2, CommandEditFile, CommandUpdateChannel, CommandSwitch DEF Next, Ids

\* What is known of the commands, their generations and the rows stays true.
THEOREM CommandInvariant == Spec => []CommandInv
BY CommandInit, CommandNext, PTL DEF Spec

\* Every reachable state is well typed.
THEOREM TypeCorrect == Spec => []TypeOK
<1>1. CommandInv => TypeOK
  BY DEF CommandInv
<1> QED BY <1>1, CommandInvariant, PTL

\* A row that is shown as synced holds what Tower once held, whatever commands
\* failed, were rolled back or crossed a change of workspace.
THEOREM SyncedIsTowers == Spec => []SyncedWasApplied
<1>1. CommandInv => SyncedWasApplied
  BY DEF CommandInv, RowInv, Known, SyncedWasApplied
<1> QED BY <1>1, CommandInvariant, PTL

----------------------------------------------------------------------------
(* What an answer may write.                                                *)

\* A command writes no other call than its own.
LEMMA CommandWrites ==
  ASSUME NEW n, NEW c, Command(n, c)
  PROVE  \E d : calls' = IF n > Len(calls) THEN Append(calls, d) ELSE [calls EXCEPT ![n] = d]
<1>1. PICK asked : asked = [c EXCEPT !.service = service, !.ws = current]
  OBVIOUS
<1>2. \/ \E i : calls' = LET d == [asked EXCEPT !.leader = i, !.ver = calls[i].ver, !.phase = "resolved", !.result = "answered"]
                       IN  IF n > Len(calls) THEN Append(calls, d) ELSE [calls EXCEPT ![n] = d]
      \/ \E i : calls' = LET d == [asked EXCEPT !.leader = i, !.phase = "joined"]
                       IN  IF n > Len(calls) THEN Append(calls, d) ELSE [calls EXCEPT ![n] = d]
      \/ \E g : calls' = LET d == [asked EXCEPT !.gen = g, !.phase = "shown"]
                       IN  IF n > Len(calls) THEN Append(calls, d) ELSE [calls EXCEPT ![n] = d]
  BY <1>1 DEF Command
<1> QED BY <1>2

\* The answer to a call writes a row when it is acknowledged or fails as the newest
\* command of its record, under the service that issued it, and otherwise none.
LEMMA AnswerWrites ==
  ASSUME CommandInv, [Next]_vars, NEW i \in Ids, Returns(i)
  PROVE  UNCHANGED db \/ (Live(i) /\ Latest(i) /\ \E row : Put(calls[i].record, row))
<1>1. TypeOK /\ calls \in Seq(CallType) /\ Len(calls) \in Nat /\ i \in 1..Len(calls)
  BY Typed DEF CommandInv, Ids
<1>2. calls[i].phase \in {"accepted", "refused"} /\ calls'[i] # calls[i]
  BY DEF Returns
<1>3. ASSUME NEW j \in Ids, NEW d, calls' = [calls EXCEPT ![j] = d]
      PROVE  i = j
  BY <1>1, <1>2, <1>3
<1>4. ASSUME NEW d, calls' = Append(calls, d)
      PROVE  FALSE
  BY <1>1, <1>2, <1>4
<1>5. CASE UNCHANGED vars
  BY <1>5 DEF vars
<1>6. CASE \E r \in Files : EditFile(r)
  BY <1>4, <1>6 DEF EditFile
<1>7. CASE \E r \in Channels : UpdateChannel(r)
  <2>1. PICK d : calls' = Append(calls, d)
    <3>1. PICK r \in Channels : Command(Len(calls) + 1, NewCall(r))
      BY <1>7 DEF UpdateChannel
    <3> QED BY <1>1, <3>1, CommandWrites
  <2> QED BY <1>4, <2>1
<1>8. CASE \E w \in Workspaces : Switch(w)
  BY <1>8 DEF Switch
<1>9. ASSUME NEW j \in Ids, Step(j) \/ Answer(j)
      PROVE  UNCHANGED db \/ (Live(i) /\ Latest(i) /\ \E row : Put(calls[i].record, row))
  <2>1. CASE IssueFile(j)
    <3>1. PICK d : calls' = [calls EXCEPT ![j] = d]
      <4>1. Command(j, calls[j]) /\ ~(j > Len(calls))
        BY <1>1, <2>1 DEF IssueFile, Ids
      <4> QED BY <4>1, CommandWrites
    <3> QED BY <1>2, <1>3, <2>1, <3>1 DEF IssueFile
  <2>2. CASE Acknowledge(j)
    <3>1. PICK d : calls' = [calls EXCEPT ![j] = d]
      BY <2>2 DEF Acknowledge, Resolved
    <3>2. i = j
      BY <1>3, <3>1
    <3> QED BY <2>2, <3>2 DEF Acknowledge
  <2>3. CASE Fail(j)
    <3>1. PICK d : calls' = [calls EXCEPT ![j] = d]
      BY <2>3 DEF Fail, Resolved
    <3>2. i = j
      BY <1>3, <3>1
    <3> QED BY <2>3, <3>2 DEF Fail
  <2>4. CASE Settle(j)
    <3>1. PICK d : calls' = [calls EXCEPT ![j] = d]
      BY <2>4 DEF Settle
    <3> QED BY <1>2, <1>3, <2>4, <3>1 DEF Settle
  <2>5. CASE Send(j) \/ Complete(j) \/ Join(j) \/ Apply(j) \/ Refuse(j)
    BY <2>5 DEF Send, Complete, Join, Apply, Refuse
  <2> QED BY <1>9, <2>1, <2>2, <2>3, <2>4, <2>5 DEF Step, Answer
<1> QED BY <1>5, <1>6, <1>7, <1>8, <1>9 DEF Next, Ids

\* The service of a live call is the one in use, and its workspace the current one.
LEMMA LiveIsCurrent ==
  ASSUME CommandInv, NEW i \in Ids, Live(i)
  PROVE  calls[i].service = service /\ calls[i].ws = current
<1>1. TypeOK /\ ServiceInv /\ service \in Nat /\ calls[i] \in CallType
  BY Typed DEF CommandInv
<1>2. calls[i].service \in Nat
  BY <1>1, Fields, Bounds
<1> QED BY <1>1, <1>2 DEF ServiceInv, Live

\* The answer to a command writes no database but that of its record's workspace,
\* whatever changes of workspace happened while it was out.
THEOREM AnswersCrossNoWorkspace == Spec => AnswersStayHome
<1>1. ASSUME CommandInv, [Next]_vars, NEW i \in Ids, Returns(i), calls[i].ws = Home[calls[i].record],
             NEW w \in Workspaces, w # Home[calls[i].record]
      PROVE  db'[w] = db[w]
  <2>1. CASE UNCHANGED db
    BY <2>1
  <2>2. CASE Live(i) /\ \E row : Put(calls[i].record, row)
    <3>1. calls[i].ws = current /\ db \in [Workspaces -> [Records -> Row]]
      BY <1>1, <2>2, LiveIsCurrent DEF CommandInv, TypeOK
    <3> QED BY <1>1, <2>2, <3>1 DEF Put
  <2> QED BY <1>1, <2>1, <2>2, AnswerWrites
<1>2. CommandInv /\ [Next]_vars =>
        [\A i \in 1..Len(calls) :
           Returns(i) /\ calls[i].ws = Home[calls[i].record] =>
             \A w \in Workspaces : w # Home[calls[i].record] => db'[w] = db[w]]_vars
  BY <1>1 DEF Ids
<1> QED BY <1>2, CommandInvariant, PTL DEF Spec, AnswersStayHome

\* The answer to an older command never replaces the row of one that ran after it,
\* whichever way both come back.
THEOREM AnswersComeInOrder == Spec => AnswersInOrder
<1>1. ASSUME CommandInv, [Next]_vars, NEW i \in Ids, NEW j \in CallIds, NEW w \in Workspaces,
             Returns(i), j > i, db[w][calls[i].record].by = j, calls[j].gen > 0
      PROVE  db'[w][calls[i].record] = db[w][calls[i].record]
  <2>1. /\ TypeOK /\ ServiceInv /\ PhaseInv /\ RowInv /\ OrderInv
        /\ calls[i] \in CallType /\ calls[i].record \in Records /\ j # 0 /\ service \in Nat
    BY <1>1, Typed, Fields, Bounds DEF CommandInv
  <2>2. j \in Ids /\ calls[j].record = calls[i].record
    BY <1>1, <2>1 DEF RowInv, Known
  <2>3. calls[i].gen # 0 /\ calls[j].gen # 0 /\ calls[i].gen \in Nat /\ calls[j].gen \in Nat /\ calls[j].service \in Nat
    <3>1. calls[i].gen # 0
      BY <1>1, <2>1 DEF Returns, PhaseInv
    <3>2. calls[j] \in CallType
      BY <2>1, <2>2, Typed
    <3> QED BY <1>1, <2>1, <3>1, <3>2, Fields, Bounds
  <2>4. CASE UNCHANGED db
    BY <2>4
  <2>5. CASE Live(i) /\ Latest(i)
    <3>1. calls[i].service = service /\ generation[service][calls[i].record] = calls[i].gen
      BY <1>1, <2>5, LiveIsCurrent DEF Latest
    <3>2. calls[j].service <= service /\ i < j
      BY <1>1, <2>1, <2>2, Bounds DEF ServiceInv, Ids
    <3>3. service <= calls[j].service /\ (service = calls[j].service => calls[i].gen < calls[j].gen)
      BY <2>1, <2>2, <2>3, <3>1, <3>2 DEF OrderInv
    <3>4. calls[j].service = service /\ calls[i].gen < calls[j].gen
      BY <2>1, <2>3, <3>2, <3>3
    <3>5. calls[j].gen <= generation[service][calls[i].record]
      BY <2>1, <2>2, <3>4 DEF OrderInv
    <3> QED BY <2>3, <3>1, <3>4, <3>5
  <2> QED BY <1>1, <2>4, <2>5, AnswerWrites
<1>2. CommandInv /\ [Next]_vars =>
        [\A i \in 1..Len(calls), j \in CallIds, w \in Workspaces :
           LET r == calls[i].record IN
           Returns(i) /\ j > i /\ db[w][r].by = j /\ calls[j].gen > 0 => db'[w][r] = db[w][r]]_vars
  BY <1>1 DEF Ids
<1> QED BY <1>2, CommandInvariant, PTL DEF Spec, AnswersInOrder
=============================================================================
