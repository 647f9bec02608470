------------------------- MODULE EventStreamProofs -------------------------
(***************************************************************************)
(* Proofs about EventStream: type correctness, that each workspace keeps   *)
(* a cursor of its own, and that no acknowledged cursor passes an event    *)
(* that is not in the cache.                                               *)
(***************************************************************************)
EXTENDS EventStream, FiniteSetTheorems, SequenceTheorems, WellFoundedInduction, TLAPS

(***************************************************************************)
(* The invariant.                                                          *)
(***************************************************************************)

\* A cursor that names no workspace is at the beginning.
Anchored(k) == k.of = None => k.at = 0

\* What the worker holds belongs to its context, and it holds nothing without one.
ContextInv ==
  /\ key = None => batches = <<>> /\ stale = <<>>
  /\ source # NoSource => key # None /\ source.of = key
  /\ token # NoToken => key # None /\ token.key = key
  /\ \A i \in DOMAIN stale : stale[i].of = key /\ stale[i].at \in 1..emitted[key]
  /\ \A i \in DOMAIN batches : batches[i].cursor.of = key /\ batches[i].cursor.at \in Event
  /\ Anchored(cursor) /\ Anchored(token.cursor)
  /\ \A c \in Workspaces : Anchored(stored[c]) /\ stored[c].of \in {None, c}

\* A write that is under way is of a workspace's own cursor.  As long as it counts,
\* the batches it stands for are committed and the first.
WritingInv ==
  writing # NoWrite =>
    /\ writing.key \in Workspaces /\ writing.cursor.of = writing.key
    /\ writing.fresh /\ writing.key = key =>
         /\ writing.count <= Len(batches)
         /\ \A i \in 1..writing.count : batches[i].committed

\* What the page holds for batch b was sent under b's context.
ItemInv(i) ==
  /\ i.key \in Workspaces /\ i.id \in Ids /\ i.events \subseteq 1..emitted[i.key]
  /\ \A j \in DOMAIN batches : batches[j].id = i.id => i.key = key

Held == Items \ {NoItem}

PageInv ==
  /\ \A i \in Held : ItemInv(i)
  /\ IsFiniteSet(retry) /\ IsFiniteSet(deferred)
  /\ \A c \in Workspaces : done[c] \subseteq 1..emitted[c]

DistinctInv == \A i, j \in DOMAIN batches : batches[i].id = batches[j].id => i = j

\* Event e of c is neither in the cache nor excepted.
Owed(c, e) == e \notin done[c] \cup excused[c] \cup unread[c]

Before(k, c, e) == k.of = c => k.at < e

\* No acknowledged cursor has reached e.
CursorsBefore(c, e) ==
  /\ stored[c].at < e /\ Before(cursor, c, e)
  /\ Before(token.cursor, c, e) /\ Before(writing.cursor, c, e)

\* Batch b holds back the cursor for e: it is not acknowledged, no acknowledgement
\* is on its way, and whatever may yet acknowledge it brings e into the cache.
Blocks(b, e) ==
  /\ b.cursor.at >= e /\ ~b.committed
  /\ b.id \notin ToSet(acks)
  /\ \A i \in Held : i.id = b.id => e \in i.events

\* The stream that is open has passed e, hence has delivered it.
Ahead(c, e) == source.of = c /\ source.at >= e
StaleBeyond(e) == \E i \in DOMAIN stale : stale[i].at >= e
BatchBeyond(e) == \E i \in DOMAIN batches : batches[i].cursor.at >= e

\* The worker's context is c and e is owed: what it has delivered beyond e came in
\* order, once, after e, and a batch that reaches e finds e before it.
OrderInv(c, e) ==
  /\ Ahead(c, e) \/ StaleBeyond(e) \/ BatchBeyond(e) => e \in heard[c]
  /\ Ahead(c, e) =>
       /\ stale # <<>> => stale[Len(stale)].at = source.at
       /\ \A i \in DOMAIN stale : stale[i].at <= source.at
       /\ \A i \in DOMAIN batches : batches[i].cursor.at <= source.at
  /\ (Ahead(c, e) \/ StaleBeyond(e)) /\ ~BatchBeyond(e) => \E i \in DOMAIN stale : stale[i].at = e
  /\ \A i \in DOMAIN stale, j \in DOMAIN batches : stale[i].at >= e => batches[j].cursor.at < stale[i].at
  /\ \A i \in DOMAIN batches : batches[i].cursor.at >= e => \E j \in 1..i : Blocks(batches[j], e)

OwedInv(c, e) == Owed(c, e) => CursorsBefore(c, e) /\ (key = c => OrderInv(c, e))

StreamInv ==
  /\ TypeOK /\ ContextInv /\ WritingInv /\ PageInv /\ DistinctInv
  /\ \A c \in Workspaces, e \in Event : OwedInv(c, e)

(***************************************************************************)
(* Types.                                                                  *)
(***************************************************************************)

\* Tower's positions, and the cursors and records made of them.
LEMMA Positions ==
  /\ Event \subseteq Nat \ {0} /\ Position \subseteq Nat /\ 0 \in Position /\ Event \subseteq Position
  /\ \A n \in Position : 1..n \subseteq Event
  /\ \A n \in Position, m \in Nat : m < n => m + 1 \in Event
  /\ \A c \in Workspaces, n \in Position : n < MaxEvents[c] => n + 1 \in Position
  /\ None \notin Workspaces /\ Home \in Workspaces
BY BoundAssumption, WorkspaceAssumption DEF Event, Position

LEMMA Records ==
  /\ NoCursor \in Cursor /\ NoCursor.of = None /\ NoCursor.at = 0
  /\ NoToken \in TokenType /\ NoToken.key = None /\ NoToken.cursor = NoCursor
  /\ NoSource = NoCursor
  /\ NoWrite \in WriteType /\ NoWrite.cursor = NoCursor /\ NoWrite.key = None
  /\ NoItem.id = 0 /\ NoItem.key = None /\ NoItem.events = {}
  /\ NoItem \in ItemType
  /\ \A k \in Cursor : k.of \in Contexts /\ k.at \in Position
  /\ \A t \in TokenType : t.key \in Contexts /\ t.cursor \in Cursor
  /\ \A c \in Contexts, k \in Cursor : [key |-> c, cursor |-> k] \in TokenType
BY Positions, BoundAssumption
   DEF NoCursor, Cursor, Contexts, NoToken, TokenType, NoSource, NoWrite, WriteType, NoItem, ItemType

\* The elements of a sequence, and the images of a finite set, are finitely many.
LEMMA FiniteImage ==
  ASSUME NEW S, IsFiniteSet(S), NEW f, f = [x \in S |-> f[x]]
  PROVE  IsFiniteSet({f[x] : x \in S})
<1> DEFINE T == {f[x] : x \in S}
<1>1. f \in Surjection(S, T)
  BY DEF Surjection
<1> QED BY <1>1, FS_Surjection

LEMMA FiniteSequence ==
  ASSUME NEW S, NEW s \in Seq(S)
  PROVE  IsFiniteSet(ToSet(s))
<1>1. DOMAIN s = 1..Len(s) /\ s = [x \in DOMAIN s |-> s[x]]
  BY LenProperties
<1>2. Len(s) \in Int
  BY LenProperties
<1>3. IsFiniteSet(1..Len(s))
  BY <1>2, FS_Interval
<1>4. IsFiniteSet({s[x] : x \in DOMAIN s})
  BY <1>1, <1>3, FiniteImage
<1> QED BY <1>4 DEF ToSet

\* There is a batch id to take, and nobody refers to it.
LEMMA Fresh ==
  ASSUME TypeOK, IsFiniteSet(retry), IsFiniteSet(deferred)
  PROVE  /\ FreshId \in Ids
         /\ \A i \in DOMAIN batches : batches[i].id # FreshId
         /\ \A i \in Items : i.id # FreshId
         /\ FreshId \notin ToSet(acks)
<1> DEFINE bs == {b.id : b \in ToSet(batches)}
           is == {i.id : i \in Items}
           used == bs \cup is \cup ToSet(acks)
           free == 1..Cardinality(used) + 1
<1>1. IsFiniteSet(bs)
  <2>1. IsFiniteSet(ToSet(batches))
    BY FiniteSequence DEF TypeOK
  <2> DEFINE f == [b \in ToSet(batches) |-> b.id]
  <2>2. IsFiniteSet({f[b] : b \in ToSet(batches)})
    BY <2>1, FiniteImage
  <2> QED BY <2>2
<1>2. IsFiniteSet(is)
  <2>1. IsFiniteSet(ToSet(queue))
    BY FiniteSequence DEF TypeOK
  <2>2. IsFiniteSet(Items)
    BY <2>1, FS_Union, FS_Singleton DEF Items
  <2> DEFINE f == [i \in Items |-> i.id]
  <2>3. IsFiniteSet({f[i] : i \in Items})
    BY <2>2, FiniteImage
  <2> QED BY <2>3
<1>3. IsFiniteSet(ToSet(acks))
  BY FiniteSequence DEF TypeOK
<1>4. IsFiniteSet(used)
  BY <1>1, <1>2, <1>3, FS_Union
<1>5. \E n \in free : n \notin used
  <2>1. Cardinality(used) \in Nat
    BY <1>4, FS_CardinalityType
  <2>2. Cardinality(free) = Cardinality(used) + 1
    BY <2>1, FS_Interval
  <2>3. SUFFICES ASSUME free \in SUBSET used PROVE FALSE
    OBVIOUS
  <2>4. Cardinality(free) <= Cardinality(used)
    BY <1>4, <2>3, FS_Subset
  <2> QED BY <2>1, <2>2, <2>4
<1>6. FreshId \in free /\ FreshId \notin used
  BY <1>5 DEF FreshId
<1>7. free \subseteq Ids
  BY <1>4, FS_CardinalityType DEF Ids
<1>8. \A i \in DOMAIN batches : batches[i].id \in bs
  BY DEF ToSet
<1> QED BY <1>6, <1>7, <1>8

\* The committed prefix is a prefix of committed batches.
LEMMA Prefix ==
  ASSUME NEW bs \in Seq(BatchType)
  PROVE  /\ CommittedPrefix(bs) \in 0..Len(bs)
         /\ \A i \in 1..CommittedPrefix(bs) : bs[i].committed
<1> DEFINE Stop(n) == n < Len(bs) => ~bs[n + 1].committed
           stops == {n \in 0..Len(bs) : Stop(n)}
<1>1. Len(bs) \in Nat
  BY LenProperties
<1>2. stops # {} /\ stops \subseteq Nat
  BY <1>1
<1>3. PICK n \in stops : \A m \in stops : ~ <<m, n>> \in OpToRel(<, Nat)
  BY <1>2, NatLessThanWellFounded, WFMin
<1>4. \A m \in stops : ~(m < n)
  BY <1>2, <1>3 DEF OpToRel
<1>5. n \in 0..Len(bs) /\ Stop(n)
  OBVIOUS
<1>6. \A i \in 1..n : bs[i].committed
  <2>1. TAKE i \in 1..n
  <2>2. i - 1 \in 0..Len(bs) /\ i - 1 < n /\ i - 1 < Len(bs) /\ (i - 1) + 1 = i
    BY <1>1, <1>5
  <2>3. ~Stop(i - 1)
    BY <1>4, <2>2
  <2> QED BY <2>2, <2>3
<1> QED BY <1>5, <1>6 DEF CommittedPrefix

\* A step of the worker's connection keeps the types.
LEMMA ConnectTypes ==
  ASSUME TypeOK, ContextInv, Connect \/ Restored \/ RequestAgain \/ Open \/ Refused \/ Drop
  PROVE  TypeOK'
<1> USE Positions, Records
<1>1. attempts + 1 \in Nat
  BY DEF TypeOK
<1>2. CASE Connect
  <2>1. PICK k \in Cursor : k = IF Forgets(active) THEN NoCursor ELSE cursor
    BY DEF TypeOK
  <2>2. active \in Workspaces
    BY <1>2 DEF Connect, TypeOK, Contexts
  <2>3. cursor' \in Cursor /\ token' \in TokenType /\ restore' \in Contexts /\ source' \in Cursor
        /\ conn' \in {"off", "restoring", "token", "open", "backoff", "fallback"}
    BY <1>2, <2>1, <2>2 DEF Connect, Request, Contexts
  <2>4. stale' \in Seq(Cursor) /\ batches' \in Seq(BatchType)
    BY <1>2 DEF Connect, TypeOK
  <2>5. heard' \in [Workspaces -> SUBSET Event]
    BY <1>2 DEF Connect, TypeOK
  <2>6. writing' \in WriteType
    BY <1>2 DEF Connect, TypeOK, WriteType
  <2> QED BY <1>2, <2>2, <2>3, <2>4, <2>5, <2>6 DEF Connect, TypeOK, Contexts
<1>3. CASE Restored
  <2>1. stored[restore] \in Cursor
    BY <1>3 DEF Restored, TypeOK, Contexts
  <2>2. PICK k \in Cursor : k = cursor' /\ k = IF stored[restore].at > 0 THEN stored[restore] ELSE cursor
    BY <1>3, <2>1 DEF Restored, TypeOK
  <2>3. token' \in TokenType /\ conn' \in {"off", "restoring", "token", "open", "backoff", "fallback"}
    BY <1>3, <2>2 DEF Restored, TypeOK, Request
  <2> QED BY <1>3, <2>2, <2>3 DEF Restored, TypeOK, Contexts, pageVars, history
<1>4. CASE RequestAgain
  BY <1>4 DEF RequestAgain, TypeOK, Request, pageVars, history
<1>5. CASE Open
  <2>1. key \in Workspaces /\ token.key = key
    BY <1>5 DEF Open, ContextInv, TypeOK, Contexts
  <2>2. PICK k \in Cursor : k = token.cursor
    BY DEF TypeOK
  <2>3. SkippedBy(key, k) \in SUBSET Event
    BY <2>2 DEF SkippedBy
  <2>4. excused' \in [Workspaces -> SUBSET Event]
    BY <1>5, <2>1, <2>2, <2>3 DEF Open, TypeOK
  <2>5. source' \in Cursor
    BY <1>5, <2>1, <2>2 DEF Open, Cursor, Contexts
  <2> QED BY <1>5, <2>4, <2>5 DEF Open, TypeOK, pageVars
<1>6. CASE Refused
  BY <1>1, <1>6 DEF Refused, ScheduleReconnect, TypeOK, pageVars, history
<1>7. CASE Drop
  BY <1>1, <1>7 DEF Drop, ScheduleReconnect, TypeOK, pageVars, history
<1> QED BY <1>2, <1>3, <1>4, <1>5, <1>6, <1>7

\* The batch that a flush makes, or the one it joins.
LEMMA Flushed ==
  ASSUME TypeOK, ContextInv, PageInv, Flush
  PROVE  \E id \in Ids, last \in Cursor, item \in ItemType :
           /\ last = stale[Len(stale)] /\ Len(stale) \in DOMAIN stale
           /\ item = [key |-> key, id |-> id, events |-> {s.at : s \in ToSet(stale)}, attempt |-> 0]
           /\ key \in Workspaces /\ item.events \subseteq 1..emitted[key]
           /\ queue' = IF key = active THEN Append(queue, item) ELSE queue
           /\ \/ /\ \A j \in DOMAIN batches : batches[j].cursor # last
                 /\ batches' = Append(batches, [id |-> id, cursor |-> last, committed |-> FALSE])
                 /\ \A j \in DOMAIN batches : batches[j].id # id
                 /\ \A i \in Items : i.id # id
                 /\ id \notin ToSet(acks)
              \/ /\ batches' = batches
                 /\ \E j \in DOMAIN batches : batches[j].cursor = last /\ batches[j].id = id
<1> DEFINE last == stale[Len(stale)]
           same == {b \in ToSet(batches) : b.cursor = last}
           id == IF same = {} THEN FreshId ELSE (CHOOSE b \in same : TRUE).id
           item == [key |-> key, id |-> id, events |-> {s.at : s \in ToSet(stale)}, attempt |-> 0]
<1>1. stale \in Seq(Cursor) /\ stale # <<>> /\ batches \in Seq(BatchType)
  BY DEF Flush, TypeOK
<1>2. Len(stale) \in DOMAIN stale /\ last \in Cursor
  BY <1>1, LenProperties
<1>3. key \in Workspaces
  BY <1>1 DEF ContextInv, TypeOK, Contexts
<1>4. \A s \in ToSet(stale) : s.at \in 1..emitted[key]
  BY DEF ToSet, ContextInv
<1>5. emitted[key] \in Position /\ 1..emitted[key] \subseteq Event
  BY <1>3, Positions DEF TypeOK
<1>6. CASE same = {}
  <2>1. id = FreshId
    BY <1>6
  <2>2. \A j \in DOMAIN batches : batches[j].cursor # last
    BY <1>6 DEF ToSet
  <2>3. id \in Ids /\ (\A j \in DOMAIN batches : batches[j].id # id) /\ (\A i \in Items : i.id # id) /\ id \notin ToSet(acks)
    BY <2>1, Fresh DEF PageInv
  <2>4. item \in ItemType
    BY <1>3, <1>4, <1>5, <2>3, BoundAssumption DEF ItemType, Contexts
  <2>5. batches' = Append(batches, [id |-> id, cursor |-> last, committed |-> FALSE])
        /\ queue' = IF key = active THEN Append(queue, item) ELSE queue
    BY <1>6 DEF Flush
  <2>6. item.events \subseteq 1..emitted[key]
    BY <1>4
  <2>7. /\ last = stale[Len(stale)] /\ Len(stale) \in DOMAIN stale
        /\ item = [key |-> key, id |-> id, events |-> {s.at : s \in ToSet(stale)}, attempt |-> 0]
    BY <1>2
  <2> HIDE DEF id, same, last, item
  <2> QED BY <1>2, <1>3, <2>2, <2>3, <2>4, <2>5, <2>6, <2>7
<1>7. CASE same # {}
  <2>1. PICK j \in DOMAIN batches : batches[j] = CHOOSE b \in same : TRUE
    BY <1>7 DEF ToSet
  <2>2. batches[j].cursor = last /\ id = batches[j].id
    BY <1>7, <2>1
  <2>3. id \in Ids
    <3>1. batches[j] \in BatchType
      BY <1>1, LenProperties
    <3> QED BY <2>2, <3>1 DEF BatchType
  <2>4. item \in ItemType
    BY <1>3, <1>4, <1>5, <2>3, BoundAssumption DEF ItemType, Contexts
  <2>5. batches' = batches /\ queue' = IF key = active THEN Append(queue, item) ELSE queue
    BY <1>7 DEF Flush
  <2> HIDE DEF id, same
  <2> QED BY <1>2, <1>3, <1>4, <2>2, <2>3, <2>4, <2>5
<1> QED BY <1>6, <1>7

\* Marking a batch, and the prefix that is written then.
LEMMA Marked ==
  ASSUME TypeOK, Acknowledge
  PROVE  \/ UNCHANGED <<batches, writing>>
         \/ \E i \in DOMAIN batches, n \in 0..Len(batches) :
              /\ batches[i].id = Head(acks) /\ ~batches[i].committed
              /\ batches' = [batches EXCEPT ![i].committed = TRUE]
              /\ batches' \in Seq(BatchType) /\ DOMAIN batches' = DOMAIN batches /\ Len(batches') = Len(batches)
              /\ \A j \in 1..n : batches'[j].committed
              /\ writing' = IF n = 0 THEN NoWrite
                            ELSE [key |-> key, cursor |-> batches'[n].cursor, count |-> n, fresh |-> TRUE]
              /\ writing' \in WriteType
<1> DEFINE Awaited == {i \in DOMAIN batches : batches[i].id = Head(acks) /\ ~batches[i].committed}
<1>1. CASE Awaited = {}
  BY <1>1 DEF Acknowledge
<1>2. CASE Awaited # {}
  <2>1. PICK i \in Awaited :
          /\ batches' = [batches EXCEPT ![i].committed = TRUE]
          /\ writing' = IF CommittedPrefix(batches') = 0 THEN NoWrite
                        ELSE [key |-> key, cursor |-> batches'[CommittedPrefix(batches')].cursor,
                              count |-> CommittedPrefix(batches'), fresh |-> TRUE]
    BY <1>2 DEF Acknowledge
  <2>2. batches \in Seq(BatchType) /\ DOMAIN batches = 1..Len(batches) /\ Len(batches) \in Nat
    BY LenProperties DEF TypeOK
  <2>3. batches[i] \in BatchType
    BY <2>2
  <2>4. [batches[i] EXCEPT !.committed = TRUE] \in BatchType
    BY <2>3 DEF BatchType
  <2>5. batches' \in Seq(BatchType) /\ DOMAIN batches' = DOMAIN batches /\ Len(batches') = Len(batches)
    BY <2>1, <2>2, <2>4, ExceptSeq, LenProperties
  <2>6. PICK n \in 0..Len(batches) : n = CommittedPrefix(batches') /\ \A j \in 1..n : batches'[j].committed
    BY <2>5, Prefix
  <2>7. n # 0 => batches'[n].cursor \in Cursor
    <3>1. n # 0 => batches'[n] \in BatchType
      BY <2>2, <2>5, <2>6
    <3> QED BY <3>1 DEF BatchType
  <2>8. writing' \in WriteType
    BY <2>1, <2>2, <2>6, <2>7, Records DEF WriteType, TypeOK
  <2> QED BY <2>1, <2>2, <2>5, <2>6, <2>8
<1> QED BY <1>1, <1>2

\* Dropping the batches that were written.
LEMMA Dropped ==
  ASSUME NEW bs \in Seq(BatchType), NEW n \in Nat, n <= Len(bs)
  PROVE  LET rest == SubSeq(bs, n + 1, Len(bs))
         IN  /\ rest \in Seq(BatchType) /\ Len(rest) = Len(bs) - n /\ DOMAIN rest = 1..Len(bs) - n
             /\ \A i \in 1..Len(bs) - n : rest[i] = bs[i + n] /\ i + n \in DOMAIN bs
<1>1. Len(bs) \in Nat /\ DOMAIN bs = 1..Len(bs)
  BY LenProperties
<1>2. \A i \in n + 1..Len(bs) : bs[i] \in BatchType
  BY <1>1
<1> DEFINE rest == SubSeq(bs, n + 1, Len(bs))
<1>3. rest \in Seq(BatchType) /\ Len(rest) = (IF n + 1 <= Len(bs) THEN Len(bs) - (n + 1) + 1 ELSE 0)
      /\ \A i \in 1..Len(bs) - (n + 1) + 1 : rest[i] = bs[n + 1 + i - 1]
  BY <1>1, <1>2, SubSeqProperties
<1>4. DOMAIN rest = 1..Len(rest)
  BY <1>3, LenProperties
<1> HIDE DEF rest
<1>5. Len(rest) = Len(bs) - n
  <2>1. PICK l \in Nat : l = Len(bs) /\ n <= l
    BY <1>1
  <2>2. Len(rest) = IF n + 1 <= l THEN l - (n + 1) + 1 ELSE 0
    BY <1>3, <2>1
  <2>3. Len(rest) = l - n
    BY <2>2, <2>1
  <2> QED BY <2>1, <2>3
<1>6. \A i \in 1..Len(bs) - n : n + 1 + i - 1 = i + n /\ i + n \in 1..Len(bs)
  BY <1>1
<1>7. \A i \in 1..Len(bs) - n : rest[i] = bs[i + n]
  <2>1. Len(bs) - (n + 1) + 1 = Len(bs) - n
    BY <1>1
  <2> QED BY <1>3, <1>6, <2>1
<1> QED BY <1>1, <1>3, <1>4, <1>5, <1>6, <1>7 DEF rest

\* A step of the worker that moves batches keeps the types.
LEMMA WorkerTypes ==
  ASSUME TypeOK, ContextInv, WritingInv, PageInv, Deliver \/ Flush \/ Acknowledge \/ Persisted \/ PersistFailed
  PROVE  TypeOK'
<1> USE Positions, Records
<1>1. CASE Deliver
  <2>1. source.of = key /\ key \in Workspaces
    BY <1>1 DEF Deliver, ContextInv, TypeOK, Contexts
  <2>2. PICK e \in Event : e = source.at + 1
    BY <1>1, <2>1 DEF Deliver, TypeOK
  <2>3. source' = [of |-> key, at |-> e] /\ source' \in Cursor
    BY <1>1, <2>1, <2>2 DEF Deliver, TypeOK, Cursor, Contexts
  <2>4. stale' \in Seq(Cursor)
    BY <1>1, <2>1, <2>2, <2>3, AppendProperties DEF Deliver, TypeOK
  <2>5. heard' \in [Workspaces -> SUBSET Event] /\ excused' \in [Workspaces -> SUBSET Event]
    BY <1>1, <2>1, <2>2 DEF Deliver, TypeOK
  <2> QED BY <1>1, <2>3, <2>4, <2>5 DEF Deliver, TypeOK, pageVars
<1>2. CASE Flush
  <2>1. PICK id \in Ids, last \in Cursor, item \in ItemType :
          /\ queue' = IF key = active THEN Append(queue, item) ELSE queue
          /\ batches' \in {batches, Append(batches, [id |-> id, cursor |-> last, committed |-> FALSE])}
    BY <1>2, Flushed
  <2>2. [id |-> id, cursor |-> last, committed |-> FALSE] \in BatchType
    BY DEF BatchType
  <2>3. queue' \in Seq(ItemType) /\ batches' \in Seq(BatchType)
    <3>1. queue \in Seq(ItemType) /\ batches \in Seq(BatchType)
      BY DEF TypeOK
    <3>2. Append(queue, item) \in Seq(ItemType)
      BY <3>1, AppendProperties
    <3>3. Append(batches, [id |-> id, cursor |-> last, committed |-> FALSE]) \in Seq(BatchType)
      BY <2>2, <3>1, AppendProperties
    <3> QED BY <2>1, <3>1, <3>2, <3>3
  <2>4. stale' \in Seq(Cursor)
    BY <1>2, EmptySeq DEF Flush
  <2> QED BY <1>2, <2>3, <2>4 DEF Flush, TypeOK, history
<1>3. CASE Acknowledge
  <2>1. batches' \in Seq(BatchType) /\ writing' \in WriteType
    BY <1>3, Marked DEF TypeOK
  <2>2. acks' \in Seq(Ids)
    BY <1>3, HeadTailProperties DEF Acknowledge, TypeOK
  <2> QED BY <1>3, <2>1, <2>2 DEF Acknowledge, TypeOK, pageVars, history
<1>4. CASE Persisted
  <2>1. PICK k \in Cursor : k = writing.cursor
    BY DEF TypeOK, WriteType
  <2>2. stored' \in [Workspaces -> Cursor] /\ cursor' \in Cursor
    BY <1>4, <2>1 DEF Persisted, TypeOK
  <2>3. batches' \in Seq(BatchType)
    <3>1. writing.count \in Nat
      BY DEF TypeOK, WriteType
    <3>2. writing.fresh /\ writing.key = key => SubSeq(batches, writing.count + 1, Len(batches)) \in Seq(BatchType)
      BY <1>4, <3>1, Dropped DEF Persisted, WritingInv, TypeOK
    <3> QED BY <1>4, <3>2 DEF Persisted, TypeOK
  <2>4. token' \in TokenType
    BY <1>4, <2>1 DEF Persisted, TypeOK, TokenType
  <2> QED BY <1>4, <2>2, <2>3, <2>4 DEF Persisted, TypeOK, pageVars, history
<1>5. CASE PersistFailed
  <2>1. attempts + 1 \in Nat
    BY DEF TypeOK
  <2> QED BY <1>5, <2>1 DEF PersistFailed, ScheduleReconnect, TypeOK, pageVars, history
<1> QED BY <1>1, <1>2, <1>3, <1>4, <1>5

\* A step of the page, of Tower or of a selection keeps the types.
LEMMA PageTypes ==
  ASSUME TypeOK, PageInv,
         \/ Take \/ Materialise \/ Fail \/ Reload \/ Reselect
         \/ \E i \in retry \cup deferred : Requeue(i)
         \/ \E c \in Workspaces : Emit(c) \/ Select(c) \/ Rekey(c)
  PROVE  TypeOK'
<1> USE Positions, Records
<1>1. CASE Take
  <2>1. Tail(queue) \in Seq(ItemType) /\ Head(queue) \in ItemType
    BY <1>1, HeadTailProperties DEF Take, TypeOK
  <2> QED BY <1>1, <2>1 DEF Take, TypeOK, workerVars, history
<1>2. CASE Materialise
  <2>1. work \in Held
    BY <1>2 DEF Materialise, Held, Items
  <2>2. work.key \in Workspaces /\ work.id \in Ids /\ work.events \subseteq Event
    <3>1. work \in ItemType
      BY DEF TypeOK
    <3> QED BY <2>1, <3>1 DEF PageInv, ItemInv, ItemType
  <2>3. acks' \in Seq(Ids)
    <3>1. acks \in Seq(Ids) /\ Append(acks, work.id) \in Seq(Ids)
      BY <2>2, AppendProperties DEF TypeOK
    <3> QED BY <1>2, <3>1 DEF Materialise
  <2>4. 1..emitted[work.key] \in SUBSET Event
    BY <2>2 DEF TypeOK
  <2>5. done' \in [Workspaces -> SUBSET Event] /\ unread' \in [Workspaces -> SUBSET Event]
    <3>1. done \in [Workspaces -> SUBSET Event] /\ unread \in [Workspaces -> SUBSET Event]
      BY DEF TypeOK
    <3>2. \/ Targeted \/ WorkspaceSync \/ Suppressed
          \/ UNCHANGED <<done, unread>>
      BY <1>2 DEF Materialise
    <3>3. CASE Targeted
      BY <2>2, <3>1, <3>3 DEF Targeted
    <3>4. CASE WorkspaceSync
      BY <2>2, <2>4, <3>1, <3>4 DEF WorkspaceSync
    <3>5. CASE Suppressed
      BY <2>2, <3>1, <3>5 DEF Suppressed
    <3> QED BY <3>1, <3>2, <3>3, <3>4, <3>5
  <2>6. work' = NoItem
    BY <1>2 DEF Materialise
  <2> QED BY <1>2, <2>3, <2>5, <2>6 DEF Materialise, TypeOK, workerVars
<1>3. CASE Fail
  <2>1. PICK w \in ItemType : w = work
    BY DEF TypeOK
  <2>2. w.attempt \in Nat /\ MaxAttempts \in Nat
    BY BoundAssumption DEF ItemType
  <2>3. [work EXCEPT !.attempt = 0] \in ItemType
    BY <2>1, <2>2 DEF ItemType
  <2>4. work.attempt + 1 < MaxAttempts => [work EXCEPT !.attempt = @ + 1] \in ItemType
    <3>1. work.attempt + 1 < MaxAttempts => w.attempt + 1 \in 0..MaxAttempts
      BY <2>1, <2>2
    <3> QED BY <2>1, <3>1 DEF ItemType
  <2>5. retry' \subseteq ItemType /\ deferred' \subseteq ItemType
    BY <1>3, <2>3, <2>4 DEF Fail, TypeOK
  <2> QED BY <1>3, <2>5 DEF Fail, TypeOK, workerVars, history
<1>4. CASE Reload
  <2>1. /\ heard' \in [Workspaces -> SUBSET Event] /\ passed' \in [Workspaces -> SUBSET Event]
        /\ queue' \in Seq(ItemType) /\ acks' \in Seq(Ids) /\ stale' \in Seq(Cursor) /\ batches' \in Seq(BatchType)
    BY <1>4, EmptySeq DEF Reload, ForgetContext
  <2> QED BY <1>4, <2>1 DEF Reload, ForgetContext, TypeOK, Contexts
<1>5. CASE Reselect
  <2>1. UNION {i.events : i \in Items} \in SUBSET Event
    <3>1. \A i \in Items : i \in ItemType
      BY DEF Items, TypeOK, ToSet
    <3> QED BY <3>1 DEF ItemType
  <2>2. queue' \in Seq(ItemType)
    BY <1>5, EmptySeq DEF Reselect
  <2>3. passed' \in [Workspaces -> SUBSET Event]
    BY <1>5, <2>1 DEF Reselect, TypeOK
  <2> QED BY <1>5, <2>2, <2>3 DEF Reselect, TypeOK, workerVars
<1>6. ASSUME NEW i \in retry \cup deferred, Requeue(i) PROVE TypeOK'
  <2>1. Append(queue, i) \in Seq(ItemType)
    BY AppendProperties DEF TypeOK
  <2> QED BY <1>6, <2>1 DEF Requeue, TypeOK, workerVars, history
<1>7. ASSUME NEW c \in Workspaces, Emit(c) PROVE TypeOK'
  <2>1. emitted[c] \in Position /\ emitted[c] < MaxEvents[c]
    BY <1>7 DEF Emit, TypeOK
  <2>2. emitted' \in [Workspaces -> Position]
    BY <1>7, <2>1 DEF Emit, TypeOK
  <2> QED BY <1>7, <2>2 DEF Emit, TypeOK, workerVars, pageVars, history
<1>8. ASSUME NEW c \in Workspaces, Select(c) PROVE TypeOK'
  <2>1. /\ heard' \in [Workspaces -> SUBSET Event] /\ queue' \in Seq(ItemType)
        /\ stale' \in Seq(Cursor) /\ batches' \in Seq(BatchType)
    BY <1>8, EmptySeq DEF Select, ForgetContext
  <2> QED BY <1>8, <2>1 DEF Select, ForgetContext, TypeOK, Contexts
<1>9. ASSUME NEW c \in Workspaces, Rekey(c) PROVE TypeOK'
  BY <1>9 DEF Rekey, TypeOK, Contexts, workerVars, history
<1> QED BY <1>1, <1>2, <1>3, <1>4, <1>5, <1>6, <1>7, <1>8, <1>9

(***************************************************************************)
(* The worker's context.                                                   *)
(***************************************************************************)

\* Steps that touch nothing of the worker but its connection.
LEMMA ConnectContext ==
  ASSUME TypeOK, ContextInv, Connect \/ Restored \/ RequestAgain \/ Open \/ Refused \/ Drop
  PROVE  ContextInv'
<1> USE Positions, Records
<1>1. CASE Connect
  <2>1. active \in Workspaces
    BY <1>1 DEF Connect, TypeOK, Contexts
  <2>2. key' = active /\ source' = NoSource /\ emitted' = emitted /\ stored' = stored
    BY <1>1 DEF Connect
  <2>3. Anchored(cursor)' /\ Anchored(token.cursor)'
    BY <1>1 DEF Connect, Request, Anchored, ContextInv
  <2>4. token' # NoToken => token'.key = key'
    BY <1>1 DEF Connect, Request
  <2>5. CASE key = active
    BY <1>1, <2>1, <2>2, <2>3, <2>4, <2>5 DEF Connect, Forgets, ContextInv, Anchored
  <2>6. CASE key # active
    <3>1. stale' = <<>> /\ batches' = <<>>
      BY <1>1, <2>6 DEF Connect, Forgets, ContextInv
    <3> QED BY <2>1, <2>2, <2>3, <2>4, <3>1 DEF ContextInv, Anchored
  <2> QED BY <2>5, <2>6
<1>2. CASE Restored
  <2>1. restore \in Workspaces
    BY <1>2 DEF Restored, TypeOK, Contexts
  <2>2. Anchored(cursor)' /\ Anchored(token.cursor)' /\ (token' # NoToken => key # None /\ token'.key = key)
    BY <1>2, <2>1 DEF Restored, Request, Anchored, ContextInv
  <2> QED BY <1>2, <2>2 DEF Restored, ContextInv, Anchored
<1>3. CASE RequestAgain
  BY <1>3 DEF RequestAgain, Request, ContextInv, Anchored
<1>4. CASE Open
  BY <1>4 DEF Open, ContextInv, Anchored
<1>5. CASE Refused
  BY <1>5 DEF Refused, ScheduleReconnect, ContextInv, Anchored
<1>6. CASE Drop
  BY <1>6 DEF Drop, ScheduleReconnect, ContextInv, Anchored
<1> QED BY <1>1, <1>2, <1>3, <1>4, <1>5, <1>6

LEMMA WorkerContext ==
  ASSUME TypeOK, ContextInv, WritingInv, PageInv, Deliver \/ Flush \/ Acknowledge \/ Persisted \/ PersistFailed
  PROVE  ContextInv'
<1> USE Positions, Records
<1>1. CASE Deliver
  <2>1. key \in Workspaces /\ source.of = key /\ emitted[key] \in Nat
    BY <1>1 DEF Deliver, ContextInv, TypeOK, Contexts
  <2>2. PICK e \in Event : e = source.at + 1 /\ e \in 1..emitted[key]
    BY <1>1, <2>1 DEF Deliver, TypeOK
  <2>3. stale' = Append(stale, [of |-> key, at |-> e]) /\ source' = [source EXCEPT !.at = e]
    BY <1>1, <2>1, <2>2 DEF Deliver
  <2>4. stale \in Seq(Cursor) /\ [of |-> key, at |-> e] \in Cursor
    BY <2>1 DEF TypeOK, Cursor, Contexts
  <2>5. \A i \in DOMAIN stale' : \/ stale'[i] = [of |-> key, at |-> e]
                                 \/ i \in DOMAIN stale /\ stale'[i] = stale[i]
    BY <2>3, <2>4, AppendProperties, LenProperties
  <2>6. \A i \in DOMAIN stale' : stale'[i].of = key /\ stale'[i].at \in 1..emitted[key]
    BY <2>2, <2>5 DEF ContextInv
  <2>7. source' # NoSource => source'.of = key
    BY <2>1, <2>3 DEF TypeOK, Cursor
  <2> QED BY <1>1, <2>1, <2>6, <2>7 DEF Deliver, ContextInv, Anchored
<1>2. CASE Flush
  <2>1. PICK id \in Ids, last \in Cursor :
          /\ last = stale[Len(stale)] /\ Len(stale) \in DOMAIN stale
          /\ key \in Workspaces
          /\ batches' \in {batches, Append(batches, [id |-> id, cursor |-> last, committed |-> FALSE])}
    BY <1>2, Flushed
  <2>2. last.of = key /\ last.at \in Event
    BY <2>1 DEF ContextInv, TypeOK
  <2>3. batches \in Seq(BatchType) /\ [id |-> id, cursor |-> last, committed |-> FALSE] \in BatchType
    BY DEF TypeOK, BatchType
  <2>4. \A i \in DOMAIN batches' : \/ batches'[i] = [id |-> id, cursor |-> last, committed |-> FALSE]
                                   \/ i \in DOMAIN batches /\ batches'[i] = batches[i]
    BY <2>1, <2>3, AppendProperties, LenProperties
  <2>5. \A i \in DOMAIN batches' : batches'[i].cursor.of = key /\ batches'[i].cursor.at \in Event
    BY <2>2, <2>4 DEF ContextInv
  <2> QED BY <1>2, <2>1, <2>5, EmptySeq DEF Flush, ContextInv, Anchored
<1>3. CASE Acknowledge
  <2>1. PICK bs : bs = batches'
    OBVIOUS
  <2>2. \A j \in DOMAIN bs : j \in DOMAIN batches /\ bs[j].cursor = batches[j].cursor
    <3>1. CASE bs = batches
      BY <3>1
    <3>2. CASE bs # batches
      <4>1. PICK i \in DOMAIN batches : bs = [batches EXCEPT ![i].committed = TRUE]
        BY <1>3, <2>1, <3>2, Marked
      <4>2. \A j \in DOMAIN batches : batches[j] \in BatchType
        BY DEF TypeOK
      <4> QED BY <4>1, <4>2 DEF BatchType
    <3> QED BY <3>1, <3>2
  <2>3. batches = <<>> => bs = <<>>
    BY <1>3, <2>1, Marked, EmptySeq
  <2> QED BY <1>3, <2>1, <2>2, <2>3 DEF Acknowledge, ContextInv, Anchored
<1>4. CASE Persisted
  <2>1. writing.key \in Workspaces /\ writing.cursor.of = writing.key
    BY <1>4 DEF Persisted, WritingInv
  <2>2. stored' = [stored EXCEPT ![writing.key] = writing.cursor] /\ stored \in [Workspaces -> Cursor]
    BY <1>4 DEF Persisted, TypeOK
  <2>3. \A c \in Workspaces : Anchored(stored'[c]) /\ stored'[c].of \in {None, c}
    BY <2>1, <2>2 DEF ContextInv, Anchored
  <2>4. Anchored(cursor') /\ Anchored(token'.cursor)
    <3>1. Anchored(writing.cursor)
      BY <2>1 DEF Anchored
    <3>2. token' = token \/ token' = [token EXCEPT !.cursor = writing.cursor]
      BY <1>4 DEF Persisted
    <3>3. token'.cursor \in {token.cursor, writing.cursor}
      BY <3>2 DEF TypeOK, TokenType
    <3>4. cursor' \in {cursor, writing.cursor}
      BY <1>4 DEF Persisted
    <3> QED BY <3>1, <3>3, <3>4 DEF ContextInv
  <2>5. token' # NoToken => key # None /\ token'.key = key
    BY <1>4 DEF Persisted, ContextInv, TypeOK, TokenType
  <2>6. \A i \in DOMAIN batches' : batches'[i].cursor.of = key /\ batches'[i].cursor.at \in Event
    <3>1. writing.count \in Nat /\ batches \in Seq(BatchType)
      BY DEF TypeOK, WriteType
    <3>2. CASE writing.fresh /\ writing.key = key
      <4>1. writing.count <= Len(batches) /\ batches' = SubSeq(batches, writing.count + 1, Len(batches))
        BY <1>4, <3>2 DEF Persisted, WritingInv
      <4>2. DOMAIN batches' = 1..Len(batches) - writing.count
            /\ \A i \in 1..Len(batches) - writing.count :
                 batches'[i] = batches[i + writing.count] /\ i + writing.count \in DOMAIN batches
        BY <3>1, <4>1, Dropped
      <4> QED BY <4>2 DEF ContextInv
    <3>3. CASE ~(writing.fresh /\ writing.key = key)
      BY <1>4, <3>3 DEF Persisted, ContextInv
    <3> QED BY <3>2, <3>3
  <2>7. key = None => batches' = <<>>
    BY <1>4, <2>1 DEF Persisted, ContextInv
  <2> QED BY <1>4, <2>3, <2>4, <2>5, <2>6, <2>7 DEF Persisted, ContextInv, Anchored
<1>5. CASE PersistFailed
  BY <1>5 DEF PersistFailed, ScheduleReconnect, ContextInv, Anchored
<1> QED BY <1>1, <1>2, <1>3, <1>4, <1>5

LEMMA PageContext ==
  ASSUME TypeOK, ContextInv,
         \/ Take \/ Materialise \/ Fail \/ Reload \/ Reselect
         \/ \E i \in retry \cup deferred : Requeue(i)
         \/ \E c \in Workspaces : Emit(c) \/ Select(c) \/ Rekey(c)
  PROVE  ContextInv'
<1> USE Positions, Records
<1>1. CASE Take \/ Materialise \/ Fail \/ Reselect \/ (\E i \in retry \cup deferred : Requeue(i))
           \/ \E c \in Workspaces : Rekey(c)
  <2>1. UNCHANGED <<emitted, stored, workerVars>>
    BY <1>1 DEF Take, Materialise, Fail, Reselect, Requeue, Rekey
  <2> QED BY <2>1 DEF ContextInv, Anchored, workerVars
<1>2. CASE Reload \/ \E c \in Workspaces : Select(c)
  <2>1. ForgetContext /\ UNCHANGED stored
    BY <1>2 DEF Reload, Select
  <2> QED BY <2>1, EmptySeq DEF ForgetContext, ContextInv, Anchored
<1>3. ASSUME NEW c \in Workspaces, Emit(c) PROVE ContextInv'
  <2>1. UNCHANGED <<stored, workerVars>>
    BY <1>3 DEF Emit
  <2>2. key \in Workspaces => emitted[key] \in Nat /\ emitted'[key] \in Nat /\ emitted[key] <= emitted'[key]
    <3>1. emitted[c] \in Nat /\ (key \in Workspaces => emitted[key] \in Nat)
      BY DEF TypeOK
    <3>2. key \in Workspaces => emitted'[key] = IF key = c THEN emitted[c] + 1 ELSE emitted[key]
      BY <1>3 DEF Emit, TypeOK
    <3> QED BY <3>1, <3>2
  <2>3. \A i \in DOMAIN stale : stale[i].at \in 1..emitted'[key]
    BY <2>2 DEF ContextInv, TypeOK, Contexts
  <2> QED BY <2>1, <2>3 DEF ContextInv, Anchored, workerVars
<1> QED BY <1>1, <1>2, <1>3

LEMMA WritingStep ==
  ASSUME TypeOK, ContextInv, ContextInv', WritingInv, PageInv, Next
  PROVE  WritingInv'
<1> USE Positions, Records
<1>1. CASE UNCHANGED <<writing, key, batches>>
  BY <1>1 DEF WritingInv
<1>2. CASE Connect
  <2>1. PICK w \in WriteType : w = writing
    BY DEF TypeOK
  <2>2. writing' = [w EXCEPT !.fresh = FALSE]
    BY <1>2, <2>1 DEF Connect
  <2>3. ~writing'.fresh /\ writing'.key = w.key /\ writing'.cursor = w.cursor
    BY <2>2 DEF WriteType
  <2>4. w = NoWrite => writing' = NoWrite
    <3>1. writing' = [key |-> w.key, cursor |-> w.cursor, count |-> w.count, fresh |-> FALSE]
      BY <2>2 DEF WriteType
    <3> QED BY <3>1 DEF NoWrite
  <2> QED BY <2>1, <2>3, <2>4 DEF WritingInv
<1>3. CASE Flush
  <2>1. PICK id \in Ids, last \in Cursor :
          batches' \in {batches, Append(batches, [id |-> id, cursor |-> last, committed |-> FALSE])}
    BY <1>3, Flushed
  <2>2. batches \in Seq(BatchType) /\ [id |-> id, cursor |-> last, committed |-> FALSE] \in BatchType
        /\ writing.count \in Nat
    BY DEF TypeOK, BatchType, WriteType
  <2>3. Len(batches) \in Nat /\ Len(batches') \in Nat /\ Len(batches) <= Len(batches')
        /\ \A i \in 1..Len(batches) : batches'[i] = batches[i]
    BY <2>1, <2>2, AppendProperties, LenProperties
  <2>4. key' = key /\ writing' = writing
    BY <1>3 DEF Flush
  <2> QED BY <2>2, <2>3, <2>4 DEF WritingInv
<1>4. CASE Acknowledge
  <2>1. writing = NoWrite /\ key' = key
    BY <1>4 DEF Acknowledge
  <2>2. CASE UNCHANGED <<batches, writing>>
    BY <2>1, <2>2 DEF WritingInv
  <2>3. CASE ~UNCHANGED <<batches, writing>>
    <3>1. PICK n \in 0..Len(batches) :
            /\ batches # <<>> /\ Len(batches') = Len(batches) /\ DOMAIN batches' = 1..Len(batches)
            /\ \A j \in 1..n : batches'[j].committed
            /\ writing' = IF n = 0 THEN NoWrite
                          ELSE [key |-> key, cursor |-> batches'[n].cursor, count |-> n, fresh |-> TRUE]
      <4>1. batches \in Seq(BatchType) /\ DOMAIN batches = 1..Len(batches)
        BY LenProperties DEF TypeOK
      <4> QED BY <1>4, <2>3, <4>1, Marked, EmptySeq
    <3>2. key \in Workspaces
      BY <3>1 DEF ContextInv, TypeOK, Contexts
    <3>3. Len(batches) \in Nat
      BY LenProperties DEF TypeOK
    <3>4. n # 0 => n \in DOMAIN batches' /\ batches'[n].cursor.of = key
      BY <2>1, <3>1, <3>3 DEF ContextInv
    <3> QED BY <2>1, <3>1, <3>2, <3>3, <3>4 DEF WritingInv
  <2> QED BY <2>2, <2>3
<1>5. CASE Persisted \/ PersistFailed \/ Reload
  BY <1>5 DEF Persisted, PersistFailed, Reload, WritingInv
<1>6. ASSUME NEW c \in Workspaces, Select(c) PROVE WritingInv'
  BY <1>6 DEF Select, ForgetContext, WritingInv
<1>7. CASE \/ Restored \/ RequestAgain \/ Open \/ Refused \/ Drop \/ Deliver
           \/ Take \/ Materialise \/ Fail \/ Reselect
           \/ \E i \in retry \cup deferred : Requeue(i)
           \/ \E c \in Workspaces : Emit(c) \/ Rekey(c)
  <2>1. UNCHANGED <<writing, key, batches>>
    BY <1>7 DEF Restored, RequestAgain, Open, Refused, Drop, Deliver, Take, Materialise, Fail, Reselect, Requeue,
                Emit, Rekey, workerVars
  <2> QED BY <1>1, <2>1
<1> QED BY <1>2, <1>3, <1>4, <1>5, <1>6, <1>7 DEF Next, Worker, Page, Fault

(***************************************************************************)
(* The page's batches.                                                     *)
(***************************************************************************)

\* The items of the page are among those it had, and the worker's batches too.
ItemsKept == \A i \in Held' : \E o \in Held : o.key = i.key /\ o.id = i.id /\ o.events = i.events

BatchesKept ==
  \/ batches' = <<>>
  \/ /\ key' = key
     /\ \A j \in DOMAIN batches' : \E k \in DOMAIN batches : batches'[j].id = batches[k].id

LEMMA ItemsStay ==
  ASSUME PageInv, ItemsKept, BatchesKept,
         \A c \in Workspaces : 1..emitted[c] \subseteq 1..emitted'[c]
  PROVE  \A i \in Held' : ItemInv(i)'
<1> TAKE i \in Held'
<1>1. PICK o \in Held : o.key = i.key /\ o.id = i.id /\ o.events = i.events
  BY DEF ItemsKept
<1>2. ItemInv(o)
  BY DEF PageInv
<1>3. i.key \in Workspaces /\ i.id \in Ids /\ i.events \subseteq 1..emitted'[i.key]
  BY <1>1, <1>2 DEF ItemInv
<1>4. \A j \in DOMAIN batches' : batches'[j].id = i.id => i.key = key'
  <2>1. CASE batches' = <<>>
    BY <2>1
  <2>2. CASE batches' # <<>>
    BY <1>1, <1>2, <2>2 DEF ItemInv, BatchesKept
  <2> QED BY <2>1, <2>2
<1> QED BY <1>3, <1>4 DEF ItemInv

\* What a page step leaves of the items.
LEMMA PageItems ==
  ASSUME TypeOK, Take \/ Materialise \/ Fail \/ Reload \/ Reselect
                 \/ (\E i \in retry \cup deferred : Requeue(i)) \/ \E c \in Workspaces : Select(c)
  PROVE  ItemsKept
<1> USE DEF ItemsKept, Held, Items
<1>1. CASE Take
  <2>1. queue \in Seq(ItemType) /\ queue # <<>>
    BY <1>1 DEF Take, TypeOK
  <2>2. \A i \in ToSet(Tail(queue)) : i \in ToSet(queue)
    BY <2>1, HeadTailProperties, LenProperties DEF ToSet
  <2>3. Head(queue) \in ToSet(queue)
    BY <2>1, LenProperties, EmptySeq DEF ToSet
  <2>4. ToSet(queue') \subseteq ToSet(queue) /\ work' \in {NoItem} \cup ToSet(queue)
    BY <1>1, <2>2, <2>3 DEF Take
  <2>5. UNCHANGED <<retry, deferred>>
    BY <1>1 DEF Take
  <2> QED BY <2>4, <2>5
<1>2. CASE Materialise
  BY <1>2 DEF Materialise
<1>3. CASE Fail
  <2>1. work \in ItemType /\ work \in Held
    BY <1>3 DEF Fail, TypeOK
  <2> DEFINE new(i) == i.key = work.key /\ i.id = work.id /\ i.events = work.events
  <2>2. \A n : LET i == [work EXCEPT !.attempt = n] IN new(i)
    BY <2>1 DEF ItemType
  <2>3. \A i \in retry' : i \in retry \/ new(i)
    BY <1>3, <2>2 DEF Fail
  <2>4. \A i \in deferred' : i \in deferred \/ new(i)
    BY <1>3, <2>2 DEF Fail
  <2>5. work' = NoItem /\ queue' = queue
    BY <1>3 DEF Fail
  <2> QED BY <2>1, <2>3, <2>4, <2>5
<1>4. CASE Reload \/ Reselect \/ \E c \in Workspaces : Select(c)
  <2>1. queue' = <<>> /\ work' = NoItem /\ retry' = {} /\ deferred' = {}
    BY <1>4 DEF Reload, Reselect, Select
  <2>2. ToSet(queue') = {}
    BY <2>1 DEF ToSet
  <2> QED BY <2>1, <2>2
<1>5. ASSUME NEW i \in retry \cup deferred, Requeue(i) PROVE ItemsKept
  <2>1. queue \in Seq(ItemType) /\ i \in ItemType
    BY DEF TypeOK
  <2>2. ToSet(queue') \subseteq ToSet(queue) \cup {i}
    BY <1>5, <2>1, AppendProperties, LenProperties DEF Requeue, ToSet
  <2>3. retry' \subseteq retry /\ deferred' \subseteq deferred /\ work' = work
    BY <1>5 DEF Requeue
  <2> QED BY <2>2, <2>3
<1> QED BY <1>1, <1>2, <1>3, <1>4, <1>5

\* What a worker step leaves of the batches, a flush apart.
LEMMA WorkerBatches ==
  ASSUME TypeOK, ContextInv, WritingInv, Connect \/ Acknowledge \/ Persisted
  PROVE  BatchesKept
<1> USE DEF BatchesKept
<1>1. CASE Connect
  BY <1>1 DEF Connect, Forgets, ContextInv
<1>2. CASE Acknowledge
  <2>1. key' = key
    BY <1>2 DEF Acknowledge
  <2>2. CASE batches' = batches
    BY <2>1, <2>2
  <2>3. CASE batches' # batches
    <3>1. PICK i \in DOMAIN batches : batches' = [batches EXCEPT ![i].committed = TRUE]
      BY <1>2, <2>3, Marked
    <3>2. \A j \in DOMAIN batches : batches[j] \in BatchType
      BY DEF TypeOK
    <3>3. DOMAIN batches' = DOMAIN batches /\ \A j \in DOMAIN batches : batches'[j].id = batches[j].id
      BY <3>1, <3>2 DEF BatchType
    <3> QED BY <2>1, <3>3
  <2> QED BY <2>2, <2>3
<1>3. CASE Persisted
  <2>1. key' = key
    BY <1>3 DEF Persisted
  <2>2. writing.count \in Nat /\ batches \in Seq(BatchType)
    BY DEF TypeOK, WriteType
  <2>3. CASE writing.fresh /\ writing.key = key
    <3>1. writing.count <= Len(batches) /\ batches' = SubSeq(batches, writing.count + 1, Len(batches))
      BY <1>3, <2>3 DEF Persisted, WritingInv
    <3>2. DOMAIN batches' = 1..Len(batches) - writing.count
          /\ \A i \in 1..Len(batches) - writing.count :
               batches'[i] = batches[i + writing.count] /\ i + writing.count \in DOMAIN batches
      BY <2>2, <3>1, Dropped
    <3> QED BY <2>1, <3>2
  <2>4. CASE ~(writing.fresh /\ writing.key = key)
    BY <1>3, <2>1, <2>4 DEF Persisted
  <2> QED BY <2>3, <2>4
<1> QED BY <1>1, <1>2, <1>3

LEMMA PageStep ==
  ASSUME TypeOK, ContextInv, WritingInv, PageInv, Next
  PROVE  PageInv'
<1> USE Positions, Records
<1> DEFINE Rest == /\ IsFiniteSet(retry') /\ IsFiniteSet(deferred')
                   /\ \A c \in Workspaces : done'[c] \subseteq 1..emitted'[c]
<1>0. ASSUME UNCHANGED <<retry, deferred, done>>, \A c \in Workspaces : 1..emitted[c] \subseteq 1..emitted'[c]
      PROVE  Rest
  BY <1>0 DEF PageInv
<1>1. CASE Flush
  <2>1. PICK id \in Ids, item \in ItemType :
          /\ item.key = key /\ item.id = id /\ key \in Workspaces /\ item.events \subseteq 1..emitted[key]
          /\ queue' = IF key = active THEN Append(queue, item) ELSE queue
          /\ \/ /\ Len(batches') = Len(batches) + 1
                /\ DOMAIN batches' = 1..Len(batches) + 1 /\ batches'[Len(batches) + 1].id = id
                /\ \A j \in 1..Len(batches) : batches'[j] = batches[j]
                /\ \A i \in Items : i.id # id
             \/ batches' = batches
    <3>1. PICK id \in Ids, last \in Cursor, item \in ItemType :
            /\ item = [key |-> key, id |-> id, events |-> {s.at : s \in ToSet(stale)}, attempt |-> 0]
            /\ key \in Workspaces /\ item.events \subseteq 1..emitted[key]
            /\ queue' = IF key = active THEN Append(queue, item) ELSE queue
            /\ \/ /\ batches' = Append(batches, [id |-> id, cursor |-> last, committed |-> FALSE])
                  /\ \A i \in Items : i.id # id
               \/ batches' = batches
      BY <1>1, Flushed
    <3>2. batches \in Seq(BatchType) /\ [id |-> id, cursor |-> last, committed |-> FALSE] \in BatchType
      BY DEF TypeOK, BatchType
    <3>3. Append(batches, [id |-> id, cursor |-> last, committed |-> FALSE]) \in Seq(BatchType)
      BY <3>2, AppendProperties
    <3>4. CASE batches' = batches
      BY <3>1, <3>4
    <3>5. CASE batches' # batches
      <4> DEFINE new == [id |-> id, cursor |-> last, committed |-> FALSE]
      <4>1. batches' = Append(batches, new) /\ \A i \in Items : i.id # id
        BY <3>1, <3>5
      <4>2. new.id = id /\ item.key = key /\ item.id = id
        BY <3>1
      <4> HIDE DEF new
      <4>3. /\ Len(batches') = Len(batches) + 1 /\ batches'[Len(batches) + 1] = new
            /\ \A j \in 1..Len(batches) : batches'[j] = batches[j]
        BY <3>2, <4>1, AppendProperties DEF new
      <4>4. DOMAIN batches' = 1..Len(batches')
        BY <3>3, <4>1, LenProperties DEF new
      <4> QED BY <3>1, <4>1, <4>2, <4>3, <4>4
    <3> QED BY <3>4, <3>5
  <2>2. UNCHANGED <<emitted, key, retry, deferred, work, done>>
    BY <1>1 DEF Flush, history
  <2>3. \A i \in Held' : i = item \/ i \in Held
    <3>1. ToSet(queue') \subseteq ToSet(queue) \cup {item}
      BY <2>1, AppendProperties, LenProperties DEF ToSet, TypeOK
    <3> QED BY <2>2, <3>1 DEF Held, Items
  <2>4. DOMAIN batches = 1..Len(batches) /\ Len(batches) \in Nat
    BY LenProperties DEF TypeOK
  <2>5. ASSUME NEW i \in Held' PROVE ItemInv(i)'
    <3>1. CASE i = item
      BY <2>1, <2>2, <3>1 DEF ItemInv
    <3>2. CASE i # item
      <4>1. i \in Held /\ i \in Items /\ ItemInv(i)
        BY <2>3, <3>2 DEF Held, PageInv
      <4>2. \A j \in DOMAIN batches' : batches'[j].id = i.id => i.key = key
        <5>1. CASE batches' = batches
          BY <4>1, <5>1 DEF ItemInv
        <5>2. CASE batches' # batches
          BY <2>1, <2>4, <4>1, <5>2 DEF ItemInv
        <5> QED BY <5>1, <5>2
      <4> QED BY <2>2, <4>1, <4>2 DEF ItemInv
    <3> QED BY <3>1, <3>2
  <2> QED BY <1>0, <2>2, <2>5 DEF PageInv
<1>2. CASE Connect \/ Acknowledge \/ Persisted
  <2>1. UNCHANGED <<emitted, queue, retry, deferred, work, done>>
    BY <1>2 DEF Connect, Acknowledge, Persisted, pageVars, history
  <2>2. ItemsKept
    BY <2>1 DEF ItemsKept, Held, Items
  <2>3. \A i \in Held' : ItemInv(i)'
    BY <1>2, <2>1, <2>2, WorkerBatches, ItemsStay
  <2> QED BY <1>0, <2>1, <2>3 DEF PageInv
<1>3. CASE Restored \/ RequestAgain \/ Open \/ Refused \/ Drop \/ Deliver \/ PersistFailed
           \/ \E c \in Workspaces : Rekey(c)
  <2>1. UNCHANGED <<emitted, queue, retry, deferred, work, done, key, batches>>
    BY <1>3 DEF Restored, RequestAgain, Open, Refused, Drop, Deliver, PersistFailed, Rekey, pageVars, history, workerVars
  <2> QED BY <1>0, <2>1 DEF PageInv, ItemInv, Held, Items
<1>4. ASSUME NEW c \in Workspaces, Emit(c) PROVE PageInv'
  <2>1. \A d \in Workspaces : emitted[d] \in Nat
    BY DEF TypeOK
  <2>2. \A d \in Workspaces : emitted'[d] = IF d = c THEN emitted[c] + 1 ELSE emitted[d]
    BY <1>4 DEF Emit, TypeOK
  <2>3. \A d \in Workspaces : 1..emitted[d] \subseteq 1..emitted'[d]
    BY <2>1, <2>2
  <2>4. UNCHANGED <<key, batches, queue, retry, deferred, work, done>>
    BY <1>4 DEF Emit, workerVars, pageVars, history
  <2>5. ItemsKept /\ BatchesKept
    BY <2>4 DEF ItemsKept, BatchesKept, Held, Items
  <2>6. \A i \in Held' : ItemInv(i)'
    BY <2>3, <2>5, ItemsStay
  <2> QED BY <1>0, <2>3, <2>4, <2>6 DEF PageInv
<1>5. CASE Take \/ Materialise \/ Fail \/ Reload \/ Reselect
           \/ (\E i \in retry \cup deferred : Requeue(i)) \/ \E c \in Workspaces : Select(c)
  <2>1. emitted' = emitted
    BY <1>5 DEF Take, Materialise, Fail, Reload, Reselect, Requeue, Select
  <2>2. BatchesKept
    <3>1. UNCHANGED workerVars \/ ForgetContext
      BY <1>5 DEF Take, Materialise, Fail, Reload, Reselect, Requeue, Select
    <3> QED BY <3>1 DEF BatchesKept, workerVars, ForgetContext
  <2>3. \A i \in Held' : ItemInv(i)'
    BY <1>5, <2>1, <2>2, PageItems, ItemsStay
  <2>4. IsFiniteSet(retry') /\ IsFiniteSet(deferred')
    <3>1. IsFiniteSet(retry) /\ IsFiniteSet(deferred)
      BY DEF PageInv
    <3>2. CASE Fail
      <4>1. \A n : IsFiniteSet(retry \cup {[work EXCEPT !.attempt = n]})
        BY <3>1, FS_AddElement
      <4>2. IsFiniteSet({i \in deferred : i.id # work.id})
        BY <3>1, FS_Subset
      <4>3. IsFiniteSet({i \in deferred : i.id # work.id} \cup {[work EXCEPT !.attempt = 0]})
        BY <4>2, FS_AddElement
      <4> QED BY <3>1, <3>2, <4>1, <4>3 DEF Fail
    <3>3. CASE \E i \in retry \cup deferred : Requeue(i)
      BY <3>1, <3>3, FS_RemoveElement DEF Requeue
    <3>4. CASE Take \/ Materialise
      BY <3>1, <3>4 DEF Take, Materialise
    <3>5. CASE Reload \/ Reselect \/ \E c \in Workspaces : Select(c)
      BY <3>5, FS_EmptySet DEF Reload, Reselect, Select
    <3> QED BY <1>5, <3>2, <3>3, <3>4, <3>5
  <2>5. \A c \in Workspaces : done'[c] \subseteq 1..emitted'[c]
    <3>1. CASE done' = done
      BY <2>1, <3>1 DEF PageInv
    <3>2. CASE done' # done
      <4>1. Materialise
        BY <1>5, <3>2 DEF Take, Fail, Reload, Reselect, Requeue, Select, history
      <4>2. work \in Held
        BY <4>1 DEF Materialise, Held, Items
      <4>3. work.key \in Workspaces /\ work.events \subseteq 1..emitted[work.key]
        BY <4>2 DEF PageInv, ItemInv
      <4>4. done' \in {[done EXCEPT ![work.key] = @ \cup work.events], [done EXCEPT ![work.key] = 1..emitted[work.key]]}
        BY <3>2, <4>1 DEF Materialise, Targeted, WorkspaceSync, Suppressed
      <4>5. done \in [Workspaces -> SUBSET Event] /\ \A c \in Workspaces : done[c] \subseteq 1..emitted[c]
        BY DEF PageInv, TypeOK
      <4>6. CASE done' = [done EXCEPT ![work.key] = @ \cup work.events]
        BY <2>1, <4>3, <4>5, <4>6
      <4>7. CASE done' = [done EXCEPT ![work.key] = 1..emitted[work.key]]
        BY <2>1, <4>3, <4>5, <4>7
      <4> QED BY <4>4, <4>6, <4>7
    <3> QED BY <3>1, <3>2
  <2> QED BY <2>3, <2>4, <2>5 DEF PageInv
<1> QED BY <1>1, <1>2, <1>3, <1>4, <1>5 DEF Next, Worker, Page, Fault

\* Batches have ids of their own.
LEMMA DistinctStep ==
  ASSUME TypeOK, ContextInv, WritingInv, PageInv, DistinctInv, Next
  PROVE  DistinctInv'
<1>1. CASE batches' = batches \/ batches' = <<>>
  BY <1>1 DEF DistinctInv
<1>2. batches \in Seq(BatchType) /\ DOMAIN batches = 1..Len(batches) /\ Len(batches) \in Nat
  BY LenProperties DEF TypeOK
<1>3. CASE Flush
  <2>1. PICK id \in Ids, last \in Cursor :
          \/ batches' = batches
          \/ /\ batches' = Append(batches, [id |-> id, cursor |-> last, committed |-> FALSE])
             /\ \A j \in DOMAIN batches : batches[j].id # id
    BY <1>3, Flushed
  <2>2. CASE batches' # batches
    <3> DEFINE new == [id |-> id, cursor |-> last, committed |-> FALSE]
    <3>1. new \in BatchType /\ new.id = id
      BY DEF BatchType
    <3>2. batches' = Append(batches, new) /\ \A j \in DOMAIN batches : batches[j].id # id
      BY <2>1, <2>2
    <3> HIDE DEF new
    <3>3. /\ DOMAIN batches' = 1..Len(batches) + 1 /\ batches'[Len(batches) + 1] = new
          /\ \A j \in 1..Len(batches) : batches'[j] = batches[j]
      BY <1>2, <3>1, <3>2, AppendProperties, LenProperties
    <3> QED BY <1>2, <3>1, <3>2, <3>3 DEF DistinctInv
  <2> QED BY <1>1, <2>2
<1>4. CASE Acknowledge /\ batches' # batches
  <2>1. PICK i \in DOMAIN batches : batches' = [batches EXCEPT ![i].committed = TRUE]
    BY <1>4, Marked
  <2>2. \A j \in DOMAIN batches : batches[j] \in BatchType
    BY <1>2
  <2>3. DOMAIN batches' = DOMAIN batches /\ \A j \in DOMAIN batches : batches'[j].id = batches[j].id
    BY <2>1, <2>2 DEF BatchType
  <2> QED BY <2>3 DEF DistinctInv
<1>5. CASE Persisted /\ batches' # batches
  <2>1. writing.count \in Nat
    BY DEF TypeOK, WriteType
  <2>2. writing.count <= Len(batches) /\ batches' = SubSeq(batches, writing.count + 1, Len(batches))
    BY <1>5 DEF Persisted, WritingInv
  <2>3. DOMAIN batches' = 1..Len(batches) - writing.count
        /\ \A i \in 1..Len(batches) - writing.count :
             batches'[i] = batches[i + writing.count] /\ i + writing.count \in DOMAIN batches
    BY <1>2, <2>1, <2>2, Dropped
  <2>4. ASSUME NEW i \in DOMAIN batches', NEW j \in DOMAIN batches', batches'[i].id = batches'[j].id
        PROVE  i = j
    <3>1. i + writing.count = j + writing.count
      BY <2>3, <2>4 DEF DistinctInv
    <3> QED BY <1>2, <2>1, <2>3, <3>1
  <2> QED BY <2>4 DEF DistinctInv
<1>6. batches' = batches \/ batches' = <<>> \/ Flush \/ Acknowledge \/ Persisted
  <2>1. CASE Connect
    BY <2>1 DEF Connect
  <2>2. CASE Reload \/ \E c \in Workspaces : Select(c)
    BY <2>2 DEF Reload, Select, ForgetContext
  <2>3. CASE \/ Restored \/ RequestAgain \/ Open \/ Refused \/ Drop \/ Deliver \/ PersistFailed
             \/ Take \/ Materialise \/ Fail \/ Reselect
             \/ \E i \in retry \cup deferred : Requeue(i)
             \/ \E c \in Workspaces : Emit(c) \/ Rekey(c)
    BY <2>3 DEF Restored, RequestAgain, Open, Refused, Drop, Deliver, PersistFailed, Take, Materialise, Fail, Reselect,
                Requeue, Emit, Rekey, workerVars
  <2> QED BY <2>1, <2>2, <2>3 DEF Next, Worker, Page, Fault
<1> QED BY <1>1, <1>3, <1>4, <1>5, <1>6

(***************************************************************************)
(* Owed events.                                                            *)
(***************************************************************************)

\* What is in the cache or excepted stays so.
LEMMA OwedWasOwed ==
  ASSUME TypeOK, ContextInv, PageInv, Next, NEW c \in Workspaces, NEW e \in Event, Owed(c, e)'
  PROVE  Owed(c, e)
<1> SUFFICES done[c] \subseteq done'[c] /\ excused[c] \subseteq excused'[c] /\ unread[c] \subseteq unread'[c]
  BY DEF Owed
<1>1. CASE Materialise
  <2>1. work \in Held
    BY <1>1 DEF Materialise, Held, Items
  <2>2. work.key \in Workspaces
    BY <2>1 DEF PageInv, ItemInv
  <2>3. done \in [Workspaces -> SUBSET Event] /\ unread \in [Workspaces -> SUBSET Event]
    BY DEF TypeOK
  <2>4. done[c] \subseteq 1..emitted[c]
    BY DEF PageInv
  <2>5. excused' = excused
    BY <1>1 DEF Materialise
  <2>6. CASE Targeted
    BY <2>2, <2>3, <2>5, <2>6 DEF Targeted
  <2>7. CASE WorkspaceSync
    BY <2>2, <2>3, <2>4, <2>5, <2>7 DEF WorkspaceSync
  <2>8. CASE Suppressed
    BY <2>2, <2>3, <2>5, <2>8 DEF Suppressed
  <2>9. Targeted \/ WorkspaceSync \/ Suppressed \/ UNCHANGED <<done, unread>>
    BY <1>1 DEF Materialise
  <2> QED BY <2>5, <2>6, <2>7, <2>8, <2>9
<1>2. CASE Open \/ Deliver
  <2>1. key \in Workspaces /\ (Deliver => source.of = key)
    BY <1>2, Records DEF Open, Deliver, ContextInv, TypeOK, Contexts
  <2>2. excused \in [Workspaces -> SUBSET Event]
    BY DEF TypeOK
  <2>3. excused' = excused \/ \E s : excused' = [excused EXCEPT ![key] = @ \cup s]
    <3>1. CASE Open
      BY <3>1 DEF Open
    <3>2. CASE Deliver
      BY <2>1, <3>2 DEF Deliver
    <3> QED BY <1>2, <3>1, <3>2
  <2>4. UNCHANGED <<done, unread>>
    BY <1>2 DEF Open, Deliver
  <2> QED BY <2>1, <2>2, <2>3, <2>4
<1>3. CASE ~(Materialise \/ Open \/ Deliver)
  <2>1. UNCHANGED <<done, excused, unread>>
    BY <1>3 DEF Next, Worker, Page, Fault, Connect, Restored, RequestAgain, Flush, Acknowledge, Persisted, Take,
                Requeue, Refused, Drop, Fail, PersistFailed, Reload, Reselect, Emit, Select, Rekey, history
  <2> QED BY <2>1
<1> QED BY <1>1, <1>2, <1>3

\* The batches of a committed prefix end before what is owed.
LEMMA PrefixBefore ==
  ASSUME TypeOK, Acknowledge, NEW c \in Workspaces, NEW e \in Event, OrderInv(c, e), key = c
  PROVE  Before(writing'.cursor, c, e)
<1>1. CASE writing' = NoWrite
  BY <1>1, Positions, Records DEF Before
<1>2. CASE writing' # NoWrite
  <2>1. writing = NoWrite
    BY DEF Acknowledge
  <2>2. PICK i \in DOMAIN batches, n \in 1..Len(batches) :
          /\ batches[i].id = Head(acks)
          /\ batches' = [batches EXCEPT ![i].committed = TRUE]
          /\ \A j \in 1..n : batches'[j].committed
          /\ writing'.cursor = batches'[n].cursor
    <3>1. Len(batches) \in Nat
      BY LenProperties DEF TypeOK
    <3> QED BY <1>2, <2>1, <3>1, Marked
  <2>3. DOMAIN batches = 1..Len(batches) /\ Len(batches) \in Nat /\ \A j \in DOMAIN batches : batches[j] \in BatchType
    BY LenProperties DEF TypeOK
  <2>4. batches'[n].cursor = batches[n].cursor /\ batches[n].cursor \in Cursor
    BY <2>2, <2>3 DEF BatchType
  <2>5. Head(acks) \in ToSet(acks)
    BY LenProperties, EmptySeq DEF Acknowledge, TypeOK, ToSet
  <2>6. \A j \in 1..n : ~Blocks(batches[j], e)
    <3>1. TAKE j \in 1..n
    <3>2. CASE j = i
      BY <2>2, <2>5, <3>2 DEF Blocks
    <3>3. CASE j # i
      BY <2>2, <2>3, <3>3 DEF Blocks
    <3> QED BY <3>2, <3>3
  <2>7. ~(batches[n].cursor.at >= e)
    BY <2>2, <2>3, <2>6 DEF OrderInv
  <2>8. batches[n].cursor.at \in Nat /\ e \in Nat
    BY <2>4, Positions, Records
  <2> QED BY <2>2, <2>4, <2>7, <2>8 DEF Before
<1> QED BY <1>1, <1>2

LEMMA CursorsStep ==
  ASSUME TypeOK, ContextInv, WritingInv, Next, NEW c \in Workspaces, NEW e \in Event,
         CursorsBefore(c, e), key = c => OrderInv(c, e)
  PROVE  CursorsBefore(c, e)'
<1> USE Positions, Records
<1>1. Before(NoCursor, c, e)
  BY DEF Before
<1>2. CASE Connect
  <2>1. cursor' \in {cursor, NoCursor} /\ token'.cursor \in {NoCursor, cursor}
    BY <1>2 DEF Connect, Request
  <2>2. writing'.cursor = writing.cursor /\ stored' = stored
    BY <1>2 DEF Connect, TypeOK, WriteType
  <2> QED BY <1>1, <2>1, <2>2 DEF CursorsBefore, Before
<1>3. CASE Restored
  <2>1. restore \in Workspaces
    BY <1>3 DEF Restored, TypeOK, Contexts
  <2>2. Before(stored[restore], c, e)
    BY <2>1 DEF Before, CursorsBefore, ContextInv
  <2>3. cursor' \in {cursor, stored[restore]} /\ token'.cursor \in {token.cursor, cursor'}
    BY <1>3 DEF Restored, Request
  <2>4. UNCHANGED <<stored, writing>>
    BY <1>3 DEF Restored
  <2> QED BY <2>2, <2>3, <2>4 DEF CursorsBefore, Before
<1>4. CASE RequestAgain
  <2>1. token'.cursor = cursor /\ UNCHANGED <<stored, cursor, writing>>
    BY <1>4 DEF RequestAgain, Request
  <2> QED BY <2>1 DEF CursorsBefore, Before
<1>5. CASE Acknowledge
  <2>1. UNCHANGED <<stored, cursor, token>>
    BY <1>5 DEF Acknowledge
  <2>2. Before(writing'.cursor, c, e)
    <3>1. CASE key = c
      BY <1>5, <3>1, PrefixBefore
    <3>2. CASE key # c /\ writing' # writing
      <4>1. PICK i \in DOMAIN batches, n \in 0..Len(batches) :
              /\ batches' = [batches EXCEPT ![i].committed = TRUE]
              /\ writing' = IF n = 0 THEN NoWrite
                            ELSE [key |-> key, cursor |-> batches'[n].cursor, count |-> n, fresh |-> TRUE]
        BY <1>5, <3>2, Marked
      <4>2. DOMAIN batches = 1..Len(batches) /\ Len(batches) \in Nat /\ \A j \in DOMAIN batches : batches[j] \in BatchType
        BY LenProperties DEF TypeOK
      <4>3. n # 0 => batches'[n].cursor = batches[n].cursor /\ batches[n].cursor.of = key
        BY <4>1, <4>2 DEF BatchType, ContextInv
      <4> QED BY <1>1, <3>2, <4>1, <4>3 DEF Before
    <3>3. CASE writing' = writing
      BY <3>3 DEF CursorsBefore
    <3> QED BY <3>1, <3>2, <3>3
  <2> QED BY <2>1, <2>2 DEF CursorsBefore, Before
<1>6. CASE Persisted
  <2>1. writing.key \in Workspaces /\ writing.cursor.of = writing.key
    BY <1>6 DEF Persisted, WritingInv
  <2>2. stored' = [stored EXCEPT ![writing.key] = writing.cursor] /\ stored \in [Workspaces -> Cursor] /\ writing' = NoWrite
    BY <1>6 DEF Persisted, TypeOK
  <2>3. stored'[c].at < e
    BY <2>1, <2>2 DEF CursorsBefore, Before
  <2>4. cursor' \in {cursor, writing.cursor} /\ token'.cursor \in {token.cursor, writing.cursor}
    <3>1. token' = token \/ token' = [token EXCEPT !.cursor = writing.cursor]
      BY <1>6 DEF Persisted
    <3> QED BY <1>6, <3>1 DEF Persisted, TypeOK, TokenType
  <2> QED BY <1>1, <2>2, <2>3, <2>4 DEF CursorsBefore, Before
<1>7. CASE PersistFailed \/ Reload \/ Open \/ Refused \/ \E d \in Workspaces : Select(d)
  <2>1. stored' = stored /\ cursor' \in {cursor, NoCursor} /\ token' \in {token, NoToken} /\ writing' \in {writing, NoWrite}
    BY <1>7 DEF PersistFailed, Reload, Open, Refused, Select, ForgetContext
  <2> QED BY <1>1, <2>1 DEF CursorsBefore, Before
<1>8. CASE \/ Deliver \/ Flush \/ Drop \/ Take \/ Materialise \/ Fail \/ Reselect
           \/ \E i \in retry \cup deferred : Requeue(i)
           \/ \E d \in Workspaces : Emit(d) \/ Rekey(d)
  <2>1. UNCHANGED <<stored, cursor, token, writing>>
    BY <1>8 DEF Deliver, Flush, Drop, Take, Materialise, Fail, Reselect, Requeue, Emit, Rekey, workerVars
  <2> QED BY <2>1 DEF CursorsBefore, Before
<1> QED BY <1>2, <1>3, <1>4, <1>5, <1>6, <1>7, <1>8 DEF Next, Worker, Page, Fault

\* As long as stream, events and batches stay and nothing new may acknowledge a
\* batch, the order stays; so it does when the stream closes or starts behind e.
LEMMA OrderKept ==
  ASSUME NEW c \in Workspaces, NEW e \in Event, OrderInv(c, e),
         UNCHANGED <<stale, batches, heard>>, source' = source \/ ~Ahead(c, e)',
         ToSet(acks') \subseteq ToSet(acks), ItemsKept
  PROVE  OrderInv(c, e)'
<1>1. \A j : Blocks(batches[j], e) => Blocks(batches[j], e)'
  BY DEF Blocks, ItemsKept
<1>2. Ahead(c, e)' => Ahead(c, e) /\ source' = source
  BY DEF Ahead
<1>3. \A i \in DOMAIN batches : batches'[i].cursor.at >= e => \E j \in 1..i : Blocks(batches[j], e)'
  BY <1>1 DEF OrderInv
<1> QED BY <1>2, <1>3 DEF OrderInv, StaleBeyond, BatchBeyond

\* Nothing is out of order when nothing is delivered.
LEMMA OrderEmpty ==
  ASSUME NEW c \in Workspaces, NEW e \in Event, stale = <<>>, batches = <<>>, ~Ahead(c, e)
  PROVE  OrderInv(c, e)
BY DEF OrderInv, StaleBeyond, BatchBeyond

LEMMA DeliverOrder ==
  ASSUME TypeOK, ContextInv, NEW c \in Workspaces, NEW e \in Event, key = c, Deliver,
         OrderInv(c, e), Owed(c, e)'
  PROVE  OrderInv(c, e)'
<1> USE Positions, Records
<1>1. source.of = c /\ source.at \in Nat /\ e \in Nat
  BY DEF Deliver, ContextInv, TypeOK
<1>2. PICK n \in Nat : n = source.at + 1
  BY <1>1
<1> DEFINE new == [of |-> c, at |-> n]
<1>3. /\ source'.of = c /\ source'.at = n /\ stale' = Append(stale, new)
      /\ heard' = [heard EXCEPT ![c] = @ \cup {n}]
      /\ excused' = IF n \in heard[c] THEN [excused EXCEPT ![c] = @ \cup {n}] ELSE excused
      /\ UNCHANGED <<batches, acks, queue, retry, deferred, work>>
  BY <1>1, <1>2 DEF Deliver, TypeOK, Cursor, pageVars
<1>4. heard'[c] = heard[c] \cup {n} /\ (n \in heard[c] => n \in excused'[c])
  BY <1>3 DEF TypeOK
<1>5. n = e => e \notin heard[c]
  BY <1>4 DEF Owed
<1>6. /\ Len(stale) \in Nat /\ DOMAIN stale = 1..Len(stale) /\ DOMAIN stale' = 1..Len(stale) + 1
      /\ Len(stale') = Len(stale) + 1
      /\ stale'[Len(stale) + 1] = new /\ \A i \in 1..Len(stale) : stale'[i] = stale[i]
  <2>1. stale \in Seq(Cursor)
    BY DEF TypeOK
  <2>2. n \in Event
    BY <1>1, <1>2 DEF Deliver, TypeOK
  <2>3. new \in Cursor
    BY <2>2 DEF Cursor, Contexts
  <2> HIDE DEF new
  <2> QED BY <1>3, <2>1, <2>3, AppendProperties, LenProperties
<1>7. new.at = n
  OBVIOUS
<1>8. \A i \in DOMAIN stale : stale[i].at \in Nat
  BY DEF ContextInv
<1>9. \A i \in DOMAIN batches : batches[i].cursor.at \in Nat
  BY DEF ContextInv
<1> HIDE DEF new
<1>10. \A j : Blocks(batches[j], e)' = Blocks(batches[j], e)
  BY <1>3 DEF Blocks, Held, Items
<1>11. CASE n < e
  <2>1. ~Ahead(c, e) /\ ~Ahead(c, e)'
    BY <1>1, <1>2, <1>3, <1>11 DEF Ahead
  <2>2. StaleBeyond(e)' => StaleBeyond(e)
    BY <1>1, <1>6, <1>7, <1>11 DEF StaleBeyond
  <2>3. BatchBeyond(e)' = BatchBeyond(e)
    BY <1>3 DEF BatchBeyond
  <2>4. \A i \in DOMAIN stale', j \in DOMAIN batches' : stale'[i].at >= e => batches'[j].cursor.at < stale'[i].at
    BY <1>1, <1>3, <1>6, <1>7, <1>11 DEF OrderInv
  <2>5. (\E i \in DOMAIN stale : stale[i].at = e) => \E i \in DOMAIN stale' : stale'[i].at = e
    BY <1>6
  <2>6. \A i \in DOMAIN batches' : batches'[i].cursor.at >= e => \E j \in 1..i : Blocks(batches[j], e)'
    BY <1>3, <1>10 DEF OrderInv
  <2> QED BY <1>4, <2>1, <2>2, <2>3, <2>4, <2>5, <2>6 DEF OrderInv
<1>12. CASE n >= e
  <2>1. e \in heard'[c]
    <3>1. CASE n = e
      BY <1>4, <3>1
    <3>2. CASE n # e
      BY <1>1, <1>2, <1>4, <1>12, <3>2 DEF OrderInv, Ahead
    <3> QED BY <3>1, <3>2
  <2>2. \A i \in DOMAIN stale : stale[i].at < n
    <3>1. CASE n = e
      BY <1>1, <1>5, <1>8, <3>1 DEF OrderInv, StaleBeyond
    <3>2. CASE n # e
      BY <1>1, <1>2, <1>8, <1>12, <3>2 DEF OrderInv, Ahead
    <3> QED BY <3>1, <3>2
  <2>3. \A i \in DOMAIN batches : batches[i].cursor.at < n
    <3>1. CASE n = e
      BY <1>1, <1>5, <1>9, <3>1 DEF OrderInv, BatchBeyond
    <3>2. CASE n # e
      BY <1>1, <1>2, <1>9, <1>12, <3>2 DEF OrderInv, Ahead
    <3> QED BY <3>1, <3>2
  <2>4. ~BatchBeyond(e) => \E i \in DOMAIN stale' : stale'[i].at = e
    <3>1. CASE n = e
      BY <1>6, <1>7, <3>1
    <3>2. CASE n # e
      BY <1>1, <1>2, <1>6, <1>12, <3>2 DEF OrderInv, Ahead
    <3> QED BY <3>1, <3>2
  <2>5. stale'[Len(stale')].at = n
    BY <1>6, <1>7
  <2>6. \A i \in DOMAIN stale' : stale'[i].at <= n
    BY <1>6, <1>7, <1>8, <2>2
  <2>7. \A i \in DOMAIN batches : batches[i].cursor.at <= n
    BY <1>9, <2>3
  <2>8. \A i \in DOMAIN stale', j \in DOMAIN batches : stale'[i].at >= e => batches[j].cursor.at < stale'[i].at
    BY <1>6, <1>7, <2>3 DEF OrderInv
  <2>9. \A i \in DOMAIN batches : batches[i].cursor.at >= e => \E j \in 1..i : Blocks(batches[j], e)'
    BY <1>3, <1>10 DEF OrderInv
  <2>10. BatchBeyond(e)' = BatchBeyond(e)
    BY <1>3 DEF BatchBeyond
  <2> QED BY <1>3, <2>1, <2>4, <2>5, <2>6, <2>7, <2>8, <2>9, <2>10 DEF OrderInv
<1> QED BY <1>1, <1>2, <1>11, <1>12

LEMMA FlushOrder ==
  ASSUME TypeOK, ContextInv, PageInv, DistinctInv, NEW c \in Workspaces, NEW e \in Event, key = c, Flush,
         OrderInv(c, e)
  PROVE  OrderInv(c, e)'
<1> USE Positions, Records
<1>1. PICK id \in Ids, last \in Cursor, item \in ItemType :
        /\ last = stale[Len(stale)] /\ Len(stale) \in DOMAIN stale
        /\ item.id = id /\ item.events = {s.at : s \in ToSet(stale)}
        /\ queue' = IF key = active THEN Append(queue, item) ELSE queue
        /\ \/ /\ batches' = Append(batches, [id |-> id, cursor |-> last, committed |-> FALSE])
              /\ \A j \in DOMAIN batches : batches[j].id # id
              /\ \A i \in Items : i.id # id
              /\ id \notin ToSet(acks)
           \/ /\ batches' = batches
              /\ \E j \in DOMAIN batches : batches[j].cursor = last /\ batches[j].id = id
  <2>1. PICK id \in Ids, last \in Cursor, item \in ItemType :
          /\ last = stale[Len(stale)] /\ Len(stale) \in DOMAIN stale
          /\ item = [key |-> key, id |-> id, events |-> {s.at : s \in ToSet(stale)}, attempt |-> 0]
          /\ queue' = IF key = active THEN Append(queue, item) ELSE queue
          /\ \/ /\ batches' = Append(batches, [id |-> id, cursor |-> last, committed |-> FALSE])
                /\ \A j \in DOMAIN batches : batches[j].id # id
                /\ \A i \in Items : i.id # id
                /\ id \notin ToSet(acks)
             \/ /\ batches' = batches
                /\ \E j \in DOMAIN batches : batches[j].cursor = last /\ batches[j].id = id
    BY Flushed
  <2>2. item.id = id /\ item.events = {s.at : s \in ToSet(stale)}
    BY <2>1
  <2> QED BY <2>1, <2>2
<1>2. /\ UNCHANGED <<source, heard, acks>> /\ stale' = <<>> /\ stale # <<>>
      /\ \A i \in Held' : i = item \/ i \in Held
  <2>1. ToSet(queue') \subseteq ToSet(queue) \cup {item}
    BY <1>1, AppendProperties, LenProperties DEF ToSet, TypeOK
  <2>2. UNCHANGED <<source, heard, acks, retry, deferred, work>> /\ stale' = <<>> /\ stale # <<>>
    BY DEF Flush, history
  <2> QED BY <2>1, <2>2 DEF Held, Items
<1>3. last.at \in Nat /\ e \in Nat
  OBVIOUS
<1>4. DOMAIN batches = 1..Len(batches) /\ Len(batches) \in Nat /\ batches \in Seq(BatchType)
  BY LenProperties DEF TypeOK
<1>5. \A j : Blocks(batches[j], e) /\ batches[j].id # id =>
        /\ batches[j].cursor.at >= e /\ ~batches[j].committed
        /\ batches[j].id \notin ToSet(acks') /\ \A i \in Held' : i.id = batches[j].id => e \in i.events
  BY <1>1, <1>2 DEF Blocks
<1>6. StaleBeyond(e)' = FALSE /\ DOMAIN stale' = {}
  BY <1>2 DEF StaleBeyond
<1>7. last.at >= e => StaleBeyond(e)
  BY <1>1 DEF StaleBeyond
<1>8. Ahead(c, e)' = Ahead(c, e)
  BY <1>2 DEF Ahead
<1>9. Ahead(c, e) => last.at >= e /\ last.at <= source.at
  BY <1>1, <1>2 DEF OrderInv, Ahead
<1>10. CASE batches' = batches /\ \E j \in DOMAIN batches : batches[j].cursor = last /\ batches[j].id = id
  <2>1. PICK k \in DOMAIN batches : batches[k].cursor = last /\ batches[k].id = id
    BY <1>10
  <2>2. ~(last.at >= e)
    BY <1>1, <1>3, <2>1 DEF OrderInv
  <2>3. \A j \in DOMAIN batches : Blocks(batches[j], e) => batches[j].id # id
    BY <2>1, <2>2 DEF Blocks, DistinctInv
  <2>4. \A j \in DOMAIN batches : Blocks(batches[j], e) => Blocks(batches[j], e)'
    BY <1>5, <1>10, <2>3 DEF Blocks
  <2>5. \A i \in DOMAIN batches' : batches'[i].cursor.at >= e => \E j \in 1..i : Blocks(batches[j], e)'
    BY <1>4, <1>10, <2>4 DEF OrderInv
  <2>6. BatchBeyond(e)' = BatchBeyond(e)
    BY <1>10 DEF BatchBeyond
  <2> QED BY <1>2, <1>6, <1>8, <1>9, <2>2, <2>5, <2>6 DEF OrderInv
<1>11. CASE /\ batches' = Append(batches, [id |-> id, cursor |-> last, committed |-> FALSE])
            /\ \A j \in DOMAIN batches : batches[j].id # id
            /\ \A i \in Items : i.id # id
            /\ id \notin ToSet(acks)
  <2> DEFINE new == [id |-> id, cursor |-> last, committed |-> FALSE]
  <2>1. /\ batches' = Append(batches, new)
        /\ \A j \in DOMAIN batches : batches[j].id # id
        /\ \A i \in Items : i.id # id
        /\ id \notin ToSet(acks)
    BY <1>11
  <2>2. new \in BatchType /\ new.id = id /\ new.cursor = last /\ ~new.committed
    BY DEF BatchType
  <2> HIDE DEF new
  <2>3. /\ DOMAIN batches' = 1..Len(batches) + 1 /\ batches'[Len(batches) + 1] = new
        /\ \A j \in 1..Len(batches) : batches'[j] = batches[j]
    BY <1>4, <2>1, <2>2, AppendProperties, LenProperties
  <2>4. BatchBeyond(e)' <=> BatchBeyond(e) \/ last.at >= e
    BY <1>4, <2>2, <2>3 DEF BatchBeyond
  <2>5. \A j \in DOMAIN batches : Blocks(batches[j], e) => Blocks(batches[j], e)'
    BY <1>4, <1>5, <2>1, <2>3 DEF Blocks
  <2>6. \A i \in DOMAIN batches : batches[i].cursor.at >= e => \E j \in 1..i : Blocks(batches[j], e)'
    BY <1>4, <2>5 DEF OrderInv
  <2>7. last.at >= e => \E j \in 1..Len(batches) + 1 : Blocks(batches[j], e)'
    <3>1. CASE BatchBeyond(e)
      <4>1. PICK i \in DOMAIN batches : \E j \in 1..i : Blocks(batches[j], e)'
        BY <2>6, <3>1 DEF BatchBeyond
      <4> QED BY <1>4, <4>1
    <3>2. CASE ~BatchBeyond(e) /\ last.at >= e
      <4>1. e \in item.events
        BY <1>1, <1>7, <3>2 DEF OrderInv, ToSet
      <4>2. \A i \in Held' : i.id = id => e \in i.events
        BY <1>2, <2>1, <4>1 DEF Held
      <4>3. PICK n \in Nat : n = Len(batches) + 1
        BY <1>4
      <4>4. Blocks(batches[n], e)'
        BY <1>2, <2>1, <2>2, <2>3, <3>2, <4>2, <4>3 DEF Blocks
      <4> QED BY <1>4, <4>3, <4>4
    <3> QED BY <3>1, <3>2
  <2>8. \A i \in DOMAIN batches' : batches'[i].cursor.at >= e => \E j \in 1..i : Blocks(batches[j], e)'
    BY <1>4, <2>2, <2>3, <2>6, <2>7
  <2>9. Ahead(c, e) => \A i \in DOMAIN batches' : batches'[i].cursor.at <= source.at
    BY <1>4, <1>9, <2>2, <2>3 DEF OrderInv
  <2>10. Ahead(c, e) \/ BatchBeyond(e)' => e \in heard[c]
    BY <1>7, <2>4 DEF OrderInv
  <2> QED BY <1>2, <1>6, <1>8, <1>9, <2>4, <2>8, <2>9, <2>10 DEF OrderInv
<1> QED BY <1>1, <1>10, <1>11

LEMMA AcknowledgeOrder ==
  ASSUME TypeOK, NEW c \in Workspaces, NEW e \in Event, Acknowledge, OrderInv(c, e)
  PROVE  OrderInv(c, e)'
<1>1. /\ UNCHANGED <<source, heard, stale, queue, retry, deferred, work>>
      /\ acks # <<>> /\ acks' = Tail(acks)
  BY DEF Acknowledge, pageVars, history
<1>2. acks \in Seq(Ids) /\ Head(acks) \in ToSet(acks) /\ ToSet(acks') \subseteq ToSet(acks)
  <2>1. acks \in Seq(Ids) /\ DOMAIN acks = 1..Len(acks) /\ Len(acks) \in Nat \ {0} /\ Head(acks) = acks[1]
    BY <1>1, LenProperties, EmptySeq DEF TypeOK
  <2>2. /\ DOMAIN acks' = 1..Len(acks) - 1
        /\ \A i \in 1..Len(acks) - 1 : acks'[i] = acks[i + 1] /\ i + 1 \in 1..Len(acks)
    BY <1>1, <2>1, HeadTailProperties, LenProperties
  <2> QED BY <2>1, <2>2 DEF ToSet
<1>3. ItemsKept
  BY <1>1 DEF ItemsKept, Held, Items
<1>4. CASE batches' = batches
  BY <1>1, <1>2, <1>3, <1>4, OrderKept
<1>5. CASE batches' # batches
  <2>1. PICK i \in DOMAIN batches : batches[i].id = Head(acks) /\ batches' = [batches EXCEPT ![i].committed = TRUE]
    BY <1>5, Marked
  <2>2. \A j \in DOMAIN batches : batches[j] \in BatchType
    BY DEF TypeOK
  <2>3. /\ DOMAIN batches = 1..Len(batches) /\ Len(batches) \in Nat /\ DOMAIN batches' = DOMAIN batches
        /\ \A j \in DOMAIN batches : batches'[j].cursor = batches[j].cursor /\ (j # i => batches'[j] = batches[j])
    BY <2>1, <2>2, LenProperties DEF BatchType, TypeOK
  <2>4. \A j \in DOMAIN batches : Blocks(batches[j], e) => Blocks(batches[j], e)'
    <3>1. TAKE j \in DOMAIN batches
    <3>2. CASE j = i
      BY <1>2, <2>1, <3>2 DEF Blocks
    <3>3. CASE j # i
      BY <1>1, <1>2, <2>3, <3>3 DEF Blocks, Held, Items
    <3> QED BY <3>2, <3>3
  <2>5. \A k \in DOMAIN batches' : batches'[k].cursor.at >= e => \E j \in 1..k : Blocks(batches[j], e)'
    BY <2>3, <2>4 DEF OrderInv
  <2>6. BatchBeyond(e)' = BatchBeyond(e)
    BY <2>3 DEF BatchBeyond
  <2>7. Ahead(c, e)' = Ahead(c, e) /\ StaleBeyond(e)' = StaleBeyond(e)
    BY <1>1 DEF Ahead, StaleBeyond
  <2>8. (\A k \in DOMAIN batches : batches[k].cursor.at <= source.at) =>
          \A k \in DOMAIN batches' : batches'[k].cursor.at <= source.at
    BY <2>3
  <2>9. \A k \in DOMAIN stale, j \in DOMAIN batches' : stale[k].at >= e => batches'[j].cursor.at < stale[k].at
    BY <2>3 DEF OrderInv
  <2> QED BY <1>1, <2>5, <2>6, <2>7, <2>8, <2>9 DEF OrderInv
<1> QED BY <1>4, <1>5

LEMMA PersistedOrder ==
  ASSUME TypeOK, WritingInv, NEW c \in Workspaces, NEW e \in Event, Persisted, OrderInv(c, e)
  PROVE  OrderInv(c, e)'
<1>1. UNCHANGED <<source, heard, stale, acks, queue, retry, deferred, work>>
  BY DEF Persisted, pageVars, history
<1>2. ItemsKept
  BY <1>1 DEF ItemsKept, Held, Items
<1>3. CASE ~(writing.fresh /\ writing.key = key)
  <2>1. batches' = batches
    BY <1>3 DEF Persisted
  <2> QED BY <1>1, <1>2, <2>1, OrderKept
<1>4. CASE writing.fresh /\ writing.key = key
  <2>1. PICK n \in Nat : n = writing.count
    BY DEF TypeOK, WriteType
  <2>2. /\ n <= Len(batches) /\ batches' = SubSeq(batches, n + 1, Len(batches))
        /\ \A i \in 1..n : batches[i].committed
    BY <1>4, <2>1 DEF Persisted, WritingInv
  <2>3. batches \in Seq(BatchType) /\ DOMAIN batches = 1..Len(batches) /\ Len(batches) \in Nat
    BY LenProperties DEF TypeOK
  <2>4. DOMAIN batches' = 1..Len(batches) - n
        /\ \A i \in 1..Len(batches) - n : batches'[i] = batches[i + n] /\ i + n \in DOMAIN batches
    BY <2>2, <2>3, Dropped
  <2>5. \A j \in DOMAIN batches : Blocks(batches[j], e) => j - n \in DOMAIN batches' /\ batches'[j - n] = batches[j]
    <3>1. TAKE j \in DOMAIN batches
    <3>2. Blocks(batches[j], e) => j > n
      BY <2>2, <2>3 DEF Blocks
    <3>3. j > n => j - n \in 1..Len(batches) - n /\ (j - n) + n = j
      BY <2>2, <2>3
    <3> QED BY <2>4, <3>2, <3>3
  <2>6. \A j \in DOMAIN batches, k \in DOMAIN batches' :
          batches'[k] = batches[j] /\ Blocks(batches[j], e) => Blocks(batches[k], e)'
    BY <1>1 DEF Blocks, Held, Items
  <2>7. \A k \in DOMAIN batches' : batches'[k].cursor.at >= e => \E j \in 1..k : Blocks(batches[j], e)'
    <3>1. SUFFICES ASSUME NEW k \in DOMAIN batches', batches'[k].cursor.at >= e
                   PROVE  \E j \in 1..k : Blocks(batches[j], e)'
      OBVIOUS
    <3>2. k + n \in DOMAIN batches /\ batches[k + n].cursor.at >= e
      BY <2>4, <3>1
    <3>3. PICK j \in 1..k + n : Blocks(batches[j], e)
      BY <3>2 DEF OrderInv
    <3>4. j \in DOMAIN batches
      BY <2>3, <3>2
    <3>5. j - n \in DOMAIN batches' /\ Blocks(batches[j - n], e)'
      <4>1. PICK m \in DOMAIN batches' : m = j - n /\ batches'[m] = batches[j]
        BY <2>5, <3>3, <3>4
      <4>2. Blocks(batches[m], e)'
        BY <2>6, <3>3, <3>4, <4>1
      <4> QED BY <4>1, <4>2
    <3>6. j - n \in 1..k
      BY <2>3, <2>4, <3>5
    <3> QED BY <3>5, <3>6
  <2>8. BatchBeyond(e)' = BatchBeyond(e)
    <3>1. BatchBeyond(e) => \E j \in DOMAIN batches : Blocks(batches[j], e)
      BY <2>3 DEF BatchBeyond, OrderInv
    <3>2. (\E j \in DOMAIN batches : Blocks(batches[j], e)) => BatchBeyond(e)'
      BY <2>5 DEF BatchBeyond, Blocks
    <3>3. BatchBeyond(e)' => BatchBeyond(e)
      BY <2>4 DEF BatchBeyond
    <3> QED BY <3>1, <3>2, <3>3 DEF BatchBeyond
  <2>9. Ahead(c, e)' = Ahead(c, e) /\ StaleBeyond(e)' = StaleBeyond(e)
    BY <1>1 DEF Ahead, StaleBeyond
  <2>10. (\A k \in DOMAIN batches : batches[k].cursor.at <= source.at) =>
          \A k \in DOMAIN batches' : batches'[k].cursor.at <= source.at
    BY <2>4
  <2>11. \A k \in DOMAIN stale, j \in DOMAIN batches' : stale[k].at >= e => batches'[j].cursor.at < stale[k].at
    BY <2>4 DEF OrderInv
  <2> QED BY <1>1, <2>7, <2>8, <2>9, <2>10, <2>11 DEF OrderInv
<1> QED BY <1>3, <1>4

LEMMA MaterialiseOrder ==
  ASSUME TypeOK, PageInv, NEW c \in Workspaces, NEW e \in Event, key = c, Materialise,
         OrderInv(c, e), Owed(c, e)'
  PROVE  OrderInv(c, e)'
<1>1. UNCHANGED <<source, heard, stale, batches>>
  BY DEF Materialise, workerVars
<1>2. ItemsKept
  BY PageItems
<1>3. CASE acks' = acks
  BY <1>1, <1>2, <1>3, OrderKept
<1>4. CASE acks' # acks
  <2>1. work \in Held /\ acks' = Append(acks, work.id) /\ (Targeted \/ WorkspaceSync \/ Suppressed)
    BY <1>4 DEF Materialise, Held, Items
  <2>2. ItemInv(work)
    BY <2>1 DEF PageInv
  <2>3. work.key = c => e \notin work.events
    <3>1. done \in [Workspaces -> SUBSET Event] /\ unread \in [Workspaces -> SUBSET Event]
      BY DEF TypeOK
    <3>2. work.events \subseteq 1..emitted[work.key] /\ work.key \in Workspaces
      BY <2>2 DEF ItemInv
    <3>3. CASE Targeted
      BY <3>1, <3>3 DEF Targeted, Owed
    <3>4. CASE WorkspaceSync
      BY <3>1, <3>2, <3>4 DEF WorkspaceSync, Owed
    <3>5. CASE Suppressed
      BY <3>1, <3>5 DEF Suppressed, Owed
    <3> QED BY <2>1, <3>3, <3>4, <3>5
  <2>4. \A j \in DOMAIN batches : Blocks(batches[j], e) => batches[j].id # work.id
    BY <2>1, <2>2, <2>3 DEF Blocks, ItemInv
  <2>5. ToSet(acks') \subseteq ToSet(acks) \cup {work.id}
    BY <2>1, <2>2, AppendProperties, LenProperties DEF TypeOK, ToSet, ItemInv
  <2>6. \A j \in DOMAIN batches : Blocks(batches[j], e) => Blocks(batches[j], e)'
    BY <1>1, <1>2, <2>4, <2>5 DEF Blocks, ItemsKept
  <2>7. DOMAIN batches = 1..Len(batches) /\ Len(batches) \in Nat
    BY LenProperties DEF TypeOK
  <2>8. \A i \in DOMAIN batches : batches[i].cursor.at >= e => \E j \in 1..i : Blocks(batches[j], e)'
    BY <2>6, <2>7 DEF OrderInv
  <2> QED BY <1>1, <2>8 DEF OrderInv, Ahead, StaleBeyond, BatchBeyond
<1> QED BY <1>3, <1>4

LEMMA ConnectOrder ==
  ASSUME TypeOK, ContextInv, Next, NEW c \in Workspaces, NEW e \in Event,
         Connect, key = c => OrderInv(c, e)
  PROVE  key' = c => OrderInv(c, e)'
<1> USE Positions, Records
<1>1. ~Ahead(c, e)' /\ active \in Workspaces /\ key' = active
  BY DEF Connect, Ahead, TypeOK, Contexts
<1>2. CASE key = active
  <2>1. UNCHANGED <<stale, batches, heard, acks, queue, retry, deferred, work>>
    BY <1>1, <1>2 DEF Connect, Forgets
  <2>2. ItemsKept
    BY <2>1 DEF ItemsKept, Held, Items
  <2> QED BY <1>1, <1>2, <2>1, <2>2, OrderKept
<1>3. CASE key # active
  <2>1. stale' = <<>> /\ batches' = <<>>
    BY <1>1, <1>3 DEF Connect, Forgets, ContextInv
  <2> QED BY <1>1, <2>1 DEF OrderInv, StaleBeyond, BatchBeyond
<1> QED BY <1>2, <1>3

\* A stream that opens starts before what is owed.
LEMMA OpenOrder ==
  ASSUME TypeOK, ContextInv, NEW c \in Workspaces, NEW e \in Event, key = c, Open,
         OrderInv(c, e), CursorsBefore(c, e), Owed(c, e)'
  PROVE  OrderInv(c, e)'
<1> USE Positions, Records
<1>1. PICK k \in Cursor : k = token.cursor
  BY DEF TypeOK
<1>2. source'.at = k.at /\ excused'[c] = excused[c] \cup SkippedBy(c, k)
  BY <1>1 DEF Open, TypeOK
<1>3. k.at \in Nat /\ e \in Nat \ {0}
  BY <1>1
<1>4. k.at < e
  <2>1. CASE k.of = None
    BY <1>1, <1>3, <2>1 DEF ContextInv, Anchored
  <2>2. CASE k.of = c
    BY <1>1, <2>2 DEF CursorsBefore, Before
  <2>3. CASE k.of \notin {None, c}
    <3>1. e \notin 1..k.at
      BY <1>2, <2>3 DEF SkippedBy, Owed
    <3> QED BY <1>3, <3>1
  <2> QED BY <2>1, <2>2, <2>3
<1>5. ~Ahead(c, e)'
  BY <1>2, <1>3, <1>4 DEF Ahead
<1>6. UNCHANGED <<stale, batches, heard, acks, queue, retry, deferred, work>>
  BY DEF Open, pageVars
<1>7. ItemsKept
  BY <1>6 DEF ItemsKept, Held, Items
<1> QED BY <1>5, <1>6, <1>7, OrderKept

LEMMA OrderStep ==
  ASSUME TypeOK, ContextInv, WritingInv, PageInv, DistinctInv, Next, NEW c \in Workspaces, NEW e \in Event,
         CursorsBefore(c, e), key = c => OrderInv(c, e), Owed(c, e)'
  PROVE  key' = c => OrderInv(c, e)'
<1> USE Positions, Records
<1>1. CASE Connect
  BY <1>1, ConnectOrder
<1>2. CASE Reload \/ \E d \in Workspaces : Select(d)
  BY <1>2 DEF Reload, Select, ForgetContext
<1>3. CASE ~Connect /\ ~Reload /\ ~(\E d \in Workspaces : Select(d)) /\ key' = c
  <2>1. key = c
    BY <1>3 DEF Next, Worker, Page, Fault, Restored, RequestAgain, Open, Refused, Drop, Deliver, Flush, Acknowledge,
                Persisted, PersistFailed, Take, Materialise, Fail, Reselect, Requeue, Emit, Rekey, workerVars
  <2>2. CASE Open \/ Deliver \/ Flush \/ Acknowledge \/ Persisted \/ Materialise
    BY <2>1, <2>2, OpenOrder, DeliverOrder, FlushOrder, AcknowledgeOrder, PersistedOrder, MaterialiseOrder
  <2>3. CASE Restored \/ RequestAgain \/ Refused \/ Drop \/ PersistFailed \/ \E d \in Workspaces : Emit(d) \/ Rekey(d)
    <3>1. UNCHANGED <<stale, batches, heard, acks, queue, retry, deferred, work>> /\ source' \in {source, NoSource}
      BY <2>3 DEF Restored, RequestAgain, Refused, Drop, PersistFailed, Emit, Rekey, workerVars, pageVars, history
    <3>2. ItemsKept
      BY <3>1 DEF ItemsKept, Held, Items
    <3>3. source' = source \/ ~Ahead(c, e)'
      BY <3>1 DEF Ahead
    <3> QED BY <2>1, <3>1, <3>2, <3>3, OrderKept
  <2>4. CASE Take \/ Fail \/ Reselect \/ \E i \in retry \cup deferred : Requeue(i)
    <3>1. UNCHANGED <<stale, batches, heard, acks, source>>
      BY <2>4 DEF Take, Fail, Reselect, Requeue, workerVars, history
    <3>2. ItemsKept
      BY <2>4, PageItems
    <3> QED BY <2>1, <3>1, <3>2, OrderKept
  <2> QED BY <1>3, <2>2, <2>3, <2>4 DEF Next, Worker, Page, Fault
<1> QED BY <1>1, <1>2, <1>3

(***************************************************************************)
(* The theorems.                                                           *)
(***************************************************************************)

LEMMA StreamInit == Init => StreamInv
<1> USE Positions, Records
<1>1. SUFFICES ASSUME Init PROVE StreamInv
  OBVIOUS
<1>2. TypeOK
  BY <1>1, BoundAssumption, EmptySeq DEF Init, TypeOK, Contexts
<1>3. ContextInv
  BY <1>1 DEF Init, ContextInv, Anchored
<1>4. WritingInv /\ DistinctInv
  BY <1>1 DEF Init, WritingInv, DistinctInv
<1>5. PageInv
  <2>1. ToSet(queue) = {}
    BY <1>1 DEF Init, ToSet
  <2> QED BY <1>1, <2>1, FS_EmptySet DEF Init, PageInv, Held, Items
<1>6. ASSUME NEW c \in Workspaces, NEW e \in Event PROVE OwedInv(c, e)
  BY <1>1 DEF Init, OwedInv, CursorsBefore, Before
<1> QED BY <1>2, <1>3, <1>4, <1>5, <1>6 DEF StreamInv

LEMMA StreamStep == StreamInv /\ [Next]_vars => StreamInv'
<1> SUFFICES ASSUME StreamInv, [Next]_vars PROVE StreamInv'
  OBVIOUS
<1>1. CASE UNCHANGED vars
  BY <1>1 DEF vars, workerVars, pageVars, history, StreamInv, TypeOK, ContextInv, Anchored, WritingInv, PageInv, Held,
              Items, ItemInv, DistinctInv, OwedInv, Owed, CursorsBefore, Before, OrderInv, Ahead, StaleBeyond,
              BatchBeyond, Blocks
<1>2. CASE Next
  <2>1. TypeOK /\ ContextInv /\ WritingInv /\ PageInv /\ DistinctInv
    BY DEF StreamInv
  <2>2. TypeOK'
    BY <1>2, <2>1, ConnectTypes, WorkerTypes, PageTypes DEF Next, Worker, Page, Fault
  <2>3. ContextInv'
    BY <1>2, <2>1, ConnectContext, WorkerContext, PageContext DEF Next, Worker, Page, Fault
  <2>4. WritingInv' /\ PageInv' /\ DistinctInv'
    BY <1>2, <2>1, <2>3, WritingStep, PageStep, DistinctStep
  <2>5. ASSUME NEW c \in Workspaces, NEW e \in Event PROVE OwedInv(c, e)'
    <3>1. SUFFICES ASSUME Owed(c, e)' PROVE CursorsBefore(c, e)' /\ (key' = c => OrderInv(c, e)')
      BY DEF OwedInv
    <3>2. Owed(c, e)
      BY <1>2, <2>1, <3>1, OwedWasOwed
    <3>3. CursorsBefore(c, e) /\ (key = c => OrderInv(c, e))
      BY <3>2 DEF StreamInv, OwedInv
    <3> QED BY <1>2, <2>1, <3>1, <3>3, CursorsStep, OrderStep
  <2> QED BY <2>2, <2>3, <2>4, <2>5 DEF StreamInv
<1> QED BY <1>1, <1>2

\* The invariant of the event stream, for any number of workspaces and events and
\* any bounds on failures, faults and switches.
THEOREM StreamInvariant == Spec => []StreamInv
BY StreamInit, StreamStep, PTL DEF Spec

\* Every reachable state of the stream model is well typed.
THEOREM TypeCorrect == Spec => []TypeOK
<1>1. StreamInv => TypeOK
  BY DEF StreamInv
<1> QED BY <1>1, StreamInvariant, PTL

\* The cursor kept for a workspace is one of its own, whatever the page selects
\* while a write is under way (pgSSECursorStateKey is taken before the write).
THEOREM CursorsAreOwn == Spec => []StoredIsOwn
<1>1. StreamInv => StoredIsOwn
  BY DEF StreamInv, ContextInv, StoredIsOwn
<1> QED BY <1>1, StreamInvariant, PTL

\* The cursor of persistAcknowledgedSSEBatches passes no event whose records are
\* not in the cache, the exceptions of the property apart.
THEOREM CursorPassesNothing == Spec => []AcknowledgedIsCached
<1>1. StreamInv => AcknowledgedIsCached
  BY DEF StreamInv, OwedInv, Owed, CursorsBefore, Before, AcknowledgedIsCached
<1> QED BY <1>1, StreamInvariant, PTL
=============================================================================
