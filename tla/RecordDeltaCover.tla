-------------------------- MODULE RecordDeltaCover --------------------------
(***************************************************************************)
(* Why the delta cursor of RecordDelta skips nothing: the inductive        *)
(* invariant behind CursorCoversRows and Replica.  It says of every cursor *)
(* that is committed, or that a tab may still commit, how far the          *)
(* canonical table has come along the journal.                             *)
(***************************************************************************)
EXTENDS RecordDelta

Current == state.localGeneration

\* The journal position at which the snapshot of this generation began.
Since == pinned[Current]

\* Tower deleted r by change v or by one after it.
Gone(r, v) == \E d \in v..Len(journal) : journal[d].id = r /\ Deleted(d)

\* Record r has come at least to position x: its canonical row is of this
\* generation and at least as new as its last change there, or that change is
\* older than the snapshot, the record has been deleted since, and no row of
\* this generation stands for it.
Reached(r, x) ==
  LET v == LastIn(r, 0, x)
  IN  \/ v = 0
      \/ raw[r].gen = Current /\ raw[r].ver >= v
      \/ v <= Since /\ Gone(r, v) /\ (raw[r].ver = 0 \/ raw[r].gen # Current)

\* What a cursor of this generation stands for: a snapshot cursor for the
\* records in front of it, a delta cursor for all of them.
SnapshotCovers(c) == /\ Since # -1 /\ c.since = Since
                     /\ \A r \in Records : r <= c.at => Reached(r, Since)
DeltaCovers(c) == /\ Since # -1 /\ Since <= c.at /\ c.at <= Len(journal)
                  /\ \A r \in Records : Reached(r, c.at)
Covers(c) == /\ c.kind = "none" => c = NoCursor
             /\ c.kind = "snapshot" => SnapshotCovers(c)
             /\ c.kind = "delta" => DeltaCovers(c)

\* What a page of a snapshot that began at s brings for r: a row w at least as new
\* as the snapshot, or none if the record has been deleted.
Brings(w, r, s) ==
  LET v == LastIn(r, 0, s)
  IN  IF w = 0 THEN v = 0 \/ Gone(r, v)
      ELSE w <= Len(journal) /\ journal[w].id = r /\ w >= v

\* A page that is being applied: the slices before "off" have reached the table.
SnapshotPageCovers(p) ==
  /\ Since # -1 /\ p.cursor.kind # "delta"
  /\ \/ p.page.next = DeltaCursor(Since) /\ p.page.to = NumRecords
     \/ p.page.next = SnapshotCursor(p.page.to, Since)
  /\ \A r \in Records : /\ r <= p.off => Reached(r, Since)
                        /\ p.off < r /\ r <= p.page.to => Brings(p.page.rows[r], r, Since)

\* The empty page that resumes an omission walk has no slices.
DeltaPageCovers(p) ==
  /\ Since # -1 /\ p.cursor.kind = "delta" /\ p.page.next.kind = "delta"
  /\ Since <= p.page.next.at /\ p.page.next.at <= Len(journal)
  /\ \/ /\ p.off = 0 /\ p.page.to = 0
        /\ \A r \in Records : Reached(r, p.page.next.at)
     \/ /\ p.page.next.at = p.page.to /\ Since <= p.off /\ p.off <= p.page.to
        /\ \A r \in Records : Reached(r, p.off)

PageCovers(p) == IF p.page.mode = "snapshot" THEN SnapshotPageCovers(p) ELSE DeltaPageCovers(p)

\* Generations.  Rows of an earlier one are no newer than the snapshot; rows of
\* this one are no older than it.
TagInv ==
  /\ state.generation = -1 \/ state.generation = Current
  /\ state.cursor.kind # "none" => state.generation = Current
  /\ \A g \in 0..MaxResets : g > Current => pinned[g] = -1

RowInv ==
  \A r \in Records : raw[r].ver # 0 =>
    /\ raw[r].ver <= Len(journal) /\ journal[raw[r].ver].id = r
    /\ raw[r].gen <= Current
    /\ raw[r].gen # Current /\ Since # -1 => raw[r].ver <= Since
    /\ raw[r].gen = Current => Since # -1 /\ raw[r].ver >= LastIn(r, 0, Since)

\* The handover from one generation to the next: outside it every row is of this
\* generation, and the walk has dropped the others behind it.
HandoverInv ==
  /\ state.cursor.kind = "snapshot" => state.handover
  /\ ~state.handover /\ state.cursor.kind = "delta" =>
       \A r \in Records : raw[r].ver # 0 => raw[r].gen = Current
  /\ Retiring => /\ state.handover /\ state.cursor.kind = "delta"
                 /\ state.retirement.next.kind = "delta"
                 /\ \A r \in Records : NumRecords + r <= state.retirement.at =>
                      raw[r].ver = 0 \/ raw[r].gen = Current

\* The cursors that are committed, or may be.
CommittedCovers == Covers(state.cursor) /\ (Retiring => Covers(state.retirement.next))
PullCovers(p) ==
  /\ p.gen <= Current
  /\ p.gen = Current => /\ p.phase = "read" => Covers(p.cursor)
                        /\ p.phase = "apply" => PageCovers(p)
                        /\ p.phase = "settle" => Covers(p.page.next)

CoverInv == TagInv /\ RowInv /\ HandoverInv /\ CommittedCovers /\ \A t \in Tabs : PullCovers(pull[t])
=============================================================================
