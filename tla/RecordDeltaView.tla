--------------------------- MODULE RecordDeltaView ---------------------------
(***************************************************************************)
(* Why the screen of RecordDelta follows its canonical table: the          *)
(* inductive invariant behind ConvergedIsTower, LiveRowsStay and           *)
(* EditRecoverable.  It says of each record what its view row, the command *)
(* on it, its warning and a walk that has passed it say of the canonical   *)
(* row.                                                                    *)
(***************************************************************************)
EXTENDS RecordDeltaCover

\* A row as a view or a command holds it: its version is a change of r, and its
\* tag is of this generation only if the canonical row's is.
RowOf(row, r) ==
  /\ row.ver # 0 => row.ver <= Len(journal) /\ journal[row.ver].id = r
  /\ row.gen <= Current
  /\ row.gen = Current => raw[r].ver # 0 /\ raw[r].gen = Current
  /\ row.status = "absent" => row.ver = 0

Answered(r) == cmd[r].phase \in {"accepted", "acknowledged", "reconciled", "rematerialized"}
Unanswered(r) == cmd[r].phase \in {"sent", "accepted"}

\* What a command is about to put.
CommandOf(r) ==
  /\ cmd[r].phase # "none" => RowOf(cmd[r].prev, r) /\ cmd[r].prev.status = "synced"
  /\ Answered(r) => cmd[r].ver \in 1..Len(journal) /\ journal[cmd[r].ver].id = r

\* A row that claims to be Tower's: one that is synced, or was when the command
\* that is out on it began.
Claims(r) == view[r].status = "synced" \/ (view[r].status = "pending" /\ cmd[r].phase # "none")
Watched(r) == ~late[r] /\ ~conflict[r]

\* Without a warning or a late put the screen does not fall behind the table.
Follows(r) ==
  Watched(r) =>
    /\ Claims(r) => /\ raw[r].ver # 0 /\ raw[r].ver <= view[r].ver
                    /\ Deleted(raw[r].ver) => raw[r].ver # view[r].ver
    /\ view[r].status = "absent" => raw[r].ver = 0 \/ Deleted(raw[r].ver) \/ raw[r].gen # Current

\* Nor does it keep a row whose canonical row the walk is going to drop.
Walked(r) ==
  Retiring /\ r <= state.retirement.at /\ Watched(r) /\ Claims(r) => raw[r].gen = Current

\* A record on screen was known to Tower when this generation's snapshot began, or
\* has come later and its canonical row is there.
Known(r) ==
  \/ LastIn(r, 0, IF Since = -1 THEN Len(journal) ELSE Since) # 0
  \/ raw[r].ver # 0 /\ raw[r].gen = Current
Shown(r) == view[r].status # "absent" \/ cmd[r].phase # "none"

\* What is brought for r from now on is no older than change i.
Beyond(r, i) == i <= Len(journal) /\ (Since = -1 \/ i <= Since \/ i <= raw[r].ver)

\* The edit of a command that is out is shown, or was saved, or the deletion of its
\* record has withheld it, and then only a restored row takes the warning away.
Withheld(r) ==
  /\ view[r].status = "absent" /\ conflict[r]
  /\ \E i \in 1..Len(journal) : journal[i].id = r /\ Deleted(i) /\ cmd[r].base < i /\ Beyond(r, i)
Recoverable(r) ==
  /\ cmd[r].phase # "none" => Beyond(r, cmd[r].base)
  /\ Unanswered(r) => view[r].status = "pending" \/ saved[r] \/ Restored(r, cmd[r].base) \/ Withheld(r)

Fine(r) ==
  /\ RowOf(view[r], r)
  /\ CommandOf(r)
  /\ Follows(r)
  /\ Walked(r)
  /\ Shown(r) => Known(r)
  /\ Recoverable(r)

\* The loop reports convergence outside a handover only.
ConvergedInv == state.converged => ~state.handover

\* A snapshot page brings no deleted rows.
LivePage(p) ==
  p.phase = "apply" /\ p.page.mode = "snapshot" =>
    \A r \in Records : LET w == p.page.rows[r] IN w # 0 => w <= Len(journal) /\ ~Deleted(w)

ViewInv == (\A r \in Records : Fine(r)) /\ ConvergedInv /\ \A t \in Tabs : LivePage(pull[t])
=============================================================================
