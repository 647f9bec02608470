----------------------------- MODULE ChangeFeed -----------------------------
(***************************************************************************)
(* What the record-delta cache promises, without pages, cursors, tabs or   *)
(* generations: a replica of a feed of changes.  Each record of the        *)
(* replica stands at some point of the feed and moves forward along it;    *)
(* "cut" is the point the whole replica has certainly reached, or Open     *)
(* while a replica that starts anew has not caught up with any.            *)
(*                                                                         *)
(* RecordDelta implements it (its property Replica).                       *)
(***************************************************************************)
EXTENDS Integers, Sequences

CONSTANT Records

VARIABLES
  feed,  \* the changes made so far, [id, op]
  held,  \* the change each record of the replica shows, 0 if it shows none
  cut    \* every record shows the feed at least up to here, or Open

vars == <<feed, held, cut>>

Open == -1

\* What a replica that stands at point i shows of record r: its last change up
\* to there, unless that change deleted it.
ShownAt(r, i) ==
  LET S == {k \in 1..i : feed[k].id = r}
      k == CHOOSE m \in S : \A n \in S : n <= m
  IN  IF S = {} \/ feed[k].op = "delete" THEN 0 ELSE k

Init == feed \in Seq([id : Records, op : {"upsert"}]) /\ held = [r \in Records |-> 0] /\ cut = Open

\* Tower changes a record.
Publish ==
  /\ \E r \in Records, op \in {"upsert", "delete"} : feed' = Append(feed, [id |-> r, op |-> op])
  /\ UNCHANGED <<held, cut>>

\* Each record moves forward along the feed, none stays behind the cut, and the
\* cut does not move back.
Advance ==
  /\ UNCHANGED feed
  /\ cut' \in Open..Len(feed) /\ cut <= cut'
  /\ \A r \in Records :
       \E i \in 0..Len(feed) : /\ held[r] = ShownAt(r, i)
                               /\ \E j \in i..Len(feed) : cut' <= j /\ held'[r] = ShownAt(r, j)

\* The replica starts anew.  What it shows is kept until it is confirmed.
Reopen == cut' = Open /\ UNCHANGED <<feed, held>>

\* Access was revoked: nothing is shown any more.
Forget == cut' = Open /\ held' = [r \in Records |-> 0] /\ UNCHANGED feed

Next == Publish \/ Advance \/ Reopen \/ Forget

Spec == Init /\ [][Next]_vars
=============================================================================
