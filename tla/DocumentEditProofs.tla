-------------------------- MODULE DocumentEditProofs --------------------------
(***************************************************************************)
(* Proofs about DocumentEdit, for any number of texts, versions and visits *)
(* and a patient user: that no save covers up a version its text was not   *)
(* made from, that a clean editor shows a text Tower has, and that the     *)
(* latest text typed is not lost.                                          *)
(***************************************************************************)
EXTENDS DocumentEdit, TLAPS

\* Texts Tower has; a text made from version b; a text made in knowledge of another.
Kept(t) == t \in Range(heads) \cup recs
OnBase(t, b) == t = heads[b] \/ heads[b] \in anc[t]
Made(t, s) == t = s \/ s \in anc[t]

\* Drafts and editors as the code leaves them: each text was made from the version it
\* is based on, and what counts as saved, Tower has.
Drafts ==
  {d \in DraftType : /\ d.base \in 1..Newest /\ d.text \in 1..texts /\ OnBase(d.text, d.base)
                     /\ d.saved => Kept(d.text)
                     /\ d.sig # 0 => Kept(d.sig)}
Editors ==
  {e \in EditorType : /\ e.base <= Newest
                      /\ e.offer \in Drafts \cup {NoDraft}
                      /\ e.local.sig # 0 => Kept(e.local.sig)
                      /\ e.open => /\ e.base \in 1..Newest /\ e.text \in 1..texts /\ OnBase(e.text, e.base)
                                   /\ ~e.dirty => Kept(e.text)}

TowerInv ==
  /\ texts \in 1..MaxTexts /\ visits \in 0..MaxVisits
  /\ heads \in Seq(1..texts) /\ Newest > 0 /\ recs \subseteq 1..texts
  /\ row \in 1..Newest
  /\ anc \in [1..MaxTexts -> SUBSET Text]

\* A save that Tower can still accept, or has accepted, as the newest version known here.
Live == \/ save.pc = "upload" /\ save.needs /\ save.base = Newest
        \/ save.pc = "accepted" /\ row <= save.base
From == IF save.pc = "accepted" THEN save.base - 1 ELSE save.base

\* While such a save is under way, the editor goes on from its text.
SaveInv ==
  /\ save \in SaveType /\ save.visit <= visits /\ save.base <= Newest
  /\ save.pc # "none" => /\ save.base \in 1..Newest /\ save.text \in 1..texts /\ OnBase(save.text, save.base)
                         /\ Current => ~Offering
                         /\ save.needs => save.text # heads[save.base]
  /\ save.pc = "accepted" => save.base > 1 /\ save.text = heads[save.base]
  /\ save.pc = "preserved" => save.text \in recs
  /\ save.pc # "error" => From <= row
  /\ Live /\ Current => Made(ed.text, save.text) /\ ed.base >= From

\* Where the latest text is, if Tower does not have it.
LatestInv ==
  \/ last = 0 \/ Kept(last)
  \/ ed.open /\ ed.dirty /\ ed.text = last /\ (ed.disk \/ draft.text = last) /\ ~Offering
  \/ draft.text = last /\ (~ed.open \/ (/\ Offering /\ ~ed.dirty /\ ~ed.disk /\ ~ed.local.is
                                        /\ ed.offer # NoDraft => ed.offer.text = last))

PlaceInv ==
  /\ session \in BOOLEAN /\ acq \in 0..MaxVisits /\ disc \in {"none", "local", "recovery"} /\ last \in 0..texts
  /\ ed.open /\ ed.rec => ~Offering
  /\ disc # "none" => last = 0 \/ Kept(last)

\* What is based on a version, on one the row has reached.
BaseInv == ed.base <= row /\ draft.base <= row /\ ed.offer.base <= row

DocumentInv ==
  /\ TowerInv /\ BaseInv /\ draft \in Drafts \cup {NoDraft} /\ ed \in Editors
  /\ SaveInv /\ PlaceInv /\ LatestInv /\ NoBlindOverwrite

----------------------------------------------------------------------------
(* Editors and drafts.                                                      *)

\* What can be said of a draft, or of an editor, without its type.
LEMMA DraftFacts ==
  /\ NoDraft \in DraftType /\ NoDraft.text = 0 /\ NoDraft.sig = 0 /\ ~NoDraft.saved /\ ~NoDraft.rec
  /\ \A d \in Drafts : /\ d \in DraftType /\ d.base \in 1..Newest /\ d.text \in 1..texts /\ OnBase(d.text, d.base)
                       /\ d.saved => Kept(d.text)
                       /\ d.sig # 0 => Kept(d.sig)
                       /\ d # NoDraft
<1>1. NoDraft \in DraftType /\ NoDraft.text = 0 /\ NoDraft.sig = 0 /\ ~NoDraft.saved /\ ~NoDraft.rec
  BY BoundAssumption DEF NoDraft, DraftType, Text, Version
<1>2. \A d \in Drafts : /\ d \in DraftType /\ d.base \in 1..Newest /\ d.text \in 1..texts /\ OnBase(d.text, d.base)
                        /\ d.saved => Kept(d.text)
                        /\ d.sig # 0 => Kept(d.sig)
  BY DEF Drafts
<1>3. \A d \in Drafts : d # NoDraft
  <2>1. \A d \in Drafts : d.text # 0
    BY <1>2
  <2> QED BY <1>1, <2>1
<1> QED BY <1>1, <1>2, <1>3

\* The draft of an open editor.
LEMMA DraftRows ==
  ASSUME TowerInv, NEW e \in Editors, e.open
  PROVE  DraftRow(e) \in Drafts /\ DraftRow(e).text = e.text /\ DraftRow(e).base = e.base
<1>1. PICK d : d = [text |-> e.text, base |-> e.base, rec |-> e.rec \/ e.local.rec, sig |-> e.local.sig,
                    saved |-> ~e.dirty /\ e.rec]
  OBVIOUS
<1>2. e \in EditorType /\ e.local \in LocalType
  BY DEF Editors, EditorType
<1>3. d \in DraftType
  <2>1. (e.rec \/ e.local.rec) \in BOOLEAN /\ (~e.dirty /\ e.rec) \in BOOLEAN
    OBVIOUS
  <2>2. e.text \in Text /\ e.base \in Version /\ e.local.sig \in Text
    BY <1>2 DEF EditorType, LocalType
  <2> QED BY <1>1, <2>1, <2>2 DEF DraftType
<1>4. /\ e.base \in 1..Newest /\ e.text \in 1..texts /\ OnBase(e.text, e.base)
      /\ ~e.dirty => Kept(e.text)
      /\ e.local.sig # 0 => Kept(e.local.sig)
  BY DEF Editors
<1>5. d \in Drafts
  BY <1>1, <1>3, <1>4 DEF Drafts
<1> QED BY <1>1, <1>5 DEF DraftRow

\* What the editor remembers of a draft.
LEMMA Locals ==
  /\ \A d \in DraftType : Local(d) \in LocalType /\ Local(d).sig = d.sig /\ Local(d).is = (d # NoDraft)
  /\ NoLocal \in LocalType /\ NoLocal.sig = 0 /\ ~NoLocal.is /\ ~NoLocal.rec
<1>1. \A d \in DraftType : Local(d) \in LocalType /\ Local(d).sig = d.sig /\ Local(d).is = (d # NoDraft)
  BY DEF DraftType, Local, LocalType
<1>2. NoLocal = [is |-> FALSE, rec |-> FALSE, sig |-> 0]
  BY DEF NoLocal, Local, NoDraft
<1> QED BY <1>1, <1>2, BoundAssumption DEF LocalType, Text

\* An editor that is not open.
LEMMA ClosedFacts ==
  /\ Closed \in EditorType /\ ~Closed.open /\ ~Closed.dirty /\ ~Closed.read /\ ~Closed.rec /\ ~Closed.disk
  /\ Closed.base = 0 /\ Closed.offer = NoDraft /\ Closed.local = NoLocal
BY DraftFacts, Locals, BoundAssumption DEF Closed, EditorType, Text, Version

\* The fields of an editor.
LEMMA EditorFields ==
  ASSUME NEW e \in Editors
  PROVE  /\ e \in EditorType /\ e.open \in BOOLEAN /\ e.dirty \in BOOLEAN /\ e.disk \in BOOLEAN /\ e.read \in BOOLEAN
         /\ e.rec \in BOOLEAN /\ e.base \in Nat /\ e.base <= Newest /\ e.text \in Text /\ e.local \in LocalType
         /\ e.offer \in Drafts \cup {NoDraft} /\ e.offer \in DraftType
         /\ e.local.sig # 0 => Kept(e.local.sig)
         /\ e.open => /\ e.base \in 1..Newest /\ e.text \in 1..texts /\ OnBase(e.text, e.base)
                      /\ ~e.dirty => Kept(e.text)
<1>1. e \in EditorType
  BY DEF Editors
<1>2. /\ e.open \in BOOLEAN /\ e.dirty \in BOOLEAN /\ e.disk \in BOOLEAN /\ e.read \in BOOLEAN
      /\ e.rec \in BOOLEAN /\ e.base \in Nat /\ e.text \in Text /\ e.local \in LocalType /\ e.offer \in DraftType
  BY <1>1 DEF EditorType, Version
<1> QED BY <1>1, <1>2 DEF Editors

\* An editor that differs only in how it may be used is one as well.
LEMMA SameEditor ==
  ASSUME NEW e \in Editors, NEW f \in EditorType,
         f.open = e.open, f.text = e.text, f.base = e.base, f.dirty = e.dirty,
         f.offer \in {e.offer, NoDraft}, f.local.sig \in {e.local.sig, 0}
  PROVE  f \in Editors
BY EditorFields DEF Editors

\* f differs from e only in how the editor may be used.
Like(e, f) ==
  /\ f \in EditorType /\ f.open = e.open /\ f.text = e.text /\ f.base = e.base /\ f.dirty = e.dirty
  /\ f.offer = e.offer /\ f.read = e.read /\ f.rec = e.rec

\* The editor after its timers are stopped, its draft forgotten, a save scheduled or
\* an edit left.
LEMMA Handled ==
  ASSUME NEW e \in EditorType
  PROVE  /\ Like(e, Untimed(e)) /\ Untimed(e).local = e.local /\ ~Untimed(e).disk
         /\ Like(e, Cleared(e)) /\ Cleared(e).local = NoLocal /\ ~Cleared(e).disk
         /\ Like(e, Schedule(e)) /\ Schedule(e).local = e.local /\ Schedule(e).disk /\ Schedule(e).access = e.access
         /\ Like(e, ExitDone(e)) /\ ExitDone(e).local = e.local /\ ExitDone(e).disk = e.disk
<1>1. e \in EditorType
  OBVIOUS
<1>2. Like(e, Untimed(e)) /\ Untimed(e).local = e.local /\ ~Untimed(e).disk
  <2>1. PICK f : f = [e EXCEPT !.timer = FALSE, !.disk = FALSE]
    OBVIOUS
  <2>2. Like(e, f) /\ f.local = e.local /\ ~f.disk
    BY <1>1, <2>1 DEF Like, EditorType
  <2> QED BY <2>1, <2>2 DEF Untimed
<1>3. Like(e, Cleared(e)) /\ Cleared(e).local = NoLocal /\ ~Cleared(e).disk
  <2>1. PICK f : f = [e EXCEPT !.disk = FALSE, !.local = NoLocal]
    OBVIOUS
  <2>2. Like(e, f) /\ f.local = NoLocal /\ ~f.disk
    BY <1>1, <2>1, Locals DEF Like, EditorType
  <2> QED BY <2>1, <2>2 DEF Cleared
<1>4. Like(e, Schedule(e)) /\ Schedule(e).local = e.local /\ Schedule(e).disk /\ Schedule(e).access = e.access
  <2>1. PICK ok \in BOOLEAN : ok = (e.offer = NoDraft /\ ~e.read /\ e.access \in {"editing", "recovery"})
    OBVIOUS
  <2>2. PICK f : f = [e EXCEPT !.disk = TRUE, !.timer = e.timer \/ ok, !.busy = e.busy \/ ok]
    OBVIOUS
  <2>3. (e.timer \/ ok) \in BOOLEAN /\ (e.busy \/ ok) \in BOOLEAN
    OBVIOUS
  <2>4. Like(e, f) /\ f.local = e.local /\ f.disk /\ f.access = e.access
    <3>1. f \in EditorType
      <4>1. PICK timer \in BOOLEAN, busy \in BOOLEAN : timer = (e.timer \/ ok) /\ busy = (e.busy \/ ok)
        BY <2>3
      <4>2. f = [e EXCEPT !.disk = TRUE, !.timer = timer, !.busy = busy]
        BY <2>2, <4>1
      <4> QED BY <1>1, <4>2 DEF EditorType
    <3>2. /\ f.open = e.open /\ f.text = e.text /\ f.base = e.base /\ f.dirty = e.dirty /\ f.offer = e.offer
          /\ f.read = e.read /\ f.rec = e.rec /\ f.local = e.local /\ f.disk /\ f.access = e.access
      BY <1>1, <2>2 DEF EditorType
    <3> QED BY <3>1, <3>2 DEF Like
  <2>5. Schedule(e) = f
    BY <2>1, <2>2 DEF Schedule
  <2> QED BY <2>4, <2>5
<1>5. Like(e, ExitDone(e)) /\ ExitDone(e).local = e.local /\ ExitDone(e).disk = e.disk
  <2>1. PICK ok \in BOOLEAN : ok = (e.open /\ e.offer = NoDraft /\ ~e.read)
    OBVIOUS
  <2>2. PICK f : f = [e EXCEPT !.access = "ready", !.edit = ok]
    OBVIOUS
  <2>3. Like(e, f) /\ f.local = e.local /\ f.disk = e.disk
    BY <1>1, <2>2 DEF Like, EditorType
  <2>4. ExitDone(e) = f
    BY <2>1, <2>2 DEF ExitDone
  <2> QED BY <2>3, <2>4
<1> QED BY <1>2, <1>3, <1>4, <1>5

\* The editor that shows version v.
LEMMA Shows ==
  ASSUME TowerInv, NEW e \in Editors, NEW v \in 1..Newest
  PROVE  LET f == Applied(e, v)
         IN  /\ f \in Editors /\ f.open = e.open /\ f.text = heads[v] /\ f.base = v /\ ~f.dirty /\ ~f.read /\ ~f.rec
             /\ f.offer = e.offer /\ f.local = e.local /\ f.disk = e.disk
<1>1. PICK f : f = [e EXCEPT !.text = heads[v], !.base = v, !.dirty = FALSE, !.read = FALSE, !.rec = FALSE, !.busy = FALSE]
  OBVIOUS
<1>2. heads[v] \in 1..texts /\ heads[v] \in Text /\ v \in Version /\ v \in Nat
  BY BoundAssumption DEF TowerInv, Newest, Text, Version
<1>3. /\ f \in EditorType /\ f.open = e.open /\ f.text = heads[v] /\ f.base = v /\ ~f.dirty /\ ~f.read /\ ~f.rec
      /\ f.offer = e.offer /\ f.local = e.local /\ f.disk = e.disk
  BY <1>1, <1>2, EditorFields DEF EditorType
<1>4. Kept(heads[v]) /\ OnBase(heads[v], v)
  BY DEF TowerInv, Kept, OnBase, Newest, Range
<1>5. f \in Editors
  BY <1>2, <1>3, <1>4, EditorFields DEF Editors
<1> QED BY <1>1, <1>3, <1>5 DEF Applied

\* The editor that hears of version v: it goes on with its own text, or shows v.
LEMMA Hears ==
  ASSUME TowerInv, NEW e \in Editors, NEW v \in 1..Newest
  PROVE  LET f == Refreshed(e, v)
         IN  /\ f \in Editors
             /\ \/ f = e
                \/ /\ f = Applied(e, v) /\ v > e.base /\ e.open /\ ~e.dirty /\ e.offer = NoDraft /\ ~e.local.is
                \/ /\ Like(e, f) /\ f.local = e.local /\ f.disk /\ Diverges(e, f)
                   /\ (e.dirty \/ e.local.is \/ e.offer # NoDraft)
<1>1. CASE Refreshed(e, v) = e
  BY <1>1
<1>2. CASE Refreshed(e, v) # e
  <2>1. e.open /\ Refreshed(e, v) = Observed(e, v)
    BY <1>2 DEF Refreshed
  <2>2. ~(v <= e.base) /\ v > e.base
    BY <1>2, <2>1, EditorFields DEF Observed
  <2>3. CASE ~e.dirty /\ ~e.local.is /\ e.offer = NoDraft
    <3>1. Refreshed(e, v) = Applied(e, v)
      BY <2>1, <2>2, <2>3 DEF Observed
    <3> QED BY <2>1, <2>2, <2>3, <3>1, Shows
  <2>4. CASE ~(~e.dirty /\ ~e.local.is /\ e.offer = NoDraft)
    <3>1. e.access # "recovery"
      BY <1>2, <2>1, <2>2, <2>4 DEF Observed
    <3>2. PICK g : g = [e EXCEPT !.access = "recovery", !.edit = TRUE]
      OBVIOUS
    <3>3. Refreshed(e, v) = Schedule(g)
      BY <2>1, <2>2, <2>4, <3>1, <3>2 DEF Observed
    <3>4. Like(e, g) /\ g.local = e.local /\ g.access = "recovery"
      BY <3>2, EditorFields DEF Like, EditorType
    <3>5. g \in Editors
      BY <3>4, SameEditor DEF Like
    <3>6. Like(g, Schedule(g)) /\ Schedule(g).local = g.local /\ Schedule(g).disk /\ Schedule(g).access = g.access
      BY <3>5, EditorFields, Handled
    <3>7. Schedule(g) \in Editors
      BY <3>5, <3>6, SameEditor DEF Like
    <3> QED BY <2>4, <3>1, <3>3, <3>4, <3>6, <3>7 DEF Like, Diverges
  <2> QED BY <2>3, <2>4
<1> QED BY <1>1, <1>2

----------------------------------------------------------------------------
(* What stays.                                                              *)

\* Tower keeps what it has, and texts what they have seen.
Goes ==
  /\ Len(heads) <= Len(heads') /\ \A i \in 1..Len(heads) : heads'[i] = heads[i]
  /\ recs \subseteq recs' /\ texts <= texts'
  /\ \A t \in 1..MaxTexts : anc[t] \subseteq anc'[t]

\* Then what was said of texts, drafts and editors can still be said.
LEMMA Remembered ==
  ASSUME TowerInv, TowerInv', Goes
  PROVE  /\ \A t : Kept(t) => Kept(t)'
         /\ \A t \in 1..texts, b \in 1..Newest : OnBase(t, b) => OnBase(t, b)'
         /\ \A s : \A t \in 1..texts : Made(t, s) => Made(t, s)'
         /\ Drafts \subseteq Drafts' /\ Editors \subseteq Editors'
         /\ NoBlindOverwrite /\ heads' = heads => NoBlindOverwrite'
<1>1. /\ Newest \in Nat /\ Len(heads') \in Nat /\ texts \in 1..MaxTexts /\ texts' \in 1..MaxTexts /\ MaxTexts \in Nat
      /\ DOMAIN heads = 1..Newest /\ DOMAIN heads' = 1..Len(heads')
      /\ \A i \in 1..Newest : heads[i] \in 1..texts
  <2>1. heads \in Seq(1..texts) /\ heads' \in Seq(1..texts')
    BY DEF TowerInv
  <2>2. Newest \in Nat /\ DOMAIN heads = 1..Newest /\ \A i \in 1..Newest : heads[i] \in 1..texts
    <3>1. Newest \in Nat /\ DOMAIN heads = 1..Newest
      BY <2>1 DEF Newest
    <3>2. \A i \in 1..Len(heads) : heads[i] \in 1..texts
      BY <2>1, BoundAssumption DEF TowerInv
    <3> QED BY <3>1, <3>2 DEF Newest
  <2>3. Len(heads') \in Nat /\ DOMAIN heads' = 1..Len(heads')
    BY <2>1
  <2>4. texts \in 1..MaxTexts /\ texts' \in 1..MaxTexts /\ MaxTexts \in Nat
    BY BoundAssumption DEF TowerInv
  <2> QED BY <2>2, <2>3, <2>4
<1>2. \A t : Kept(t) => Kept(t)'
  BY <1>1 DEF Kept, Goes, Range, Newest
<1>3. \A t \in 1..texts, b \in 1..Newest : OnBase(t, b) => OnBase(t, b)'
  BY <1>1 DEF OnBase, Goes, Newest
<1>4. \A s : \A t \in 1..texts : Made(t, s) => Made(t, s)'
  BY <1>1 DEF Made, Goes
<1>5. \A b \in 1..Newest : b \in 1..Newest'
  BY <1>1 DEF Goes, Newest
<1>6. \A t \in 1..texts : t \in 1..texts'
  BY <1>1 DEF Goes
<1>7. Drafts \subseteq Drafts'
  BY <1>2, <1>3, <1>5, <1>6 DEF Drafts
<1>8. Editors \subseteq Editors'
  <2>1. \A b \in Nat : b <= Newest => b <= Newest'
    BY <1>1 DEF Goes, Newest
  <2>2. \A e \in EditorType : e.base \in Nat
    BY DEF EditorType, Version
  <2> QED BY <1>2, <1>3, <1>5, <1>6, <1>7, <2>1, <2>2 DEF Editors
<1>9. NoBlindOverwrite /\ heads' = heads => NoBlindOverwrite'
  <2>1. SUFFICES ASSUME NoBlindOverwrite, heads' = heads, NEW i \in 2..Newest PROVE heads[i - 1] \in anc'[heads[i]]
    BY DEF NoBlindOverwrite, Newest
  <2>2. heads[i - 1] \in anc[heads[i]] /\ heads[i] \in 1..MaxTexts
    BY <1>1, <2>1 DEF NoBlindOverwrite
  <2> QED BY <2>2 DEF Goes
<1> QED BY <1>2, <1>3, <1>4, <1>7, <1>8, <1>9

\* Text t has seen text s.
LEMMA SeenGrows ==
  ASSUME TowerInv, NEW t \in 1..MaxTexts, NEW s \in 1..MaxTexts, anc' = Seen(t, s)
  PROVE  /\ anc' \in [1..MaxTexts -> SUBSET Text] /\ \A u \in 1..MaxTexts : anc[u] \subseteq anc'[u]
         /\ anc[s] \cup {s} \subseteq anc'[t]
<1>1. anc \in [1..MaxTexts -> SUBSET Text] /\ anc' = [anc EXCEPT ![t] = anc[t] \cup anc[s] \cup {s}] /\ s \in Text
  BY BoundAssumption DEF TowerInv, Seen, Text
<1> QED BY <1>1

\* The text of the editor has seen the one before.
Follows == ed'.text = ed.text \/ anc[ed.text] \cup {ed.text} \subseteq anc'[ed'.text]

\* The editor stays with its document, and with the save under way.
Continues ==
  ed'.open => /\ ed.open
              /\ ~Offering => ed'.offer = NoDraft /\ ~ed'.read
              /\ ~Offering /\ Live' /\ save.visit = visits => (ed'.text = save.text \/ Follows) /\ ed'.base >= From

\* A step of the editor, while a save may be under way.
LEMMA SaveGoesOn ==
  ASSUME TowerInv, TowerInv', Goes, SaveInv, ed \in Editors, ed' \in Editors',
         Live' => Live, row' >= row, save' = save,
         visits' = visits + 1 \/ (visits' = visits /\ Continues)
  PROVE  SaveInv'
<1>1. /\ save \in SaveType /\ save.visit \in Nat /\ save.visit <= visits /\ visits \in Nat /\ save.base \in Nat
      /\ row \in Nat /\ row' \in Nat /\ ed.base \in Nat
  BY BoundAssumption, EditorFields DEF SaveInv, SaveType, TowerInv, Version
<1>2. (visits' = visits \/ visits' = visits + 1) /\ visits' \in Nat
  BY <1>1
<1>3. save' \in SaveType /\ save'.visit <= visits' /\ save'.base <= Newest' /\ Newest <= Newest'
  <2>1. Newest \in Nat /\ Newest' \in Nat /\ Newest <= Newest'
    BY DEF TowerInv, Goes, Newest
  <2> QED BY <1>1, <1>2, <2>1 DEF SaveInv
<1>4. save.pc # "none" => /\ save.base \in 1..Newest' /\ save.text \in 1..texts' /\ OnBase(save.text, save.base)'
                          /\ heads'[save.base] = heads[save.base]
                          /\ save.needs => save.text # heads'[save.base]
  <2>1. SUFFICES ASSUME save.pc # "none"
                 PROVE  /\ save.base \in 1..Newest' /\ save.text \in 1..texts' /\ OnBase(save.text, save.base)'
                        /\ heads'[save.base] = heads[save.base]
                        /\ save.needs => save.text # heads'[save.base]
    OBVIOUS
  <2>2. /\ save.base \in 1..Newest /\ save.text \in 1..texts /\ OnBase(save.text, save.base)
        /\ save.needs => save.text # heads[save.base]
    BY <2>1 DEF SaveInv
  <2>3. save.text \in 1..texts' /\ save.base \in 1..Newest' /\ heads'[save.base] = heads[save.base]
    <3>1. Newest \in Nat /\ Newest' \in Nat /\ Newest <= Newest' /\ texts \in Nat /\ texts' \in Nat
      BY BoundAssumption DEF TowerInv, Goes, Newest
    <3> QED BY <2>2, <3>1 DEF Goes, Newest
  <2>4. anc[save.text] \subseteq anc'[save.text]
    <3>1. texts \in 1..MaxTexts /\ \A i \in 1..MaxTexts : anc[i] \subseteq anc'[i]
      BY DEF Goes, TowerInv
    <3>2. save.text \in 1..MaxTexts
      BY <2>2, <3>1, BoundAssumption
    <3> QED BY <3>1, <3>2
  <2> QED BY <2>2, <2>3, <2>4 DEF OnBase
<1>5. save.pc # "none" /\ save.visit = visits' /\ ed'.open => ~(ed'.offer # NoDraft \/ ed'.read)
  BY <1>1 DEF SaveInv, Current, Continues
<1>6. Live' => Live
  OBVIOUS
<1>7. save.pc # "error" => From <= row'
  BY <1>1 DEF SaveInv, From
<1>8. ASSUME Live', ed'.open, save.visit = visits'
      PROVE  (ed'.text = save.text \/ save.text \in anc'[ed'.text]) /\ ed'.base >= From
  <2>1. visits' = visits /\ ed.open /\ save.pc # "none" /\ ~Offering
    BY <1>1, <1>2, <1>6, <1>8 DEF SaveInv, Live, Current, Continues
  <2>2. ed.open /\ (ed'.text = save.text \/ Follows) /\ ed'.base >= From
    BY <1>1, <1>8, <2>1 DEF Continues
  <2>3. Made(ed.text, save.text) /\ ed.text \in 1..MaxTexts
    BY <1>1, <1>6, <1>8, <2>1, <2>2, EditorFields, BoundAssumption DEF SaveInv, Current, TowerInv
  <2>4. anc[ed.text] \subseteq anc'[ed.text]
    BY <2>3 DEF Goes
  <2>5. ed'.text = save.text \/ save.text \in anc'[ed'.text]
    BY <2>2, <2>3, <2>4 DEF Made, Follows
  <2> QED BY <2>2, <2>5
<1>9. save'.pc = "accepted" => save'.base > 1 /\ save'.text = heads'[save'.base]
  BY <1>4 DEF SaveInv
<1>10. save'.pc = "preserved" => save'.text \in recs'
  BY DEF SaveInv, Goes
<1>11. /\ save'.pc # "none" => save'.base \in 1..Newest' /\ save'.text \in 1..texts' /\ OnBase(save.text, save.base)'
       /\ save'.pc # "none" /\ Current' => ~Offering'
       /\ save'.pc # "none" /\ save'.needs => save'.text # heads'[save'.base]
  BY <1>4, <1>5 DEF Current, Offering
<1>12. Live' /\ Current' => Made(ed.text, save.text)' /\ ed'.base >= From'
  BY <1>8 DEF Current, Made, From
<1>13. save'.pc # "error" => From' <= row'
  BY <1>7 DEF From
<1> QED BY <1>3, <1>9, <1>10, <1>11, <1>12, <1>13 DEF SaveInv

\* Nothing happens at Tower, to the texts or to the row.
LEMMA TowerRests ==
  ASSUME TowerInv, UNCHANGED <<tower, row, anc, counters>>
  PROVE  TowerInv' /\ Goes
<1>1. TowerInv'
  BY DEF TowerInv, tower, counters, Newest
<1>2. Goes
  <2>1. heads \in Seq(1..texts) /\ texts \in Nat
    BY BoundAssumption DEF TowerInv
  <2>2. Len(heads) \in Nat
    BY <2>1
  <2> QED BY <2>1, <2>2 DEF Goes, tower, counters
<1> QED BY <1>1, <1>2

\* The latest text that Tower has, or that was given up, is not looked for.
LEMMA LatestSettled ==
  ASSUME TowerInv, TowerInv', Goes, \/ last' = 0
                                    \/ last' = last /\ (last = 0 \/ Kept(last))
  PROVE  LatestInv' /\ (last' = 0 \/ Kept(last)')
<1>1. CASE last' = 0
  BY <1>1 DEF LatestInv
<1>2. CASE last' = last /\ last # 0 /\ Kept(last)
  <2>1. Kept(last)'
    <3>1. \A t : Kept(t) => Kept(t)'
      BY Remembered
    <3>2. Kept(last) => last' \in Range(heads') \cup recs'
      BY <1>2, <3>1 DEF Kept
    <3> QED BY <1>2, <3>2 DEF Kept
  <2> QED BY <2>1 DEF LatestInv
<1> QED BY <1>1, <1>2

\* A step of the editor: what remains to be said.
LEMMA EditorStep ==
  ASSUME DocumentInv, TowerInv', Goes, heads' = heads, row' >= row, save' = save, BaseInv',
         draft' \in Drafts' \cup {NoDraft}, ed' \in Editors', PlaceInv', LatestInv',
         visits' = visits + 1 \/ (visits' = visits /\ Continues)
  PROVE  DocumentInv'
<1>1. SaveInv'
  <2>1. Live' => Live
    <3>1. row \in Nat /\ row' \in Nat /\ save.base \in Nat
      BY DEF DocumentInv, TowerInv, SaveInv, SaveType, Version
    <3> QED BY <3>1 DEF Live, Newest
  <2> QED BY <2>1, SaveGoesOn DEF DocumentInv
<1>2. NoBlindOverwrite'
  BY Remembered DEF DocumentInv
<1> QED BY <1>1, <1>2 DEF DocumentInv

\* A step that changes only how the editor may be used.
LEMMA EditorLike ==
  ASSUME DocumentInv, Like(ed, ed'), ed'.local = ed.local, ed.disk => ed'.disk, ~ed.dirty => ed'.disk = ed.disk,
         draft' = draft, save' = save, UNCHANGED <<tower, row, history, counters>>,
         session' \in BOOLEAN, acq' \in 0..MaxVisits, disc' = disc
  PROVE  DocumentInv'
<1>1. TowerInv /\ TowerInv' /\ Goes /\ heads' = heads /\ row' = row /\ row \in Nat /\ BaseInv
  BY TowerRests DEF DocumentInv, history, tower, TowerInv
<1>2. Drafts \subseteq Drafts' /\ Editors \subseteq Editors' /\ ed \in Editors /\ ed' \in Editors
  BY <1>1, Remembered, SameEditor DEF DocumentInv, Like
<1>3. draft' \in Drafts' \cup {NoDraft} /\ ed' \in Editors'
  BY <1>2 DEF DocumentInv
<1>4. BaseInv'
  BY <1>1 DEF BaseInv, Like
<1>5. LatestInv' /\ (disc # "none" => last' = 0 \/ Kept(last)')
  <2>1. CASE last = 0 \/ Kept(last)
    BY <1>1, <2>1, LatestSettled DEF history
  <2>2. CASE ~(last = 0 \/ Kept(last))
    <3>1. LatestInv /\ disc = "none"
      BY <2>2 DEF DocumentInv, PlaceInv
    <3> QED BY <2>2, <3>1 DEF LatestInv, Like, Offering, history
  <2> QED BY <2>1, <2>2
<1>6. PlaceInv'
  BY <1>5 DEF DocumentInv, PlaceInv, Like, Offering, history, counters
<1>7. Continues
  <2>1. Live' => Live
    BY <1>1 DEF Live, Newest
  <2>2. Live /\ save.visit = visits /\ ed.open => ed.base >= From
    BY DEF DocumentInv, SaveInv, Current
  <2> QED BY <2>1, <2>2 DEF Like, Offering, Follows, Continues
<1> QED BY <1>1, <1>3, <1>4, <1>5, <1>6, <1>7, EditorStep DEF counters

\* The editor goes on to ask for a lease, or uses the one it has.
LEMMA Beginning ==
  ASSUME NEW e \in EditorType, Begins(e)
  PROVE  Like(e, ed') /\ ed'.local = e.local /\ (e.disk => ed'.disk) /\ (~e.dirty => ed'.disk = e.disk)
<1>1. PICK f : f = [e EXCEPT !.access = IF session THEN "editing" ELSE "acquiring", !.edit = TRUE]
  OBVIOUS
<1>2. ed' = e \/ ed' = f \/ (ed' = Schedule(f) /\ f.dirty)
  BY <1>1 DEF Begins
<1>3. Like(e, f) /\ f.local = e.local /\ f.disk = e.disk
  <2>1. PICK a \in {"editing", "acquiring"} : f = [e EXCEPT !.access = a, !.edit = TRUE]
    BY <1>1
  <2> QED BY <2>1 DEF Like, EditorType
<1>4. f \in EditorType
  BY <1>3 DEF Like
<1>5. Like(e, e)
  BY DEF Like
<1>6. Like(f, Schedule(f)) /\ Schedule(f).local = f.local /\ Schedule(f).disk
  BY <1>4, Handled
<1> QED BY <1>2, <1>3, <1>4, <1>5, <1>6 DEF Like

\* The Edit button.
LEMMA DocEdit ==
  ASSUME DocumentInv, Edit
  PROVE  DocumentInv'
<1>1. PICK e : e = [ed EXCEPT !.access = "ready", !.edit = TRUE]
  OBVIOUS
<1>2. Begins(e) /\ UNCHANGED <<draft, session, save, disc, history, texts, visits, tower, row>>
  BY <1>1 DEF Edit, Stays
<1>3. ed \in Editors
  BY DEF DocumentInv
<1>4. Like(ed, e) /\ e.local = ed.local /\ e.disk = ed.disk
  BY <1>1, <1>3, EditorFields DEF Like, EditorType
<1>5. e \in Editors
  BY <1>3, <1>4, SameEditor DEF Like
<1>6. Like(e, ed') /\ ed'.local = e.local /\ (e.disk => ed'.disk) /\ (~e.dirty => ed'.disk = e.disk)
  BY <1>2, <1>5, EditorFields, Beginning
<1>7. Like(ed, ed') /\ ed'.local = ed.local /\ (ed.disk => ed'.disk) /\ (~ed.dirty => ed'.disk = ed.disk)
  BY <1>4, <1>6 DEF Like
<1>8. acq' \in 0..MaxVisits
  BY <1>2 DEF Begins, DocumentInv, PlaceInv, TowerInv
<1>9. session' \in BOOLEAN
  BY <1>2 DEF DocumentInv, PlaceInv
<1> QED BY <1>2, <1>7, <1>8, <1>9, EditorLike DEF tower, counters

\* Tower has answered the request for a lease.
LEMMA DocAcquired ==
  ASSUME DocumentInv, NEW granted \in BOOLEAN, Acquired(granted)
  PROVE  DocumentInv'
<1>1. acq' = 0 /\ session' \in BOOLEAN /\ UNCHANGED <<draft, save, disc, history, texts, visits, tower, row>>
  BY DEF Acquired, Stays
<1>2. ed \in Editors /\ 0 \in 0..MaxVisits
  BY BoundAssumption DEF DocumentInv
<1>3. Like(ed, ed') /\ ed'.local = ed.local /\ (ed.disk => ed'.disk) /\ (~ed.dirty => ed'.disk = ed.disk)
  <2>1. PICK held : held = [ed EXCEPT !.access = "editing", !.edit = TRUE]
    OBVIOUS
  <2>2. PICK lost : lost = [ed EXCEPT !.access = "blocked", !.edit = FALSE, !.timer = FALSE]
    OBVIOUS
  <2>3. ed' \in {ed, lost, held} \/ (ed' = Schedule(held) /\ ed.dirty)
    BY <2>1, <2>2 DEF Acquired
  <2>4. Like(ed, held) /\ held.local = ed.local /\ held.disk = ed.disk
    BY <1>2, <2>1, EditorFields DEF Like, EditorType
  <2>5. Like(ed, lost) /\ lost.local = ed.local /\ lost.disk = ed.disk
    BY <1>2, <2>2, EditorFields DEF Like, EditorType
  <2>6. Like(ed, ed)
    BY <1>2, EditorFields DEF Like
  <2>7. held \in Editors
    BY <1>2, <2>4, SameEditor DEF Like
  <2>8. Like(held, Schedule(held)) /\ Schedule(held).local = held.local /\ Schedule(held).disk
    BY <2>7, EditorFields, Handled
  <2> QED BY <2>3, <2>4, <2>5, <2>6, <2>8 DEF Like
<1> QED BY <1>1, <1>2, <1>3, EditorLike DEF tower, counters

\* A release has ended, or a renewal was refused.
LEMMA DocLapses ==
  ASSUME DocumentInv, Lapse \/ RenewalRefused
  PROVE  DocumentInv'
<1>1. session' \in BOOLEAN /\ UNCHANGED <<draft, acq, save, disc, history, texts, visits, tower, row>>
  BY DEF Lapse, RenewalRefused, Stays, leasing, DocumentInv, PlaceInv
<1>2. ed \in Editors /\ acq \in 0..MaxVisits
  BY DEF DocumentInv, PlaceInv
<1>3. Like(ed, ed') /\ ed'.local = ed.local /\ ed'.disk = ed.disk
  <2>1. CASE Lapse
    BY <1>2, <2>1, EditorFields DEF Like, Lapse
  <2>2. CASE RenewalRefused
    <3>1. PICK lost : lost = [ed EXCEPT !.access = "blocked", !.edit = FALSE, !.timer = FALSE]
      OBVIOUS
    <3>2. ed' = lost
      BY <2>2, <3>1 DEF RenewalRefused
    <3> QED BY <1>2, <3>1, <3>2, EditorFields DEF Like, EditorType
  <2> QED BY <2>1, <2>2
<1> QED BY <1>1, <1>2, <1>3, EditorLike DEF tower, counters

\* A step that leaves the editor and the drafts alone.
LEMMA Quiet ==
  ASSUME DocumentInv, TowerInv', Goes, UNCHANGED <<draft, ed, last>>, row' = row,
         session' \in BOOLEAN, acq' \in 0..MaxVisits, disc' \in {disc, "none"}
  PROVE  draft' \in Drafts' \cup {NoDraft} /\ ed' \in Editors' /\ BaseInv' /\ LatestInv' /\ PlaceInv'
<1>1. TowerInv /\ last \in 0..texts /\ texts \in Nat /\ texts' \in Nat
  BY BoundAssumption DEF DocumentInv, PlaceInv, TowerInv
<1>2. draft' \in Drafts' \cup {NoDraft} /\ ed' \in Editors'
  BY <1>1, Remembered DEF DocumentInv
<1>3. BaseInv'
  BY DEF DocumentInv, BaseInv
<1>4. LatestInv'
  <2>1. CASE last = 0 \/ Kept(last)
    BY <1>1, <2>1, LatestSettled
  <2>2. CASE ~(last = 0 \/ Kept(last))
    BY <2>2 DEF DocumentInv, LatestInv, Offering
  <2> QED BY <2>1, <2>2
<1>5. disc' # "none" => last' = 0 \/ Kept(last)'
  BY <1>1, LatestSettled DEF DocumentInv, PlaceInv
<1>6. last' \in 0..texts' /\ disc' \in {"none", "local", "recovery"}
  BY <1>1 DEF Goes, DocumentInv, PlaceInv
<1>7. PlaceInv'
  BY <1>5, <1>6 DEF DocumentInv, PlaceInv, Offering
<1> QED BY <1>2, <1>3, <1>4, <1>7

\* Other people save the document.
LEMMA DocOthersSave ==
  ASSUME DocumentInv, OthersSave
  PROVE  DocumentInv'
<1>1. /\ TowerInv /\ heads \in Seq(1..texts) /\ Newest > 0 /\ recs \subseteq 1..texts /\ row \in 1..Newest /\ texts \in 1..MaxTexts
      /\ texts + 1 \in 1..MaxTexts /\ texts' = texts + 1 /\ visits \in 0..MaxVisits /\ visits' = visits
      /\ heads' = Append(heads, texts + 1) /\ recs' = recs /\ row' = row /\ MaxTexts \in Nat /\ Newest \in Nat
  BY BoundAssumption DEF DocumentInv, TowerInv, OthersSave, counters, tower, Newest
<1>2. heads[Newest] \in 1..texts /\ heads[Newest] \in 1..MaxTexts /\ DOMAIN heads = 1..Newest
  BY <1>1 DEF Newest
<1>3. /\ anc' \in [1..MaxTexts -> SUBSET Text] /\ \A u \in 1..MaxTexts : anc[u] \subseteq anc'[u]
      /\ heads[Newest] \in anc'[texts + 1]
  <2>1. anc' = Seen(texts + 1, heads[Newest])
    BY DEF OthersSave
  <2> QED BY <1>1, <1>2, <2>1, SeenGrows
<1>4. Newest' = Newest + 1 /\ heads'[Newest + 1] = texts + 1 /\ \A i \in 1..Newest : heads'[i] = heads[i]
  BY <1>1 DEF Newest
<1>5. heads' \in Seq(1..texts')
  <2>1. heads \in Seq(1..texts')
    BY <1>1
  <2> QED BY <1>1, <2>1
<1>6. TowerInv'
  BY <1>1, <1>3, <1>4, <1>5 DEF TowerInv
<1>7. Goes
  BY <1>1, <1>3, <1>4 DEF Goes, Newest
<1>8. /\ UNCHANGED <<draft, ed, last, save, session, acq, disc>> /\ session' \in BOOLEAN /\ acq' \in 0..MaxVisits
  BY DEF OthersSave, leasing, DocumentInv, PlaceInv
<1>9. draft' \in Drafts' \cup {NoDraft} /\ ed' \in Editors' /\ BaseInv' /\ LatestInv' /\ PlaceInv'
  BY <1>1, <1>6, <1>7, <1>8, Quiet
<1>10. SaveInv'
  <2>1. save.base \in Nat /\ save.base <= Newest
    BY DEF DocumentInv, SaveInv, SaveType, Version
  <2>2. Live' => Live
    BY <1>1, <1>4, <1>8, <2>1 DEF Live
  <2>3. Continues
    <3>1. Live /\ save.visit = visits /\ ed.open => ed.base >= From
      BY DEF DocumentInv, SaveInv, Current
    <3> QED BY <1>8, <2>2, <3>1 DEF Continues, Follows, Offering
  <2> QED BY <1>1, <1>6, <1>7, <1>8, <1>9, <2>2, <2>3, SaveGoesOn DEF DocumentInv
<1>11. NoBlindOverwrite'
  <2>1. SUFFICES ASSUME NEW i \in 2..(Newest + 1)
                 PROVE  heads'[i - 1] \in anc'[heads'[i]]
    BY <1>4 DEF NoBlindOverwrite
  <2>2. CASE i = Newest + 1
    <3>1. Newest \in 1..Newest /\ i - 1 = Newest
      BY <1>1, <2>2
    <3>2. heads'[i - 1] = heads[Newest] /\ heads'[i] = texts + 1
      BY <1>4, <2>2, <3>1
    <3> QED BY <1>3, <3>2
  <2>3. CASE i # Newest + 1
    <3>1. i \in 2..Newest /\ i - 1 \in 1..Newest /\ i \in 1..Newest
      BY <1>1, <2>3
    <3>2. heads[i - 1] \in anc[heads[i]] /\ heads[i] \in 1..MaxTexts
      <4>1. NoBlindOverwrite
        BY DEF DocumentInv
      <4>2. heads[i - 1] \in anc[heads[i]]
        BY <3>1, <4>1 DEF NoBlindOverwrite
      <4>3. heads[i] \in 1..texts /\ texts \in 1..MaxTexts
        BY <1>1, <3>1 DEF TowerInv, Newest
      <4> QED BY <4>2, <4>3, BoundAssumption
    <3> QED BY <1>3, <1>4, <3>1, <3>2
  <2> QED BY <2>2, <2>3
<1> QED BY <1>6, <1>8, <1>9, <1>10, <1>11 DEF DocumentInv

\* The row takes version v, and the editor hears of it.
LEMMA Heard ==
  ASSUME DocumentInv, NEW v \in row..Newest, row' = v, UNCHANGED <<tower, draft, anc, counters, disc>>,
         Guarded(Refreshed(ed, v)), Like(Refreshed(ed, v), ed'), ed'.local = Refreshed(ed, v).local,
         ed'.disk = Refreshed(ed, v).disk, session' \in BOOLEAN, acq' \in 0..MaxVisits
  PROVE  /\ TowerInv' /\ Goes /\ BaseInv' /\ draft' \in Drafts' \cup {NoDraft} /\ ed' \in Editors' /\ PlaceInv' /\ LatestInv'
         /\ ed'.open = ed.open /\ ed'.offer = ed.offer /\ (ed'.read => ed.read)
         /\ \/ ed'.text = ed.text /\ ed'.base = ed.base
            \/ ed'.text = heads[v] /\ ed'.base = v /\ v > ed.base /\ ed.open
<1>1. /\ TowerInv /\ ed \in Editors /\ Newest \in Nat /\ row \in 1..Newest /\ v \in 1..Newest /\ v \in Nat /\ row \in Nat
      /\ UNCHANGED <<heads, recs, texts, visits>> /\ heads \in Seq(1..texts) /\ texts \in Nat
  BY BoundAssumption DEF DocumentInv, TowerInv, tower, counters, Newest
<1>2. TowerInv'
  BY <1>1 DEF TowerInv, Newest
<1>3. Goes
  BY <1>1 DEF Goes, Newest
<1>4. PICK e : e = Refreshed(ed, v)
  OBVIOUS
<1>5. e \in Editors /\ e \in EditorType
  BY <1>1, <1>4, Hears, EditorFields
<1>6. ed' \in Editors /\ ed' \in EditorType
  BY <1>4, <1>5, SameEditor DEF Like
<1>7. /\ e.open = ed.open /\ e.offer = ed.offer /\ (e.read => ed.read)
      /\ \/ e.text = ed.text /\ e.base = ed.base
         \/ e.text = heads[v] /\ e.base = v /\ v > ed.base /\ ed.open
      /\ e.rec => ed.rec
  BY <1>1, <1>4, Hears, Shows DEF Like
<1>8. draft' \in Drafts' \cup {NoDraft} /\ ed' \in Editors'
  BY <1>1, <1>2, <1>3, <1>6, Remembered DEF DocumentInv
<1>9. BaseInv'
  <2>1. ed.base \in Nat /\ ed.base <= row /\ draft.base <= row /\ ed.offer.base <= row
    BY <1>1, EditorFields DEF DocumentInv, BaseInv
  <2>2. draft.base \in Nat /\ ed.offer.base \in Nat
    BY <1>1, EditorFields, DraftFacts DEF DocumentInv, DraftType, Version
  <2>3. ed'.base <= v /\ draft.base <= v /\ ed.offer.base <= v
    BY <1>1, <1>4, <1>7, <2>1, <2>2 DEF Like
  <2> QED BY <1>4, <1>7, <2>3 DEF BaseInv, Like
<1>10. last' \in {0, last}
  BY DEF Guarded
<1>11. LatestInv' /\ (disc # "none" => last' = 0 \/ Kept(last)')
  <2>1. CASE last' = 0 \/ last = 0 \/ Kept(last)
    BY <1>1, <1>2, <1>3, <1>10, <2>1, LatestSettled
  <2>2. CASE ~(last' = 0 \/ last = 0 \/ Kept(last))
    <3>1. disc = "none" /\ LatestInv /\ last' = last
      BY <1>10, <2>2 DEF DocumentInv, PlaceInv
    <3>2. ~(((ed.offer # NoDraft /\ Diverges(ed, e)) \/ (ed.read /\ ~e.read)) /\ last = (IF ed.read THEN draft ELSE ed.offer).text)
      BY <1>4, <2>2 DEF Guarded
    <3>3. \/ ed.open /\ ed.dirty /\ ed.text = last /\ (ed.disk \/ draft.text = last) /\ ~Offering
          \/ draft.text = last /\ ~ed.open
          \/ /\ ed.open /\ draft.text = last /\ Offering /\ ~ed.dirty /\ ~ed.disk /\ ~ed.local.is
             /\ ed.offer # NoDraft => ed.offer.text = last
      BY <2>2, <3>1 DEF LatestInv
    <3>4. \/ e = ed
          \/ e = Applied(ed, v) /\ ed.open /\ ~ed.dirty /\ ed.offer = NoDraft
          \/ Like(ed, e) /\ e.local = ed.local /\ e.disk /\ Diverges(ed, e) /\ (ed.dirty \/ ed.local.is \/ ed.offer # NoDraft)
      BY <1>1, <1>4, Hears
    <3>5. CASE e = ed
      BY <1>4, <3>1, <3>3, <3>5 DEF LatestInv, Like, Offering
    <3>6. CASE e = Applied(ed, v) /\ ed.open /\ ~ed.dirty /\ ed.offer = NoDraft
      <4>1. ~e.read
        BY <1>1, <3>6, Shows
      <4> QED BY <3>2, <3>3, <3>6, <4>1 DEF Offering
    <3>7. CASE Like(ed, e) /\ e.local = ed.local /\ e.disk /\ Diverges(ed, e) /\ (ed.dirty \/ ed.local.is \/ ed.offer # NoDraft)
      <4>1. ed'.open = ed.open /\ ed'.dirty = ed.dirty /\ ed'.text = ed.text /\ ed'.disk /\ ed'.offer = ed.offer /\ ed'.read = ed.read
        BY <1>4, <1>5, <1>6, <3>7 DEF Like
      <4>2. CASE ed.open /\ ed.dirty /\ ed.text = last /\ ~Offering
        BY <3>1, <4>1, <4>2 DEF LatestInv, Offering
      <4>3. CASE draft.text = last /\ ~ed.open
        BY <3>1, <4>1, <4>3 DEF LatestInv
      <4> QED BY <3>2, <3>3, <3>7, <4>2, <4>3
    <3> QED BY <3>1, <3>4, <3>5, <3>6, <3>7
  <2> QED BY <2>1, <2>2
<1>12. PlaceInv'
  <2>1. last' \in 0..texts' /\ disc' \in {"none", "local", "recovery"}
    BY <1>1, <1>10 DEF DocumentInv, PlaceInv
  <2>2. ed'.open /\ ed'.rec => ~(ed'.offer # NoDraft \/ ed'.read)
    BY <1>4, <1>7 DEF Like, DocumentInv, PlaceInv, Offering
  <2> QED BY <1>11, <2>1, <2>2 DEF PlaceInv, Offering
<1> QED BY <1>2, <1>3, <1>4, <1>7, <1>8, <1>9, <1>11, <1>12 DEF Like

\* The live query reports the document's row.
LEMMA DocSync ==
  ASSUME DocumentInv, Sync
  PROVE  DocumentInv'
<1>1. PICK v \in row..Newest : row' = v /\ ed' = Refreshed(ed, v) /\ Guarded(Refreshed(ed, v))
                               /\ UNCHANGED <<tower, draft, acq, save, disc, anc, counters>> /\ session' \in BOOLEAN
  BY DEF Sync, Release
<1>2. TowerInv /\ ed \in Editors /\ acq' \in 0..MaxVisits /\ v \in 1..Newest /\ row \in Nat
  BY <1>1 DEF DocumentInv, PlaceInv, TowerInv, Newest
<1>3. ed' \in EditorType
  BY <1>1, <1>2, Hears, EditorFields
<1>4. Like(Refreshed(ed, v), ed')
  BY <1>1, <1>3 DEF Like
<1>5. /\ TowerInv' /\ Goes /\ BaseInv' /\ draft' \in Drafts' \cup {NoDraft} /\ ed' \in Editors' /\ PlaceInv' /\ LatestInv'
      /\ ed'.open = ed.open /\ ed'.offer = ed.offer /\ (ed'.read => ed.read)
      /\ \/ ed'.text = ed.text /\ ed'.base = ed.base
         \/ ed'.text = heads[v] /\ ed'.base = v /\ v > ed.base /\ ed.open
  BY <1>1, <1>2, <1>4, Heard
<1>6. heads' = heads /\ row' >= row /\ save' = save /\ visits' = visits
  BY <1>1, <1>2 DEF tower, counters
<1>7. Continues
  <2>1. SUFFICES ASSUME ed'.open, ~Offering, Live', save.visit = visits
                 PROVE  (ed'.text = save.text \/ Follows) /\ ed'.base >= From
    BY <1>5 DEF Continues, Offering
  <2>2. save.base \in Nat /\ Newest \in Nat /\ v \in Nat /\ v <= Newest /\ v >= row /\ ed.base \in Nat
    BY <1>1, <1>2, EditorFields DEF DocumentInv, SaveInv, SaveType, Version, TowerInv, Newest
  <2>3. Live
    BY <1>1, <1>6, <1>2, <2>1, <2>2 DEF Live, Newest
  <2>4. ed.base >= From /\ From \in Int
    BY <1>5, <2>1, <2>2, <2>3 DEF DocumentInv, SaveInv, Current, From
  <2>5. CASE ed'.text = ed.text /\ ed'.base = ed.base
    BY <2>4, <2>5 DEF Follows
  <2>6. CASE ed'.text = heads[v] /\ ed'.base = v /\ v > ed.base
    <3>1. save.pc = "accepted" /\ v <= save.base
      BY <1>1, <1>6, <2>1, <2>2, <2>4, <2>6 DEF Live, From, Newest
    <3>2. v = save.base /\ save.text = heads[save.base]
      BY <2>2, <2>4, <2>6, <3>1 DEF From, DocumentInv, SaveInv
    <3> QED BY <2>2, <2>6, <3>1, <3>2 DEF From
  <2> QED BY <1>5, <2>5, <2>6
<1> QED BY <1>5, <1>6, <1>7, EditorStep

\* The document is opened.
LEMMA DocOpen ==
  ASSUME DocumentInv, Open
  PROVE  DocumentInv'
<1>1. /\ ~ed.open /\ visits' = visits + 1 /\ visits < MaxVisits
      /\ UNCHANGED <<session, acq, save, disc, last, anc, texts, heads, recs, row>>
  BY DEF Open, leasing, history, Stays, tower
<1>2. /\ TowerInv /\ ed \in Editors /\ row \in 1..Newest /\ row \in Nat /\ Newest \in Nat /\ visits \in Nat
      /\ heads[row] \in 1..texts /\ texts \in Nat
  BY BoundAssumption DEF DocumentInv, TowerInv, Newest
<1>3. TowerInv' /\ Goes
  <2>1. TowerInv'
    BY <1>1, <1>2, BoundAssumption DEF TowerInv, Newest
  <2> QED BY <1>1, <1>2, <2>1 DEF Goes, Newest
<1>4. PICK same \in BOOLEAN : same = (draft.text = heads[row] /\ ~draft.rec)
  OBVIOUS
<1>5. PICK o : o = IF draft # NoDraft /\ ~same THEN draft ELSE NoDraft
  OBVIOUS
<1>6. PICK b \in BOOLEAN : b = ~(draft # NoDraft /\ ~same)
  OBVIOUS
<1>7. PICK e : e = [Closed EXCEPT !.open = TRUE, !.text = heads[row], !.base = row, !.edit = b, !.offer = o]
  OBVIOUS
<1>8. ed' = e /\ draft' = IF same THEN NoDraft ELSE draft
  BY <1>4, <1>5, <1>6, <1>7 DEF Open
<1>9. o \in Drafts \cup {NoDraft} /\ o \in DraftType
  BY <1>5, DraftFacts DEF DocumentInv
<1>10. /\ e \in EditorType /\ e.open /\ e.text = heads[row] /\ e.base = row /\ e.offer = o
       /\ ~e.dirty /\ ~e.read /\ ~e.rec /\ ~e.disk /\ e.local = NoLocal
  <2>1. heads[row] \in Text /\ row \in Version
    BY <1>2, BoundAssumption DEF TowerInv, Text, Version
  <2> QED BY <1>7, <1>9, <2>1, ClosedFacts DEF EditorType
<1>11. Kept(heads[row]) /\ OnBase(heads[row], row)
  BY <1>2 DEF TowerInv, Kept, OnBase, Newest, Range
<1>12. e \in Editors
  <2>1. e.local.sig = 0
    BY <1>10, Locals
  <2> QED BY <1>2, <1>9, <1>10, <1>11, <2>1 DEF Editors
<1>13. draft' \in Drafts' \cup {NoDraft} /\ ed' \in Editors'
  BY <1>2, <1>3, <1>8, <1>12, Remembered DEF DocumentInv
<1>14. BaseInv'
  <2>1. NoDraft.base = 0 /\ draft.base <= row
    BY DEF NoDraft, DocumentInv, BaseInv
  <2> QED BY <1>1, <1>2, <1>5, <1>8, <1>10, <2>1 DEF BaseInv
<1>15. LatestInv' /\ (disc # "none" => last' = 0 \/ Kept(last)')
  <2>1. CASE last = 0 \/ Kept(last)
    BY <1>1, <1>2, <1>3, <2>1, LatestSettled
  <2>2. CASE ~(last = 0 \/ Kept(last))
    <3>1. draft.text = last /\ disc = "none"
      BY <1>1, <2>2 DEF DocumentInv, LatestInv, PlaceInv
    <3>2. ~same /\ draft # NoDraft
      BY <1>4, <1>11, <2>2, <3>1, DraftFacts
    <3>3. ed'.offer = draft /\ draft' = draft /\ last' = last
      BY <1>1, <1>5, <1>8, <1>10, <3>2
    <3>4. ~ed'.dirty /\ ~ed'.disk /\ ~ed'.local.is
      BY <1>8, <1>10, Locals
    <3> QED BY <3>1, <3>2, <3>3, <3>4 DEF LatestInv, Offering
  <2> QED BY <2>1, <2>2
<1>16. PlaceInv'
  BY <1>1, <1>8, <1>10, <1>15 DEF DocumentInv, PlaceInv
<1> QED BY <1>1, <1>2, <1>3, <1>13, <1>14, <1>15, <1>16, EditorStep

\* A step of the editor, the drafts or the save that lets Tower, the texts and the row be.
Rests == /\ UNCHANGED <<tower, row, anc, counters>>
         /\ session' \in BOOLEAN /\ acq' \in 0..MaxVisits /\ disc' \in {"none", "local", "recovery"}

\* Then this is what remains to be said of it, but for the save.
LEMMA Restful ==
  ASSUME DocumentInv, Rests, ed' \in Editors, draft' \in Drafts \cup {NoDraft}, last' \in {0, last},
         ed'.open /\ ed'.rec => ed'.offer = NoDraft /\ ~ed'.read,
         disc' # "none" => disc' = disc \/ last' = 0 \/ Kept(last'),
         last' # 0 /\ ~Kept(last) => LatestInv'
  PROVE  /\ TowerInv' /\ Goes /\ draft' \in Drafts' \cup {NoDraft} /\ ed' \in Editors' /\ LatestInv' /\ PlaceInv'
         /\ NoBlindOverwrite'
<1>1. TowerInv /\ TowerInv' /\ Goes
  BY TowerRests DEF DocumentInv, Rests
<1>2. draft' \in Drafts' \cup {NoDraft} /\ ed' \in Editors' /\ NoBlindOverwrite'
  BY <1>1, Remembered DEF Rests, DocumentInv, tower
<1>3. recs' = recs /\ heads' = heads /\ texts' = texts
  BY DEF Rests, tower, counters
<1>4. last' = 0 \/ (last' = last /\ (last = 0 \/ Kept(last))) => LatestInv' /\ (last' = 0 \/ Kept(last)')
  BY <1>1, LatestSettled
<1>5. LatestInv'
  BY <1>4
<1>6. PlaceInv'
  <2>1. Kept(last') => Kept(last)'
    BY <1>3 DEF Kept
  <2>2. disc' # "none" => last' = 0 \/ Kept(last)'
    <3>1. disc # "none" => last = 0 \/ Kept(last)
      BY DEF DocumentInv, PlaceInv
    <3> QED BY <1>4, <2>1, <3>1
  <2>3. last' \in 0..texts'
    BY <1>1, <1>3, BoundAssumption DEF DocumentInv, PlaceInv, TowerInv
  <2> QED BY <2>2, <2>3 DEF Rests, PlaceInv, Offering
<1> QED BY <1>1, <1>2, <1>5, <1>6

\* And with it, when the save goes on.
LEMMA Resting ==
  ASSUME DocumentInv, Rests, save' = save, ed' \in Editors, draft' \in Drafts \cup {NoDraft}, BaseInv', last' \in {0, last},
         ed'.open /\ ed'.rec => ed'.offer = NoDraft /\ ~ed'.read,
         ed'.open => ed.open /\ (Offering \/ (ed'.offer = NoDraft /\ ~ed'.read)),
         ed'.open /\ ~Offering /\ save.pc # "none" => ed'.text = ed.text /\ ed'.base >= ed.base,
         disc' # "none" => disc' = disc \/ last' = 0 \/ Kept(last'),
         last' # 0 /\ ~Kept(last) => LatestInv'
  PROVE  DocumentInv'
<1>1. /\ TowerInv' /\ Goes /\ draft' \in Drafts' \cup {NoDraft} /\ ed' \in Editors' /\ LatestInv' /\ PlaceInv'
      /\ NoBlindOverwrite'
  BY Restful
<1>2. heads' = heads /\ row' = row /\ row \in Nat /\ visits' = visits
  BY DEF Rests, tower, counters, TowerInv, DocumentInv
<1>3. Continues
  <2>1. SUFFICES ASSUME ed'.open, ~Offering, Live', save.visit = visits
                 PROVE  Follows /\ ed'.base >= From
    BY DEF Continues
  <2>2. Live /\ save.pc # "none"
    BY <1>2, <2>1 DEF Live, Newest
  <2>3. ed.open /\ ed.base >= From /\ ed'.text = ed.text /\ ed'.base >= ed.base
    BY <2>1, <2>2 DEF DocumentInv, SaveInv, Current
  <2>4. ed.base \in Int /\ ed'.base \in Int /\ From \in Int
    BY EditorFields DEF DocumentInv, SaveInv, SaveType, Version, From
  <2> QED BY <2>3, <2>4 DEF Follows
<1> QED BY <1>1, <1>2, <1>3, EditorStep

\* The document is closed.
LEMMA DocClose ==
  ASSUME DocumentInv, Close
  PROVE  DocumentInv'
<1>1. ed.open /\ ed' = Closed /\ UNCHANGED <<session, acq, save, disc, last, anc, texts, visits, heads, recs, row>>
  BY DEF Close, leasing, history, Stays, tower
<1>2. TowerInv /\ ed \in Editors /\ BaseInv /\ row \in Nat /\ draft \in Drafts \cup {NoDraft}
  BY DEF DocumentInv, TowerInv
<1>3. draft' = IF ed.dirty THEN DraftRow(ed) ELSE draft
  BY DEF Close
<1>4. Closed \in Editors
  <2>1. Closed.local.sig = 0
    BY ClosedFacts, Locals
  <2>2. Closed.base <= Newest
    BY <1>2, ClosedFacts DEF TowerInv, Newest
  <2> QED BY <2>1, <2>2, ClosedFacts DEF Editors
<1>5. draft' \in Drafts \cup {NoDraft}
  BY <1>1, <1>2, <1>3, DraftRows
<1>6. BaseInv'
  BY <1>1, <1>2, <1>3, ClosedFacts, DraftRows DEF BaseInv, NoDraft
<1>7. ASSUME last' # 0, ~Kept(last)
      PROVE  LatestInv'
  <2>1. (ed.dirty /\ ed.text = last) \/ (draft.text = last /\ ~ed.dirty)
    BY <1>1, <1>7 DEF DocumentInv, LatestInv
  <2>2. draft'.text = last'
    BY <1>1, <1>2, <1>3, <2>1, DraftRows
  <2> QED BY <1>1, <2>2, ClosedFacts DEF LatestInv
<1>8. Rests
  BY <1>1 DEF Rests, tower, counters, DocumentInv, PlaceInv
<1> QED BY <1>1, <1>4, <1>5, <1>6, <1>7, <1>8, ClosedFacts, Resting

\* The tab is hidden.
LEMMA DocHide ==
  ASSUME DocumentInv, Hide
  PROVE  DocumentInv'
<1>1. ed.open /\ UNCHANGED <<session, acq, save, disc, last, anc, texts, visits, heads, recs, row>>
  BY DEF Hide, leasing, history, Stays, tower
<1>2. TowerInv /\ ed \in Editors /\ BaseInv /\ row \in Nat /\ draft \in Drafts \cup {NoDraft} /\ ed \in EditorType
  BY EditorFields DEF DocumentInv, TowerInv
<1>3. draft' = IF ed.dirty THEN DraftRow(ed) ELSE draft
  BY DEF Hide
<1>4. PICK f : f = Untimed(ed)
  OBVIOUS
<1>5. Like(ed, f) /\ f.local = ed.local /\ ~f.disk
  BY <1>2, <1>4, Handled
<1>6. PICK l : l = IF ed.dirty THEN Local(DraftRow(ed)) ELSE f.local
  OBVIOUS
<1>7. ed' = [f EXCEPT !.access = "ready", !.edit = FALSE, !.local = l]
  BY <1>3, <1>4, <1>6 DEF Hide
<1>8. l \in LocalType /\ l.sig = ed.local.sig /\ (~ed.dirty => l = ed.local)
  <2>1. DraftRow(ed) \in DraftType /\ DraftRow(ed).sig = ed.local.sig
    BY <1>1, <1>2, DraftRows, DraftFacts DEF DraftRow
  <2> QED BY <1>2, <1>5, <1>6, <2>1, Locals, EditorFields
<1>9. Like(ed, ed') /\ ed'.local = l /\ ~ed'.disk
  BY <1>5, <1>7, <1>8 DEF Like, EditorType
<1>10. ed' \in Editors
  BY <1>2, <1>8, <1>9, SameEditor DEF Like
<1>11. draft' \in Drafts \cup {NoDraft} /\ (ed.dirty => draft'.text = ed.text /\ draft'.base = ed.base)
  BY <1>1, <1>2, <1>3, DraftRows
<1>12. BaseInv'
  BY <1>1, <1>2, <1>3, <1>9, <1>11 DEF BaseInv, Like
<1>13. ASSUME last' # 0, ~Kept(last)
       PROVE  LatestInv'
  BY <1>1, <1>3, <1>8, <1>9, <1>11, <1>13 DEF DocumentInv, LatestInv, Offering, Like
<1>14. Rests
  BY <1>1 DEF Rests, tower, counters, DocumentInv, PlaceInv
<1>15. /\ ed'.open /\ ed'.rec => ed'.offer = NoDraft /\ ~ed'.read
       /\ ed'.open => ed.open /\ (Offering \/ (ed'.offer = NoDraft /\ ~ed'.read))
       /\ ed'.text = ed.text /\ ed'.base = ed.base /\ ed.base \in Int
  BY <1>2, <1>9, EditorFields DEF Like, Offering, DocumentInv, PlaceInv
<1> QED BY <1>1, <1>10, <1>11, <1>12, <1>13, <1>14, <1>15, Resting

\* The user reads the saved version.
LEMMA DocReadSaved ==
  ASSUME DocumentInv, ReadSaved
  PROVE  DocumentInv'
<1>1. /\ ed.open /\ ed.offer # NoDraft /\ UNCHANGED <<session, acq, save, disc, last, anc, texts, visits, heads, recs, row, draft>>
      /\ ed' = [ed EXCEPT !.offer = NoDraft, !.read = TRUE, !.edit = FALSE]
  BY DEF ReadSaved, leasing, history, Stays, tower
<1>2. TowerInv /\ ed \in Editors /\ BaseInv /\ row \in Nat /\ ed \in EditorType /\ Offering
  BY <1>1, EditorFields DEF DocumentInv, TowerInv, Offering
<1>3. /\ ed' \in EditorType /\ ed'.open /\ ed'.text = ed.text /\ ed'.base = ed.base /\ ed'.dirty = ed.dirty
      /\ ed'.offer = NoDraft /\ ed'.read /\ ed'.rec = ed.rec /\ ed'.local = ed.local /\ ed'.disk = ed.disk
  BY <1>1, <1>2, DraftFacts DEF EditorType
<1>4. ed' \in Editors
  BY <1>1, <1>2, <1>3, SameEditor
<1>5. ~ed.rec
  BY <1>1, <1>2 DEF DocumentInv, PlaceInv
<1>6. BaseInv'
  BY <1>1, <1>2, <1>3 DEF BaseInv, NoDraft
<1>7. ASSUME last' # 0, ~Kept(last)
      PROVE  LatestInv'
  BY <1>1, <1>2, <1>3, <1>7 DEF DocumentInv, LatestInv, Offering
<1>8. Rests
  BY <1>1 DEF Rests, tower, counters, DocumentInv, PlaceInv
<1> QED BY <1>1, <1>2, <1>3, <1>4, <1>5, <1>6, <1>7, <1>8, Resting DEF DocumentInv

\* The user resumes the draft, or is offered it again.
LEMMA DocResume ==
  ASSUME DocumentInv, Patient, Resume
  PROVE  DocumentInv'
<1>1. ed.open /\ Offering /\ UNCHANGED <<session, save, disc, last, anc, texts, visits, heads, recs, row>>
  BY DEF Resume, history, Stays, tower
<1>2. /\ TowerInv /\ ed \in Editors /\ BaseInv /\ row \in Nat /\ row \in 1..Newest /\ ed \in EditorType
      /\ draft \in Drafts \cup {NoDraft} /\ ed.offer \in Drafts \cup {NoDraft} /\ Newest \in Nat
  BY EditorFields DEF DocumentInv, TowerInv, Newest
<1>3. PICK d : d = IF ed.offer # NoDraft THEN ed.offer ELSE draft
  OBVIOUS
<1>4. d \in Drafts \cup {NoDraft} /\ d \in DraftType /\ d.base <= row /\ d.base \in Nat
  <2>1. d \in Drafts \cup {NoDraft} /\ d \in DraftType
    BY <1>2, <1>3, DraftFacts
  <2>2. d.base <= row
    BY <1>2, <1>3 DEF BaseInv
  <2> QED BY <2>1, <2>2 DEF DraftType, Version
<1>5. ~ed.rec
  BY <1>1 DEF DocumentInv, PlaceInv
<1>6. ASSUME last # 0, ~Kept(last)
      PROVE  draft.text = last /\ d.text = last /\ d # NoDraft /\ ~ed.dirty /\ disc = "none"
  <2>1. draft.text = last /\ ~ed.dirty /\ (ed.offer # NoDraft => ed.offer.text = last) /\ disc = "none"
    BY <1>1, <1>6 DEF DocumentInv, LatestInv, PlaceInv
  <2> QED BY <1>3, <1>6, <2>1, DraftFacts
<1>7. CASE /\ ed.dirty \/ d = NoDraft
           /\ ed' = [ed EXCEPT !.read = FALSE, !.offer = d]
           /\ UNCHANGED <<draft, acq>>
  <2>1. /\ ed' \in EditorType /\ ed'.open /\ ed'.text = ed.text /\ ed'.base = ed.base /\ ed'.dirty = ed.dirty
        /\ ed'.offer = d /\ ed'.rec = ed.rec /\ ed'.local = ed.local
    BY <1>1, <1>2, <1>4, <1>7 DEF EditorType
  <2>2. ed' \in Editors
    <3>1. /\ ed.base \in 1..Newest /\ ed.base <= Newest /\ ed.text \in 1..texts /\ OnBase(ed.text, ed.base)
          /\ ~ed.dirty => Kept(ed.text)
          /\ ed.local.sig # 0 => Kept(ed.local.sig)
      BY <1>1, <1>2, EditorFields
    <3> QED BY <1>4, <2>1, <3>1 DEF Editors
  <2>3. BaseInv'
    BY <1>1, <1>2, <1>4, <1>7, <2>1 DEF BaseInv
  <2>4. Rests
    BY <1>1, <1>7 DEF Rests, tower, counters, DocumentInv, PlaceInv
  <2>5. last' # 0 /\ ~Kept(last) => LatestInv'
    BY <1>1, <1>6, <1>7
  <2> QED BY <1>1, <1>2, <1>5, <1>7, <2>1, <2>2, <2>3, <2>4, <2>5, Resting
<1>8. CASE /\ d # NoDraft /\ d.text = heads[row] /\ ed.text = d.text
           /\ ed' = [Cleared(ed) EXCEPT !.base = row, !.rec = FALSE, !.read = FALSE, !.busy = FALSE, !.offer = d]
           /\ draft' = NoDraft /\ acq' = acq
  <2>1. PICK c : c = Cleared(ed)
    OBVIOUS
  <2>2. Like(ed, c) /\ c.local = NoLocal
    BY <1>2, <2>1, Handled
  <2>3. /\ ed' \in EditorType /\ ed'.open /\ ed'.text = heads[row] /\ ed'.base = row
        /\ ed'.offer = d /\ ~ed'.rec /\ ed'.local = NoLocal
    <3>1. row \in Version
      BY <1>2 DEF Version
    <3> QED BY <1>1, <1>4, <1>8, <2>1, <2>2, <3>1 DEF Like, EditorType
  <2>4. Kept(heads[row]) /\ OnBase(heads[row], row) /\ heads[row] \in 1..texts
    BY <1>2, BoundAssumption DEF TowerInv, Kept, OnBase, Newest, Range
  <2>5. ed' \in Editors
    <3>1. ed'.local.sig = 0
      BY <2>3, Locals
    <3> QED BY <1>2, <1>4, <2>3, <2>4, <3>1 DEF Editors
  <2>6. BaseInv'
    BY <1>1, <1>2, <1>4, <1>8, <2>3 DEF BaseInv, NoDraft
  <2>7. Rests
    BY <1>1, <1>8 DEF Rests, tower, counters, DocumentInv, PlaceInv
  <2>8. last' # 0 /\ ~Kept(last) => LatestInv'
    BY <1>1, <1>6, <1>8, <2>4
  <2> QED BY <1>1, <1>2, <1>8, <2>3, <2>5, <2>6, <2>7, <2>8, Resting
<1>9. CASE /\ ~ed.dirty /\ d # NoDraft /\ draft' = draft
           /\ LET resumed == [ed EXCEPT !.offer = NoDraft, !.read = FALSE, !.text = d.text, !.base = d.base, !.rec = d.rec,
                               !.local = Local(IF d.saved /\ d.sig = 0 THEN [d EXCEPT !.sig = d.text] ELSE d),
                               !.dirty = ~d.saved, !.busy = ~d.saved]
                  apart == [resumed EXCEPT !.access = "recovery", !.edit = TRUE]
              IN  IF d.rec \/ d.base # row
                  THEN ed' = (IF d.saved THEN apart ELSE Schedule(apart)) /\ UNCHANGED acq
                  ELSE Begins([resumed EXCEPT !.disk = TRUE])
  <2>1. PICK g : g = IF d.saved /\ d.sig = 0 THEN [d EXCEPT !.sig = d.text] ELSE d
    OBVIOUS
  <2>2. PICK busy \in BOOLEAN : busy = ~d.saved
    OBVIOUS
  <2>3. PICK resumed : resumed = [ed EXCEPT !.offer = NoDraft, !.read = FALSE, !.text = d.text, !.base = d.base, !.rec = d.rec,
                               !.local = Local(g), !.dirty = busy, !.busy = busy]
    OBVIOUS
  <2>4. PICK apart : apart = [resumed EXCEPT !.access = "recovery", !.edit = TRUE]
    OBVIOUS
  <2>5. PICK asking : asking = [resumed EXCEPT !.disk = TRUE]
    OBVIOUS
  <2>6. /\ d \in Drafts /\ d \in DraftType /\ d.text \in 1..texts /\ d.base \in 1..Newest /\ OnBase(d.text, d.base)
        /\ d.saved => Kept(d.text)
        /\ d.sig # 0 => Kept(d.sig)
    BY <1>4, <1>9, DraftFacts
  <2>7. g \in DraftType /\ (g.sig # 0 => Kept(g.sig))
    BY <2>1, <2>6 DEF DraftType
  <2>8. Local(g) \in LocalType /\ Local(g).sig = g.sig
    BY <2>7, Locals
  <2>9. /\ resumed \in EditorType /\ resumed.open /\ resumed.text = d.text /\ resumed.base = d.base /\ resumed.dirty = busy
        /\ resumed.offer = NoDraft /\ ~resumed.read /\ resumed.local = Local(g)
    <3>1. d.text \in Text /\ d.base \in Version /\ d.rec \in BOOLEAN
      BY <2>6 DEF DraftType
    <3>2. NoDraft \in DraftType /\ Local(g) \in LocalType /\ busy \in BOOLEAN
      BY <2>2, <2>8, DraftFacts
    <3>3. PICK l \in LocalType, n \in DraftType : l = Local(g) /\ n = NoDraft
      BY <3>2
    <3>4. resumed = [ed EXCEPT !.offer = n, !.read = FALSE, !.text = d.text, !.base = d.base, !.rec = d.rec,
                               !.local = l, !.dirty = busy, !.busy = busy]
      BY <2>3, <3>3
    <3>5. resumed \in EditorType
      <4>1. PICK x : x = [ed EXCEPT !.offer = n, !.read = FALSE, !.text = d.text, !.base = d.base]
        OBVIOUS
      <4>2. x \in EditorType
        BY <1>2, <3>1, <3>3, <4>1 DEF EditorType
      <4>3. resumed = [x EXCEPT !.rec = d.rec, !.local = l, !.dirty = busy, !.busy = busy]
        BY <3>4, <4>1
      <4> QED BY <3>1, <3>2, <3>3, <4>2, <4>3 DEF EditorType
    <3>6. /\ resumed.open = ed.open /\ resumed.text = d.text /\ resumed.base = d.base /\ resumed.dirty = busy
          /\ resumed.offer = n /\ ~resumed.read /\ resumed.local = l
      BY <1>2, <3>4 DEF EditorType
    <3> QED BY <1>1, <3>3, <3>5, <3>6
  <2>10. resumed \in Editors
    <3>1. resumed.base <= Newest /\ (resumed.local.sig # 0 => Kept(resumed.local.sig))
      BY <1>2, <2>6, <2>7, <2>8, <2>9
    <3>2. resumed.base \in 1..Newest /\ resumed.text \in 1..texts /\ OnBase(resumed.text, resumed.base)
      BY <2>6, <2>9
    <3>3. ~resumed.dirty => Kept(resumed.text)
      BY <2>2, <2>6, <2>9
    <3> QED BY <2>9, <3>1, <3>2, <3>3 DEF Editors
  <2>11. Like(resumed, apart) /\ apart.local = resumed.local
    BY <2>4, <2>9 DEF Like, EditorType
  <2>12. Like(resumed, asking) /\ asking.local = resumed.local
    BY <2>5, <2>9 DEF Like, EditorType
  <2>13. ((ed' = apart \/ ed' = Schedule(apart)) /\ acq' = acq) \/ Begins(asking)
    BY <1>9, <2>1, <2>2, <2>3, <2>4, <2>5
  <2>14. Like(resumed, ed') /\ ed'.local = resumed.local /\ acq' \in 0..MaxVisits
    <3>1. CASE (ed' = apart \/ ed' = Schedule(apart)) /\ acq' = acq
      <4>1. Like(apart, Schedule(apart)) /\ Schedule(apart).local = apart.local
        BY <2>11, Handled DEF Like
      <4> QED BY <2>11, <3>1, <4>1 DEF Like, DocumentInv, PlaceInv
    <3>2. CASE Begins(asking)
      <4>1. Like(asking, ed') /\ ed'.local = asking.local
        BY <2>12, <3>2, Beginning DEF Like
      <4>2. acq' \in 0..MaxVisits
        BY <1>2, <3>2 DEF Begins, DocumentInv, PlaceInv, TowerInv
      <4> QED BY <2>12, <4>1, <4>2 DEF Like
    <3> QED BY <2>13, <3>1, <3>2
  <2>15. ed' \in Editors
    BY <2>10, <2>14, SameEditor DEF Like
  <2>16. /\ ed'.open /\ ed'.text = d.text /\ ed'.base = d.base /\ ed'.dirty = ~d.saved /\ ed'.offer = NoDraft /\ ~ed'.read
    BY <2>2, <2>9, <2>14 DEF Like
  <2>17. BaseInv'
    BY <1>1, <1>2, <1>4, <1>9, <2>16 DEF BaseInv, NoDraft
  <2>18. Rests
    BY <1>1, <2>14 DEF Rests, tower, counters, DocumentInv, PlaceInv
  <2>19. last' # 0 /\ ~Kept(last) => LatestInv'
    BY <1>1, <1>6, <1>9, <2>6, <2>16 DEF LatestInv, Offering
  <2> QED BY <1>1, <1>2, <1>9, <2>15, <2>16, <2>17, <2>18, <2>19, Resting
<1>10. \/ /\ ed.dirty \/ d = NoDraft
          /\ ed' = [ed EXCEPT !.read = FALSE, !.offer = d]
          /\ UNCHANGED <<draft, acq>>
       \/ /\ d # NoDraft /\ d.text = heads[row] /\ ed.text = d.text
          /\ ed' = [Cleared(ed) EXCEPT !.base = row, !.rec = FALSE, !.read = FALSE, !.busy = FALSE, !.offer = d]
          /\ draft' = NoDraft /\ acq' = acq
       \/ /\ ~ed.dirty /\ d # NoDraft /\ draft' = draft
          /\ LET resumed == [ed EXCEPT !.offer = NoDraft, !.read = FALSE, !.text = d.text, !.base = d.base, !.rec = d.rec,
                               !.local = Local(IF d.saved /\ d.sig = 0 THEN [d EXCEPT !.sig = d.text] ELSE d),
                               !.dirty = ~d.saved, !.busy = ~d.saved]
                 apart == [resumed EXCEPT !.access = "recovery", !.edit = TRUE]
             IN  IF d.rec \/ d.base # row
                 THEN ed' = (IF d.saved THEN apart ELSE Schedule(apart)) /\ UNCHANGED acq
                 ELSE Begins([resumed EXCEPT !.disk = TRUE])
  BY <1>3 DEF Resume
<1> QED BY <1>7, <1>8, <1>9, <1>10

\* An editor whose text was made from its version, after the step.
LEMMA NewEditor ==
  ASSUME TowerInv', NEW e \in EditorType, ed' = e, e.base \in 1..Newest', e.text \in 1..texts',
         e.text = heads'[e.base] \/ heads'[e.base] \in anc'[e.text],
         ~e.dirty => e.text \in Range(heads') \cup recs',
         e.offer \in Drafts' \cup {NoDraft},
         e.local.sig # 0 => e.local.sig \in Range(heads') \cup recs'
  PROVE  ed' \in Editors'
<1>1. e.base <= Newest'
  BY DEF TowerInv, Newest
<1> QED BY <1>1 DEF Editors, OnBase, Kept

\* A step after which text t has seen text s, of two texts there are.
LEMMA SeenRests ==
  ASSUME TowerInv, NEW t \in 1..texts, NEW s \in 1..texts, anc' = Seen(t, s), UNCHANGED <<heads, recs, counters>>,
         row' \in row..Newest
  PROVE  TowerInv' /\ Goes /\ anc[s] \cup {s} \subseteq anc'[t]
<1>1. t \in 1..MaxTexts /\ s \in 1..MaxTexts
  BY BoundAssumption DEF TowerInv
<1>2. /\ anc' \in [1..MaxTexts -> SUBSET Text] /\ \A u \in 1..MaxTexts : anc[u] \subseteq anc'[u]
      /\ anc[s] \cup {s} \subseteq anc'[t]
  BY <1>1, SeenGrows
<1>3. row' \in 1..Newest /\ Newest \in Nat /\ texts \in Nat
  BY BoundAssumption DEF TowerInv, Newest
<1>4. TowerInv'
  BY <1>2, <1>3 DEF TowerInv, counters, Newest
<1>5. Goes
  BY <1>2, <1>3, <1>4 DEF Goes, counters, Newest
<1> QED BY <1>2, <1>4, <1>5

\* What Tower has are texts.
LEMMA KeptTexts ==
  ASSUME TowerInv
  PROVE  /\ \A t : Kept(t) => t \in 1..texts
         /\ \A b \in 1..Newest : heads[b] \in 1..texts /\ Kept(heads[b]) /\ OnBase(heads[b], b)
<1>1. heads \in Seq(1..texts) /\ recs \subseteq 1..texts /\ texts \in Nat
  BY BoundAssumption DEF TowerInv
<1>2. \A b \in 1..Newest : heads[b] \in 1..texts
  BY <1>1 DEF Newest
<1>3. Range(heads) = {heads[b] : b \in 1..Newest}
  BY <1>1 DEF Range, Newest
<1> QED BY <1>1, <1>2, <1>3 DEF Kept, OnBase

\* The user types.
LEMMA DocType ==
  ASSUME DocumentInv, Patient, Type
  PROVE  DocumentInv'
<1>1. /\ ed.open /\ texts < MaxTexts /\ disc = "none" /\ ~Offering
      /\ UNCHANGED <<draft, session, save, disc, visits, heads, recs, row>>
      /\ texts' = texts + 1 /\ last' = texts + 1 /\ anc' = Seen(texts + 1, ed.text)
  BY DEF Type, Undisturbed, Stays, tower
<1>2. /\ TowerInv /\ ed \in Editors /\ ed \in EditorType /\ texts \in 1..MaxTexts /\ texts \in Nat /\ MaxTexts \in Nat
      /\ texts + 1 \in 1..MaxTexts /\ row \in Nat /\ row \in 1..Newest /\ Newest \in Nat
      /\ ed.text \in 1..texts /\ ed.text \in 1..MaxTexts /\ ed.base \in 1..Newest /\ OnBase(ed.text, ed.base)
  <2>1. TowerInv /\ ed \in Editors /\ MaxTexts \in Nat /\ texts \in 1..MaxTexts
    BY BoundAssumption DEF DocumentInv, TowerInv
  <2>2. row \in 1..Newest /\ Newest \in Nat
    BY <2>1 DEF TowerInv, Newest
  <2>3. ed \in EditorType /\ ed.text \in 1..texts /\ ed.base \in 1..Newest /\ OnBase(ed.text, ed.base)
    BY <1>1, <2>1, EditorFields
  <2> QED BY <1>1, <2>1, <2>2, <2>3
<1>3. /\ anc' \in [1..MaxTexts -> SUBSET Text] /\ \A u \in 1..MaxTexts : anc[u] \subseteq anc'[u]
      /\ anc[ed.text] \cup {ed.text} \subseteq anc'[texts + 1]
  BY <1>1, <1>2, SeenGrows
<1>4. TowerInv' /\ Goes
  <2>1. heads \in Seq(1..(texts + 1)) /\ recs \subseteq 1..(texts + 1)
    BY <1>2 DEF TowerInv
  <2>2. TowerInv'
    BY <1>1, <1>2, <1>3, <2>1 DEF TowerInv, Newest
  <2> QED BY <1>1, <1>2, <1>3, <2>2 DEF Goes, Newest
<1>5. PICK shown : shown = [ed EXCEPT !.text = texts + 1]
  OBVIOUS
<1>6. PICK typed : typed = [shown EXCEPT !.dirty = TRUE, !.disk = TRUE]
  OBVIOUS
<1>7. /\ typed \in EditorType /\ typed.open /\ typed.text = texts + 1 /\ typed.base = ed.base /\ typed.dirty /\ typed.disk
      /\ typed.offer = ed.offer /\ typed.read = ed.read /\ typed.local = ed.local /\ typed.rec = ed.rec
  <2>1. texts + 1 \in Text
    BY <1>2 DEF Text
  <2> QED BY <1>1, <1>2, <1>5, <1>6, <2>1 DEF EditorType
<1>8. Begins(typed) \/ (ed' \in {typed, Schedule(typed)} /\ acq' = acq)
  BY <1>1, <1>5, <1>6 DEF Type
<1>9. Like(typed, ed') /\ ed'.local = typed.local /\ ed'.disk /\ acq' \in 0..MaxVisits
  <2>1. CASE Begins(typed)
    <3>1. Like(typed, ed') /\ ed'.local = typed.local /\ ed'.disk
      BY <1>7, <2>1, Beginning
    <3>2. acq' \in 0..MaxVisits
      BY <1>2, <2>1 DEF Begins, DocumentInv, PlaceInv, TowerInv
    <3> QED BY <3>1, <3>2
  <2>2. CASE ed' \in {typed, Schedule(typed)} /\ acq' = acq
    <3>1. Like(typed, typed)
      BY <1>7 DEF Like
    <3>2. Like(typed, Schedule(typed)) /\ Schedule(typed).local = typed.local /\ Schedule(typed).disk
      BY <1>7, Handled
    <3>3. acq \in 0..MaxVisits
      BY DEF DocumentInv, PlaceInv
    <3> QED BY <1>7, <2>2, <3>1, <3>2, <3>3
  <2> QED BY <1>8, <2>1, <2>2
<1>10. PICK e \in EditorType : ed' = e
  BY <1>9 DEF Like
<1>11. /\ e.open /\ e.text = texts + 1 /\ e.base = ed.base /\ e.dirty /\ e.disk /\ e.offer = NoDraft /\ ~e.read
       /\ e.local = ed.local
  BY <1>1, <1>7, <1>9, <1>10 DEF Like, Offering
<1>12. draft' \in Drafts' \cup {NoDraft} /\ \A t : Kept(t) => Kept(t)'
  BY <1>1, <1>2, <1>4, Remembered DEF DocumentInv
<1>13. ed' \in Editors'
  <2>1. heads'[ed.base] \in anc'[texts + 1]
    BY <1>1, <1>2, <1>3 DEF OnBase
  <2>2. ed.base \in 1..Newest' /\ texts + 1 \in 1..texts'
    BY <1>1, <1>2 DEF Newest
  <2>3. ed.local.sig # 0 => ed.local.sig \in Range(heads') \cup recs'
    BY <1>2, <1>12, EditorFields DEF Kept
  <2> QED BY <1>4, <1>10, <1>11, <2>1, <2>2, <2>3, NewEditor
<1>14. BaseInv'
  BY <1>1, <1>10, <1>11 DEF DocumentInv, BaseInv, Offering
<1>15. LatestInv'
  BY <1>1, <1>10, <1>11 DEF LatestInv, Offering
<1>16. PlaceInv'
  BY <1>1, <1>2, <1>9, <1>10, <1>11 DEF PlaceInv, Offering, DocumentInv
<1>17. Continues
  <2>1. Follows
    BY <1>3, <1>10, <1>11 DEF Follows
  <2>2. Live' => Live
    BY <1>1 DEF Live, Newest
  <2>3. Live /\ save.visit = visits => ed.base >= From
    BY <1>1 DEF DocumentInv, SaveInv, Current
  <2> QED BY <1>1, <1>10, <1>11, <2>1, <2>2, <2>3 DEF Continues
<1> QED BY <1>1, <1>2, <1>4, <1>12, <1>13, <1>14, <1>15, <1>16, <1>17, EditorStep

\* A text the user goes back to has seen the one before: what remains to be said.
LEMMA BackTo ==
  ASSUME DocumentInv, NEW e \in EditorType, ed' = e, ed.open, e.open, ~Offering, Kept(e.text), e.base = ed.base,
         anc' = Seen(e.text, ed.text), UNCHANGED <<tower, row, counters, save>>,
         ~e.dirty, e.offer = ed.offer, e.read = ed.read, e.local.sig \in {0, ed.local.sig},
         draft' \in Drafts' \cup {NoDraft}, draft'.base <= row, last' = 0,
         session' \in BOOLEAN, acq' \in 0..MaxVisits, disc' = disc
  PROVE  DocumentInv'
<1>1. /\ TowerInv /\ ed \in Editors /\ ed.text \in 1..texts /\ ed.base \in 1..Newest /\ OnBase(ed.text, ed.base)
      /\ row \in 1..Newest /\ row \in Nat /\ Newest \in Nat /\ texts \in Nat
      /\ heads' = heads /\ recs' = recs /\ row' = row /\ texts' = texts /\ visits' = visits
  BY EditorFields, BoundAssumption DEF DocumentInv, TowerInv, Newest, tower, counters
<1>2. e.text \in 1..texts
  BY <1>1, KeptTexts
<1>3. row' \in row..Newest
  BY <1>1
<1>4. TowerInv' /\ Goes /\ anc[ed.text] \cup {ed.text} \subseteq anc'[e.text]
  BY <1>1, <1>2, <1>3, SeenRests
<1>5. ed' \in Editors'
  <2>1. heads'[e.base] \in anc'[e.text]
    BY <1>1, <1>4 DEF OnBase
  <2>2. e.local.sig # 0 => e.local.sig \in Range(heads') \cup recs'
    BY <1>1, EditorFields DEF Kept
  <2>3. e.offer = NoDraft
    BY DEF Offering
  <2>4. e.base \in 1..Newest' /\ e.text \in 1..texts' /\ e.text \in Range(heads') \cup recs'
    BY <1>1, <1>2 DEF Newest, Kept
  <2> QED BY <1>4, <2>1, <2>2, <2>3, <2>4, NewEditor
<1>6. BaseInv'
  BY <1>1 DEF DocumentInv, BaseInv
<1>7. LatestInv'
  BY DEF LatestInv
<1>8. PlaceInv'
  BY <1>1 DEF PlaceInv, Offering, DocumentInv
<1>9. Continues
  <2>1. Follows
    BY <1>4 DEF Follows
  <2>2. Live' => Live
    BY <1>1 DEF Live, Newest
  <2>3. Live /\ save.visit = visits => ed.base >= From
    BY DEF DocumentInv, SaveInv, Current
  <2> QED BY <2>1, <2>2, <2>3 DEF Continues, Offering
<1> QED BY <1>1, <1>4, <1>5, <1>6, <1>7, <1>8, <1>9, EditorStep

\* The text is the saved document's again.
LEMMA DocUndo ==
  ASSUME DocumentInv, Undo
  PROVE  DocumentInv'
<1>1. /\ ed.open /\ ~Offering /\ UNCHANGED <<tower, row, counters, save, disc, session, acq>>
      /\ anc' = Seen(heads[row], ed.text) /\ last' = 0 /\ draft' = NoDraft
      /\ ed' = [Cleared(Untimed(ed)) EXCEPT !.text = heads[row], !.dirty = FALSE, !.busy = FALSE]
  BY DEF Undo, leasing, Stays, counters
<1>2. TowerInv /\ ed \in EditorType /\ row \in 1..Newest
  BY EditorFields DEF DocumentInv, TowerInv
<1>3. heads[row] \in 1..texts /\ heads[row] \in Text /\ Kept(heads[row])
  <2>1. heads[row] \in 1..texts /\ Kept(heads[row])
    BY <1>2, KeptTexts
  <2> QED BY <1>2, <2>1, BoundAssumption DEF TowerInv, Text
<1>4. PICK f : f = Untimed(ed)
  OBVIOUS
<1>5. PICK g : g = Cleared(f)
  OBVIOUS
<1>6. Like(ed, f) /\ Like(f, g) /\ g.local = NoLocal
  BY <1>2, <1>4, <1>5, Handled DEF Like
<1>7. PICK e : e = [g EXCEPT !.text = heads[row], !.dirty = FALSE, !.busy = FALSE]
  OBVIOUS
<1>8. /\ e \in EditorType /\ e.open = ed.open /\ e.text = heads[row] /\ e.base = ed.base /\ ~e.dirty /\ e.offer = ed.offer
      /\ e.read = ed.read /\ e.local.sig = 0
  <2>1. g \in EditorType /\ g.open = ed.open /\ g.base = ed.base /\ g.offer = ed.offer /\ g.read = ed.read
    BY <1>6 DEF Like
  <2>2. e \in EditorType
    BY <1>3, <1>7, <2>1 DEF EditorType
  <2>3. /\ e.open = g.open /\ e.text = heads[row] /\ e.base = g.base /\ ~e.dirty /\ e.offer = g.offer
        /\ e.read = g.read /\ e.local = g.local
    BY <1>7, <2>1 DEF EditorType
  <2> QED BY <1>6, <2>1, <2>2, <2>3, Locals
<1>9. ed' = e
  BY <1>1, <1>4, <1>5, <1>7
<1>10. draft'.base <= row
  BY <1>1, <1>2 DEF NoDraft, TowerInv, Newest
<1>11. session' \in BOOLEAN /\ acq' \in 0..MaxVisits
  BY <1>1 DEF DocumentInv, PlaceInv
<1> QED BY <1>1, <1>3, <1>8, <1>9, <1>10, <1>11, BackTo

\* The text is a recovery's again.
LEMMA DocUndoToRecovery ==
  ASSUME DocumentInv, UndoToRecovery
  PROVE  DocumentInv'
<1>1. PICK e : e = [Untimed(ed) EXCEPT !.text = ed.local.sig, !.dirty = FALSE, !.busy = FALSE]
  OBVIOUS
<1>2. PICK d : d = [DraftRow(e) EXCEPT !.saved = TRUE]
  OBVIOUS
<1>3. /\ ed.open /\ ~Offering /\ ed.local.sig # 0 /\ UNCHANGED <<tower, row, counters, save, disc, session, acq>>
      /\ ed' = [e EXCEPT !.local = Local(d)] /\ draft' = d /\ anc' = Seen(e.text, ed.text) /\ last' = 0
  BY <1>1, <1>2 DEF UndoToRecovery, leasing, Stays, counters
<1>4. TowerInv /\ ed \in Editors /\ ed \in EditorType /\ ed.local \in LocalType /\ row \in Nat
  BY EditorFields DEF DocumentInv, TowerInv
<1>5. /\ Kept(ed.local.sig) /\ ed.local.sig \in 1..texts /\ ed.local.sig \in Text
      /\ ed.text \in 1..texts /\ ed.base \in 1..Newest /\ ed.base <= row /\ OnBase(ed.text, ed.base)
  <2>1. Kept(ed.local.sig) /\ ed.local.sig \in 1..texts
    BY <1>3, <1>4, EditorFields, KeptTexts
  <2> QED BY <1>3, <1>4, <2>1, EditorFields DEF LocalType, DocumentInv, BaseInv
<1>6. /\ e \in EditorType /\ e.open /\ e.text = ed.local.sig /\ e.base = ed.base /\ ~e.dirty /\ e.offer = ed.offer
      /\ e.read = ed.read /\ e.local = ed.local /\ e.rec = ed.rec
  <2>1. PICK f : f = Untimed(ed)
    OBVIOUS
  <2>2. Like(ed, f) /\ f.local = ed.local
    BY <1>4, <2>1, Handled
  <2>3. e = [f EXCEPT !.text = ed.local.sig, !.dirty = FALSE, !.busy = FALSE]
    BY <1>1, <2>1
  <2> QED BY <1>3, <1>5, <2>2, <2>3 DEF Like, EditorType
<1>7. /\ d \in DraftType /\ d.text = ed.local.sig /\ d.base = ed.base /\ d.sig = ed.local.sig
  <2>1. PICK rec \in BOOLEAN, saved \in BOOLEAN : rec = (e.rec \/ e.local.rec) /\ saved = (~e.dirty /\ e.rec)
    OBVIOUS
  <2>2. PICK r : r = [text |-> e.text, base |-> e.base, rec |-> rec, sig |-> e.local.sig, saved |-> saved]
    OBVIOUS
  <2>3. d = [r EXCEPT !.saved = TRUE]
    BY <1>2, <2>1, <2>2 DEF DraftRow
  <2>4. e.text \in Text /\ e.base \in Version /\ e.local.sig \in Text
    BY <1>4, <1>5, <1>6 DEF EditorType
  <2>5. r \in DraftType
    BY <2>2, <2>4 DEF DraftType
  <2> QED BY <1>6, <2>2, <2>3, <2>5 DEF DraftType
<1>8. Local(d) \in LocalType /\ Local(d).sig = ed.local.sig
  BY <1>7, Locals
<1>9. PICK n : n = [e EXCEPT !.local = Local(d)]
  OBVIOUS
<1>10. /\ n \in EditorType /\ n.open /\ n.text = ed.local.sig /\ n.base = ed.base /\ ~n.dirty /\ n.offer = ed.offer
       /\ n.read = ed.read /\ n.local.sig = ed.local.sig
  BY <1>6, <1>8, <1>9 DEF EditorType
<1>11. TowerInv' /\ Goes /\ anc[ed.text] \cup {ed.text} \subseteq anc'[ed.local.sig]
  <2>1. row' \in row..Newest /\ UNCHANGED <<heads, recs, counters>>
    BY <1>3, <1>4 DEF TowerInv, tower, Newest
  <2> QED BY <1>3, <1>4, <1>5, <1>6, <2>1, SeenRests
<1>12. draft' \in Drafts' \cup {NoDraft}
  <2>1. d.text \in 1..texts' /\ d.base \in 1..Newest' /\ heads'[d.base] \in anc'[d.text]
    BY <1>3, <1>5, <1>7, <1>11 DEF tower, counters, Newest, OnBase
  <2>2. d.text \in Range(heads') \cup recs' /\ d.sig \in Range(heads') \cup recs'
    BY <1>3, <1>5, <1>7 DEF tower, Kept
  <2> QED BY <1>3, <1>7, <2>1, <2>2 DEF Drafts, OnBase, Kept
<1>13. session' \in BOOLEAN /\ acq' \in 0..MaxVisits
  BY <1>3 DEF DocumentInv, PlaceInv
<1> QED BY <1>3, <1>5, <1>6, <1>7, <1>9, <1>10, <1>12, <1>13, BackTo

\* The draft is written down.
LEMMA DocPersist ==
  ASSUME DocumentInv, Persist
  PROVE  DocumentInv'
<1>1. /\ ed.open /\ ed.disk /\ UNCHANGED <<session, acq, save, disc, last, anc, texts, visits, heads, recs, row>>
      /\ draft' = DraftRow(ed) /\ ed' = [ed EXCEPT !.disk = FALSE, !.local = Local(DraftRow(ed))]
  BY DEF Persist, leasing, history, Stays, tower
<1>2. TowerInv /\ ed \in Editors /\ BaseInv /\ row \in Nat /\ ed \in EditorType
  BY EditorFields DEF DocumentInv, TowerInv
<1>3. PICK d : d = DraftRow(ed)
  OBVIOUS
<1>4. d \in Drafts /\ d \in DraftType /\ d.text = ed.text /\ d.base = ed.base /\ d.sig = ed.local.sig
  <2>1. d \in Drafts /\ d.text = ed.text /\ d.base = ed.base
    BY <1>1, <1>2, <1>3, DraftRows
  <2> QED BY <1>3, <2>1, DraftFacts DEF DraftRow
<1>5. Local(d) \in LocalType /\ Local(d).sig = ed.local.sig
  BY <1>4, Locals
<1>6. Like(ed, ed') /\ ed'.local.sig = ed.local.sig
  BY <1>1, <1>2, <1>3, <1>5 DEF Like, EditorType
<1>7. ed' \in Editors
  BY <1>2, <1>6, SameEditor DEF Like
<1>8. BaseInv'
  BY <1>1, <1>2, <1>3, <1>4, <1>6 DEF BaseInv, Like
<1>9. last' # 0 /\ ~Kept(last) => LatestInv'
  BY <1>1, <1>3, <1>4, <1>6 DEF DocumentInv, LatestInv, Offering, Like
<1>10. Rests
  BY <1>1 DEF Rests, tower, counters, DocumentInv, PlaceInv
<1>11. /\ ed'.open /\ ed'.rec => ed'.offer = NoDraft /\ ~ed'.read
       /\ ed'.open => ed.open /\ (Offering \/ (ed'.offer = NoDraft /\ ~ed'.read))
       /\ ed'.text = ed.text /\ ed'.base = ed.base /\ ed.base \in Int
  BY <1>2, <1>6, EditorFields DEF Like, Offering, DocumentInv, PlaceInv
<1> QED BY <1>1, <1>3, <1>4, <1>7, <1>8, <1>9, <1>10, <1>11, Resting

\* What a save makes of the editor when it looks at the row.
LEMMA Looks ==
  ASSUME TowerInv, NEW e \in Editors, e.open, e.base <= row
  PROVE  LET f == Looked(e)
         IN  /\ f \in Editors /\ f.open /\ f.offer = e.offer /\ (f.read => e.read) /\ f.local = e.local
             /\ f.base <= row /\ e.base <= f.base
             /\ f.dirty => e.dirty /\ f.text = e.text /\ f.base = e.base
             /\ e.dirty => f.text = e.text
             /\ f.dirty => f.text # heads[row]
<1>1. /\ row \in 1..Newest /\ Newest \in Nat /\ row \in Nat /\ row \in Version /\ e \in EditorType /\ e.base \in Nat
      /\ heads[row] \in 1..texts /\ Kept(heads[row]) /\ OnBase(heads[row], row)
  <2>1. row \in 1..Newest /\ Newest \in Nat
    BY DEF TowerInv, Newest
  <2> QED BY <2>1, EditorFields, KeptTexts DEF Version
<1>2. PICK f : f = IF row > e.base THEN [e EXCEPT !.access = "recovery", !.edit = TRUE] ELSE e
  OBVIOUS
<1>3. Like(e, f) /\ f.local = e.local
  BY <1>1, <1>2 DEF Like, EditorType
<1>4. f \in Editors
  BY <1>3, SameEditor DEF Like
<1>5. CASE row > e.base /\ ~e.dirty
  <2>1. Looked(e) = Applied(e, row)
    BY <1>5 DEF Looked
  <2> QED BY <1>1, <1>5, <2>1, Shows
<1>6. CASE ~(row > e.base /\ ~e.dirty) /\ f.text # heads[row]
  <2>1. Looked(e) = f
    BY <1>2, <1>6 DEF Looked
  <2>2. /\ f.open /\ f.offer = e.offer /\ f.read = e.read /\ f.base = e.base /\ f.text = e.text /\ f.dirty = e.dirty
        /\ f.base <= row /\ e.base <= f.base
    BY <1>1, <1>3 DEF Like
  <2> QED BY <1>3, <1>4, <1>6, <2>1, <2>2
<1>7. CASE ~(row > e.base /\ ~e.dirty) /\ f.text = heads[row] /\ (f.rec \/ f.local.rec)
  <2>1. PICK g : g = [f EXCEPT !.dirty = FALSE]
    OBVIOUS
  <2>2. Looked(e) = g
    BY <1>2, <1>7, <2>1 DEF Looked
  <2>3. /\ g \in EditorType /\ g.open /\ g.offer = e.offer /\ g.read = e.read /\ g.local = e.local
        /\ g.base = e.base /\ g.text = e.text /\ ~g.dirty
    BY <1>3, <2>1 DEF Like, EditorType
  <2>4. e.text = heads[row] /\ g.offer \in Drafts \cup {NoDraft} /\ OnBase(e.text, e.base)
        /\ (e.local.sig # 0 => Kept(e.local.sig)) /\ e.text \in 1..texts /\ e.base \in 1..Newest /\ e.base <= Newest
    BY <1>3, <1>7, <2>3, EditorFields DEF Like
  <2>5. g \in Editors
    BY <1>1, <2>3, <2>4 DEF Editors
  <2> QED BY <1>1, <2>2, <2>3, <2>5
<1>8. CASE ~(row > e.base /\ ~e.dirty) /\ f.text = heads[row] /\ ~(f.rec \/ f.local.rec)
  <2>1. PICK a : a = IF f.access = "recovery" THEN "ready" ELSE f.access
    OBVIOUS
  <2>2. PICK g : g = [f EXCEPT !.dirty = FALSE, !.base = row, !.access = a]
    OBVIOUS
  <2>3. Looked(e) = g
    BY <1>2, <1>8, <2>1, <2>2 DEF Looked
  <2>4. a \in {"ready", "acquiring", "editing", "blocked", "recovery"}
    BY <1>3, <2>1 DEF Like, EditorType
  <2>5. /\ g \in EditorType /\ g.open /\ g.offer = e.offer /\ g.read = e.read /\ g.local = e.local
        /\ g.base = row /\ g.text = e.text /\ ~g.dirty
    BY <1>1, <1>3, <2>2, <2>4 DEF Like, EditorType
  <2>6. e.text = heads[row] /\ g.offer \in Drafts \cup {NoDraft} /\ (e.local.sig # 0 => Kept(e.local.sig))
    BY <1>3, <1>8, <2>5, EditorFields DEF Like
  <2>7. g \in Editors
    BY <1>1, <2>5, <2>6 DEF Editors
  <2> QED BY <1>1, <2>3, <2>5, <2>7
<1> QED BY <1>5, <1>6, <1>7, <1>8

\* The editor a save starts from.
Starts(e) == /\ e \in Editors /\ ed.open /\ ~Offering /\ save = NoSave
             /\ e.open /\ e.text = ed.text /\ e.base = ed.base /\ e.dirty = ed.dirty /\ e.offer = ed.offer /\ e.read = ed.read
             /\ UNCHANGED <<acq, disc, history, texts, visits, tower, row>>

LEMMA NoSaveFacts == NoSave \in SaveType /\ NoSave.pc = "none" /\ NoSave.visit = 0 /\ NoSave.base = 0
BY BoundAssumption DEF NoSave, SaveType, Text, Version

\* There is nothing to save.
LEMMA DocSaveClean ==
  ASSUME DocumentInv, NEW e, Starts(e), NEW exit \in BOOLEAN, SaveClean(e, exit)
  PROVE  DocumentInv'
<1>1. /\ TowerInv /\ row \in Nat /\ e \in Editors /\ e.open /\ e.base <= row /\ save.pc = "none"
      /\ e.offer = NoDraft /\ ~e.read
  BY NoSaveFacts DEF Starts, DocumentInv, BaseInv, TowerInv, Offering
<1>2. PICK h : h = Looked(e)
  OBVIOUS
<1>3. /\ h \in Editors /\ h \in EditorType /\ h.open /\ h.offer = NoDraft /\ ~h.read /\ h.local = e.local
      /\ h.base <= row /\ (e.dirty => h.text = e.text)
  <2>1. /\ h \in Editors /\ h.open /\ h.offer = e.offer /\ (h.read => e.read) /\ h.local = e.local
        /\ h.base <= row /\ (e.dirty => h.text = e.text)
    BY <1>1, <1>2, Looks
  <2> QED BY <1>1, <2>1, EditorFields
<1>4. PICK f : f = [h EXCEPT !.busy = FALSE]
  OBVIOUS
<1>5. Like(h, f) /\ f.local = h.local
  BY <1>3, <1>4 DEF Like, EditorType
<1>6. PICK g : g = IF f.rec THEN f ELSE Cleared(f)
  OBVIOUS
<1>7. Like(f, g) /\ g.local \in {f.local, NoLocal}
  <2>1. Like(f, Cleared(f)) /\ Cleared(f).local = NoLocal
    BY <1>5, Handled DEF Like
  <2> QED BY <1>5, <1>6, <2>1 DEF Like
<1>8. ~f.dirty /\ (ed' = ExitDone(g) \/ ed' = g) /\ draft' \in {NoDraft, DraftRow(e), draft} /\ session' \in BOOLEAN /\ save' = save
  BY <1>2, <1>4, <1>6 DEF SaveClean, Release
<1>9. Like(h, ed') /\ ed'.local \in {h.local, NoLocal}
  <2>1. Like(g, ExitDone(g)) /\ ExitDone(g).local = g.local
    BY <1>7, Handled DEF Like
  <2> QED BY <1>5, <1>7, <1>8, <2>1 DEF Like
<1>10. ed' \in Editors
  BY <1>3, <1>9, SameEditor, Locals DEF Like
<1>11. draft' \in Drafts \cup {NoDraft} /\ draft'.base <= row
  BY <1>1, <1>8, DraftRows DEF DocumentInv, BaseInv, NoDraft
<1>12. BaseInv'
  BY <1>1, <1>3, <1>9, <1>11 DEF BaseInv, Starts, Like, NoDraft
<1>13. last' # 0 /\ ~Kept(last) => LatestInv'
  <2>1. SUFFICES ASSUME last # 0, ~Kept(last) PROVE FALSE
    BY DEF Starts, history
  <2>2. ed.dirty /\ ed.text = last
    BY <2>1 DEF DocumentInv, LatestInv, Starts
  <2>3. h.text = last /\ ~h.dirty
    BY <1>3, <1>5, <1>8, <2>2 DEF Starts, Like
  <2> QED BY <1>3, <2>1, <2>3, EditorFields
<1>14. Rests
  BY <1>8 DEF Rests, Starts, counters, history, DocumentInv, PlaceInv
<1>15. ed'.open /\ ed'.offer = NoDraft /\ ~ed'.read /\ ed.open /\ last' = last /\ disc' = disc
  BY <1>3, <1>9 DEF Like, Starts, history
<1> QED BY <1>1, <1>8, <1>10, <1>11, <1>12, <1>13, <1>14, <1>15, Resting

\* The draft is written down, and the save begins unless it lacks a lease.
LEMMA DocSaveDirty ==
  ASSUME DocumentInv, NEW e, Starts(e), NEW exit \in BOOLEAN, SaveDirty(e, exit)
  PROVE  DocumentInv'
<1>1. /\ TowerInv /\ row \in Nat /\ row <= Newest /\ Newest \in Nat /\ e \in Editors /\ e.open /\ e.base <= row /\ e.base \in Nat
      /\ save.pc = "none" /\ e.offer = NoDraft /\ ~e.read /\ visits \in Nat /\ visits \in 0..MaxVisits
  <2>1. TowerInv /\ e \in Editors /\ e.open /\ e.base <= row /\ save.pc = "none" /\ e.offer = NoDraft /\ ~e.read
    BY NoSaveFacts DEF Starts, DocumentInv, BaseInv, Offering
  <2> QED BY <2>1, EditorFields, BoundAssumption DEF TowerInv, Newest
<1>2. PICK h : h = Looked(e)
  OBVIOUS
<1>3. h.dirty
  BY <1>2 DEF SaveDirty
<1>4. /\ h \in Editors /\ h \in EditorType /\ h.open /\ h.offer = NoDraft /\ ~h.read /\ h.local = e.local
      /\ h.text = e.text /\ h.base = e.base /\ e.dirty /\ h.text # heads[row]
  <2>1. /\ h \in Editors /\ h.open /\ h.offer = e.offer /\ (h.read => e.read) /\ h.local = e.local
        /\ h.text = e.text /\ h.base = e.base /\ e.dirty /\ h.text # heads[row]
    BY <1>1, <1>2, <1>3, Looks
  <2> QED BY <1>1, <2>1, EditorFields
<1>5. PICK f : f = IF Preserved(h) THEN [h EXCEPT !.dirty = FALSE, !.busy = FALSE] ELSE h
  OBVIOUS
<1>6. /\ f \in EditorType /\ f.open /\ f.offer = NoDraft /\ ~f.read /\ f.local = h.local /\ f.text = e.text /\ f.base = e.base
      /\ f.dirty = ~Preserved(h)
  BY <1>3, <1>4, <1>5 DEF EditorType
<1>7. f \in Editors /\ (~f.dirty => Kept(f.text))
  <2>1. /\ h.base \in 1..Newest /\ h.base <= Newest /\ h.text \in 1..texts /\ OnBase(h.text, h.base)
        /\ h.local.sig # 0 => Kept(h.local.sig)
    BY <1>4, EditorFields
  <2>2. ~f.dirty => Kept(f.text)
    <3>1. Preserved(h) => h.local.sig = h.text
      BY DEF Preserved
    <3>2. h.text # 0
      BY <2>1
    <3> QED BY <1>4, <1>6, <2>1, <3>1, <3>2
  <2> QED BY <1>4, <1>6, <2>1, <2>2 DEF Editors
<1>8. PICK d : d = DraftRow(f)
  OBVIOUS
<1>9. d \in Drafts /\ d \in DraftType /\ d.text = f.text /\ d.base = f.base /\ d.sig = f.local.sig
  <2>1. d \in Drafts /\ d.text = f.text /\ d.base = f.base
    BY <1>1, <1>6, <1>7, <1>8, DraftRows
  <2> QED BY <1>8, <2>1, DraftFacts DEF DraftRow
<1>10. PICK needs \in BOOLEAN : needs = (row <= e.base /\ e.access # "recovery")
  OBVIOUS
<1>11. PICK sends \in BOOLEAN : sends = (f.dirty /\ (needs => session))
  OBVIOUS
<1>12. PICK busy \in BOOLEAN : busy = IF f.dirty THEN sends ELSE f.busy
  BY <1>6, <1>11 DEF EditorType
<1>13. ed' = [f EXCEPT !.local = Local(d), !.busy = busy] /\ draft' = d
  BY <1>2, <1>5, <1>8, <1>10, <1>11, <1>12 DEF SaveDirty
<1>14. save' = (IF sends THEN [pc |-> "upload", visit |-> visits, text |-> f.text, base |-> e.base, needs |-> needs, exit |-> exit]
                ELSE save) /\ session' = session
  BY <1>2, <1>5, <1>10, <1>11 DEF SaveDirty
<1>15. Like(f, ed') /\ ed'.local.sig = f.local.sig
  <2>1. Local(d) \in LocalType /\ Local(d).sig = f.local.sig
    BY <1>9, Locals
  <2>2. ed' \in EditorType /\ ed'.local = Local(d)
    BY <1>6, <1>13, <2>1 DEF EditorType
  <2> QED BY <1>6, <1>13, <2>1, <2>2 DEF Like, EditorType
<1>16. ed' \in Editors
  BY <1>7, <1>15, SameEditor DEF Like
<1>17. BaseInv'
  BY <1>1, <1>6, <1>9, <1>13, <1>15 DEF BaseInv, Starts, Like, NoDraft
<1>18. last' # 0 /\ ~Kept(last) => LatestInv'
  <2>1. SUFFICES ASSUME last # 0, ~Kept(last) PROVE LatestInv'
    BY DEF Starts, history
  <2>2. ed.text = last
    BY <2>1 DEF DocumentInv, LatestInv, Starts
  <2>3. f.text = last /\ f.dirty
    BY <1>6, <1>7, <2>1, <2>2 DEF Starts
  <2> QED BY <1>6, <1>9, <1>13, <1>15, <2>3 DEF LatestInv, Like, Offering, Starts, history
<1>19. Rests
  BY <1>14 DEF Rests, Starts, counters, history, DocumentInv, PlaceInv
<1>20. ed'.open /\ ed'.offer = NoDraft /\ ~ed'.read /\ ed.open /\ last' = last /\ disc' = disc
  BY <1>6, <1>15 DEF Like, Starts, history
<1>21. CASE ~sends
  BY <1>1, <1>9, <1>13, <1>14, <1>16, <1>17, <1>18, <1>19, <1>20, <1>21, Resting
<1>22. CASE sends
  <2>1. /\ TowerInv' /\ Goes /\ draft' \in Drafts' \cup {NoDraft} /\ ed' \in Editors' /\ LatestInv' /\ PlaceInv'
        /\ NoBlindOverwrite'
    BY <1>9, <1>13, <1>16, <1>18, <1>19, <1>20, Restful
  <2>2. heads' = heads /\ recs' = recs /\ row' = row /\ visits' = visits /\ texts' = texts /\ anc' = anc
    BY <1>19 DEF Rests, tower, counters
  <2>3. save' = [pc |-> "upload", visit |-> visits, text |-> f.text, base |-> e.base, needs |-> needs, exit |-> exit]
    BY <1>14, <1>22
  <2>4. save'.pc = "upload" /\ save'.visit = visits /\ save'.text = f.text /\ save'.base = e.base /\ save'.needs = needs
    BY <2>3
  <2>5. f.text \in Text /\ e.base \in 1..Newest /\ f.text \in 1..texts /\ OnBase(f.text, e.base) /\ e.base \in Version
    BY <1>1, <1>6, <1>7, EditorFields DEF Version
  <2>6. save' \in SaveType
    BY <1>1, <2>3, <2>5 DEF SaveType
  <2>7. needs => f.text # heads[e.base]
    <3>1. needs => row <= e.base
      BY <1>10
    <3>2. row <= e.base => row = e.base
      BY <1>1
    <3> QED BY <1>4, <1>6, <3>1, <3>2
  <2>8. /\ save'.base \in 1..Newest' /\ save'.text \in 1..texts' /\ OnBase(save.text, save.base)'
        /\ save'.needs => save'.text # heads'[save'.base]
    BY <2>2, <2>4, <2>5, <2>7 DEF OnBase, Newest
  <2>9. ~Offering' /\ Made(ed.text, save.text)' /\ ed'.base = save'.base /\ From' = e.base
    BY <1>6, <1>15, <1>20, <2>4 DEF Offering, Made, From, Like
  <2>10. From' <= row' /\ ed'.base >= From' /\ save'.visit <= visits' /\ save'.base <= Newest'
    BY <1>1, <2>2, <2>4, <2>8, <2>9 DEF Newest
  <2>11. SaveInv'
    BY <2>4, <2>6, <2>8, <2>9, <2>10 DEF SaveInv
  <2> QED BY <1>17, <2>1, <2>11 DEF DocumentInv
<1> QED BY <1>21, <1>22

\* The autosave timer.
LEMMA DocAutosave ==
  ASSUME DocumentInv, Autosave
  PROVE  DocumentInv'
<1>1. PICK e : e = [ed EXCEPT !.timer = FALSE]
  OBVIOUS
<1>2. /\ ed.open /\ save = NoSave /\ UNCHANGED <<acq, disc, history, texts, visits, tower, row>>
      /\ IF Offering THEN ed' = e /\ UNCHANGED <<draft, session, save>>
         ELSE SaveClean(e, FALSE) \/ SaveDirty(e, FALSE)
  BY <1>1 DEF Autosave, Stays
<1>3. ed \in Editors /\ ed \in EditorType
  BY EditorFields DEF DocumentInv
<1>4. Like(ed, e) /\ e.local = ed.local /\ e.disk = ed.disk
  BY <1>1, <1>3 DEF Like, EditorType
<1>5. CASE Offering
  BY <1>2, <1>4, <1>5, EditorLike DEF tower, counters, DocumentInv, PlaceInv
<1>6. CASE ~Offering
  <2>1. e \in Editors
    BY <1>3, <1>4, SameEditor DEF Like
  <2>2. Starts(e)
    BY <1>2, <1>4, <1>6, <2>1 DEF Starts, Like
  <2> QED BY <1>2, <1>6, <2>2, DocSaveClean, DocSaveDirty
<1> QED BY <1>5, <1>6

\* The Save button.
LEMMA DocSaveAndExit ==
  ASSUME DocumentInv, SaveAndExit
  PROVE  DocumentInv'
<1>1. PICK d : d = DraftRow(ed)
  OBVIOUS
<1>2. PICK e : e = [ed EXCEPT !.local = Local(d)]
  OBVIOUS
<1>3. /\ ed.open /\ save = NoSave /\ ~Offering /\ UNCHANGED <<acq, disc, history, texts, visits, tower, row>>
      /\ SaveClean(e, TRUE) \/ SaveDirty(e, TRUE)
  BY <1>1, <1>2 DEF SaveAndExit, Stays
<1>4. ed \in Editors /\ ed \in EditorType /\ TowerInv
  BY EditorFields DEF DocumentInv
<1>5. d \in DraftType /\ d.sig = ed.local.sig
  BY <1>1, <1>3, <1>4, DraftRows, DraftFacts DEF DraftRow
<1>6. Local(d) \in LocalType /\ Local(d).sig = ed.local.sig
  BY <1>5, Locals
<1>7. Like(ed, e) /\ e.local.sig = ed.local.sig
  BY <1>2, <1>4, <1>6 DEF Like, EditorType
<1>8. e \in Editors
  BY <1>4, <1>7, SameEditor DEF Like
<1>9. Starts(e)
  BY <1>3, <1>7, <1>8 DEF Starts, Like
<1> QED BY <1>3, <1>9, DocSaveClean, DocSaveDirty

\* What is known of a save under way.
LEMMA SaveFields ==
  ASSUME DocumentInv
  PROVE  /\ TowerInv /\ Newest \in Nat /\ row \in 1..Newest /\ row \in Nat /\ texts \in Nat /\ visits \in Nat
         /\ save \in SaveType /\ save.base \in Nat /\ save.visit \in Nat /\ save.visit <= visits /\ save.base <= Newest
         /\ save.pc # "none" => /\ save.base \in 1..Newest /\ save.text \in 1..texts /\ OnBase(save.text, save.base)
                                /\ Current => ~Offering
                                /\ save.needs => save.text # heads[save.base]
         /\ save.pc = "accepted" => save.base > 1 /\ save.text = heads[save.base]
         /\ save.pc = "preserved" => save.text \in recs
         /\ save.pc # "error" => From <= row
         /\ Live /\ Current => Made(ed.text, save.text) /\ ed.base >= From
BY BoundAssumption DEF DocumentInv, SaveInv, SaveType, TowerInv, Newest, Version

\* A request that comes to nothing more: the save is no longer one that Tower accepts.
LEMMA SaveEnds ==
  ASSUME DocumentInv, save.pc # "none", NEW p \in {"preserved", "stale", "error"}, NEW n \in BOOLEAN,
         save' = [save EXCEPT !.pc = p, !.needs = n], n => save.needs,
         UNCHANGED <<heads, row, ed, anc, counters>>, p = "preserved" => save.pc = "upload" /\ save.text \in recs',
         p = "stale" => save.pc = "upload"
  PROVE  SaveInv'
<1>1. /\ save' \in SaveType /\ save'.pc = p /\ save'.needs = n /\ save'.base = save.base /\ save'.text = save.text
      /\ save'.visit = save.visit
  BY SaveFields DEF SaveType
<1>2. visits' = visits /\ texts' = texts /\ heads' = heads /\ anc' = anc /\ row' = row /\ ed' = ed
  BY DEF counters
<1>3. /\ save'.visit <= visits' /\ save'.base <= Newest' /\ save'.base \in 1..Newest' /\ save'.text \in 1..texts'
      /\ OnBase(save.text, save.base)'
  BY <1>1, <1>2, SaveFields DEF Newest, OnBase
<1>4. (Current' => ~Offering') /\ (save'.needs => save'.text # heads'[save'.base])
  BY <1>1, <1>2, SaveFields DEF Current, Offering
<1>5. save'.pc # "error" => From' <= row'
  BY <1>1, <1>2, SaveFields DEF From
<1>6. save'.pc = "preserved" => save'.text \in recs'
  BY <1>1
<1>7. ~Live' /\ save'.pc # "accepted"
  BY <1>1 DEF Live
<1> QED BY <1>1, <1>3, <1>4, <1>5, <1>6, <1>7 DEF SaveInv

\* The request reaches Tower.
LEMMA DocSaveSubmit ==
  ASSUME DocumentInv, SaveSubmit
  PROVE  DocumentInv'
<1>1. /\ save.pc = "upload" /\ UNCHANGED <<row, draft, ed, session, acq, disc, last, anc, counters, texts, visits>>
      /\ row' = row /\ session' \in BOOLEAN /\ acq' \in 0..MaxVisits
  BY DEF SaveSubmit, leasing, history, counters, DocumentInv, PlaceInv
<1>2. /\ TowerInv /\ Newest \in Nat /\ save.base \in 1..Newest /\ save.text \in 1..texts /\ heads \in Seq(1..texts)
      /\ recs \subseteq 1..texts /\ DOMAIN heads = 1..Newest /\ row \in 1..Newest /\ row \in Nat /\ texts \in Nat /\ visits \in Nat
  BY <1>1, SaveFields DEF TowerInv, Newest
<1>3. CASE /\ save.base = Newest /\ save.needs
           /\ heads' = Append(heads, save.text) /\ recs' = recs
           /\ save' = [save EXCEPT !.pc = "accepted", !.base = Newest + 1, !.needs = FALSE]
  <2>1. Newest' = Newest + 1 /\ heads'[Newest + 1] = save.text /\ \A i \in 1..Newest : heads'[i] = heads[i]
    BY <1>2, <1>3 DEF Newest
  <2>2. TowerInv'
    BY <1>1, <1>2, <1>3, <2>1 DEF TowerInv
  <2>3. Goes
    BY <1>1, <1>2, <1>3, <2>1 DEF Goes, Newest
  <2>4. draft' \in Drafts' \cup {NoDraft} /\ ed' \in Editors' /\ BaseInv' /\ LatestInv' /\ PlaceInv'
    BY <1>1, <2>2, <2>3, Quiet
  <2>5. heads[Newest] \in anc[save.text]
    BY <1>1, <1>3, SaveFields DEF OnBase
  <2>6. NoBlindOverwrite'
    <3>1. SUFFICES ASSUME NEW i \in 2..(Newest + 1) PROVE heads'[i - 1] \in anc'[heads'[i]]
      BY <2>1 DEF NoBlindOverwrite
    <3>2. CASE i = Newest + 1
      <4>1. Newest \in 1..Newest /\ i - 1 = Newest
        BY <1>2, <3>2
      <4> QED BY <1>1, <2>1, <2>5, <3>2, <4>1
    <3>3. CASE i # Newest + 1
      <4>1. i \in 2..Newest /\ i - 1 \in 1..Newest /\ i \in 1..Newest
        BY <1>2, <3>3
      <4>2. heads[i - 1] \in anc[heads[i]]
        BY <4>1 DEF DocumentInv, NoBlindOverwrite
      <4> QED BY <1>1, <2>1, <4>1, <4>2
    <3> QED BY <3>2, <3>3
  <2>7. /\ save' \in SaveType /\ save'.pc = "accepted" /\ save'.base = Newest + 1 /\ ~save'.needs /\ save'.text = save.text
        /\ save'.visit = save.visit
    <3>1. Newest + 1 \in Version
      BY <1>2 DEF Version
    <3> QED BY <1>3, <3>1, SaveFields DEF SaveType
  <2>8. Live /\ From = Newest /\ From <= row
    BY <1>1, <1>3, SaveFields DEF Live, From
  <2>9. /\ save'.base \in 1..Newest' /\ save'.base <= Newest' /\ save'.base > 1 /\ save'.text \in 1..texts' /\ save'.text = heads'[save'.base]
        /\ OnBase(save.text, save.base)'
    BY <1>1, <1>2, <2>1, <2>7 DEF OnBase
  <2>10. Current' <=> Current
    BY <1>1, <2>7 DEF Current
  <2>11. Current' => ~Offering'
    BY <1>1, <2>10, SaveFields DEF Offering
  <2>12. From' = Newest /\ From' <= row'
    BY <1>1, <1>2, <2>7, <2>8 DEF From
  <2>13. Current' => Made(ed.text, save.text)' /\ ed'.base >= From'
    BY <1>1, <2>7, <2>8, <2>10, <2>12, SaveFields DEF Made
  <2>14. save'.visit <= visits'
    BY <1>1, <2>7, SaveFields
  <2>15. SaveInv'
    BY <2>7, <2>9, <2>11, <2>12, <2>13, <2>14 DEF SaveInv
  <2> QED BY <2>2, <2>4, <2>6, <2>15 DEF DocumentInv
<1>4. CASE /\ save.base < Newest /\ recs' = recs \cup {save.text} /\ heads' = heads
           /\ save' = [save EXCEPT !.pc = "preserved", !.needs = FALSE]
  <2>1. TowerInv'
    BY <1>1, <1>2, <1>4 DEF TowerInv, Newest
  <2>2. Goes
    BY <1>1, <1>2, <1>4 DEF Goes, Newest
  <2>3. draft' \in Drafts' \cup {NoDraft} /\ ed' \in Editors' /\ BaseInv' /\ LatestInv' /\ PlaceInv'
    BY <1>1, <2>1, <2>2, Quiet
  <2>4. SaveInv'
    BY <1>1, <1>4, SaveEnds
  <2>5. NoBlindOverwrite'
    BY <1>2, <1>4, <2>1, <2>2, Remembered DEF DocumentInv
  <2> QED BY <2>1, <2>3, <2>4, <2>5 DEF DocumentInv
<1>5. CASE /\ heads' = heads /\ recs' = recs
           /\ save' = [save EXCEPT !.pc = IF save.base < Newest THEN "stale" ELSE "error", !.needs = FALSE]
  <2>1. TowerInv' /\ Goes
    BY <1>1, <1>2, <1>5, TowerRests DEF tower
  <2>2. draft' \in Drafts' \cup {NoDraft} /\ ed' \in Editors' /\ BaseInv' /\ LatestInv' /\ PlaceInv'
    BY <1>1, <2>1, Quiet
  <2>3. PICK p \in {"stale", "error"} : save' = [save EXCEPT !.pc = p, !.needs = FALSE]
    BY <1>5
  <2>4. SaveInv'
    BY <1>1, <1>5, <2>3, SaveEnds
  <2>5. NoBlindOverwrite'
    BY <1>2, <1>5, <2>1, Remembered DEF DocumentInv
  <2> QED BY <2>1, <2>2, <2>4, <2>5 DEF DocumentInv
<1> QED BY <1>3, <1>4, <1>5 DEF SaveSubmit

\* A request or its answer is lost.
LEMMA DocLose ==
  ASSUME DocumentInv, Lose
  PROVE  DocumentInv'
<1>1. /\ UNCHANGED <<tower, row, draft, ed, session, acq, last, anc, counters>>
      /\ session' \in BOOLEAN /\ acq' \in 0..MaxVisits /\ disc' \in {disc, "none"}
  BY DEF Lose, leasing, history, counters, DocumentInv, PlaceInv
<1>2. TowerInv /\ TowerInv' /\ Goes /\ heads' = heads /\ row' = row /\ row \in Nat
  BY <1>1, TowerRests DEF tower, DocumentInv, TowerInv
<1>3. draft' \in Drafts' \cup {NoDraft} /\ ed' \in Editors' /\ BaseInv' /\ LatestInv' /\ PlaceInv'
  BY <1>1, <1>2, Quiet
<1>4. NoBlindOverwrite'
  BY <1>2, Remembered DEF DocumentInv
<1>5. CASE save.pc \in {"upload", "accepted", "preserved", "stale"} /\ save' = [save EXCEPT !.pc = "error"]
  <2>1. save' = [save EXCEPT !.pc = "error", !.needs = save.needs] /\ save.needs \in BOOLEAN
    BY <1>5, SaveFields DEF SaveType
  <2>2. SaveInv'
    BY <1>1, <1>2, <1>5, <2>1, SaveEnds
  <2> QED BY <1>2, <1>3, <1>4, <2>2 DEF DocumentInv
<1>6. CASE save' = save
  <2>1. Continues
    <3>1. Live' => Live
      BY <1>1, <1>2, <1>6 DEF Live, Newest
    <3>2. Live /\ save.visit = visits /\ ed.open => ed.base >= From
      BY DEF DocumentInv, SaveInv, Current
    <3> QED BY <1>1, <3>1, <3>2 DEF Continues, Follows, Offering
  <2> QED BY <1>1, <1>2, <1>3, <1>6, <2>1, EditorStep DEF counters
<1> QED BY <1>5, <1>6 DEF Lose

\* No save is under way.
LEMMA NoSaveInv ==
  ASSUME TowerInv', save' = NoSave
  PROVE  SaveInv'
<1>1. /\ save' \in SaveType /\ save'.pc = "none" /\ save'.visit = 0 /\ save'.base = 0
  BY NoSaveFacts
<1>2. visits' >= 0 /\ Newest' >= 0 /\ row' >= 0
  BY DEF TowerInv, Newest
<1>3. ~Live' /\ From' = 0
  BY <1>1 DEF Live, From
<1> QED BY <1>1, <1>2, <1>3 DEF SaveInv

\* The page is gone.
LEMMA DocCrash ==
  ASSUME DocumentInv, Crash
  PROVE  DocumentInv'
<1>1. /\ ed' = Closed /\ session' = FALSE /\ acq' = 0 /\ save' = NoSave /\ disc' = "none" /\ draft' = draft
      /\ UNCHANGED <<tower, row, anc, counters>> /\ last' = IF Durable(last) THEN last ELSE 0
  BY DEF Crash, counters
<1>2. TowerInv /\ BaseInv /\ row \in Nat /\ draft \in Drafts \cup {NoDraft}
  BY DEF DocumentInv, TowerInv
<1>3. Closed \in Editors
  <2>1. Closed.local.sig = 0
    BY ClosedFacts, Locals
  <2>2. Closed.base <= Newest
    BY <1>2, ClosedFacts DEF TowerInv, Newest
  <2> QED BY <2>1, <2>2, ClosedFacts DEF Editors
<1>4. Rests
  <2>1. acq' \in 0..MaxVisits
    BY <1>1, BoundAssumption
  <2>2. session' \in BOOLEAN
    BY <1>1
  <2> QED BY <1>1, <2>1, <2>2 DEF Rests
<1>5. last' # 0 /\ ~Kept(last) => LatestInv'
  BY <1>1, ClosedFacts DEF LatestInv, Durable, Kept
<1>6. /\ TowerInv' /\ Goes /\ draft' \in Drafts' \cup {NoDraft} /\ ed' \in Editors' /\ LatestInv' /\ PlaceInv'
      /\ NoBlindOverwrite'
  BY <1>1, <1>2, <1>3, <1>4, <1>5, ClosedFacts, Restful
<1>7. BaseInv'
  BY <1>1, <1>2, ClosedFacts DEF BaseInv, NoDraft
<1> QED BY <1>1, <1>6, <1>7, NoSaveInv DEF DocumentInv

\* The save failed, or the document had moved on.
LEMMA DocSaveFailed ==
  ASSUME DocumentInv, SaveFailed, save' = NoSave, UNCHANGED <<tower, acq, disc, anc, counters>>
  PROVE  DocumentInv'
<1>1. /\ TowerInv /\ BaseInv /\ row \in Nat /\ ed \in Editors /\ ed \in EditorType /\ draft \in Drafts \cup {NoDraft}
      /\ save.pc # "none"
  BY EditorFields, SaveFields DEF DocumentInv, SaveFailed
<1>2. UNCHANGED <<row, last>> /\ session' \in BOOLEAN
  BY DEF SaveFailed, Release, DocumentInv, PlaceInv
<1>3. Rests
  BY <1>2 DEF Rests, DocumentInv, PlaceInv
<1>4. CASE ~Current
  <2>1. ed' = ed /\ draft' = draft
    BY <1>4 DEF SaveFailed
  <2>2. /\ TowerInv' /\ Goes /\ draft' \in Drafts' \cup {NoDraft} /\ ed' \in Editors' /\ LatestInv' /\ PlaceInv'
        /\ NoBlindOverwrite'
    <3>1. last' # 0 /\ ~Kept(last) => LatestInv'
      BY <1>2, <2>1 DEF DocumentInv, LatestInv, Offering
    <3>2. ed'.open /\ ed'.rec => ed'.offer = NoDraft /\ ~ed'.read
      BY <2>1 DEF DocumentInv, PlaceInv, Offering
    <3> QED BY <1>1, <1>2, <1>3, <2>1, <3>1, <3>2, Restful
  <2>3. BaseInv'
    BY <1>1, <1>2, <2>1 DEF BaseInv
  <2> QED BY <2>2, <2>3, NoSaveInv DEF DocumentInv
<1>5. CASE Current
  <2>1. PICK e : e = IF save.pc = "stale" THEN [ed EXCEPT !.access = "recovery", !.edit = TRUE] ELSE ed
    OBVIOUS
  <2>2. PICK d : d = DraftRow(e)
    OBVIOUS
  <2>3. ed' = [e EXCEPT !.local = Local(d), !.busy = FALSE] /\ draft' = d
    BY <1>5, <2>1, <2>2 DEF SaveFailed
  <2>4. ed.open /\ ~Offering
    BY <1>1, <1>5, SaveFields DEF Current
  <2>5. Like(ed, e) /\ e.local = ed.local
    BY <1>1, <2>1 DEF Like, EditorType
  <2>6. e \in Editors
    BY <1>1, <2>5, SameEditor DEF Like
  <2>7. d \in Drafts /\ d \in DraftType /\ d.text = ed.text /\ d.base = ed.base /\ d.sig = ed.local.sig
    <3>1. d \in Drafts /\ d.text = e.text /\ d.base = e.base
      BY <1>1, <2>2, <2>4, <2>5, <2>6, DraftRows DEF Like
    <3> QED BY <2>2, <2>5, <3>1, DraftFacts DEF DraftRow, Like
  <2>8. Local(d) \in LocalType /\ Local(d).sig = ed.local.sig
    BY <2>7, Locals
  <2>9. Like(ed, ed') /\ ed'.local.sig = ed.local.sig
    BY <2>3, <2>5, <2>8 DEF Like, EditorType
  <2>10. ed' \in Editors
    BY <1>1, <2>9, SameEditor DEF Like
  <2>11. last' # 0 /\ ~Kept(last) => LatestInv'
    BY <1>2, <2>3, <2>4, <2>7, <2>9 DEF DocumentInv, LatestInv, Offering, Like
  <2>12. ed'.offer = NoDraft /\ ~ed'.read
    BY <2>4, <2>9 DEF Like, Offering
  <2>13. /\ TowerInv' /\ Goes /\ draft' \in Drafts' \cup {NoDraft} /\ ed' \in Editors' /\ LatestInv' /\ PlaceInv'
         /\ NoBlindOverwrite'
    BY <1>2, <1>3, <2>3, <2>7, <2>10, <2>11, <2>12, Restful
  <2>14. BaseInv'
    BY <1>1, <1>2, <2>3, <2>7, <2>9 DEF BaseInv, Like
  <2> QED BY <2>13, <2>14, NoSaveInv DEF DocumentInv
<1> QED BY <1>4, <1>5

\* Tower kept the text as a recovery.
LEMMA DocSavePreserved ==
  ASSUME DocumentInv, SavePreserved, save' = NoSave, UNCHANGED <<tower, acq, disc, anc, counters>>
  PROVE  DocumentInv'
<1>1. /\ TowerInv /\ BaseInv /\ row \in Nat /\ ed \in Editors /\ ed \in EditorType /\ draft \in Drafts \cup {NoDraft}
      /\ save.pc = "preserved" /\ save.text \in recs /\ save.text \in 1..texts /\ save.base \in 1..Newest
      /\ OnBase(save.text, save.base) /\ save.base <= row /\ save.text \in Text /\ save.base \in Version
  BY EditorFields, SaveFields DEF DocumentInv, SavePreserved, From, SaveType
<1>2. UNCHANGED <<row, last>> /\ session' \in BOOLEAN /\ Kept(save.text)
  BY <1>1 DEF SavePreserved, Release, DocumentInv, PlaceInv, Kept
<1>3. Rests
  BY <1>2 DEF Rests, DocumentInv, PlaceInv
<1>4. CASE ~Current
  <2>1. PICK old : old = IF draft # NoDraft THEN draft ELSE [NoDraft EXCEPT !.text = save.text, !.base = save.base]
    OBVIOUS
  <2>2. ed' = ed /\ draft' = [old EXCEPT !.rec = TRUE, !.saved = FALSE]
    BY <1>4, <2>1 DEF SavePreserved
  <2>3. /\ old \in DraftType /\ old.base \in 1..Newest /\ old.text \in 1..texts /\ OnBase(old.text, old.base)
        /\ old.sig # 0 => Kept(old.sig)
        /\ old.base <= row /\ (draft # NoDraft => old.text = draft.text)
    <3>1. CASE draft # NoDraft
      BY <1>1, <2>1, <3>1, DraftFacts DEF BaseInv
    <3>2. CASE draft = NoDraft
      <4>1. PICK n \in DraftType : n = NoDraft /\ n.sig = 0
        BY DraftFacts
      <4>2. old = [n EXCEPT !.text = save.text, !.base = save.base]
        BY <2>1, <3>2, <4>1
      <4>3. old \in DraftType /\ old.text = save.text /\ old.base = save.base /\ old.sig = 0
        BY <1>1, <4>1, <4>2 DEF DraftType
      <4> QED BY <1>1, <3>2, <4>3
    <3> QED BY <3>1, <3>2
  <2>4. /\ draft' \in DraftType /\ draft'.base = old.base /\ draft'.text = old.text /\ draft'.sig = old.sig /\ ~draft'.saved
    BY <2>2, <2>3 DEF DraftType
  <2>5. draft' \in Drafts
    BY <2>3, <2>4 DEF Drafts
  <2>6. last' # 0 /\ ~Kept(last) => LatestInv'
    <3>1. SUFFICES ASSUME last # 0, ~Kept(last) PROVE LatestInv'
      BY <1>2
    <3>2. draft.text = last => draft'.text = last
      BY <2>3, <2>4, <3>1, DraftFacts
    <3> QED BY <1>2, <2>2, <3>1, <3>2 DEF DocumentInv, LatestInv, Offering
  <2>7. ed'.open /\ ed'.rec => ed'.offer = NoDraft /\ ~ed'.read
    BY <2>2 DEF DocumentInv, PlaceInv, Offering
  <2>8. /\ TowerInv' /\ Goes /\ draft' \in Drafts' \cup {NoDraft} /\ ed' \in Editors' /\ LatestInv' /\ PlaceInv'
        /\ NoBlindOverwrite'
    BY <1>1, <1>2, <1>3, <2>2, <2>5, <2>6, <2>7, Restful
  <2>9. BaseInv'
    BY <1>1, <1>2, <2>2, <2>3, <2>4 DEF BaseInv
  <2> QED BY <2>8, <2>9, NoSaveInv DEF DocumentInv
<1>5. CASE Current
  <2>1. PICK dirty \in BOOLEAN : dirty = (ed.text # save.text)
    OBVIOUS
  <2>2. PICK e : e = [ed EXCEPT !.rec = TRUE, !.access = "recovery", !.edit = TRUE, !.dirty = dirty, !.busy = dirty]
    OBVIOUS
  <2>3. PICK d : d = [DraftRow(e) EXCEPT !.sig = save.text]
    OBVIOUS
  <2>4. PICK f : f = [e EXCEPT !.local = Local(d)]
    OBVIOUS
  <2>5. (ed' = IF dirty THEN Schedule(f) ELSE f) /\ draft' = d
    BY <1>5, <2>1, <2>2, <2>3, <2>4 DEF SavePreserved
  <2>6. ed.open /\ ~Offering /\ ed.offer = NoDraft /\ ~ed.read
    BY <1>1, <1>5, SaveFields DEF Current, Offering
  <2>7. /\ ed.base \in 1..Newest /\ ed.base <= Newest /\ ed.text \in 1..texts /\ OnBase(ed.text, ed.base)
        /\ ed.local.sig # 0 => Kept(ed.local.sig)
    BY <1>1, <2>6, EditorFields
  <2>8. /\ e \in EditorType /\ e.open /\ e.text = ed.text /\ e.base = ed.base /\ e.dirty = dirty /\ e.rec
        /\ e.offer = NoDraft /\ ~e.read /\ e.local = ed.local
    <3>1. e \in EditorType
      BY <1>1, <2>1, <2>2 DEF EditorType
    <3>2. /\ e.open = ed.open /\ e.text = ed.text /\ e.base = ed.base /\ e.dirty = dirty /\ e.rec
          /\ e.offer = ed.offer /\ e.read = ed.read /\ e.local = ed.local
      BY <1>1, <2>2 DEF EditorType
    <3> QED BY <3>1, <3>2, <2>6
  <2>9. ~dirty => Kept(ed.text)
    BY <1>2, <2>1
  <2>10. e \in Editors
    BY <2>7, <2>8, <2>9 DEF Editors
  <2>11. PICK r : r = DraftRow(e)
    OBVIOUS
  <2>12. /\ r \in DraftType /\ r.base \in 1..Newest /\ r.text \in 1..texts /\ OnBase(r.text, r.base)
         /\ r.saved => Kept(r.text)
         /\ r.text = ed.text /\ r.base = ed.base
    <3>1. r \in Drafts /\ r.text = ed.text /\ r.base = ed.base
      BY <1>1, <2>8, <2>10, <2>11, DraftRows
    <3> QED BY <3>1, DraftFacts
  <2>13. d \in DraftType /\ d.base = r.base /\ d.text = r.text /\ d.saved = r.saved /\ d.sig = save.text
    BY <1>1, <2>3, <2>11, <2>12 DEF DraftType
  <2>14. d \in Drafts
    BY <1>2, <2>12, <2>13 DEF Drafts
  <2>15. Local(d) \in LocalType /\ Local(d).sig = save.text
    BY <2>13, Locals
  <2>16. /\ f \in EditorType /\ f.open /\ f.text = ed.text /\ f.base = ed.base /\ f.dirty = dirty
         /\ f.offer = NoDraft /\ ~f.read /\ f.local.sig = save.text
    BY <2>4, <2>8, <2>15 DEF EditorType
  <2>17. f \in Editors
    BY <1>2, <2>7, <2>9, <2>16 DEF Editors
  <2>18. Like(f, ed') /\ ed'.local = f.local /\ (dirty => ed'.disk)
    <3>1. Like(f, Schedule(f)) /\ Schedule(f).local = f.local /\ Schedule(f).disk
      BY <2>16, Handled
    <3> QED BY <2>5, <2>16, <3>1 DEF Like
  <2>19. ed' \in Editors
    BY <2>17, <2>18, SameEditor DEF Like
  <2>20. /\ ed'.open /\ ed'.text = ed.text /\ ed'.base = ed.base /\ ed'.dirty = dirty /\ ed'.offer = NoDraft /\ ~ed'.read
    BY <2>16, <2>18 DEF Like
  <2>21. last' # 0 /\ ~Kept(last) => LatestInv'
    <3>1. SUFFICES ASSUME last # 0, ~Kept(last) PROVE LatestInv'
      BY <1>2
    <3>2. ed.text = last
      BY <2>6, <3>1 DEF DocumentInv, LatestInv
    <3> QED BY <1>2, <2>9, <2>18, <2>20, <3>1, <3>2 DEF LatestInv, Offering
  <2>22. /\ TowerInv' /\ Goes /\ draft' \in Drafts' \cup {NoDraft} /\ ed' \in Editors' /\ LatestInv' /\ PlaceInv'
         /\ NoBlindOverwrite'
    BY <1>2, <1>3, <2>5, <2>14, <2>19, <2>20, <2>21, Restful
  <2>23. BaseInv'
    BY <1>1, <1>2, <2>5, <2>6, <2>12, <2>13, <2>20 DEF BaseInv
  <2> QED BY <2>22, <2>23, NoSaveInv DEF DocumentInv
<1> QED BY <1>4, <1>5

\* Tower accepted the save.
LEMMA DocSaveAccepted ==
  ASSUME DocumentInv, SaveAccepted, save' = NoSave, UNCHANGED <<tower, acq, disc, anc, counters>>
  PROVE  DocumentInv'
<1>1. /\ TowerInv /\ BaseInv /\ ed \in Editors /\ ed \in EditorType /\ draft \in Drafts \cup {NoDraft}
      /\ save.pc = "accepted" /\ save.text = heads[save.base] /\ save.text \in 1..texts /\ save.base \in 1..Newest
      /\ save.base \in Version /\ save.base \in Nat /\ Kept(save.text)
      /\ row \in Nat /\ row \in 1..Newest /\ Newest \in Nat
  <2>1. /\ TowerInv /\ save.pc = "accepted" /\ save.base \in 1..Newest /\ save.text = heads[save.base]
    BY SaveFields DEF SaveAccepted
  <2>2. ed \in Editors /\ ed \in EditorType /\ draft \in Drafts \cup {NoDraft} /\ BaseInv
    BY EditorFields DEF DocumentInv
  <2> QED BY <2>1, <2>2, SaveFields, KeptTexts DEF Version
<1>2. PICK v : v = save.base
  OBVIOUS
<1>3. PICK after : after = IF row <= v THEN v ELSE row
  OBVIOUS
<1>4. after \in row..Newest /\ after \in 1..Newest /\ v <= after
  BY <1>1, <1>2, <1>3
<1>5. CASE ~Current
  <2>1. PICK seen : seen = Refreshed(ed, after)
    OBVIOUS
  <2>2. row' = after /\ (ed' = seen \/ ed' = ExitDone(seen)) /\ draft' = draft /\ Guarded(seen)
        /\ session' \in BOOLEAN
    BY <1>2, <1>3, <1>5, <2>1 DEF SaveAccepted, Release, DocumentInv, PlaceInv
  <2>3. seen \in EditorType
    BY <1>1, <1>4, <2>1, Hears, EditorFields
  <2>4. Like(seen, ed') /\ ed'.local = seen.local /\ ed'.disk = seen.disk
    BY <2>2, <2>3, Handled DEF Like
  <2>5. acq' \in 0..MaxVisits
    BY DEF DocumentInv, PlaceInv
  <2>6. /\ TowerInv' /\ Goes /\ BaseInv' /\ draft' \in Drafts' \cup {NoDraft} /\ ed' \in Editors' /\ PlaceInv' /\ LatestInv'
    BY <1>4, <2>1, <2>2, <2>4, <2>5, Heard
  <2>7. NoBlindOverwrite'
    BY <1>1, <2>6, Remembered DEF DocumentInv, tower
  <2> QED BY <2>6, <2>7, NoSaveInv DEF DocumentInv
<1>6. CASE Current
  <2>1. ed.open /\ ~Offering /\ ed.offer = NoDraft /\ ~ed.read
    BY <1>1, <1>6, SaveFields DEF Current, Offering
  <2>2. /\ ed.base \in 1..Newest /\ ed.base <= row /\ ed.text \in 1..texts /\ OnBase(ed.text, ed.base)
        /\ ed.local.sig # 0 => Kept(ed.local.sig)
        /\ ~ed.dirty => Kept(ed.text)
    BY <1>1, <2>1, EditorFields DEF BaseInv
  <2>3. PICK dirty \in BOOLEAN : dirty = (ed.text # save.text)
    OBVIOUS
  <2>4. PICK based : based = IF row <= v THEN [ed EXCEPT !.base = v, !.rec = FALSE, !.dirty = dirty] ELSE ed
    OBVIOUS
  <2>5. /\ based \in Editors /\ based.open /\ based.text = ed.text /\ based.offer = NoDraft /\ ~based.read
        /\ based.local = ed.local /\ based.base <= after
        /\ based.dirty \/ Kept(ed.text)
        /\ row <= v => based.base = v
    <3>1. CASE row <= v
      <4>1. /\ based \in EditorType /\ based.open /\ based.text = ed.text /\ based.offer = NoDraft /\ ~based.read
            /\ based.local = ed.local /\ based.base = v /\ based.dirty = dirty
        <5>1. based = [ed EXCEPT !.base = v, !.rec = FALSE, !.dirty = dirty] /\ ed \in EditorType
          BY <1>1, <2>4, <3>1
        <5>2. v \in Version
          BY <1>1, <1>2
        <5>3. based \in EditorType
          BY <5>1, <5>2, <2>3 DEF EditorType
        <5>4. /\ based.open = ed.open /\ based.text = ed.text /\ based.offer = ed.offer /\ based.read = ed.read
              /\ based.local = ed.local /\ based.base = v /\ based.dirty = dirty
          BY <5>1 DEF EditorType
        <5> QED BY <5>3, <5>4, <2>1
      <4>2. Live
        BY <1>1, <1>2, <3>1 DEF Live
      <4>3. Made(ed.text, save.text)
        BY <1>6, <4>2, SaveFields
      <4>4. OnBase(ed.text, v)
        BY <1>1, <1>2, <4>3 DEF Made, OnBase
      <4>5. ~dirty => Kept(ed.text)
        BY <1>1, <2>3
      <4>6. based \in Editors
        BY <1>1, <1>2, <2>2, <4>1, <4>4, <4>5 DEF Editors
      <4>7. based.base <= after
        BY <1>4, <4>1
      <4> QED BY <3>1, <4>1, <4>5, <4>6, <4>7
    <3>2. CASE ~(row <= v)
      <4>1. based = ed /\ ed.base <= after
        BY <1>1, <1>3, <2>2, <2>4, <3>2
      <4> QED BY <1>1, <2>1, <2>2, <3>2, <4>1
    <3> QED BY <3>1, <3>2
  <2>6. PICK seen : seen = Refreshed(based, after)
    OBVIOUS
  <2>7. /\ seen \in Editors /\ seen \in EditorType /\ seen.open /\ seen.offer = NoDraft /\ ~seen.read /\ seen.base <= after
        /\ seen.local = based.local
        /\ ~Kept(ed.text) => seen.dirty /\ seen.text = ed.text
    <3>1. seen \in Editors
      BY <1>1, <1>4, <2>5, <2>6, Hears
    <3>2. CASE seen = based
      BY <2>5, <3>1, <3>2, EditorFields
    <3>3. CASE seen = Applied(based, after) /\ ~based.dirty
      <4>1. /\ seen.open = based.open /\ seen.base = after /\ ~seen.read /\ seen.offer = based.offer /\ seen.local = based.local
        BY <1>1, <1>4, <2>5, <3>3, Shows
      <4> QED BY <1>4, <2>5, <3>1, <3>3, <4>1, EditorFields
    <3>4. CASE Like(based, seen) /\ seen.local = based.local
      BY <2>5, <3>1, <3>4, EditorFields DEF Like
    <3> QED BY <1>1, <1>4, <2>5, <2>6, <3>2, <3>3, <3>4, Hears
  <2>8. PICK d : d = DraftRow(seen)
    OBVIOUS
  <2>9. d \in Drafts /\ d \in DraftType /\ d.text = seen.text /\ d.base = seen.base /\ d.sig = seen.local.sig
    <3>1. d \in Drafts /\ d.text = seen.text /\ d.base = seen.base
      BY <1>1, <2>7, <2>8, DraftRows
    <3> QED BY <2>8, <3>1, DraftFacts DEF DraftRow
  <2>10. PICK kept : kept = [seen EXCEPT !.local = Local(d), !.busy = TRUE]
    OBVIOUS
  <2>11. PICK done : done = [seen EXCEPT !.busy = FALSE]
    OBVIOUS
  <2>12. PICK e : e = IF seen.dirty THEN Schedule(kept) ELSE Cleared(done)
    OBVIOUS
  <2>13. /\ row' = after /\ (ed' = e \/ ed' = ExitDone(e)) /\ draft' = (IF seen.dirty THEN d ELSE NoDraft)
         /\ session' \in BOOLEAN /\ Guarded(seen)
    BY <1>2, <1>3, <1>6, <2>3, <2>4, <2>6, <2>8, <2>10, <2>11, <2>12 DEF SaveAccepted, Release, DocumentInv, PlaceInv
  <2>14. Local(d) \in LocalType /\ Local(d).sig = seen.local.sig
    BY <2>9, Locals
  <2>15. Like(seen, kept) /\ kept.local.sig = seen.local.sig
    BY <2>7, <2>10, <2>14 DEF Like, EditorType
  <2>16. Like(seen, done)
    BY <2>7, <2>11 DEF Like, EditorType
  <2>17. Like(seen, e) /\ e.local.sig \in {seen.local.sig, 0} /\ (seen.dirty => e.disk)
    <3>1. Like(kept, Schedule(kept)) /\ Schedule(kept).local = kept.local /\ Schedule(kept).disk
      BY <2>15, Handled DEF Like
    <3>2. Like(done, Cleared(done)) /\ Cleared(done).local.sig = 0
      BY <2>16, Handled, Locals DEF Like
    <3> QED BY <2>12, <2>15, <2>16, <3>1, <3>2 DEF Like
  <2>18. Like(seen, ed') /\ ed'.local.sig \in {seen.local.sig, 0} /\ (seen.dirty => ed'.disk)
    <3>1. Like(e, ExitDone(e)) /\ ExitDone(e).local = e.local /\ ExitDone(e).disk = e.disk
      BY <2>17, Handled DEF Like
    <3> QED BY <2>13, <2>17, <3>1 DEF Like
  <2>19. ed' \in Editors
    BY <2>7, <2>18, SameEditor DEF Like
  <2>20. /\ ed'.open /\ ed'.text = seen.text /\ ed'.base = seen.base /\ ed'.dirty = seen.dirty /\ ed'.offer = NoDraft /\ ~ed'.read
    BY <2>7, <2>18 DEF Like
  <2>21. last' = last /\ heads' = heads /\ recs' = recs /\ texts' = texts /\ visits' = visits
    BY <2>1, <2>13 DEF Guarded, tower, counters
  <2>22. TowerInv' /\ Goes
    <3>1. TowerInv'
      BY <1>1, <1>4, <2>13, <2>21 DEF TowerInv, Newest
    <3> QED BY <1>1, <2>21, <3>1, BoundAssumption DEF Goes, TowerInv, Newest
  <2>23. draft' \in Drafts' \cup {NoDraft} /\ ed' \in Editors' /\ NoBlindOverwrite'
    BY <1>1, <2>9, <2>13, <2>19, <2>21, <2>22, Remembered DEF DocumentInv
  <2>24. BaseInv'
    BY <1>1, <1>4, <2>7, <2>9, <2>13, <2>20 DEF BaseInv, NoDraft
  <2>25. LatestInv' /\ (disc # "none" => last' = 0 \/ Kept(last)')
    <3>1. CASE last = 0 \/ Kept(last)
      BY <1>1, <2>21, <2>22, <3>1, LatestSettled
    <3>2. CASE ~(last = 0 \/ Kept(last))
      <4>1. ed.text = last /\ disc = "none"
        BY <2>1, <3>2 DEF DocumentInv, LatestInv, PlaceInv
      <4> QED BY <2>7, <2>18, <2>20, <2>21, <3>2, <4>1 DEF LatestInv, Offering
    <3> QED BY <3>1, <3>2
  <2>26. PlaceInv'
    BY <2>13, <2>20, <2>21, <2>25 DEF PlaceInv, Offering, DocumentInv
  <2> QED BY <2>22, <2>23, <2>24, <2>25, <2>26, NoSaveInv DEF DocumentInv
<1> QED BY <1>5, <1>6

\* Tower's answer to the save arrives.
LEMMA DocSaveAnswer ==
  ASSUME DocumentInv, SaveAnswer
  PROVE  DocumentInv'
BY DocSaveAccepted, DocSavePreserved, DocSaveFailed DEF SaveAnswer

\* The user discards a draft, or a recovery.
LEMMA DocDiscards ==
  ASSUME DocumentInv, DiscardLocal \/ DiscardRecovery
  PROVE  DocumentInv'
<1>1. /\ ed.open /\ UNCHANGED <<session, acq, save, anc, texts, visits, heads, recs, row>> /\ GiveUp(ed.text)
      /\ disc = "none" /\ disc' \in {"local", "recovery"} /\ last' \in {0, last}
  BY DEF DiscardLocal, DiscardRecovery, GiveUp, leasing, Stays, tower
<1>2. TowerInv /\ ed \in Editors /\ ed \in EditorType /\ BaseInv /\ row \in Nat
  BY EditorFields DEF DocumentInv, TowerInv
<1>3. Rests
  BY <1>1 DEF Rests, tower, counters, DocumentInv, PlaceInv
<1>4. last' = 0 \/ Kept(last)
  <2>1. SUFFICES ASSUME last # 0, ~Kept(last) PROVE last' = 0
    BY <1>1
  <2>2. \/ ed.dirty /\ ed.text = last
        \/ Offering /\ ~ed.dirty
    BY <1>1, <2>1 DEF DocumentInv, LatestInv
  <2>3. ed.dirty
    BY <1>1, <2>2 DEF DiscardLocal, DiscardRecovery, DocumentInv, PlaceInv
  <2> QED BY <1>1, <2>2, <2>3 DEF GiveUp
<1>5. CASE DiscardLocal
  <2>1. PICK f : f = Untimed(ed)
    OBVIOUS
  <2>2. ed' = Cleared(f) /\ draft' = NoDraft
    BY <1>5, <2>1 DEF DiscardLocal
  <2>3. Like(ed, f)
    BY <1>2, <2>1, Handled
  <2>4. Like(f, Cleared(f)) /\ Cleared(f).local.sig = 0
    BY <2>3, Handled, Locals DEF Like
  <2>5. Like(ed, ed') /\ ed'.local.sig = 0
    BY <2>2, <2>3, <2>4 DEF Like
  <2>6. ed' \in Editors
    BY <1>2, <2>5, SameEditor DEF Like
  <2>7. BaseInv'
    BY <1>1, <1>2, <2>2, <2>5 DEF BaseInv, Like, NoDraft
  <2>8. /\ ed'.open /\ ed'.rec => ed'.offer = NoDraft /\ ~ed'.read
        /\ ed'.open => ed.open /\ (Offering \/ (ed'.offer = NoDraft /\ ~ed'.read))
        /\ ed'.text = ed.text /\ ed'.base = ed.base /\ ed.base \in Int
    BY <1>2, <2>5, EditorFields DEF Like, Offering, DocumentInv, PlaceInv
  <2>9. last' = 0 \/ Kept(last')
    BY <1>1, <1>4
  <2> QED BY <1>1, <1>3, <1>4, <2>2, <2>6, <2>7, <2>8, <2>9, Resting
<1>6. CASE DiscardRecovery
  <2>1. ed' = ed /\ draft' = draft
    BY <1>6 DEF DiscardRecovery
  <2>2. BaseInv'
    BY <1>1, <1>2, <2>1 DEF BaseInv
  <2>3. /\ ed'.open /\ ed'.rec => ed'.offer = NoDraft /\ ~ed'.read
        /\ ed'.open => ed.open /\ (Offering \/ (ed'.offer = NoDraft /\ ~ed'.read))
        /\ ed'.text = ed.text /\ ed'.base = ed.base /\ ed.base \in Int
    BY <1>2, <2>1, EditorFields DEF Offering, DocumentInv, PlaceInv
  <2>4. last' = 0 \/ Kept(last')
    BY <1>1, <1>4
  <2> QED BY <1>1, <1>2, <1>3, <1>4, <2>1, <2>2, <2>3, <2>4, Resting DEF DocumentInv
<1> QED BY <1>5, <1>6

\* The saved document is shown once the discard has ended.
LEMMA DocDiscardsDone ==
  ASSUME DocumentInv, DiscardLocalDone \/ DiscardRecoveryDone
  PROVE  DocumentInv'
<1>1. /\ disc # "none" /\ disc' = "none" /\ UNCHANGED <<tower, acq, save, last, counters>>
      /\ draft' \in {draft, NoDraft} /\ session' \in BOOLEAN
  BY DEF DiscardLocalDone, DiscardRecoveryDone, leasing, DocumentInv, PlaceInv
<1>2. PICK v \in row..Newest :
        /\ row' = v
        /\ anc' = IF ed.open THEN Seen(heads[v], ed.text) ELSE anc
        /\ ed.open => \/ \E access \in {"ready", "blocked"} :
                           ed' = LET e == [Applied(ed, v) EXCEPT !.local = NoLocal, !.access = access]
                                 IN  [e EXCEPT !.edit = e.offer = NoDraft /\ access = "ready"]
                      \/ ed' = [Applied(Cleared(ed), v) EXCEPT !.access = "ready"]
        /\ ~ed.open => ed' = ed
  <2>1. CASE DiscardLocalDone
    BY <2>1 DEF DiscardLocalDone
  <2>2. CASE DiscardRecoveryDone
    BY <2>2 DEF DiscardRecoveryDone
  <2> QED BY <2>1, <2>2
<1>3. /\ TowerInv /\ BaseInv /\ ed \in Editors /\ ed \in EditorType /\ draft \in Drafts \cup {NoDraft}
      /\ Newest \in Nat /\ row \in 1..Newest /\ row \in Nat /\ v \in 1..Newest /\ v \in Nat /\ texts \in Nat
      /\ heads[v] \in 1..texts /\ Kept(heads[v]) /\ OnBase(heads[v], v)
  <2>1. TowerInv /\ Newest \in Nat /\ row \in 1..Newest /\ row \in Nat /\ texts \in Nat
    BY SaveFields
  <2>2. v \in 1..Newest /\ v \in Nat
    BY <2>1
  <2>3. ed \in Editors /\ ed \in EditorType /\ draft \in Drafts \cup {NoDraft} /\ BaseInv
    BY EditorFields DEF DocumentInv
  <2> QED BY <2>1, <2>2, <2>3, KeptTexts
<1>4. heads' = heads /\ recs' = recs /\ texts' = texts /\ visits' = visits /\ row' = v /\ v >= row
  BY <1>1, <1>2, <1>3 DEF tower, counters
<1>5. last = 0 \/ Kept(last)
  BY <1>1 DEF DocumentInv, PlaceInv
<1>6. TowerInv' /\ Goes /\ (ed.open => anc[ed.text] \cup {ed.text} \subseteq anc'[heads[v]])
  <2>1. CASE ed.open
    <3>1. ed.text \in 1..texts /\ anc' = Seen(heads[v], ed.text)
      BY <1>2, <1>3, <2>1, EditorFields
    <3>2. row' \in row..Newest /\ UNCHANGED <<heads, recs, counters>>
      BY <1>1, <1>2, <1>4
    <3> QED BY <1>3, <3>1, <3>2, SeenRests
  <2>2. CASE ~ed.open
    <3>1. anc' = anc
      BY <1>2, <2>2
    <3>2. TowerInv'
      BY <1>3, <1>4, <3>1 DEF TowerInv, Newest
    <3> QED BY <1>3, <1>4, <2>2, <3>1, <3>2 DEF Goes, Newest
  <2> QED BY <2>1, <2>2
<1>7. LatestInv'
  BY <1>1, <1>3, <1>5, <1>6, LatestSettled
<1>8. Drafts \subseteq Drafts' /\ Editors \subseteq Editors'
  BY <1>3, <1>6, Remembered
<1>9. ed.open => /\ ed' \in Editors /\ ed'.open /\ ed'.text = heads[v] /\ ed'.base = v /\ ~ed'.read /\ ~ed'.rec
                 /\ ed'.offer = ed.offer
  <2>1. SUFFICES ASSUME ed.open
                 PROVE  /\ ed' \in Editors /\ ed'.open /\ ed'.text = heads[v] /\ ed'.base = v /\ ~ed'.read /\ ~ed'.rec
                        /\ ed'.offer = ed.offer
    OBVIOUS
  <2>2. ASSUME NEW c \in Editors, c.open, c.offer = ed.offer, NEW e, e = Applied(c, v)
        PROVE  /\ e \in Editors /\ e \in EditorType /\ e.open /\ e.text = heads[v] /\ e.base = v /\ ~e.read /\ ~e.rec
               /\ e.offer = ed.offer
    BY <1>3, <2>2, Shows, EditorFields
  <2>3. ASSUME NEW access \in {"ready", "blocked"},
               ed' = LET e == [Applied(ed, v) EXCEPT !.local = NoLocal, !.access = access]
                     IN  [e EXCEPT !.edit = e.offer = NoDraft /\ access = "ready"]
        PROVE  /\ ed' \in Editors /\ ed'.open /\ ed'.text = heads[v] /\ ed'.base = v /\ ~ed'.read /\ ~ed'.rec
               /\ ed'.offer = ed.offer
    <3>1. PICK a : a = Applied(ed, v)
      OBVIOUS
    <3>2. /\ a \in Editors /\ a \in EditorType /\ a.open /\ a.text = heads[v] /\ a.base = v /\ ~a.read /\ ~a.rec
          /\ a.offer = ed.offer
      BY <1>3, <2>1, <2>2, <3>1
    <3>3. PICK e : e = [a EXCEPT !.local = NoLocal, !.access = access]
      OBVIOUS
    <3>4. PICK ok \in BOOLEAN : ok = (e.offer = NoDraft /\ access = "ready")
      OBVIOUS
    <3>5. ed' = [e EXCEPT !.edit = ok]
      BY <2>3, <3>1, <3>3, <3>4
    <3>6. Like(a, e) /\ e.local.sig = 0
      BY <3>2, <3>3, Locals DEF Like, EditorType
    <3>7. Like(a, ed') /\ ed'.local.sig = 0
      BY <3>5, <3>6 DEF Like, EditorType
    <3>8. ed' \in Editors
      BY <3>2, <3>7, SameEditor DEF Like
    <3> QED BY <3>2, <3>7, <3>8 DEF Like
  <2>4. ASSUME ed' = [Applied(Cleared(ed), v) EXCEPT !.access = "ready"]
        PROVE  /\ ed' \in Editors /\ ed'.open /\ ed'.text = heads[v] /\ ed'.base = v /\ ~ed'.read /\ ~ed'.rec
               /\ ed'.offer = ed.offer
    <3>1. PICK c : c = Cleared(ed)
      OBVIOUS
    <3>2. Like(ed, c) /\ c.local.sig = 0
      BY <1>3, <3>1, Handled, Locals
    <3>3. c \in Editors
      BY <1>3, <3>2, SameEditor DEF Like
    <3>4. PICK a : a = Applied(c, v)
      OBVIOUS
    <3>5. /\ a \in Editors /\ a \in EditorType /\ a.open /\ a.text = heads[v] /\ a.base = v /\ ~a.read /\ ~a.rec
          /\ a.offer = ed.offer
      BY <2>1, <2>2, <3>2, <3>3, <3>4 DEF Like
    <3>6. ed' = [a EXCEPT !.access = "ready"]
      BY <2>4, <3>1, <3>4
    <3>7. Like(a, ed') /\ ed'.local = a.local
      BY <3>5, <3>6 DEF Like, EditorType
    <3>8. ed' \in Editors
      BY <3>5, <3>7, SameEditor DEF Like
    <3> QED BY <3>5, <3>7, <3>8 DEF Like
  <2> QED BY <1>2, <2>1, <2>3, <2>4
<1>10. ed' \in Editors' /\ draft' \in Drafts' \cup {NoDraft}
  BY <1>1, <1>2, <1>3, <1>8, <1>9
<1>11. BaseInv'
  <2>1. ed.base \in Nat /\ ed.offer.base \in Nat /\ draft.base \in Nat /\ NoDraft.base = 0
    BY <1>3, EditorFields, DraftFacts DEF DraftType, Version, NoDraft
  <2>2. ed'.offer = ed.offer /\ ed'.base <= v
    BY <1>2, <1>3, <1>4, <1>9, <2>1 DEF BaseInv
  <2> QED BY <1>1, <1>3, <1>4, <2>1, <2>2 DEF BaseInv
<1>12. PlaceInv'
  BY <1>1, <1>2, <1>4, <1>9 DEF PlaceInv, Offering, DocumentInv
<1>13. Continues
  <2>1. SUFFICES ASSUME ed'.open, Live', save.visit = visits
                 PROVE  Follows /\ ed'.base >= From
    BY <1>2, <1>9 DEF Continues, Offering
  <2>2. ed.open
    BY <1>2, <2>1
  <2>3. Follows
    BY <1>6, <1>9, <2>2 DEF Follows
  <2>4. save.pc # "error" /\ From <= row /\ From \in Int
    BY <1>1, <2>1, SaveFields DEF Live, From
  <2> QED BY <1>3, <1>4, <1>9, <2>2, <2>3, <2>4
<1> QED BY <1>1, <1>4, <1>6, <1>7, <1>10, <1>11, <1>12, <1>13, EditorStep

----------------------------------------------------------------------------
(* The theorems.                                                            *)

LEMMA DocInit == Init => DocumentInv
<1> SUFFICES ASSUME Init PROVE DocumentInv
  OBVIOUS
<1>1. /\ heads = <<1>> /\ recs = {} /\ row = 1 /\ draft = NoDraft /\ ed = Closed /\ session = FALSE /\ acq = 0
      /\ save = NoSave /\ disc = "none" /\ last = 0 /\ anc = [t \in 1..MaxTexts |-> {}] /\ texts = 1 /\ visits = 0
  BY DEF Init
<1>2. Newest = 1 /\ MaxTexts \in Nat \ {0} /\ MaxVisits \in Nat
  BY <1>1, BoundAssumption DEF Newest
<1>3. TowerInv
  <2>1. heads \in Seq(1..texts)
    BY <1>1
  <2> QED BY <1>1, <1>2, <2>1 DEF TowerInv
<1>4. ed \in Editors
  <2>1. Closed.local.sig = 0
    BY ClosedFacts, Locals
  <2>2. Closed.base <= Newest
    BY <1>2, ClosedFacts
  <2> QED BY <1>1, <2>1, <2>2, ClosedFacts DEF Editors
<1>5. BaseInv
  BY <1>1, ClosedFacts DEF BaseInv, NoDraft
<1>6. SaveInv
  <2>1. /\ save \in SaveType /\ save.pc = "none" /\ save.visit = 0 /\ save.base = 0
    BY <1>1, NoSaveFacts
  <2>2. ~Live /\ From = 0
    BY <2>1 DEF Live, From
  <2> QED BY <1>1, <1>2, <2>1, <2>2 DEF SaveInv
<1>7. PlaceInv
  <2>1. acq \in 0..MaxVisits /\ last \in 0..texts
    BY <1>1, <1>2
  <2>2. session \in BOOLEAN /\ disc \in {"none", "local", "recovery"} /\ disc = "none" /\ ~ed.open
    BY <1>1, ClosedFacts
  <2> QED BY <2>1, <2>2 DEF PlaceInv
<1>8. LatestInv /\ NoBlindOverwrite
  BY <1>1, <1>2 DEF LatestInv, NoBlindOverwrite
<1> QED BY <1>1, <1>3, <1>4, <1>5, <1>6, <1>7, <1>8 DEF DocumentInv

LEMMA DocStep == ASSUME Patient PROVE DocumentInv /\ [Next]_vars => DocumentInv'
<1> SUFFICES ASSUME DocumentInv, [Next]_vars PROVE DocumentInv'
  OBVIOUS
<1>1. CASE Answers
  BY <1>1, DocAcquired, DocLapses, DocSaveSubmit, DocSaveAnswer, DocDiscardsDone DEF Answers
<1>2. CASE User
  BY <1>2, DocOpen, DocClose, DocHide, DocReadSaved, DocResume, DocType, DocUndo, DocUndoToRecovery, DocEdit,
     DocSaveAndExit, DocDiscards DEF User
<1>3. CASE OthersSave \/ Sync \/ Persist \/ Autosave \/ Lose \/ Crash
  BY <1>3, DocOthersSave, DocSync, DocPersist, DocAutosave, DocLose, DocCrash
<1>4. CASE UNCHANGED vars
  <2>1. TowerInv' /\ Goes /\ ed' = ed /\ UNCHANGED <<tower, row, history, counters, draft, save, session, acq, disc>>
    BY <1>4, TowerRests DEF vars, leasing, history, counters, DocumentInv
  <2>2. Like(ed, ed')
    BY <2>1, EditorFields DEF Like, DocumentInv
  <2> QED BY <2>1, <2>2, EditorLike DEF DocumentInv, PlaceInv
<1> QED BY <1>1, <1>2, <1>3, <1>4 DEF Next

\* With a patient user, in every reachable state the invariant holds that the others follow from.
THEOREM DocumentInvariant == Patient => (Spec => []DocumentInv)
<1> SUFFICES ASSUME Patient PROVE Spec => []DocumentInv
  OBVIOUS
<1>1. DocumentInv /\ [Next]_vars => DocumentInv'
  BY DocStep
<1> QED BY <1>1, DocInit, PTL DEF Spec

\* Every variable holds a value the code can store in it, and the editor is based on
\* a version the document has had.
THEOREM TypeCorrect == Patient => (Spec => []TypeOK)
<1> SUFFICES ASSUME Patient PROVE Spec => []TypeOK
  OBVIOUS
<1>1. DocumentInv => TypeOK
  <2> SUFFICES ASSUME DocumentInv PROVE TypeOK
    OBVIOUS
  <2>1. 1..texts \subseteq Text \ {0} /\ 0..texts \subseteq Text
    BY BoundAssumption DEF DocumentInv, TowerInv, Text
  <2>2. heads \in Seq(Text \ {0}) /\ recs \subseteq Text \ {0} /\ row \in 1..Newest /\ anc \in [1..MaxTexts -> SUBSET Text]
    BY <2>1 DEF DocumentInv, TowerInv
  <2>3. draft \in DraftType /\ ed \in EditorType /\ ed.base <= Newest
    BY DraftFacts, EditorFields DEF DocumentInv
  <2>4. last \in Text
    BY <2>1 DEF DocumentInv, PlaceInv
  <2> QED BY <2>2, <2>3, <2>4 DEF DocumentInv, PlaceInv, SaveInv, TypeOK
<1> QED BY <1>1, DocumentInvariant, PTL

\* However saves, answers, newer versions, recoveries and reopened editors interleave, no
\* save Tower accepts covers up a version its text was not made from.
THEOREM NothingIsCoveredUp == Patient => (Spec => []NoBlindOverwrite)
<1> SUFFICES ASSUME Patient PROVE Spec => []NoBlindOverwrite
  OBVIOUS
<1>1. DocumentInv => NoBlindOverwrite
  BY DEF DocumentInv
<1> QED BY <1>1, DocumentInvariant, PTL

\* An editor that says there is nothing left to save shows a text Tower has.
THEOREM CleanShowsSaved == Patient => (Spec => []CleanIsSaved)
<1> SUFFICES ASSUME Patient PROVE Spec => []CleanIsSaved
  OBVIOUS
<1>1. DocumentInv => CleanIsSaved
  BY EditorFields DEF DocumentInv, CleanIsSaved, Kept
<1> QED BY <1>1, DocumentInvariant, PTL

\* The latest text the user typed, and has neither undone nor discarded, is with Tower, on
\* the disk, or in the open editor with its draft about to be written down.
THEOREM LatestIsKept == Patient => (Spec => []LatestKept)
<1> SUFFICES ASSUME Patient PROVE Spec => []LatestKept
  OBVIOUS
<1>1. DocumentInv => LatestKept
  BY DEF DocumentInv, LatestInv, LatestKept, Durable, Kept
<1> QED BY <1>1, DocumentInvariant, PTL
=============================================================================
