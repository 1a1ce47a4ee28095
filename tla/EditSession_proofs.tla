-------------------------- MODULE EditSession_proofs --------------------------
(***************************************************************************)
(* Proofs about the editing session, for any number of buffers, any forms  *)
(* and contents and any bound on the edits that stand: its types, that its *)
(* caches are of the graph as it is (CachesCurrent), that undoing every    *)
(* edit gives back the first graph (UndoneToTheFirst), that an edit takes  *)
(* nothing back (OnlyTyped) and that pending text is kept (PendingKept).   *)
(***************************************************************************)
EXTENDS EditSession, SequenceTheorems, NaturalsInduction, WellFoundedInduction, TLAPS

(***************************************************************************)
(* The invariant.                                                          *)
(***************************************************************************)

\* The graphs the session went through, of which each journal takes the
\* one after it back to the one before.
Past(past, journals, h) ==
  /\ past \in [0 .. Len(journals) -> Graphs]
  /\ past[0] = Original /\ past[Len(journals)] = h
  /\ \A i \in 1 .. Len(journals) : Undone(journals[i], past[i]) = past[i - 1]

\* What a journal has saved: something of some forms.
Journals == UNION {[fs -> Contents \union {Gone}] : fs \in SUBSET Forms}

SessionOK ==
  /\ done \in Seq(Journals) /\ Len(done) <= MaxEdits
  /\ \E past \in [0 .. Len(done) -> Graphs] : Past(past, done, g)
  /\ ed \in {NoEditor, g} /\ ix = g

BuffersOK ==
  /\ view \in [Bufs -> Views \union {NoView}]
  /\ stale \in [Bufs -> BOOLEAN]
  /\ DOMAIN text = Bufs /\ DOMAIN printed = Bufs
  /\ missed \subseteq Open
  /\ \A b \in Bufs :
       IF b \in Open
       THEN text[b] \in Texts(view[b]) /\ printed[b] \in Sayings(Shows(view[b]))
       ELSE text[b] = Half /\ printed[b] = Half

\* A buffer the changes of the graph have reached, not stale, has the print
\* its view makes of the graph.
PrintsOK ==
  \A b \in Open \ missed :
    ~stale[b] /\ Prints(view[b], g) => printed[b] = Says(view[b], g)

SessionInv == g \in Graphs /\ SessionOK /\ BuffersOK /\ PrintsOK

(***************************************************************************)
(* The journal.                                                            *)
(***************************************************************************)

LEMMA GraphFacts ==
  ASSUME NEW h \in Graphs
  PROVE  /\ DOMAIN h = Forms /\ h = [f \in Forms |-> h[f]]
         /\ \A f \in Forms : h[f] \in Contents \union {Gone} /\ (f \in Plain => h[f] \in {First, Gone})
  BY DEF Graphs, Sayings

LEMMA GraphIs ==
  ASSUME NEW h, h = [f \in Forms |-> h[f]],
         \A f \in Forms : h[f] \in Contents \union {Gone} /\ (f \in Plain => h[f] \in {First, Gone})
  PROVE  h \in Graphs
  BY DEF Graphs, Sayings

\* What a journal begun on one graph has saved takes any other back to it.
LEMMA SavedTakesBack ==
  ASSUME g \in Graphs, NEW h \in Graphs
  PROVE  Saved(h) \in Journals /\ Undone(Saved(h), h) = g
<1> DEFINE changed == {x \in Forms : h[x] # g[x]}
<1>1. /\ DOMAIN Saved(h) = changed /\ \A f \in changed : Saved(h)[f] = g[f]
      /\ Saved(h) = [f \in changed |-> g[f]]
  BY DEF Saved
<1>2. DOMAIN h = Forms /\ DOMAIN g = Forms /\ g = [f \in Forms |-> g[f]]
  BY GraphFacts
<1>3. Undone(Saved(h), h) = [f \in Forms |-> IF f \in changed THEN g[f] ELSE h[f]]
  BY <1>1, <1>2 DEF Undone
<1>4. \A f \in Forms : (IF f \in changed THEN g[f] ELSE h[f]) = g[f]
  OBVIOUS
<1>5. Undone(Saved(h), h) = g
  BY <1>2, <1>3, <1>4
<1>6. Saved(h) \in [changed -> Contents \union {Gone}]
  BY <1>1, GraphFacts
<1>7. changed \in SUBSET Forms
  OBVIOUS
<1>8. QED
  BY <1>5, <1>6, <1>7 DEF Journals

(***************************************************************************)
(* The session.                                                            *)
(***************************************************************************)

LEMMA Bounds == ASSUME SessionOK PROVE Len(done) \in Nat /\ MaxEdits \in Nat
  BY SessionAssumption DEF SessionOK

\* What leaves the graph and the journals as they are.
LEMMA StaysOK ==
  ASSUME g \in Graphs, SessionOK, UNCHANGED <<g, done, ix>>, ed' \in {NoEditor, Editor}
  PROVE  g' \in Graphs /\ SessionOK'
<1>1. Editor = g
  BY DEF Editor, SessionOK
<1>2. QED
  BY <1>1 DEF SessionOK, Past

\* An edit that stands is one more graph gone through.
LEMMA StandsOK ==
  ASSUME g \in Graphs, SessionOK, NEW h \in Graphs, Stands(h)
  PROVE  g' = h /\ SessionOK'
<1>1. /\ g' = h /\ ed' = h /\ ix' = h
      /\ done' = Append(done, Saved(h)) /\ Len(done) < MaxEdits
      /\ done \in Seq(Journals) /\ Len(done) \in Nat /\ MaxEdits \in Nat
  BY Bounds DEF Stands, SessionOK
<1>2. /\ done' \in Seq(Journals) /\ Len(done') = Len(done) + 1
      /\ done'[Len(done) + 1] = Saved(h)
      /\ \A i \in 1 .. Len(done) : done'[i] = done[i]
  BY <1>1, SavedTakesBack, AppendProperties
<1>3. PICK past \in [0 .. Len(done) -> Graphs] : Past(past, done, g)
  BY DEF SessionOK
<1> DEFINE now == [i \in 0 .. Len(done) + 1 |-> IF i <= Len(done) THEN past[i] ELSE h]
<1>4. /\ now \in [0 .. Len(done') -> Graphs]
      /\ \A i \in 0 .. Len(done) : now[i] = past[i]
      /\ now[Len(done) + 1] = h
  BY <1>1, <1>2
<1> HIDE DEF now
<1>5. now[0] = Original /\ now[Len(done')] = g'
  BY <1>1, <1>2, <1>3, <1>4 DEF Past
<1>6. ASSUME NEW i \in 1 .. Len(done') PROVE Undone(done'[i], now[i]) = now[i - 1]
  <2>1. CASE i = Len(done) + 1
    <3>1. now[i] = h /\ now[i - 1] = g /\ done'[i] = Saved(h)
      BY <1>1, <1>2, <1>3, <1>4, <2>1 DEF Past
    <3>2. QED
      BY <3>1, SavedTakesBack
  <2>2. CASE i # Len(done) + 1
    <3>1. i \in 1 .. Len(done) /\ now[i] = past[i] /\ now[i - 1] = past[i - 1] /\ done'[i] = done[i]
      BY <1>1, <1>2, <1>4, <2>2
    <3>2. QED
      BY <1>3, <3>1 DEF Past
  <2>3. QED
    BY <2>1, <2>2
<1>7. Past(now, done', g')
  BY <1>4, <1>5, <1>6 DEF Past
<1>8. QED
  BY <1>1, <1>2, <1>4, <1>7 DEF SessionOK

\* An undo goes back to the graph before.
LEMMA UndoOK ==
  ASSUME g \in Graphs, SessionOK, SessionUndo
  PROVE  g' \in Graphs /\ SessionOK'
<1>1. /\ done \in Seq(Journals) /\ done # <<>> /\ Len(done) \in Nat \ {0}
      /\ done' = SubSeq(done, 1, Len(done) - 1)
      /\ g' = Undone(done[Len(done)], g) /\ ed' = NoEditor
      /\ ix' = [f \in Forms |-> IF f \in DOMAIN done[Len(done)] THEN g'[f] ELSE ix[f]]
      /\ ix = g /\ Len(done) <= MaxEdits /\ MaxEdits \in Nat
  BY EmptySeq, Bounds DEF SessionUndo, SessionOK, Last, Front
<1>2. /\ done' \in Seq(Journals) /\ Len(done') = Len(done) - 1
      /\ \A i \in 1 .. Len(done) - 1 : done'[i] = done[i]
  <2>1. \A i \in 1 .. Len(done) - 1 : done[i] \in Journals
    BY <1>1, ElementOfSeq
  <2>2. /\ SubSeq(done, 1, Len(done) - 1) \in Seq(Journals)
        /\ Len(SubSeq(done, 1, Len(done) - 1)) = IF 1 <= Len(done) - 1 THEN Len(done) - 1 - 1 + 1 ELSE 0
        /\ \A i \in 1 .. Len(done) - 1 - 1 + 1 : SubSeq(done, 1, Len(done) - 1)[i] = done[1 + i - 1]
    BY <1>1, <2>1, SubSeqProperties
  <2>3. \A i \in 1 .. Len(done) - 1 : i \in 1 .. Len(done) - 1 - 1 + 1 /\ 1 + i - 1 = i
    BY <1>1
  <2>4. Len(done') = Len(done) - 1
    <3>1. Len(done') = IF 1 <= Len(done) - 1 THEN Len(done) - 1 - 1 + 1 ELSE 0
      BY <1>1, <2>2
    <3>2. \A k \in Nat \ {0} : (IF 1 <= k - 1 THEN k - 1 - 1 + 1 ELSE 0) = k - 1
      OBVIOUS
    <3>3. QED
      BY <1>1, <3>1, <3>2
  <2>5. QED
    BY <1>1, <2>2, <2>3, <2>4
<1>3. PICK past \in [0 .. Len(done) -> Graphs] : Past(past, done, g)
  BY DEF SessionOK
<1> DEFINE now == [i \in 0 .. Len(done) - 1 |-> past[i]]
<1>4. /\ now \in [0 .. Len(done') -> Graphs]
      /\ \A i \in 0 .. Len(done) - 1 : now[i] = past[i]
  BY <1>1, <1>2
<1> HIDE DEF now
<1>5. g' = past[Len(done) - 1] /\ g' \in Graphs
  <2>1. Len(done) \in 1 .. Len(done) /\ Len(done) - 1 \in 0 .. Len(done)
    BY <1>1
  <2>2. past[Len(done)] = g /\ Undone(done[Len(done)], past[Len(done)]) = past[Len(done) - 1]
    BY <1>3, <2>1 DEF Past
  <2>3. past[Len(done) - 1] \in Graphs
    BY <2>1
  <2>4. QED
    BY <1>1, <2>2, <2>3
<1>6. now[0] = Original /\ now[Len(done')] = g'
  <2>1. 0 \in 0 .. Len(done) - 1 /\ Len(done) - 1 \in 0 .. Len(done) - 1
    BY <1>1
  <2>2. now[0] = past[0] /\ now[Len(done')] = past[Len(done) - 1]
    BY <1>2, <1>4, <2>1
  <2>3. past[0] = Original
    BY <1>3 DEF Past
  <2>4. QED
    BY <1>5, <2>2, <2>3
<1>7. ASSUME NEW i \in 1 .. Len(done') PROVE Undone(done'[i], now[i]) = now[i - 1]
  <2>1. i \in 1 .. Len(done) /\ now[i] = past[i] /\ now[i - 1] = past[i - 1] /\ done'[i] = done[i]
    BY <1>1, <1>2, <1>4
  <2>2. QED
    BY <1>3, <2>1 DEF Past
<1>8. Past(now, done', g')
  BY <1>4, <1>6, <1>7 DEF Past
<1>9. ix' = g'
  <2>1. g' = [f \in Forms |-> IF f \in DOMAIN done[Len(done)] THEN done[Len(done)][f] ELSE g[f]]
    BY <1>1 DEF Undone
  <2>2. QED
    BY <1>1, <2>1
<1>10. Len(done') <= MaxEdits
  BY <1>1, <1>2
<1>11. ed' = NoEditor
  BY <1>1
<1>12. QED
  BY <1>2, <1>4, <1>5, <1>8, <1>9, <1>10, <1>11 DEF SessionOK

\* A request keeps the session right: what it leaves is a graph gone
\* through, and caches of it.
LEMMA StepSession ==
  ASSUME SessionInv, [Next]_vars
  PROVE  g' \in Graphs /\ SessionOK'
<1> USE DEF SessionInv
<1>1. ASSUME UNCHANGED sesVars PROVE g' \in Graphs /\ SessionOK'
  BY <1>1 DEF sesVars, SessionOK
<1>2. ASSUME NEW h \in Graphs, Stands(h) PROVE g' \in Graphs /\ SessionOK'
  BY <1>2, StandsOK
<1>3. ASSUME NEW h, Refused(h) PROVE g' \in Graphs /\ SessionOK'
  BY <1>3, StaysOK DEF Refused
<1>4. CASE UNCHANGED vars
  BY <1>1, <1>4 DEF vars
<1>5. CASE Next
  <2> PICK b \in Bufs : Requests(b)
    BY <1>5 DEF Next
  <2>1. CASE Close(b)
    BY <1>1, <2>1 DEF Close
  <2>2. CASE Undo(b)
    BY <2>2, UndoOK DEF Undo
  <2>3. CASE Revert(b)
    BY <1>1, <2>3 DEF Revert, sesVars
  <2>4. CASE RenameRefused(b)
    BY <1>3, <2>4 DEF RenameRefused
  <2>5. CASE \E d \in Forms : Rename(b, d)
    BY <1>2, <2>5 DEF Rename
  <2>6. CASE \E v \in Views : OpenOn(b, v) \/ At(b, v)
    BY <1>1, <2>6 DEF OpenOn, At, sesVars
  <2>7. CASE \E t \in Texts(view[b]) : ChangeStale(b, t)
    BY <1>1, <2>7 DEF ChangeStale
  <2>8. CASE \E t \in Texts(view[b]) : ChangePending(b, t)
    <3>1. UNCHANGED <<g, done, ix>> /\ ed' \in {ed, Editor}
      BY <2>8 DEF ChangePending
    <3>2. CASE ed' = ed
      BY <1>1, <3>1, <3>2 DEF sesVars
    <3>3. CASE ed' = Editor
      BY <3>1, <3>3, StaysOK
    <3>4. QED
      BY <3>1, <3>2, <3>3
  <2>9. CASE \E t \in Texts(view[b]) : ChangeRefused(b, t)
    BY <1>3, <2>9 DEF ChangeRefused
  <2>10. CASE \E h \in Graphs : ChangeApplied(b, h)
    BY <1>2, <2>10 DEF ChangeApplied
  <2>11. QED
    BY <2>1, <2>2, <2>3, <2>4, <2>5, <2>6, <2>7, <2>8, <2>9, <2>10 DEF Requests
<1>6. QED
  BY <1>4, <1>5

(***************************************************************************)
(* The buffers.                                                            *)
(***************************************************************************)

LEMMA ViewFacts ==
  ASSUME NEW v \in Views
  PROVE  /\ v # NoView /\ v.root \in Forms /\ Shows(v) \subseteq Forms
         /\ Half \notin Sayings(Shows(v))
<1>1. v # NoView /\ v.root \in Forms
  BY DEF Views, NoView
<1>2. Shows(v) \in SUBSET Forms
  BY <1>1 DEF Shows
<1>3. QED
  BY <1>1, <1>2, SessionAssumption

LEMMA SaysFacts ==
  ASSUME NEW v \in Views, NEW h \in Graphs
  PROVE  Says(v, h) \in Sayings(Shows(v)) /\ Says(v, h) \in Texts(v)
  BY ViewFacts, GraphFacts DEF Says, Sayings, Texts

\* A refresh after b is printed of the graph there will be: every print is
\* right or its buffer is stale.
LEMMA RefreshOK ==
  ASSUME BuffersOK, NEW b \in Open, g' \in Graphs, UNCHANGED view,
         NEW STATE was, was \in [Bufs -> BOOLEAN],
         Refresh(b, g', was)
  PROVE  BuffersOK' /\ PrintsOK'
<1> DEFINE again == {x \in Bufs : Again(b, x, g')}
<1>1. /\ text' = [x \in Bufs |-> IF x = b \/ x \in again THEN Says(view[x], g') ELSE text[x]]
      /\ printed' = [x \in Bufs |-> IF x = b \/ x \in again THEN Says(view[x], g') ELSE printed[x]]
      /\ stale' = [x \in Bufs |-> was[x] \/ (x \in Open \ {b} /\ ~Same(x))]
      /\ missed' = {}
  BY DEF Refresh, Renewed
<1>2. Open' = Open /\ Open \subseteq Bufs /\ again \subseteq Open
  BY DEF Open, Again
<1>3. \A x \in Open : Says(view[x], g') \in Sayings(Shows(view[x])) /\ Says(view[x], g') \in Texts(view[x])
  BY SaysFacts DEF BuffersOK, Open
<1>4. BuffersOK'
  <2>1. \A x \in Open : text'[x] \in Texts(view[x]) /\ printed'[x] \in Sayings(Shows(view[x]))
    BY <1>1, <1>2, <1>3 DEF BuffersOK
  <2>2. \A x \in Bufs \ Open : text'[x] = Half /\ printed'[x] = Half
    BY <1>1, <1>2 DEF BuffersOK
  <2>3. stale' \in [Bufs -> BOOLEAN] /\ DOMAIN text' = Bufs /\ DOMAIN printed' = Bufs
    BY <1>1
  <2>4. QED
    BY <1>1, <1>2, <2>1, <2>2, <2>3 DEF BuffersOK
<1>5. ASSUME NEW x \in Open, ~stale'[x], Prints(view[x], g')
      PROVE  printed'[x] = Says(view[x], g')
  <2>1. x = b \/ x \in again
    BY <1>1, <1>2, <1>5 DEF Again
  <2>2. QED
    BY <1>1, <1>2, <2>1
<1>6. PrintsOK'
  <2>1. \A x \in Open : ~stale'[x] /\ Prints(view[x], g') => printed'[x] = Says(view[x], g')
    BY <1>5
  <2>2. \A x \in Open : /\ Prints(view[x], g)' <=> Prints(view[x], g')
                         /\ Says(view[x], g)' = Says(view[x], g')
    BY DEF Prints, Says
  <2>3. QED
    BY <1>1, <1>2, <2>1, <2>2 DEF PrintsOK
<1>7. QED
  BY <1>4, <1>6

\* A change of one buffer's text, print and marks, the graph as it was.
LEMMA OneBuffer ==
  ASSUME BuffersOK, PrintsOK, UNCHANGED g, NEW b \in Bufs,
         \A x \in Bufs \ {b} : /\ view'[x] = view[x] /\ text'[x] = text[x]
                               /\ printed'[x] = printed[x] /\ stale'[x] = stale[x],
         view' \in [Bufs -> Views \union {NoView}], stale' \in [Bufs -> BOOLEAN],
         DOMAIN text' = Bufs, DOMAIN printed' = Bufs,
         missed' \in {missed, missed \ {b}},
         IF view'[b] # NoView
         THEN text'[b] \in Texts(view'[b]) /\ printed'[b] \in Sayings(Shows(view'[b]))
         ELSE text'[b] = Half /\ printed'[b] = Half /\ b \notin missed',
         b \in missed' => view[b] # NoView /\ view'[b] # NoView,
         view'[b] # NoView /\ b \notin missed' /\ ~stale'[b] /\ Prints(view'[b], g)
           => printed'[b] = Says(view'[b], g)
  PROVE  BuffersOK' /\ PrintsOK'
<1>1. /\ \A x \in Bufs : x \in Open <=> view[x] # NoView
      /\ \A x \in Bufs : x \in Open' <=> view'[x] # NoView
      /\ Open \subseteq Bufs /\ Open' \subseteq Bufs
  BY DEF Open
<1>2. missed' \subseteq Open'
  BY <1>1 DEF BuffersOK
<1>3. \A x \in Bufs : IF x \in Open'
                      THEN text'[x] \in Texts(view'[x]) /\ printed'[x] \in Sayings(Shows(view'[x]))
                      ELSE text'[x] = Half /\ printed'[x] = Half
  BY <1>1 DEF BuffersOK
<1>4. BuffersOK'
  BY <1>2, <1>3 DEF BuffersOK
<1>5. ASSUME NEW x \in Open', x \notin missed', ~stale'[x], Prints(view'[x], g)
      PROVE  printed'[x] = Says(view'[x], g)
  <2>1. CASE x = b
    BY <1>1, <1>5, <2>1
  <2>2. CASE x # b
    <3>1. x \in Open /\ x \notin missed /\ ~stale[x] /\ view'[x] = view[x] /\ printed'[x] = printed[x]
      BY <1>1, <1>5, <2>2
    <3>2. QED
      BY <1>5, <3>1 DEF PrintsOK
  <2>3. QED
    BY <2>1, <2>2
<1>6. QED
  BY <1>4, <1>5 DEF PrintsOK, Prints, Says

\* The graph changed and the other buffers not told: they are the missed.
LEMMA AfterItOK ==
  ASSUME BuffersOK, PrintsOK, NEW b \in Open, g' \in Graphs, UNCHANGED view,
         NEW STATE was, was \in [Bufs -> BOOLEAN],
         AfterIt(b, g', was)
  PROVE  BuffersOK' /\ PrintsOK'
<1>1. CASE Prints(view[b], g')
  BY <1>1, RefreshOK DEF AfterIt
<1>2. CASE ~Prints(view[b], g')
  <2>1. stale' = was /\ missed' = missed \union (Open \ {b}) /\ UNCHANGED <<text, printed>>
    BY <1>2 DEF AfterIt
  <2>2. Open' = Open
    BY DEF Open
  <2>3. BuffersOK'
    BY <2>1, <2>2 DEF BuffersOK
  <2>4. \A x \in Open' \ missed' : x = b
    BY <2>1, <2>2
  <2>5. PrintsOK'
    BY <1>2, <2>1, <2>4 DEF PrintsOK, Prints
  <2>6. QED
    BY <2>3, <2>5
<1>3. QED
  BY <1>1, <1>2

\* A request keeps the buffers right.
LEMMA StepBuffers ==
  ASSUME SessionInv, g' \in Graphs, [Next]_vars
  PROVE  BuffersOK' /\ PrintsOK'
<1>0. /\ g \in Graphs /\ BuffersOK /\ PrintsOK
      /\ view \in [Bufs -> Views \union {NoView}] /\ stale \in [Bufs -> BOOLEAN]
      /\ DOMAIN text = Bufs /\ DOMAIN printed = Bufs /\ missed \subseteq Open
      /\ \A x \in Bufs : x \in Open <=> view[x] # NoView
      /\ \A x \in Open : /\ x \in Bufs /\ view[x] \in Views
                         /\ text[x] \in Texts(view[x]) /\ printed[x] \in Sayings(Shows(view[x]))
  BY DEF SessionInv, BuffersOK, Open
<1>1. CASE UNCHANGED vars
  BY <1>0, <1>1 DEF vars, sesVars, bufVars, BuffersOK, PrintsOK, Open
<1>2. CASE Next
  <2> PICK b \in Bufs : Requests(b)
    BY <1>2 DEF Next
  <2>1. CASE Close(b)
    BY <1>0, <2>1, OneBuffer DEF Close, sesVars
  <2>2. CASE Undo(b)
    <3>1. b \in Open /\ view' = view /\ AfterIt(b, g', [stale EXCEPT ![b] = FALSE])
      BY <2>2 DEF Undo
    <3>2. [stale EXCEPT ![b] = FALSE] \in [Bufs -> BOOLEAN]
      BY <1>0
    <3>3. QED
      BY <1>0, <3>1, <3>2, AfterItOK
  <2>3. CASE Revert(b)
    <3>1. /\ b \in Open /\ view[b] # NoView /\ UNCHANGED <<view, g>>
          /\ stale' = [stale EXCEPT ![b] = FALSE]
      BY <1>0, <2>3 DEF Revert, sesVars
    <3>2. CASE stale[b] /\ Prints(view[b], g)
      <4>1. /\ text' = [text EXCEPT ![b] = Says(view[b], g)]
            /\ printed' = [printed EXCEPT ![b] = Says(view[b], g)]
            /\ missed' = missed \ {b}
        BY <2>3, <3>2 DEF Revert, Reprint
      <4>2. Says(view[b], g) \in Sayings(Shows(view[b])) /\ Says(view[b], g) \in Texts(view[b])
        BY <1>0, <3>1, SaysFacts
      <4>3. QED
        BY <1>0, <3>1, <4>1, <4>2, OneBuffer
    <3>3. CASE ~(stale[b] /\ Prints(view[b], g))
      <4>1. text' = [text EXCEPT ![b] = printed[b]] /\ UNCHANGED <<printed, missed>>
        BY <2>3, <3>3 DEF Revert
      <4>2. printed[b] \in Texts(view[b])
        BY <1>0, <3>1 DEF Texts
      <4>3. b \notin missed /\ Prints(view[b], g) => printed[b] = Says(view[b], g)
        BY <1>0, <3>1, <3>3 DEF PrintsOK
      <4>4. QED
        BY <1>0, <3>1, <4>1, <4>2, <4>3, OneBuffer
    <3>4. QED
      BY <3>2, <3>3
  <2>4. CASE RenameRefused(b)
    <3>1. UNCHANGED <<g, view, text, printed, stale, missed>>
      BY <2>4 DEF RenameRefused, Refused, bufVars
    <3>2. QED
      BY <1>0, <3>1 DEF BuffersOK, PrintsOK, Open
  <2>5. CASE \E d \in Forms : Rename(b, d)
    <3>1. PICK h \in Graphs : Stands(h) /\ AfterIt(b, h, stale) /\ b \in Open /\ view' = view
      BY <2>5 DEF Rename
    <3>2. g' = h
      BY <3>1 DEF Stands
    <3>3. AfterIt(b, g', stale)
      BY <3>1, <3>2
    <3>4. QED
      BY <1>0, <3>1, <3>3, AfterItOK
  <2>6. CASE \E v \in Views : OpenOn(b, v) \/ At(b, v)
    <3> PICK v \in Views : OpenOn(b, v) \/ At(b, v)
      BY <2>6
    <3>1. /\ view' = [view EXCEPT ![b] = v] /\ UNCHANGED g /\ stale' \in {stale, [stale EXCEPT ![b] = FALSE]}
          /\ text' = [text EXCEPT ![b] = Says(v, g)] /\ printed' = [printed EXCEPT ![b] = Says(v, g)]
          /\ missed' = missed \ {b}
      BY DEF OpenOn, At, Moves, sesVars
    <3>2. Says(v, g) \in Sayings(Shows(v)) /\ Says(v, g) \in Texts(v) /\ v # NoView
      BY <1>0, SaysFacts, ViewFacts
    <3>3. QED
      BY <1>0, <3>1, <3>2, OneBuffer
  <2>7. ASSUME NEW t \in Texts(view[b]), b \in Open, Typed(b, t), UNCHANGED g PROVE BuffersOK' /\ PrintsOK'
    <3>1. text' = [text EXCEPT ![b] = t] /\ UNCHANGED <<view, printed, stale, missed>>
      BY <2>7 DEF Typed
    <3>2. b \notin missed /\ ~stale[b] /\ Prints(view[b], g) => printed[b] = Says(view[b], g)
      BY <1>0, <2>7 DEF PrintsOK
    <3>3. QED
      BY <1>0, <2>7, <3>1, <3>2, OneBuffer
  <2>8. ASSUME NEW t \in Texts(view[b]), b \in Open, ChangeStale(b, t) PROVE BuffersOK' /\ PrintsOK'
    <3>1. CASE Prints(view[b], g) /\ t = Says(view[b], g)
      <4>1. /\ text' = [text EXCEPT ![b] = Says(view[b], g)]
            /\ printed' = [printed EXCEPT ![b] = Says(view[b], g)]
            /\ missed' = missed \ {b} /\ stale' = [stale EXCEPT ![b] = FALSE] /\ UNCHANGED <<view, g>>
        BY <2>8, <3>1 DEF ChangeStale, Reprint, sesVars
      <4>2. Says(view[b], g) \in Sayings(Shows(view[b])) /\ Says(view[b], g) \in Texts(view[b])
        BY <1>0, <2>8, SaysFacts
      <4>3. QED
        BY <1>0, <2>8, <4>1, <4>2, OneBuffer
    <3>2. CASE ~(Prints(view[b], g) /\ t = Says(view[b], g))
      BY <2>7, <2>8, <3>2 DEF ChangeStale, sesVars
    <3>3. QED
      BY <3>1, <3>2
  <2>9. ASSUME NEW t \in Texts(view[b]), b \in Open, ChangePending(b, t) \/ ChangeRefused(b, t)
        PROVE  BuffersOK' /\ PrintsOK'
    BY <2>7, <2>9 DEF ChangePending, ChangeRefused, Refused
  <2>10. ASSUME NEW h \in Graphs, b \in Open, ChangeApplied(b, h) PROVE BuffersOK' /\ PrintsOK'
    <3>1. g' = h /\ Refresh(b, h, stale) /\ view' = view
      BY <2>10 DEF ChangeApplied, Stands
    <3>2. Refresh(b, g', stale)
      BY <3>1
    <3>3. QED
      BY <1>0, <2>10, <3>1, <3>2, RefreshOK
  <2>11. QED
    BY <2>1, <2>2, <2>3, <2>4, <2>5, <2>6, <2>8, <2>9, <2>10 DEF Requests
<1>3. QED
  BY <1>1, <1>2

(***************************************************************************)
(* The invariant holds, and what the code promises.                        *)
(***************************************************************************)

LEMMA InitInv == Init => SessionInv
<1> SUFFICES ASSUME Init PROVE SessionInv
  OBVIOUS
<1>1. First \in Contents
  BY SessionAssumption DEF First
<1>2. g = Original /\ g \in Graphs
  BY <1>1 DEF Init, Original, Graphs, Sayings
<1>3. SessionOK
  <2>1. done = <<>> /\ done \in Seq(Journals) /\ Len(done) = 0 /\ 0 <= MaxEdits
    BY EmptySeq, SessionAssumption DEF Init
  <2> DEFINE past == [i \in 0 .. Len(done) |-> g]
  <2>2. past \in [0 .. Len(done) -> Graphs] /\ past[0] = g /\ past[Len(done)] = g
    BY <1>2, <2>1
  <2>3. Past(past, done, g)
    BY <1>2, <2>1, <2>2 DEF Past
  <2>4. ed = NoEditor /\ ix = g
    BY <1>2 DEF Init
  <2>5. QED
    BY <2>1, <2>2, <2>3, <2>4 DEF SessionOK
<1>4. BuffersOK /\ PrintsOK
  BY DEF Init, BuffersOK, PrintsOK, Open
<1>5. QED
  BY <1>2, <1>3, <1>4 DEF SessionInv

LEMMA InvHolds == Spec => []SessionInv
<1>1. SessionInv /\ [Next]_vars => SessionInv'
  BY StepSession, StepBuffers DEF SessionInv
<1>2. QED
  BY InitInv, <1>1, PTL DEF Spec

\* The graph, the session's caches and every buffer keep their types.
THEOREM TypeCorrect == Spec => []TypeOK
<1>1. SessionInv => TypeOK
  <2> SUFFICES ASSUME SessionInv PROVE TypeOK
    OBVIOUS
  <2>1. g \in Graphs /\ ed \in {NoEditor, g} /\ ix = g /\ Len(done) <= MaxEdits
    BY DEF SessionInv, SessionOK
  <2>2. \A i \in DOMAIN done : DOMAIN done[i] \subseteq Forms
    <3> SUFFICES ASSUME NEW i \in DOMAIN done PROVE DOMAIN done[i] \subseteq Forms
      OBVIOUS
    <3>1. done[i] \in Journals
      BY LenProperties, ElementOfSeq DEF SessionInv, SessionOK
    <3>2. QED
      BY <3>1 DEF Journals
  <2>3. missed \subseteq Open /\ \A b \in Bufs : stale[b] \in BOOLEAN
    BY DEF SessionInv, BuffersOK
  <2>4. ASSUME NEW b \in Open
        PROVE  view[b] \in Views /\ text[b] \in Texts(view[b]) /\ printed[b] \in Texts(view[b]) \ {Half}
    <3>1. b \in Bufs /\ view[b] \in Views /\ text[b] \in Texts(view[b]) /\ printed[b] \in Sayings(Shows(view[b]))
      BY DEF SessionInv, BuffersOK, Open
    <3>2. QED
      BY <3>1, ViewFacts DEF Texts
  <2>5. \A b \in Bufs \ Open : view[b] = NoView /\ text[b] = Half /\ printed[b] = Half
    BY DEF SessionInv, BuffersOK, Open
  <2>6. QED
    BY <2>1, <2>2, <2>3, <2>4, <2>5 DEF TypeOK
<1>2. QED
  BY <1>1, InvHolds, PTL

\* The editor and the index kept between requests are of the graph as it
\* is: a refusal or an undo leaves none behind of another.
THEOREM CachesAreCurrent == Spec => []CachesCurrent
<1>1. SessionInv => CachesCurrent
  BY DEF SessionInv, SessionOK, CachesCurrent
<1>2. QED
  BY <1>1, InvHolds, PTL

\* A set of naturals has a least: the induction of the proof below.
LEMMA LeastOf ==
  ASSUME NEW S, S \subseteq Nat, S # {}
  PROVE  \E m \in S : \A k \in S : ~(k < m)
<1>1. \A x, y \in Nat : <<x, y>> \in OpToRel(<, Nat) <=> x < y
  BY DEF OpToRel
<1>2. \E m \in S : \A k \in S : ~(<<k, m>> \in OpToRel(<, Nat))
  BY NatLessThanWellFounded, WFMin
<1>3. QED
  BY <1>1, <1>2

\* Undone to the last, the edits give the first graph back, whatever was
\* edited, refused and undone before, through whichever buffers.
THEOREM UndoGivesTheFirst == Spec => []UndoneToTheFirst
<1>1. SessionInv => UndoneToTheFirst
  <2> SUFFICES ASSUME SessionInv PROVE Back[Len(done)] = Original
    BY DEF UndoneToTheFirst
  <2>1. PICK past \in [0 .. Len(done) -> Graphs] : Past(past, done, g)
    BY DEF SessionInv, SessionOK
  <2>2. Len(done) \in Nat
    BY Bounds DEF SessionInv
  <2> DEFINE Made(f) == [n \in 0 .. Len(done) |->
                           IF n = 0 THEN g ELSE Undone(done[Len(done) - n + 1], f[n - 1])]
             gone == [n \in 0 .. Len(done) |-> past[Len(done) - n]]
  <2>3. ASSUME NEW n \in 0 .. Len(done)
        PROVE  gone[n] = IF n = 0 THEN g ELSE Undone(done[Len(done) - n + 1], gone[n - 1])
    <3>1. CASE n = 0
      BY <2>1, <2>2, <3>1 DEF Past
    <3>2. CASE n # 0
      <4>1. /\ Len(done) - n + 1 \in 1 .. Len(done) /\ n - 1 \in 0 .. Len(done)
            /\ Len(done) - (n - 1) = Len(done) - n + 1 /\ Len(done) - n + 1 - 1 = Len(done) - n
        BY <2>2, <3>2
      <4>2. gone[n] = past[Len(done) - n] /\ gone[n - 1] = past[Len(done) - n + 1]
        BY <4>1
      <4>3. Undone(done[Len(done) - n + 1], past[Len(done) - n + 1]) = past[Len(done) - n + 1 - 1]
        BY <2>1, <4>1 DEF Past
      <4>4. QED
        BY <3>2, <4>1, <4>2, <4>3
    <3>3. QED
      BY <3>1, <3>2
  <2>4. gone = Made(gone)
    BY <2>3
  <2>5. Back = Made(Back)
    <3>1. Back = CHOOSE f : f = Made(f)
      BY DEF Back
    <3> HIDE DEF Made
    <3>2. QED
      BY <2>4, <3>1
  <2>6. ASSUME NEW n \in 0 .. Len(done), n > 0 => Back[n - 1] = gone[n - 1]
        PROVE  Back[n] = gone[n]
    <3>1. Made(Back)[n] = Made(gone)[n]
      BY <2>2, <2>6
    <3>2. QED
      BY <2>4, <2>5, <3>1
  <2> HIDE DEF gone
  <2> DEFINE Wrong == {n \in 0 .. Len(done) : Back[n] # gone[n]}
  <2>7. Wrong = {}
    <3>1. SUFFICES ASSUME Wrong # {} PROVE FALSE
      OBVIOUS
    <3>2. Wrong \subseteq Nat
      BY <2>2
    <3>3. PICK m \in Wrong : \A k \in Wrong : ~(k < m)
      BY <3>1, <3>2, LeastOf
    <3>4. m > 0 => m - 1 \in 0 .. Len(done) /\ m - 1 \notin Wrong
      BY <2>2, <3>2, <3>3
    <3>5. Back[m] = gone[m]
      BY <2>6, <3>4
    <3>6. QED
      BY <3>3, <3>5
  <2>8. Back[Len(done)] = gone[Len(done)]
    BY <2>2, <2>7
  <2>9. gone[Len(done)] = past[0]
    BY <2>2 DEF gone
  <2>10. QED
    BY <2>1, <2>8, <2>9 DEF Past
<1>2. QED
  BY <1>1, InvHolds, PTL

\* An edit does not put back what its print said and the graph no longer
\* does: the print it was typed over is the graph's, or the buffer is stale
\* and the edit refused.  Not so in a buffer a failed request did not reach.
THEOREM NothingIsTakenBack == Spec => OnlyTyped
<1>1. ASSUME SessionInv, NEW b \in Open \ missed, ChangeApplied(b, g'),
             NEW f \in Shows(view[b]), g'[f] # g[f]
      PROVE  g'[f] # printed[b][f]
  <2>1. ~stale[b] /\ Prints(view[b], g)
    BY <1>1 DEF ChangeApplied, Edits
  <2>2. printed[b] = Says(view[b], g)
    BY <1>1, <2>1 DEF SessionInv, PrintsOK
  <2>3. printed[b][f] = g[f]
    BY <2>1, <2>2 DEF Says
  <2>4. QED
    BY <1>1, <2>3
<1>2. SessionInv /\ [Next]_vars =>
        [\A b \in Open \ missed :
           (\E f \in Shows(view[b]) : g'[f] # g[f] /\ g'[f] = printed[b][f]) => ~ChangeApplied(b, g')]_vars
  BY <1>1
<1>3. QED
  BY <1>2, InvHolds, PTL DEF Spec, OnlyTyped

\* A refresh leaves alone the texts of the other buffers with something
\* pending in them.
LEMMA RefreshKeeps ==
  ASSUME NEW b \in Bufs, NEW x \in Bufs, x # b, ~Same(x),
         NEW h, NEW was, Refresh(b, h, was)
  PROVE  text'[x] = text[x]
BY DEF Refresh, Renewed, Again

\* Text pending in a buffer outlives every change of the graph but its own:
\* the edit it says, or an undo asked for in that buffer.
THEOREM PendingIsKept == Spec => PendingKept
<1>1. ASSUME [Next]_vars, NEW x \in Open, g' # g, ~Same(x), text'[x] # text[x]
      PROVE  ChangeApplied(x, g') \/ Undo(x)
  <2>1. PICK b \in Bufs : Requests(b)
    BY <1>1 DEF Next, vars, sesVars
  <2>2. x \in Bufs
    BY DEF Open
  <2>3. ASSUME NEW h, NEW was, AfterIt(b, h, was) PROVE b = x
    <3>1. CASE UNCHANGED text
      BY <1>1, <3>1
    <3>2. CASE Refresh(b, h, was)
      BY <1>1, <2>2, <3>2, RefreshKeeps
    <3>3. QED
      BY <2>3, <3>1, <3>2 DEF AfterIt
  <2>4. CASE Undo(b)
    <3>1. b = x
      BY <2>3, <2>4 DEF Undo
    <3>2. QED
      BY <2>4, <3>1
  <2>5. CASE \E d \in Forms : Rename(b, d)
    <3>1. Same(b) /\ \E h \in Graphs : AfterIt(b, h, stale)
      BY <2>5 DEF Rename
    <3>2. QED
      BY <1>1, <2>3, <3>1
  <2>6. CASE b \in Open /\ \E h \in Graphs : ChangeApplied(b, h)
    <3>1. PICK h \in Graphs : ChangeApplied(b, h)
      BY <2>6
    <3>2. g' = h /\ Refresh(b, h, stale)
      BY <3>1 DEF ChangeApplied, Stands
    <3>3. b = x
      BY <1>1, <2>2, <3>2, RefreshKeeps
    <3>4. ChangeApplied(b, g')
      BY <3>1, <3>2
    <3>5. QED
      BY <3>3, <3>4
  <2>7. \/ Undo(b) \/ (\E d \in Forms : Rename(b, d))
        \/ b \in Open /\ \E h \in Graphs : ChangeApplied(b, h)
    BY <1>1, <2>1 DEF Requests, Close, Revert, RenameRefused, Refused, OpenOn, At,
                      ChangeStale, ChangePending, ChangeRefused, sesVars
  <2>8. QED
    BY <2>4, <2>5, <2>6, <2>7
<1>2. [Next]_vars =>
        [\A b \in Open :
           g' # g /\ ~Same(b) /\ text'[b] # text[b] => ChangeApplied(b, g') \/ Undo(b)]_vars
  BY <1>1
<1>3. QED
  BY <1>2, PTL DEF Spec, PendingKept

=============================================================================
