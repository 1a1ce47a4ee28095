----------------------------- MODULE EditSession -----------------------------
(***************************************************************************)
(* The editing session of crefactor/graph/view: one graph edited in place  *)
(* through any number of buffers, each a view of it being typed into       *)
(* (buffer.go), every edit under a journal of its own (cursor.go's         *)
(* Session, graph/journal.go), driven by the editing server's requests     *)
(* (server.go), one at a time.                                             *)
(*                                                                         *)
(* The graph is its top-level forms, each with a content, or Gone.  A view *)
(* is rooted at a form: its def shows that form alone, its uses every form *)
(* (whose text then has what each says); it prints only while its root is  *)
(* there.  A text is what it says of each form it shows, or Half: not yet  *)
(* forms, or the printed forms spaced otherwise, which edit nothing.       *)
(***************************************************************************)
EXTENDS Sequences, Naturals, SequencesExt

CONSTANTS Bufs,      \* the buffers' numbers
          Forms,     \* the top-level forms there are, or may be
          Contents,  \* what a form may say
          Plain,     \* bound: forms that say one thing only, when there
          AtStart,   \* the forms there when the session begins
          Gone,      \* a form not in the graph
          Half,      \* a text that says no edit
          MaxEdits   \* bound: edits standing at once

First == CHOOSE c \in Contents : TRUE

\* What the forms fs may say, Gone for one not there.
Sayings(fs) == {h \in [fs -> Contents \union {Gone}] : \A f \in fs \intersect Plain : h[f] \in {First, Gone}}

ASSUME SessionAssumption ==
  /\ AtStart \subseteq Forms
  /\ Plain \subseteq Forms
  /\ Contents # {} /\ Gone \notin Contents
  /\ \A fs \in SUBSET Forms : Half \notin Sayings(fs)
  /\ MaxEdits \in Nat

VARIABLES
  g,         \* the graph
  done,      \* Session.done: what each edit's journal saved
  ed,        \* Session.ed: the graph its indexes are of, NoEditor when nil
  ix,        \* Session.ix: the graph it is of
  view,      \* the view each buffer's Render prints, NoView: no such buffer
  text,      \* Buffer.Text
  printed,   \* Buffer.Printed
  stale,     \* Buffer.Stale
  missed     \* the buffers a change of the graph did not reach: a request
             \* that failed before refresh (no variable of the code)

sesVars == <<g, done, ed, ix>>
bufVars == <<view, text, printed, stale>>
vars == <<sesVars, bufVars, missed>>

Graphs == Sayings(Forms)
Live(h) == {f \in Forms : h[f] # Gone}

NoEditor == <<>>
NoView   == [kind |-> "none"]
Views    == [kind : {"def", "uses"}, root : Forms]

Shows(v) == IF v.kind = "def" THEN {v.root} ELSE Forms
Texts(v) == Sayings(Shows(v)) \union {Half}

Open == {b \in Bufs : view[b] # NoView}

\* The Render: what v prints of the graph h, and whether it does.
Prints(v, h) == h[v.root] # Gone
Says(v, h)   == [f \in Shows(v) |-> IF Prints(v, h) THEN h[f] ELSE Gone]

\* b has nothing typed that is not the print.
Same(b) == text[b] = printed[b]

TypeOK ==
  /\ g \in Graphs
  /\ ed \in Graphs \union {NoEditor}
  /\ ix \in Graphs
  /\ Len(done) <= MaxEdits
  /\ \A i \in DOMAIN done : DOMAIN done[i] \subseteq Forms
  /\ missed \subseteq Open
  /\ \A b \in Bufs :
       /\ stale[b] \in BOOLEAN
       /\ IF b \in Open
          THEN /\ view[b] \in Views
               /\ text[b] \in Texts(view[b])
               /\ printed[b] \in Texts(view[b]) \ {Half}
          ELSE view[b] = NoView /\ text[b] = Half /\ printed[b] = Half

Original == [f \in Forms |-> IF f \in AtStart THEN First ELSE Gone]

Init ==
  /\ g = Original
  /\ done = <<>>
  /\ ed = NoEditor
  /\ ix = Original
  /\ view = [b \in Bufs |-> NoView]
  /\ text = [b \in Bufs |-> Half]
  /\ printed = [b \in Bufs |-> Half]
  /\ stale = [b \in Bufs |-> FALSE]
  /\ missed = {}

(***************************************************************************)
(* The journal.                                                            *)
(***************************************************************************)

\* Mutant: a form that was not there is not put back.
Saved_Kept(h) == [f \in {x \in Live(g) : h[x] # g[x]} |-> g[f]]

\* What a journal begun on g has saved once the graph is h: what each form
\* changed said, those the sections gained or lost among them.
Saved(h) == [f \in {x \in Forms : h[x] # g[x]} |-> g[f]]

\* Journal.Undo, of j on the graph h.
Undone(j, h) == [f \in Forms |-> IF f \in DOMAIN j THEN j[f] ELSE h[f]]

(***************************************************************************)
(* The buffers.                                                            *)
(***************************************************************************)

\* b's view of h printed; kept as it was where the view is not there.
Reprint(b, h) ==
  LET p == IF Prints(view[b], h) THEN Says(view[b], h) ELSE printed[b]
  IN  /\ text' = [text EXCEPT ![b] = IF Prints(view[b], h) THEN p ELSE @]
      /\ printed' = [printed EXCEPT ![b] = p]

\* refresh, after b printed its own of h: the others printed again; those
\* with text pending are marked stale, was what stale is without it.
Again(b, x, h) == x \in Open \ {b} /\ Same(x) /\ Prints(view[x], h)
Renewed(b, txt, again, h) ==
  [x \in Bufs |-> IF x = b \/ x \in again THEN Says(view[x], h) ELSE txt[x]]

\* Mutant: a buffer with text pending is left as it is.
Refresh_NotStale(b, h, was) ==
  LET again == {x \in Bufs : Again(b, x, h)}
  IN  /\ text'    = Renewed(b, text, again, h)
      /\ printed' = Renewed(b, printed, again, h)
      /\ stale'   = was
      /\ missed'  = {}

\* Mutant: every buffer printed again, pending or not.
Refresh_Drops(b, h, was) ==
  LET again == {x \in Open : Prints(view[x], h)}
  IN  /\ text'    = Renewed(b, text, again, h)
      /\ printed' = Renewed(b, printed, again, h)
      /\ stale'   = was
      /\ missed'  = {}

Refresh(b, h, was) ==
  LET again == {x \in Bufs : Again(b, x, h)}
  IN  /\ text'    = Renewed(b, text, again, h)
      /\ printed' = Renewed(b, printed, again, h)
      /\ stale'   = [x \in Bufs |-> was[x] \/ (x \in Open \ {b} /\ ~Same(x))]
      /\ missed'  = {}

(***************************************************************************)
(* The session.                                                            *)
(***************************************************************************)

\* The session's editor, made of the graph when there is none.
Editor == IF ed = NoEditor THEN g ELSE ed

\* An edit that stands: the graph h, its journal kept, the editor and the
\* index kept with it.
Stands(h) ==
  /\ Len(done) < MaxEdits
  /\ g' = h
  /\ done' = Append(done, Saved(h))
  /\ ed' = h
  /\ ix' = h

\* Mutant: the editor is kept over a refusal.
Refused_KeepsEditor(h) ==
  /\ ed' = IF h # g THEN h ELSE Editor
  /\ UNCHANGED <<g, done, ix>>

\* One refused, the graph h by then, and undone: the editor, indexing what
\* was undone, is dropped.
Refused(h) ==
  /\ ed' = IF h # g THEN NoEditor ELSE Editor
  /\ UNCHANGED <<g, done, ix>>

\* Session.Undo.
SessionUndo ==
  /\ done # <<>>
  /\ g' = Undone(Last(done), g)
  /\ done' = Front(done)
  /\ ed' = NoEditor
  /\ ix' = [f \in Forms |-> IF f \in DOMAIN Last(done) THEN g'[f] ELSE ix[f]]

(***************************************************************************)
(* The requests.                                                           *)
(***************************************************************************)

\* open, on a buffer's number or on one in use, whose buffer is closed.
OpenOn(b, v) ==
  /\ Prints(v, g)
  /\ view' = [view EXCEPT ![b] = v]
  /\ text' = [text EXCEPT ![b] = Says(v, g)]
  /\ printed' = [printed EXCEPT ![b] = Says(v, g)]
  /\ stale' = [stale EXCEPT ![b] = FALSE]
  /\ missed' = missed \ {b}
  /\ UNCHANGED sesVars

Close(b) ==
  /\ b \in Open
  /\ view' = [view EXCEPT ![b] = NoView]
  /\ text' = [text EXCEPT ![b] = Half]
  /\ printed' = [printed EXCEPT ![b] = Half]
  /\ stale' = [stale EXCEPT ![b] = FALSE]
  /\ missed' = missed \ {b}
  /\ UNCHANGED sesVars

\* change, the text typed into become t ...
Typed(b, t) ==
  /\ text' = [text EXCEPT ![b] = t]
  /\ UNCHANGED <<view, printed, stale, missed>>

\* ... in a stale buffer: the same as the print now, or refused.
ChangeStale(b, t) ==
  /\ stale[b]
  /\ IF Prints(view[b], g) /\ t = Says(view[b], g)
     THEN /\ stale' = [stale EXCEPT ![b] = FALSE]
          /\ Reprint(b, g)
          /\ missed' = missed \ {b}
          /\ UNCHANGED view
     ELSE Typed(b, t)
  /\ UNCHANGED sesVars

\* ... which says no edit, or cannot be tried: the view is not there.
ChangePending(b, t) ==
  /\ ~stale[b]
  /\ \/ t \in {printed[b], Half} /\ UNCHANGED ed
     \/ t \notin {printed[b], Half} /\ ~Prints(view[b], g) /\ ed' = Editor
  /\ Typed(b, t)
  /\ UNCHANGED <<g, done, ix>>

Edits(b, t) == ~stale[b] /\ t \notin {printed[b], Half} /\ Prints(view[b], g)

\* ... which says an edit that stands: the view printed of the graph h says
\* what was typed, and forms may have been put beside the view's own.
ChangeApplied(b, h) ==
  /\ Edits(b, [f \in Shows(view[b]) |-> h[f]])
  /\ \A f \in Live(g) \ Shows(view[b]) : h[f] = g[f]
  /\ Stands(h)
  /\ Refresh(b, h, stale)
  /\ UNCHANGED view

\* ... or one that does not: half of it may have been made by then.
ChangeRefused(b, t) ==
  /\ Edits(b, t)
  /\ Typed(b, t)
  /\ \E h \in {g, [f \in Forms |-> IF f \in Shows(view[b]) THEN t[f] ELSE g[f]]} : Refused(h)

\* The rest of an undo or a rename, the graph h: b printed again and the
\* others refreshed, or b's view is not there and they are not.
AfterIt(b, h, was) ==
  IF Prints(view[b], h)
  THEN Refresh(b, h, was)
  ELSE /\ stale' = was
       /\ missed' = missed \union (Open \ {b})
       /\ UNCHANGED <<text, printed>>

\* undo: what is pending in b is dropped.
Undo(b) ==
  /\ b \in Open
  /\ SessionUndo
  /\ AfterIt(b, g', [stale EXCEPT ![b] = FALSE])
  /\ UNCHANGED view

\* rename, of the entity under a position of the print: the forms naming it
\* change, none comes or goes.
Rename(b, d) ==
  /\ b \in Open
  /\ Same(b)
  /\ d \in Shows(view[b]) \intersect Live(g)
  /\ printed[b][d] # Gone
  /\ \E h \in Graphs :
       /\ Live(h) = Live(g)
       /\ h[d] # g[d]
       /\ Stands(h)
       /\ AfterIt(b, h, stale)
  /\ UNCHANGED view

RenameRefused(b) ==
  /\ b \in Open
  /\ Same(b)
  /\ \E h \in {h \in Graphs : Live(h) = Live(g)} : Refused(h)
  /\ UNCHANGED <<bufVars, missed>>

Revert(b) ==
  /\ b \in Open
  /\ stale' = [stale EXCEPT ![b] = FALSE]
  /\ IF stale[b] /\ Prints(view[b], g)
     THEN Reprint(b, g) /\ missed' = missed \ {b}
     ELSE text' = [text EXCEPT ![b] = printed[b]] /\ UNCHANGED <<printed, missed>>
  /\ UNCHANGED <<sesVars, view>>

\* Mutant: the buffer is not printed again.
Moves_Unprinted(b, v) == UNCHANGED <<text, printed>>

\* Buffer.Reopen.
Moves(b, v) ==
  /\ text' = [text EXCEPT ![b] = Says(v, g)]
  /\ printed' = [printed EXCEPT ![b] = Says(v, g)]

\* at: the buffer on the view of an entity it shows.
At(b, v) ==
  /\ b \in Open
  /\ v.root \in Shows(view[b])
  /\ printed[b][v.root] # Gone
  /\ Prints(v, g)
  /\ view' = [view EXCEPT ![b] = v]
  /\ Moves(b, v)
  /\ missed' = missed \ {b}
  /\ UNCHANGED <<sesVars, stale>>

Requests(b) ==
  \/ Close(b) \/ Undo(b) \/ Revert(b) \/ RenameRefused(b)
  \/ \E d \in Forms : Rename(b, d)
  \/ \E v \in Views : OpenOn(b, v) \/ At(b, v)
  \/ /\ b \in Open
     /\ \/ \E t \in Texts(view[b]) : ChangeStale(b, t) \/ ChangePending(b, t) \/ ChangeRefused(b, t)
        \/ \E h \in Graphs : ChangeApplied(b, h)

Next == \E b \in Bufs : Requests(b)

\* The buffers are alike.
BufSymmetry == Permutations(Bufs)

Spec == Init /\ [][Next]_vars

(***************************************************************************)
(* What the code promises.                                                 *)
(***************************************************************************)

\* The graph with the last n edits undone.
Back[n \in 0 .. Len(done)] == IF n = 0 THEN g ELSE Undone(done[Len(done) - n + 1], Back[n - 1])

\* Undone to the last, the graph is the one the session was given, whatever
\* was edited, refused and undone through whichever buffers: the journals
\* are undone the other way round (cursor.go:11-13).
UndoneToTheFirst == Back[Len(done)] = Original

\* The editor and the index a session keeps from one request to the next
\* are of the graph as it is: one left behind by a refusal or an undo would
\* edit what is not there (cursor.go:103).
CachesCurrent == ed \in {NoEditor, g} /\ ix = g

\* An edit changes the forms its view shows only where they were typed over:
\* what another buffer's edit, undo or rename did since is not taken back
\* by a text typed before it (buffer.go:129-130).  Not so in a buffer a
\* failed request's change of the graph did not reach.
OnlyTyped ==
  [][\A b \in Open \ missed :
       (\E f \in Shows(view[b]) : g'[f] # g[f] /\ g'[f] = printed[b][f]) => ~ChangeApplied(b, g')]_vars

\* Text pending in a buffer is not lost to a request on another (GRAPH.md,
\* "Several views on one session": that is kept).
PendingKept ==
  [][\A b \in Open :
       g' # g /\ ~Same(b) /\ text'[b] # text[b] => ChangeApplied(b, g') \/ Undo(b)]_vars

\* "An edit, an undo or a rename through one buffer prints every other
\* again" (GRAPH.md:2379-2381): a buffer with nothing pending, its view
\* there, says what the graph does.  It fails when the request's own view
\* went with the edit undone: Undo returns before refresh.
PrintsCurrent ==
  \A b \in Open : Same(b) /\ ~stale[b] /\ Prints(view[b], g) => printed[b] = Says(view[b], g)

\* Stale: the text "was typed against a print the graph no longer makes"
\* (buffer.go:37-38).  It fails after `at`: the buffer is printed afresh and
\* is stale still, so that every change of it is refused until a revert.
StaleIsOld ==
  \A b \in Open : stale[b] => ~(Same(b) /\ Prints(view[b], g) /\ printed[b] = Says(view[b], g))

==============================================================================
