--------------------------- MODULE Pipeline_proofs ---------------------------
(***************************************************************************)
(* Proofs about the pipeline's driver, for a plan of any length, whatever  *)
(* its phases are, any inputs, and any number of edits and commands: the   *)
(* types, that a sealed set is whole (SealedWhole), that a check answers   *)
(* ok only of what the plan gives on the input it read (CheckSound), that  *)
(* it names just the phases that changed (NamesTheChanged, for a plan one  *)
(* phase of which reads the environment), and the order of the log.        *)
(***************************************************************************)
EXTENDS Pipeline, FiniteSetTheorems, SequenceTheorems, NaturalsInduction,
        WellFoundedInduction, TLAPS

(***************************************************************************)
(* The invariant.                                                          *)
(***************************************************************************)

\* A text on the disk or in a run: never empty, and never astray, for Run
\* puts no phase's rows in another's environment.
RunTexts == Seq(Inputs \cup Programs \cup {"torn"}) \ {<<>>}

Stages == {"hand", "steps", "keep", "log"}
Prepares == {"unseal", "empty", "unindex"}
Closings == {"close", "seal"}

PipeTypeOK ==
  /\ input \in Inputs /\ plan \in [Phases -> Programs]
  /\ manifest \in Inputs \cup {None} /\ mixed \in BOOLEAN
  /\ q \in [Phases -> RunTexts \cup {None}]
  /\ gm \in [Phases -> [head : RunTexts, graph : RunTexts] \cup {None}]
  /\ idx \subseteq RunTexts
  /\ have \subseteq RunTexts
  /\ at \in {"idle", "start", "ran", "check", "seed", "links", "compile", "answered"}
              \cup Stages \cup Prepares \cup Closings
  /\ opt \in Options /\ src \in Inputs \cup {None}
  /\ phase \in 0 .. Last + 1
  /\ text \in RunTexts \cup {None} /\ answer \in RunTexts \cup {None}
  /\ ed \in RunTexts \cup {None} /\ units \in RunTexts \cup {None}
  /\ env \in Declared \cup {None}
  /\ link \in [Links -> {"waits", "held", "runs", "done"}]
  /\ on \in [Links -> RunTexts \cup {None}]
  /\ named \subseteq Links
  /\ verdict \in Verdicts \cup {None}

\* What the place in the command says of what it has in memory.
AtOK ==
  /\ at \notin {"idle", "start", "check"} => src \in Inputs
  /\ at \in Prepares \cup Closings \cup {"check", "seed", "links", "compile"} => Snaps(opt)
  /\ at \in Prepares => phase = 0 /\ text = None
  /\ at \in {"idle", "start", "check"} \cup Prepares => ed = None /\ units = None
  /\ at \in {"idle", "start", "check", "seed"} => named = {} /\ \A n \in Links : link[n] = "waits"
  /\ verdict # None => at = "answered"

\* Run: the graph at hand and the units made ahead are the text's.
HandOK ==
  at \in Stages =>
    /\ IF phase = 0 /\ at = "hand" THEN text = None ELSE text \in RunTexts
    /\ ed \in {None, text} /\ units \in {None, text}
    /\ at # "hand" => phase <= opt.to
    /\ at = "steps" =>
         /\ phase \notin NoSource /\ units = None
         /\ phase \in GraphPhases => ed = text

\* What boundary n is to be made of.
Before(n) == IF n = 0 THEN Seed(src) ELSE q[n - 1]

\* Boundary n is what the plan makes of the one before it.
Follows(n) == q[n] = Advance(n, Before(n), n) /\ ~Refuses(n)

RanTo(m) == \A n \in Phases : n < m => Follows(n) /\ q[n] \in RunTexts /\ q[n][1] = src

\* A run that is to seal the set: it is unsealed, and the boundaries behind
\* the phase it is at are this run's.
RunOK ==
  Snaps(opt) =>
    /\ at \in Stages \cup Closings \cup {"empty", "unindex"} => manifest = None
    /\ at = "hand" => RanTo(phase) /\ (phase > 0 => text = q[phase - 1])
    /\ at = "steps" => RanTo(phase) /\ text = Before(phase)
    /\ at = "keep" => RanTo(phase) /\ ~Refuses(phase) /\ text = Advance(phase, Before(phase), phase)
    /\ at = "log" => RanTo(phase + 1) /\ text = q[phase]
    /\ at \in Closings => RanTo(Last + 1) /\ answer = q[Last]

\* The store holds boundary n - 1's graph, under its name.
Stored(n) == gm[n - 1] = [head |-> q[n - 1], graph |-> q[n - 1]]

\* The graphs handed on by now are in the store's manifests and its pack.
StoreOK ==
  Snaps(opt) =>
    \A n \in Links \cap GraphPhases :
      (\/ at = "hand" /\ n < phase
       \/ at \in Stages \ {"hand"} /\ n <= phase
       \/ at \in Closings) =>
        /\ Stored(n) /\ q[n - 1] \in have
        /\ at = "seal" => idx = have

\* A set a run sealed.
Sealed(i) ==
  /\ \A n \in Phases : q[n] \in RunTexts /\ q[n][1] = i
  /\ \A n \in Links \cap NoSource : q[n] = q[n - 1]
  /\ \A n \in Links \ NoSource :
       \E p \in Programs : q[n] = Append(q[n - 1], p) /\ (n \in Refusing => p = "old")
  /\ \A n \in Links \cap GraphPhases : Stored(n) /\ q[n - 1] \in idx

DiskOK ==
  /\ manifest # None /\ ~mixed => Sealed(manifest)
  /\ \A n \in Phases : gm[n] # None => gm[n].head = gm[n].graph

\* Check: the links that held, and what those that run began on.
LinksOK ==
  /\ at \in {"seed", "links"} => SnapshotsFor(src)
  /\ at = "links" =>
       /\ Follows(0)
       /\ \A n \in Links :
            /\ link[n] = "runs" => on[n] = q[n - 1]
            /\ link[n] = "done" /\ n \notin named => Follows(n)
  /\ at = "compile" \/ verdict = "ok" =>
       /\ src \in Inputs
       /\ answer = q[Last]
       /\ \A n \in Phases : Follows(n)
  /\ verdict = "ok" => \A n \in Phases : CompilesAt(n)

PipeInv == PipeTypeOK /\ AtOK /\ HandOK /\ RunOK /\ StoreOK /\ DiskOK /\ LinksOK

PlacesOK == Cardinality({n \in Links : link[n] \in {"held", "runs"}}) <= Jobs

\* The links that are done and found a changed program are the named ones.
NamesInv ==
  /\ at = "links" /\ ~mixed =>
       named = {n \in Links \ NoSource : link[n] = "done" /\ plan[n] # q[n][Len(q[n])]}
  /\ at = "links" => \A n \in Links \cap Declared : link[n] = "runs" => env = n
  /\ NamesTheChanged

\* Phases, or their lines, in order from one on.
PhasesFrom(l, n) == \A i \in 1 .. Len(l) : l[i] = n + i - 1
LinesFrom(p, n) == \A i \in 1 .. Len(p) : p[i].of = n + i - 1

\* The lines written, and behind them those that wait, are the phases' in
\* order, up to the one the run is at.
LogInv ==
  /\ log \in Seq(Nat) /\ pending \in Seq([of : Nat, waits : BOOLEAN])
  /\ PhasesFrom(log, opt.from) /\ LinesFrom(pending, opt.from + Len(log))
  /\ at \in Stages => opt.from + Len(log) + Len(pending) = phase
  /\ at \notin Stages => pending = <<>>
  /\ at \in {"idle", "start", "check"} \cup Prepares => log = <<>>

(***************************************************************************)
(* Texts, and the plan.                                                    *)
(***************************************************************************)

USE DEF Links

\* A text of a run is a text, is not the absent one, and begins somewhere.
LEMMA RunTextIsText ==
  ASSUME NEW t \in RunTexts
  PROVE  /\ t \in Texts /\ t # None
         /\ t \in Seq(Inputs \cup Programs \cup {"torn"})
         /\ Len(t) \in Nat \ {0}
<1>1. t \in Seq(Inputs \cup Programs \cup {"torn"}) /\ t # <<>>
  BY DEF RunTexts
<1>2. t \in Seq(Inputs \cup Programs \cup {"astray", "torn"})
  BY <1>1
<1>3. Len(t) \in Nat \ {0}
  BY <1>1, EmptySeq
<1>4. QED
  BY <1>1, <1>2, <1>3, PipelineAssumption DEF Texts

\* What a phase appends to a text is its last, and the text's first stays.
LEMMA AppendText ==
  ASSUME NEW t \in RunTexts, NEW p
  PROVE  /\ Append(t, p)[Len(Append(t, p))] = p
         /\ Append(t, p)[1] = t[1]
         /\ p \in Programs => Append(t, p) \in RunTexts
         /\ p = "astray" => Append(t, p) \notin RunTexts
<1> DEFINE Tokens == Inputs \cup Programs \cup {"torn"}
<1>1. t \in Seq(Tokens) /\ Len(t) \in Nat \ {0}
  BY RunTextIsText
<1>2. t \in Seq(Tokens \cup {p}) /\ p \in Tokens \cup {p}
  BY <1>1
<1> HIDE DEF Tokens
<1>3. /\ Append(t, p) \in Seq(Tokens \cup {p})
      /\ Len(Append(t, p)) = Len(t) + 1
      /\ Append(t, p)[Len(t) + 1] = p
      /\ \A i \in 1 .. Len(t) : Append(t, p)[i] = t[i]
  BY <1>2, AppendProperties
<1>4. Append(t, p)[1] = t[1] /\ Append(t, p)[Len(Append(t, p))] = p
  BY <1>1, <1>3
<1>5. ASSUME p \in Programs PROVE Append(t, p) \in RunTexts
  <2>1. Tokens \cup {p} = Tokens
    BY <1>5 DEF Tokens
  <2>2. Append(t, p) # <<>>
    BY <1>1, <1>3, EmptySeq
  <2>3. QED
    BY <2>1, <2>2, <1>3 DEF RunTexts, Tokens
<1>6. ASSUME p = "astray", Append(t, p) \in RunTexts PROVE FALSE
  <2>1. Append(t, p) \in Seq(Tokens)
    BY <1>6, RunTextIsText DEF Tokens
  <2>2. p \in Tokens
    BY <2>1, <1>1, <1>3, ElementOfSeq
  <2>3. QED
    BY <2>2, <1>6, PipelineAssumption DEF Tokens, Programs
<1>7. QED
  BY <1>4, <1>5, <1>6

\* What a command may be told.
LEMMA OptionFacts ==
  ASSUME NEW o \in Options
  PROVE  /\ o.from \in Phases /\ o.to \in Phases /\ o.from <= o.to
         /\ o.check \in BOOLEAN /\ o.keep \in BOOLEAN /\ o.keepGoing \in BOOLEAN
         /\ o.check => Snaps(o)
         /\ Snaps(o) => o.from = 0 /\ o.to = Last /\ ~o.keepGoing
<1>0. 0 \in Phases /\ Last \in Phases /\ 0 <= Last
  BY PipelineAssumption DEF Phases
<1>1. CASE o = Whole
  BY <1>0, <1>1 DEF Whole, Snaps
<1>2. CASE o = Checks
  BY <1>0, <1>2 DEF Checks, Whole, Snaps
<1>3. CASE o = To(0)
  BY <1>0, <1>3 DEF To, Whole, Snaps
<1>4. CASE o = From(Last)
  BY <1>0, <1>4, PipelineAssumption DEF From, Whole, Snaps
<1>5. CASE o = NoForms
  BY <1>0, <1>5 DEF NoForms, Whole, Snaps
<1>6. CASE o = KeepGoing
  BY <1>0, <1>6 DEF KeepGoing, Whole, Snaps
<1>7. QED
  BY <1>1, <1>2, <1>3, <1>4, <1>5, <1>6 DEF Options

\* A phase of the plan, in an environment of its own rows, makes a text of
\* a run of one; and in another's, the same or what no run has.
LEMMA AdvanceFacts ==
  ASSUME plan \in [Phases -> Programs], NEW n \in Phases, NEW t \in RunTexts, NEW e
  PROVE  /\ Advance(n, t, n) \in RunTexts
         /\ Advance(n, t, n)[1] = t[1]
         /\ Advance(n, t, e) \in RunTexts => Advance(n, t, e) = Advance(n, t, n)
  BY AppendText DEF Advance

LEMMA SeedFacts ==
  ASSUME NEW i \in Inputs
  PROVE  Seed(i) \in RunTexts /\ Seed(i)[1] = i
  BY DEF Seed, RunTexts

LEMMA TornFacts ==
  Torn \in RunTexts /\ Torn[1] = "torn" /\ "torn" \notin Inputs
  BY PipelineAssumption DEF Torn, RunTexts

(***************************************************************************)
(* Types.                                                                  *)
(***************************************************************************)

USE DEF givenVars, storeVars, diskVars, progVars, logVars, linkVars, Goes

LEMMA WholeIsOption == Whole \in Options
  BY DEF Options

LEMMA InitTypeOK == Init => PipeTypeOK
<1> SUFFICES ASSUME Init PROVE PipeTypeOK
  OBVIOUS
<1>1. input \in Inputs /\ opt \in Options /\ phase \in 0 .. Last + 1
  BY WholeIsOption, PipelineAssumption DEF Init, Cleared
<1>2. QED
  BY <1>1 DEF Init, Cleared, PipeTypeOK, Programs

LEMMA StepTypeOK == ASSUME PipeInv, [Next]_vars PROVE PipeTypeOK'
<1>0. /\ PipeTypeOK /\ AtOK /\ HandOK
      /\ opt.from \in Phases /\ opt.to \in Phases /\ opt.check \in BOOLEAN
      /\ Last \in Nat /\ 0 \in Phases /\ Last \in Phases /\ Phases = 0 .. Last
  BY OptionFacts, PipelineAssumption DEF PipeInv, PipeTypeOK, Phases
<1> USE <1>0 DEF PipeTypeOK, Stages, Prepares, Closings
<1>1. CASE EditInput
  BY <1>1 DEF EditInput
<1>2. CASE \E n \in Phases : EditPhase(n)
  BY <1>2 DEF EditPhase, Programs
<1>3. CASE \E o \in Options : Command(o)
  BY <1>3 DEF Command
<1>4. CASE Ends
  BY <1>4, WholeIsOption DEF Ends, Clears
<1>5. CASE Starts
  <2>1. text' \in RunTexts \cup {None}
    BY <1>5 DEF Starts
  <2>2. phase' \in 0 .. Last + 1 /\ src' \in Inputs
    BY <1>5 DEF Starts
  <2>3. QED
    BY <1>5, <2>1, <2>2 DEF Starts
<1>6. CASE Unseals
  BY <1>6 DEF Unseals
<1>7. CASE EmptiesStore
  BY <1>7 DEF EmptiesStore
<1>8. CASE Unindexes
  BY <1>8 DEF Unindexes
<1>9. ASSUME at = "hand" PROVE Handed \in RunTexts
  BY <1>9, SeedFacts DEF Handed, HandOK, AtOK
<1>10. CASE HandsGraph
  <2>1. /\ text' \in RunTexts /\ ed' \in RunTexts /\ units' = None
        /\ phase > 0 => text \in RunTexts
        /\ (IF units # None THEN units ELSE ed') \in RunTexts
    BY <1>9, <1>10 DEF HandsGraph, HandOK
  <2>2. gm' \in [Phases -> [head : RunTexts, graph : RunTexts] \cup {None}] /\ have' \subseteq RunTexts
    <3>1. CASE Snaps(opt) /\ phase > 0
      <4> DEFINE graph == IF units # None THEN units ELSE ed'
                 kept == [head |-> text, graph |-> graph]
      <4>1. /\ gm' = [gm EXCEPT ![phase - 1] = kept] /\ have' = have \cup {graph}
            /\ graph \in RunTexts
        BY <1>10, <2>1, <3>1 DEF HandsGraph
      <4>2. kept \in [head : RunTexts, graph : RunTexts]
        BY <2>1, <3>1, <4>1
      <4> HIDE DEF kept, graph
      <4>3. QED
        BY <4>1, <4>2
    <3>2. CASE ~(Snaps(opt) /\ phase > 0)
      BY <1>10, <3>2 DEF HandsGraph
    <3>3. QED
      BY <3>1, <3>2
  <2>3. QED
    BY <1>10, <2>1, <2>2 DEF HandsGraph
<1>11. CASE HandsText
  BY <1>9, <1>11 DEF HandsText
<1>12. CASE HandsOn
  BY <1>9, <1>12 DEF HandsOn
<1>13. CASE Steps
  <2>1. phase \in Phases /\ text \in RunTexts /\ (phase \in GraphPhases => ed = text)
    BY <1>13 DEF Steps, HandOK
  <2>2. text' \in RunTexts
    BY <1>13, <2>1, AdvanceFacts DEF Steps
  <2>3. QED
    BY <1>13, <2>2 DEF Steps
<1>14. CASE StepsRefused
  BY <1>14 DEF StepsRefused, Verdicts
<1>15. CASE KeepBegins
  BY <1>15, TornFacts DEF KeepBegins
<1>16. CASE KeepEnds
  BY <1>16 DEF KeepEnds
<1>17. CASE LogLine
  <2>1. phase' \in 0 .. Last + 1
    BY <1>17 DEF LogLine, HandOK
  <2>2. ed' \in RunTexts \cup {None} /\ units' \in RunTexts \cup {None}
    BY <1>17 DEF LogLine, Ahead
  <2>3. QED
    BY <1>17, <2>1, <2>2 DEF LogLine
<1>18. CASE Finishes
  BY <1>18 DEF Finishes
<1>19. CASE ClosesStore
  BY <1>19 DEF ClosesStore
<1>20. CASE Seals
  BY <1>20 DEF Seals
<1>21. CASE ChecksWhat
  BY <1>21 DEF ChecksWhat
<1>22. CASE ChecksSeed
  BY <1>22 DEF ChecksSeed, Verdict, Verdicts
<1>23. CASE \E n \in Links : LinkTakes(n)
  BY <1>23 DEF LinkTakes, LinkIs
<1>24. CASE \E n \in Links : LinkReads(n)
  <2> PICK n \in Links : LinkReads(n)
    BY <1>24
  <2>1. n - 1 \in Phases /\ n \in Phases
    OBVIOUS
  <2>2. GraphFor(n - 1, q[n - 1]) \in RunTexts \cup {None}
    BY <2>1 DEF GraphFor, StoreGives
  <2>3. on' \in [Links -> RunTexts \cup {None}] /\ link' \in [Links -> {"waits", "held", "runs", "done"}]
    BY <2>1, <2>2 DEF LinkReads, LinkIs
  <2>4. QED
    BY <2>3 DEF LinkReads, LinkIs
<1>25. CASE \E n \in Links : LinkRuns(n)
  BY <1>25 DEF LinkRuns, LinkIs
<1>26. CASE LinksEnd
  BY <1>26 DEF LinksEnd, Verdict, Verdicts
<1>27. CASE CompilesAll
  BY <1>27 DEF CompilesAll, Verdict, Verdicts
<1>28. CASE UNCHANGED vars
  BY <1>28 DEF vars
<1>29. QED
  BY <1>1, <1>2, <1>3, <1>4, <1>5, <1>6, <1>7, <1>8, <1>10, <1>11, <1>12, <1>13, <1>14,
     <1>15, <1>16, <1>17, <1>18, <1>19, <1>20, <1>21, <1>22, <1>23, <1>24, <1>25, <1>26, <1>27, <1>28
  DEF Next, Edits, Runs, Link, CheckSteps, Returns, Killed

(***************************************************************************)
(* What each place in a command says.                                      *)
(***************************************************************************)

LEMMA StepAtOK == ASSUME PipeInv, PipeTypeOK', [Next]_vars PROVE AtOK'
<1>0. /\ PipeTypeOK /\ AtOK
      /\ opt.check \in BOOLEAN /\ (opt.check => Snaps(opt))
      /\ (Snaps(opt) => opt.from = 0)
      /\ None \notin Inputs /\ None \notin Verdicts
  BY OptionFacts, PipelineAssumption DEF PipeInv, PipeTypeOK
<1> USE <1>0 DEF PipeTypeOK, AtOK, Stages, Prepares, Closings, Verdicts
<1>1. CASE EditInput
  BY <1>1 DEF EditInput
<1>2. CASE \E n \in Phases : EditPhase(n)
  BY <1>2 DEF EditPhase
<1>3. CASE \E o \in Options : Command(o)
  BY <1>3, OptionFacts DEF Command
<1>4. CASE Ends
  BY <1>4 DEF Ends, Clears
<1>5. CASE Starts
  BY <1>5 DEF Starts
<1>6. CASE Unseals
  BY <1>6 DEF Unseals
<1>7. CASE EmptiesStore
  BY <1>7 DEF EmptiesStore
<1>8. CASE Unindexes
  BY <1>8 DEF Unindexes
<1>9. CASE HandsGraph
  BY <1>9 DEF HandsGraph
<1>10. CASE HandsText
  BY <1>10 DEF HandsText
<1>11. CASE HandsOn
  BY <1>11 DEF HandsOn
<1>12. CASE Steps
  BY <1>12 DEF Steps
<1>13. CASE StepsRefused
  BY <1>13 DEF StepsRefused
<1>14. CASE KeepBegins
  BY <1>14 DEF KeepBegins
<1>15. CASE KeepEnds
  BY <1>15 DEF KeepEnds
<1>16. CASE LogLine
  BY <1>16 DEF LogLine
<1>17. CASE Finishes
  BY <1>17 DEF Finishes
<1>18. CASE ClosesStore
  BY <1>18 DEF ClosesStore
<1>19. CASE Seals
  BY <1>19 DEF Seals
<1>20. CASE ChecksWhat
  BY <1>20 DEF ChecksWhat
<1>21. CASE ChecksSeed
  BY <1>21 DEF ChecksSeed, Verdict
<1>22. CASE \E n \in Links : LinkTakes(n)
  BY <1>22 DEF LinkTakes, LinkIs
<1>23. CASE \E n \in Links : LinkReads(n)
  BY <1>23 DEF LinkReads, LinkIs
<1>24. CASE \E n \in Links : LinkRuns(n)
  BY <1>24 DEF LinkRuns, LinkIs
<1>25. CASE LinksEnd
  BY <1>25 DEF LinksEnd, Verdict
<1>26. CASE CompilesAll
  BY <1>26 DEF CompilesAll, Verdict
<1>27. CASE UNCHANGED vars
  BY <1>27 DEF vars
<1>28. QED
  BY <1>1, <1>2, <1>3, <1>4, <1>5, <1>6, <1>7, <1>8, <1>9, <1>10, <1>11, <1>12, <1>13, <1>14,
     <1>15, <1>16, <1>17, <1>18, <1>19, <1>20, <1>21, <1>22, <1>23, <1>24, <1>25, <1>26, <1>27
  DEF Next, Edits, Runs, Link, CheckSteps, Returns, Killed

(***************************************************************************)
(* Run: the graph at hand and the units made ahead are the text's.         *)
(***************************************************************************)

LEMMA StepHandOK == ASSUME PipeInv, PipeTypeOK', [Next]_vars PROVE HandOK'
<1>0. /\ PipeTypeOK /\ AtOK /\ HandOK
      /\ opt.from \in Nat /\ opt.to \in Nat /\ opt.from <= opt.to
      /\ None \notin RunTexts /\ phase \in Nat
      /\ opt.to \in Phases /\ Phases = 0 .. Last /\ Last \in Nat
  <2>1. PipeTypeOK /\ AtOK /\ HandOK
    BY DEF PipeInv
  <2>2. opt \in Options /\ phase \in 0 .. Last + 1
    BY <2>1 DEF PipeTypeOK
  <2>3. Phases = 0 .. Last /\ Last \in Nat
    BY PipelineAssumption DEF Phases
  <2>4. opt.from \in Nat /\ opt.to \in Nat /\ opt.from <= opt.to /\ opt.to \in Phases
    BY <2>2, <2>3, OptionFacts
  <2>5. None \notin RunTexts
    BY RunTextIsText
  <2>6. QED
    BY <2>1, <2>2, <2>3, <2>4, <2>5
<1> USE <1>0 DEF PipeTypeOK, AtOK, HandOK, Stages, Prepares, Closings
<1>1. CASE EditInput
  BY <1>1 DEF EditInput
<1>2. CASE \E n \in Phases : EditPhase(n)
  BY <1>2 DEF EditPhase
<1>3. CASE \E o \in Options : Command(o)
  BY <1>3 DEF Command, Options
<1>4. CASE Ends
  BY <1>4 DEF Ends, Clears
<1>5. CASE Starts
  BY <1>5 DEF Starts
<1>6. CASE Unseals
  BY <1>6 DEF Unseals
<1>7. CASE EmptiesStore
  BY <1>7 DEF EmptiesStore
<1>8. CASE Unindexes
  BY <1>8 DEF Unindexes
<1>h. ASSUME at = "hand"
      PROVE  /\ Handed \in RunTexts
             /\ phase = 0 => ed = None /\ units = None
             /\ phase > 0 => Handed = text
  BY <1>h, SeedFacts DEF Handed
<1>9. CASE HandsGraph
  <2>1. text' = Handed /\ ed' = Handed /\ units' = None /\ at = "hand" /\ at' = "steps"
    BY <1>h, <1>9 DEF HandsGraph
  <2>2. phase' = phase /\ phase \in GraphPhases /\ phase <= opt.to /\ opt' = opt
    BY <1>9 DEF HandsGraph, ToRun
  <2>3. phase \notin NoSource
    BY <2>2, PipelineAssumption
  <2>4. QED
    BY <1>h, <2>1, <2>2, <2>3
<1>10. CASE HandsText
  BY <1>h, <1>10 DEF HandsText, ToRun
<1>11. CASE HandsOn
  BY <1>h, <1>11 DEF HandsOn, ToRun
<1>12. CASE Steps
  <2>1. text' \in RunTexts
    <3>1. phase \in Phases /\ text \in RunTexts /\ (phase \in GraphPhases => ed = text)
      BY <1>12 DEF Steps
    <3>2. QED
      BY <1>12, <3>1, AdvanceFacts DEF Steps
  <2>2. QED
    BY <1>12, <2>1 DEF Steps
<1>13. CASE StepsRefused
  BY <1>13 DEF StepsRefused
<1>14. CASE KeepBegins
  BY <1>14 DEF KeepBegins
<1>15. CASE KeepEnds
  BY <1>15 DEF KeepEnds
<1>16. CASE LogLine
  <2>1. ed' \in {None, text} /\ units' \in {None, text} /\ text' = text
    BY <1>16 DEF LogLine, Ahead
  <2>2. at' = "hand" /\ phase' = phase + 1 /\ text \in RunTexts
    BY <1>16 DEF LogLine
  <2>3. QED
    BY <2>1, <2>2
<1>17. CASE Finishes
  BY <1>17 DEF Finishes
<1>18. CASE ClosesStore
  BY <1>18 DEF ClosesStore
<1>19. CASE Seals
  BY <1>19 DEF Seals
<1>20. CASE ChecksWhat
  BY <1>20 DEF ChecksWhat
<1>21. CASE ChecksSeed
  BY <1>21 DEF ChecksSeed, Verdict
<1>22. CASE \E n \in Links : LinkTakes(n)
  BY <1>22 DEF LinkTakes, LinkIs
<1>23. CASE \E n \in Links : LinkReads(n)
  BY <1>23 DEF LinkReads, LinkIs
<1>24. CASE \E n \in Links : LinkRuns(n)
  BY <1>24 DEF LinkRuns, LinkIs
<1>25. CASE LinksEnd
  BY <1>25 DEF LinksEnd, Verdict
<1>26. CASE CompilesAll
  BY <1>26 DEF CompilesAll, Verdict
<1>27. CASE UNCHANGED vars
  BY <1>27 DEF vars
<1>28. QED
  BY <1>1, <1>2, <1>3, <1>4, <1>5, <1>6, <1>7, <1>8, <1>9, <1>10, <1>11, <1>12, <1>13, <1>14,
     <1>15, <1>16, <1>17, <1>18, <1>19, <1>20, <1>21, <1>22, <1>23, <1>24, <1>25, <1>26, <1>27
  DEF Next, Edits, Runs, Link, CheckSteps, Returns, Killed

(***************************************************************************)
(* Run: a set that is to be sealed is unsealed, and the boundaries behind  *)
(* the phase are this run's.                                               *)
(***************************************************************************)

\* A boundary that follows goes on to while it and the one before it stay.
LEMMA FollowsStays ==
  ASSUME NEW n \in Phases, plan' = plan, src' = src, q'[n] = q[n],
         n > 0 => q'[n - 1] = q[n - 1]
  PROVE  /\ Before(n)' = Before(n)
         /\ Refuses(n)' = Refuses(n)
         /\ Follows(n)' = Follows(n)
<1>1. Before(n)' = Before(n)
  BY DEF Before, Phases
<1>2. QED
  BY <1>1 DEF Follows, Advance, Refuses

LEMMA StepRunOK == ASSUME PipeInv, PipeTypeOK', AtOK', HandOK', [Next]_vars PROVE RunOK'
<1>0. /\ PipeTypeOK /\ AtOK /\ HandOK /\ RunOK
      /\ opt.to \in Phases /\ Phases = 0 .. Last /\ Last \in Nat
      /\ Snaps(opt) => opt.from = 0 /\ opt.to = Last /\ ~opt.keepGoing
      /\ None \notin RunTexts
  BY OptionFacts, PipelineAssumption, RunTextIsText DEF PipeInv, PipeTypeOK, Phases
<1>u. ASSUME UNCHANGED <<plan, manifest, q, at, opt, src, phase, text, answer>>
      PROVE  RunOK'
  BY <1>0, <1>u DEF RunOK, RanTo, Follows, Before, Advance, Refuses
<1>s. ASSUME plan' = plan, src' = src, q' = q
      PROVE  \A n \in Phases : /\ Before(n)' = Before(n)
                               /\ Refuses(n)' = Refuses(n)
                               /\ Follows(n)' = Follows(n)
  BY <1>s, FollowsStays
<1> USE <1>0 DEF PipeTypeOK, AtOK, HandOK, RunOK, Stages, Prepares, Closings
<1>1. CASE EditInput
  BY <1>1, <1>u DEF EditInput
<1>2. CASE \E n \in Phases : EditPhase(n)
  BY <1>2 DEF EditPhase
<1>3. CASE \E o \in Options : Command(o)
  BY <1>3 DEF Command, RanTo
<1>4. CASE Ends
  BY <1>4 DEF Ends, Clears, RanTo
<1>5. CASE Starts
  BY <1>5 DEF Starts, RanTo
<1>6. CASE Unseals
  BY <1>6 DEF Unseals
<1>7. CASE EmptiesStore
  BY <1>7 DEF EmptiesStore
<1>8. CASE Unindexes
  BY <1>8 DEF Unindexes, RanTo
<1>9. CASE HandsGraph
  BY <1>9, <1>s DEF HandsGraph, Handed, ToRun, RanTo, Before
<1>10. CASE HandsText
  BY <1>10, <1>s DEF HandsText, Handed, ToRun, RanTo, Before
<1>11. CASE HandsOn
  <2>1. /\ at = "hand" /\ at' = "keep" /\ text' = Handed /\ phase' = phase /\ phase \in Phases
        /\ UNCHANGED <<plan, manifest, q, opt, src>> /\ phase \in NoSource
    BY <1>11 DEF HandsOn, ToRun
  <2>2. ~Refuses(phase) /\ \A t : Advance(phase, t, phase) = t
    BY <2>1, PipelineAssumption DEF Refuses, Advance
  <2>3. Snaps(opt) => Handed = Before(phase)
    BY <2>1 DEF Handed, Before
  <2>4. Refuses(phase)' = Refuses(phase) /\ Before(phase)' = Before(phase)
    BY <2>1 DEF Refuses, Before
  <2>5. \A t : Advance(phase, t, phase)' = t
    BY <2>1 DEF Advance
  <2>6. QED
    BY <2>1, <2>2, <2>3, <2>4, <2>5, <1>s DEF RanTo
<1>12. CASE Steps
  <2>1. /\ at = "steps" /\ at' = "keep" /\ phase' = phase /\ phase \in Phases
        /\ UNCHANGED <<plan, manifest, q, opt, src>> /\ ~Refuses(phase)
        /\ text' = Advance(phase, text, phase)
    BY <1>12 DEF Steps
  <2>2. /\ Refuses(phase)' = Refuses(phase) /\ Before(phase)' = Before(phase)
        /\ Advance(phase, Before(phase), phase)' = Advance(phase, Before(phase), phase)
    BY <2>1 DEF Refuses, Before, Advance
  <2>3. QED
    BY <2>1, <2>2, <1>s DEF RanTo
<1>13. CASE StepsRefused
  BY <1>13, <1>s DEF StepsRefused, RanTo
<1>14. CASE KeepBegins
  <2>1. /\ at = "keep" /\ phase' = phase /\ phase \in Phases /\ text' = text
        /\ UNCHANGED <<plan, manifest, opt, src>>
        /\ \A n \in Phases : n # phase => q'[n] = q[n]
    BY <1>14 DEF KeepBegins
  <2>2. \A n \in Phases : n < phase =>
          /\ q'[n] = q[n]
          /\ Follows(n)' = Follows(n)
    <3> SUFFICES ASSUME NEW n \in Phases, n < phase
                 PROVE  q'[n] = q[n] /\ Follows(n)' = Follows(n)
      OBVIOUS
    <3>1. n # phase /\ (n > 0 => n - 1 \in Phases /\ n - 1 # phase)
      BY <2>1
    <3>2. QED
      BY <2>1, <3>1, FollowsStays
  <2>3. /\ Refuses(phase)' = Refuses(phase) /\ Before(phase)' = Before(phase)
        /\ Advance(phase, Before(phase), phase)' = Advance(phase, Before(phase), phase)
    BY <2>1 DEF Refuses, Before, Advance
  <2>4. QED
    BY <1>14, <2>1, <2>2, <2>3 DEF KeepBegins, RanTo
<1>15. CASE KeepEnds
  <2>1. /\ at = "keep" /\ phase' = phase /\ phase \in Phases /\ text' = text
        /\ UNCHANGED <<plan, manifest, opt, src>>
        /\ \A n \in Phases : n # phase => q'[n] = q[n]
    <3>1. CASE Keeps
      BY <1>15, <3>1 DEF KeepEnds
    <3>2. CASE ~Keeps
      BY <1>15, <3>2 DEF KeepEnds
    <3>3. QED
      BY <3>1, <3>2
  <2>2. \A n \in Phases : n < phase =>
          /\ q'[n] = q[n]
          /\ Follows(n)' = Follows(n)
    <3> SUFFICES ASSUME NEW n \in Phases, n < phase
                 PROVE  q'[n] = q[n] /\ Follows(n)' = Follows(n)
      OBVIOUS
    <3>1. n # phase /\ (n > 0 => n - 1 \in Phases /\ n - 1 # phase)
      BY <2>1
    <3>2. QED
      BY <2>1, <3>1, FollowsStays
  <2>3. /\ Refuses(phase)' = Refuses(phase) /\ Before(phase)' = Before(phase)
        /\ Advance(phase, Before(phase), phase)' = Advance(phase, Before(phase), phase)
    BY <2>1 DEF Refuses, Before, Advance
  <2>4. Snaps(opt) => Follows(phase)' /\ q'[phase] = text /\ text \in RunTexts /\ text[1] = src
    <3>1. SUFFICES ASSUME Snaps(opt) PROVE Follows(phase)' /\ q'[phase] = text /\ text \in RunTexts /\ text[1] = src
      OBVIOUS
    <3>2. q'[phase] = text
      BY <1>15, <2>1, <3>1 DEF KeepEnds, Keeps
    <3>3. Before(phase) \in RunTexts /\ Before(phase)[1] = src
      BY <2>1, <3>1, SeedFacts DEF Before, RanTo
    <3>4. QED
      BY <2>1, <2>3, <3>1, <3>2, <3>3, AdvanceFacts DEF Follows
  <2>5. at' = "log" /\ (Snaps(opt) => RanTo(phase + 1)')
    BY <1>15, <2>1, <2>2, <2>4 DEF KeepEnds, RanTo
  <2>6. QED
    BY <2>1, <2>4, <2>5
<1>16. CASE LogLine
  BY <1>16, <1>s DEF LogLine, RanTo
<1>17. CASE Finishes
  BY <1>17, <1>s DEF Finishes, RanTo, ToRun
<1>18. CASE ClosesStore
  BY <1>18, <1>s DEF ClosesStore, RanTo
<1>19. CASE Seals
  BY <1>19 DEF Seals, RanTo
<1>20. CASE ChecksWhat
  BY <1>20 DEF ChecksWhat
<1>21. CASE ChecksSeed
  BY <1>21 DEF ChecksSeed, Verdict
<1>22. CASE \E n \in Links : LinkTakes(n)
  BY <1>22 DEF LinkTakes, LinkIs
<1>23. CASE \E n \in Links : LinkReads(n)
  BY <1>23 DEF LinkReads, LinkIs
<1>24. CASE \E n \in Links : LinkRuns(n)
  BY <1>24 DEF LinkRuns, LinkIs
<1>25. CASE LinksEnd
  BY <1>25 DEF LinksEnd, Verdict
<1>26. CASE CompilesAll
  BY <1>26 DEF CompilesAll, Verdict
<1>27. CASE UNCHANGED vars
  BY <1>27, <1>u DEF vars
<1>28. QED
  BY <1>1, <1>2, <1>3, <1>4, <1>5, <1>6, <1>7, <1>8, <1>9, <1>10, <1>11, <1>12, <1>13, <1>14,
     <1>15, <1>16, <1>17, <1>18, <1>19, <1>20, <1>21, <1>22, <1>23, <1>24, <1>25, <1>26, <1>27
  DEF Next, Edits, Runs, Link, CheckSteps, Returns, Killed

(***************************************************************************)
(* The store of graphs, and the sealed set.                                *)
(***************************************************************************)

\* What is handed on as the graph is the text's.
LEMMA HandedOn ==
  ASSUME PipeTypeOK, AtOK, HandOK, HandsGraph
  PROVE  /\ text' = Handed /\ ed' = Handed
         /\ phase > 0 => text' = text /\ text \in RunTexts
         /\ Snaps(opt) /\ phase > 0 =>
              /\ gm' = [gm EXCEPT ![phase - 1] = [head |-> text, graph |-> text]]
              /\ have' = have \cup {text}
         /\ ~(Snaps(opt) /\ phase > 0) => UNCHANGED <<gm, have>>
<1>1. phase \in Nat /\ phase \in GraphPhases /\ at = "hand"
  BY PipelineAssumption DEF HandsGraph, PipeTypeOK
<1>2. phase > 0 => Handed = text /\ text \in RunTexts
  BY <1>1 DEF Handed, HandOK, Stages
<1>3. ed \in {None, text} /\ units \in {None, text} /\ (phase = 0 => ed = None)
  BY <1>1 DEF HandOK, Stages
<1>4. text' = Handed /\ ed' = Handed
  BY <1>1, <1>2, <1>3 DEF HandsGraph
<1>5. phase > 0 => (IF units # None THEN units ELSE ed') = text
  BY <1>2, <1>3, <1>4
<1>6. QED
  BY <1>2, <1>4, <1>5 DEF HandsGraph

LEMMA StepStoreOK == ASSUME PipeInv, PipeTypeOK', AtOK', [Next]_vars PROVE StoreOK'
<1>0. /\ PipeTypeOK /\ AtOK /\ HandOK /\ RunOK /\ StoreOK
      /\ opt.to \in Phases /\ Phases = 0 .. Last /\ Last \in Nat
      /\ Snaps(opt) => opt.from = 0 /\ opt.to = Last /\ ~opt.keepGoing
      /\ None \notin RunTexts /\ GraphPhases \cap NoSource = {}
  BY OptionFacts, PipelineAssumption, RunTextIsText DEF PipeInv, PipeTypeOK, Phases
<1> USE <1>0 DEF PipeTypeOK, AtOK, StoreOK, Stored, Stages, Prepares, Closings
<1>1. CASE EditInput
  BY <1>1 DEF EditInput
<1>2. CASE \E n \in Phases : EditPhase(n)
  BY <1>2 DEF EditPhase
<1>3. CASE \E o \in Options : Command(o)
  BY <1>3 DEF Command
<1>4. CASE Ends
  BY <1>4 DEF Ends, Clears
<1>5. CASE Starts
  BY <1>5 DEF Starts
<1>6. CASE Unseals
  BY <1>6 DEF Unseals
<1>7. CASE EmptiesStore
  BY <1>7 DEF EmptiesStore
<1>8. CASE Unindexes
  BY <1>8 DEF Unindexes
<1>9. CASE HandsGraph
  <2> SUFFICES ASSUME Snaps(opt), NEW n \in Links \cap GraphPhases, n <= phase
               PROVE  Stored(n)' /\ (q[n - 1] \in have)'
    BY <1>9 DEF HandsGraph
  <2>1. /\ gm' = [gm EXCEPT ![phase - 1] = [head |-> text, graph |-> text]]
        /\ have' = have \cup {text} /\ phase \in Nat /\ n > 0
        /\ text = q[phase - 1] /\ at = "hand" /\ q' = q
    BY <1>9, HandedOn DEF RunOK, HandsGraph
  <2>2. CASE n = phase
    BY <2>1, <2>2
  <2>3. CASE n < phase
    BY <2>1, <2>3
  <2>4. QED
    BY <2>1, <2>2, <2>3
<1>10. CASE HandsText
  BY <1>10 DEF HandsText
<1>11. CASE HandsOn
  BY <1>11 DEF HandsOn
<1>12. CASE Steps
  BY <1>12 DEF Steps
<1>13. CASE StepsRefused
  BY <1>13 DEF StepsRefused
<1>14. CASE KeepBegins
  <2>1. /\ at = "keep" /\ phase \in Phases /\ UNCHANGED <<phase, gm, idx, have, opt, at>>
        /\ \A n \in Phases : n # phase => q'[n] = q[n]
    BY <1>14 DEF KeepBegins, HandOK
  <2>2. \A n \in Links : n <= phase => q'[n - 1] = q[n - 1]
    BY <2>1
  <2>3. QED
    BY <2>1, <2>2
<1>15. CASE KeepEnds
  <2>1. at = "keep" /\ at' = "log" /\ phase \in Phases /\ UNCHANGED <<phase, gm, idx, have, opt>>
    BY <1>15 DEF KeepEnds, HandOK
  <2>2. \A n \in Phases : n # phase => q'[n] = q[n]
    BY <1>15 DEF KeepEnds
  <2>3. \A n \in Links : n <= phase => q'[n - 1] = q[n - 1]
    BY <2>1, <2>2
  <2>4. QED
    BY <2>1, <2>3
<1>16. CASE LogLine
  BY <1>16 DEF LogLine
<1>17. CASE Finishes
  BY <1>17 DEF Finishes, ToRun
<1>18. CASE ClosesStore
  BY <1>18 DEF ClosesStore
<1>19. CASE Seals
  BY <1>19 DEF Seals
<1>20. CASE ChecksWhat
  BY <1>20 DEF ChecksWhat
<1>21. CASE ChecksSeed
  BY <1>21 DEF ChecksSeed, Verdict
<1>22. CASE \E n \in Links : LinkTakes(n)
  BY <1>22 DEF LinkTakes, LinkIs
<1>23. CASE \E n \in Links : LinkReads(n)
  BY <1>23 DEF LinkReads, LinkIs
<1>24. CASE \E n \in Links : LinkRuns(n)
  BY <1>24 DEF LinkRuns, LinkIs
<1>25. CASE LinksEnd
  BY <1>25 DEF LinksEnd, Verdict
<1>26. CASE CompilesAll
  BY <1>26 DEF CompilesAll, Verdict
<1>27. CASE UNCHANGED vars
  BY <1>27 DEF vars
<1>28. QED
  BY <1>1, <1>2, <1>3, <1>4, <1>5, <1>6, <1>7, <1>8, <1>9, <1>10, <1>11, <1>12, <1>13, <1>14,
     <1>15, <1>16, <1>17, <1>18, <1>19, <1>20, <1>21, <1>22, <1>23, <1>24, <1>25, <1>26, <1>27
  DEF Next, Edits, Runs, Link, CheckSteps, Returns, Killed

LEMMA StepDiskOK == ASSUME PipeInv, PipeTypeOK', [Next]_vars PROVE DiskOK'
<1>0. /\ PipeTypeOK /\ AtOK /\ HandOK /\ RunOK /\ StoreOK /\ DiskOK
      /\ opt.to \in Phases /\ Phases = 0 .. Last /\ Last \in Nat
  BY OptionFacts, PipelineAssumption DEF PipeInv, PipeTypeOK, Phases
<1>u. ASSUME UNCHANGED <<manifest, mixed, q, gm, idx>>
      PROVE  DiskOK'
  BY <1>0, <1>u DEF DiskOK, Sealed, Stored
<1> USE <1>0 DEF PipeTypeOK, AtOK, DiskOK, Stages, Prepares, Closings
<1>1. CASE EditInput
  BY <1>1, <1>u DEF EditInput
<1>2. CASE \E n \in Phases : EditPhase(n)
  BY <1>2, <1>u DEF EditPhase
<1>3. CASE \E o \in Options : Command(o)
  BY <1>3, <1>u DEF Command
<1>4. CASE Ends
  BY <1>4, <1>u DEF Ends
<1>5. CASE Starts
  BY <1>5, <1>u DEF Starts
<1>6. CASE Unseals
  BY <1>6 DEF Unseals
<1>7. CASE EmptiesStore
  BY <1>7 DEF EmptiesStore, RunOK
<1>8. CASE Unindexes
  BY <1>8 DEF Unindexes, RunOK
<1>9. CASE HandsGraph
  <2>1. CASE Snaps(opt) /\ phase > 0
    <3>1. /\ gm' = [gm EXCEPT ![phase - 1] = [head |-> text, graph |-> text]]
          /\ manifest' = None
      BY <1>9, <2>1, HandedOn DEF RunOK, HandsGraph
    <3>2. QED
      BY <3>1
  <2>2. CASE ~(Snaps(opt) /\ phase > 0)
    BY <1>9, <1>u, <2>2, HandedOn DEF HandsGraph
  <2>3. QED
    BY <2>1, <2>2
<1>10. CASE HandsText
  BY <1>10, <1>u DEF HandsText
<1>11. CASE HandsOn
  BY <1>11, <1>u DEF HandsOn
<1>12. CASE Steps
  BY <1>12, <1>u DEF Steps
<1>13. CASE StepsRefused
  BY <1>13, <1>u DEF StepsRefused
<1>14. CASE KeepBegins
  <2>1. manifest' = None \/ mixed'
    BY <1>14 DEF KeepBegins, RunOK
  <2>2. QED
    BY <1>14, <2>1 DEF KeepBegins
<1>15. CASE KeepEnds
  <2>1. CASE Snaps(opt)
    BY <1>15, <2>1 DEF KeepEnds, RunOK
  <2>2. CASE ~Keeps
    BY <1>15, <1>u, <2>2 DEF KeepEnds
  <2>3. CASE Keeps /\ ~Snaps(opt)
    <3>1. q[phase] = Torn /\ phase \in Phases
      BY <1>15, <2>3 DEF KeepEnds, HandOK
    <3>2. manifest # None => mixed
      BY <3>1, TornFacts DEF Sealed
    <3>3. QED
      BY <1>15, <3>2 DEF KeepEnds
  <2>4. QED
    BY <2>1, <2>2, <2>3
<1>16. CASE LogLine
  BY <1>16, <1>u DEF LogLine
<1>17. CASE Finishes
  BY <1>17, <1>u DEF Finishes
<1>18. CASE ClosesStore
  BY <1>18 DEF ClosesStore, RunOK
<1>19. CASE Seals
  <2>1. /\ at = "seal" /\ Snaps(opt) /\ RanTo(Last + 1) /\ src \in Inputs
        /\ manifest' = src /\ UNCHANGED <<q, gm, idx, plan>>
    BY <1>19 DEF Seals, RunOK
  <2>2. \A n \in Phases : q[n] \in RunTexts /\ q[n][1] = src /\ Follows(n)
    <3>1. \A n \in Phases : n < Last + 1
      OBVIOUS
    <3>2. QED
      BY <2>1, <3>1 DEF RanTo
  <2>3. \A n \in Links : q[n] = Advance(n, q[n - 1], n) /\ ~Refuses(n) /\ plan[n] \in Programs
    BY <2>2 DEF Follows, Before
  <2>4. \A n \in Links \cap NoSource : q[n] = q[n - 1]
    BY <2>3 DEF Advance
  <2>5. ASSUME NEW n \in Links \ NoSource
        PROVE  \E p \in Programs : q[n] = Append(q[n - 1], p) /\ (n \in Refusing => p = "old")
    <3>1. q[n] = Append(q[n - 1], plan[n])
      BY <2>3 DEF Advance
    <3>2. n \in Refusing => plan[n] = "old"
      BY <2>3 DEF Refuses, Programs
    <3>3. QED
      BY <2>3, <3>1, <3>2
  <2>6. \A n \in Links \cap GraphPhases : Stored(n) /\ q[n - 1] \in idx
    BY <2>1 DEF StoreOK
  <2>7. Sealed(src)
    BY <2>2, <2>4, <2>5, <2>6 DEF Sealed
  <2>8. Sealed(manifest)'
    BY <2>1, <2>7 DEF Sealed, Stored
  <2>9. QED
    BY <1>19, <2>8 DEF Seals
<1>20. CASE ChecksWhat
  BY <1>20, <1>u DEF ChecksWhat
<1>21. CASE ChecksSeed
  BY <1>21, <1>u DEF ChecksSeed
<1>22. CASE \E n \in Links : LinkTakes(n)
  BY <1>22, <1>u DEF LinkTakes
<1>23. CASE \E n \in Links : LinkReads(n)
  BY <1>23, <1>u DEF LinkReads
<1>24. CASE \E n \in Links : LinkRuns(n)
  BY <1>24, <1>u DEF LinkRuns
<1>25. CASE LinksEnd
  BY <1>25, <1>u DEF LinksEnd
<1>26. CASE CompilesAll
  BY <1>26, <1>u DEF CompilesAll
<1>27. CASE UNCHANGED vars
  BY <1>27, <1>u DEF vars
<1>28. QED
  BY <1>1, <1>2, <1>3, <1>4, <1>5, <1>6, <1>7, <1>8, <1>9, <1>10, <1>11, <1>12, <1>13, <1>14,
     <1>15, <1>16, <1>17, <1>18, <1>19, <1>20, <1>21, <1>22, <1>23, <1>24, <1>25, <1>26, <1>27
  DEF Next, Edits, Runs, Link, CheckSteps, Returns, Killed

(***************************************************************************)
(* Check.                                                                  *)
(***************************************************************************)

\* A link whose phase runs on the boundary before and gives the one after
\* is one the plan makes, whatever the environment held.
LEMMA Reproduced ==
  ASSUME PipeTypeOK, NEW n \in Links, q[n - 1] \in RunTexts, q[n] \in RunTexts,
         on[n] = q[n - 1], Reproduces(n)
  PROVE  Follows(n)
<1>1. n \in Phases /\ n # 0
  OBVIOUS
<1>2. Advance(n, q[n - 1], env) = Advance(n, q[n - 1], n)
  BY <1>1, AdvanceFacts DEF Reproduces, PipeTypeOK
<1>3. QED
  BY <1>1, <1>2 DEF Reproduces, Follows, Before

\* It is begun on the boundary before, from the store or not.
LEMMA BegunOn ==
  ASSUME DiskOK, NEW n \in Phases
  PROVE  GraphFor(n, q[n]) = q[n]
  BY DEF DiskOK, GraphFor, StoreGives

LEMMA StepLinksOK == ASSUME PipeInv, PipeTypeOK', AtOK', [Next]_vars PROVE LinksOK'
<1>0. /\ PipeTypeOK /\ AtOK /\ RunOK /\ DiskOK /\ LinksOK
      /\ Phases = 0 .. Last /\ Last \in Nat
      /\ None \notin RunTexts /\ None \notin Verdicts
  BY RunTextIsText, PipelineAssumption DEF PipeInv, Phases
<1>u. ASSUME UNCHANGED <<plan, manifest, q, at, src, link, on, named, answer, verdict>>
      PROVE  LinksOK'
  BY <1>0, <1>u DEF LinksOK, SnapshotsFor, Follows, Before, Advance, Refuses, CompilesAt
<1>s. ASSUME plan' = plan, src' = src, q' = q, NEW n \in Phases
      PROVE  Follows(n)' = Follows(n)
  BY <1>s, FollowsStays
<1>v. ASSUME at' \notin {"seed", "links", "compile"}, verdict' # "ok" PROVE LinksOK'
  BY <1>v DEF LinksOK
<1> USE <1>0 DEF PipeTypeOK, AtOK, Stages, Prepares, Closings, Verdicts
<1>1. CASE EditInput
  BY <1>1, <1>u DEF EditInput
<1>2. CASE \E n \in Phases : EditPhase(n)
  BY <1>2, <1>v DEF EditPhase
<1>3. CASE \E o \in Options : Command(o)
  BY <1>3, <1>v DEF Command
<1>4. CASE Ends
  BY <1>4, <1>v DEF Ends, Clears
<1>5. CASE Starts
  BY <1>5, <1>v DEF Starts
<1>6. CASE Unseals
  BY <1>6, <1>v DEF Unseals
<1>7. CASE EmptiesStore
  BY <1>7, <1>v DEF EmptiesStore
<1>8. CASE Unindexes
  BY <1>8, <1>v DEF Unindexes
<1>9. CASE HandsGraph
  BY <1>9, <1>v DEF HandsGraph
<1>10. CASE HandsText
  BY <1>10, <1>v DEF HandsText
<1>11. CASE HandsOn
  BY <1>11, <1>v DEF HandsOn
<1>12. CASE Steps
  BY <1>12, <1>v DEF Steps
<1>13. CASE StepsRefused
  BY <1>13, <1>v DEF StepsRefused
<1>14. CASE KeepBegins
  BY <1>14, <1>v DEF KeepBegins
<1>15. CASE KeepEnds
  BY <1>15, <1>v DEF KeepEnds
<1>16. CASE LogLine
  BY <1>16, <1>v DEF LogLine
<1>17. CASE Finishes
  BY <1>17, <1>v DEF Finishes
<1>18. CASE ClosesStore
  BY <1>18, <1>v DEF ClosesStore
<1>19. CASE Seals
  <2>1. /\ answer = q[Last] /\ src \in Inputs /\ RanTo(Last + 1)
        /\ UNCHANGED <<plan, src, q, answer, verdict>> /\ at' \in {"ran", "compile"} /\ verdict' # "ok"
    BY <1>19 DEF Seals, RunOK
  <2>2. \A n \in Phases : Follows(n)
    <3>1. \A n \in Phases : n < Last + 1
      OBVIOUS
    <3>2. QED
      BY <2>1, <3>1 DEF RanTo
  <2>3. \A n \in Phases : Follows(n)'
    BY <2>1, <2>2, <1>s
  <2>4. QED
    BY <2>1, <2>3 DEF LinksOK
<1>20. CASE ChecksWhat
  BY <1>20 DEF ChecksWhat, LinksOK, SnapshotsFor
<1>21. CASE ChecksSeed
  <2>1. /\ at = "seed" /\ UNCHANGED <<plan, manifest, q, src, link, on, named, answer>>
        /\ at' \in {"links", "answered"} /\ verdict' # "ok"
        /\ at' = "links" => q[0] = Advance(0, Seed(src), 0) /\ ~Refuses(0)
    BY <1>21 DEF ChecksSeed, Verdict
  <2>2. at' = "links" => Follows(0)'
    BY <2>1, <1>s DEF Follows, Before
  <2>3. SnapshotsFor(src)'
    BY <2>1 DEF LinksOK, SnapshotsFor
  <2>4. QED
    BY <2>1, <2>2, <2>3 DEF LinksOK
<1>22. CASE \E n \in Links : LinkTakes(n)
  <2> PICK n \in Links : LinkTakes(n)
    BY <1>22
  <2>1. /\ at = "links" /\ at' = "links" /\ verdict' # "ok"
        /\ UNCHANGED <<plan, manifest, q, src, answer>>
        /\ n \in Phases /\ n - 1 \in Phases
    BY DEF LinkTakes, LinkIs
  <2>2. SnapshotsFor(src) /\ SnapshotsFor(src)' /\ q[n] \in RunTexts /\ q[n - 1] \in RunTexts
    BY <2>1 DEF LinksOK, SnapshotsFor
  <2>3. Follows(0)' /\ \A m \in Links : Follows(m)' = Follows(m)
    BY <2>1, <1>s DEF LinksOK
  <2>4. QED
    BY <2>1, <2>2, <2>3 DEF LinksOK, LinkTakes, LinkIs
<1>23. CASE \E n \in Links : LinkReads(n)
  <2> PICK n \in Links : LinkReads(n)
    BY <1>23
  <2>1. /\ at = "links" /\ at' = "links" /\ verdict' # "ok"
        /\ UNCHANGED <<plan, manifest, q, src, answer>>
        /\ n \in Phases /\ n - 1 \in Phases
    BY DEF LinkReads, LinkIs
  <2>2. SnapshotsFor(src) /\ SnapshotsFor(src)' /\ q[n] \in RunTexts /\ q[n - 1] \in RunTexts
    BY <2>1 DEF LinksOK, SnapshotsFor
  <2>3. Follows(0)' /\ \A m \in Links : Follows(m)' = Follows(m)
    BY <2>1, <1>s DEF LinksOK
  <2>4. link' = [link EXCEPT ![n] = "runs"] /\ on' = [on EXCEPT ![n] = q[n - 1]] /\ named' = named
    BY <2>1, BegunOn DEF LinkReads, LinkIs
  <2>5. QED
    BY <2>1, <2>2, <2>3, <2>4 DEF LinksOK
<1>24. CASE \E n \in Links : LinkRuns(n)
  <2> PICK n \in Links : LinkRuns(n)
    BY <1>24
  <2>1. /\ at = "links" /\ at' = "links" /\ verdict' # "ok"
        /\ UNCHANGED <<plan, manifest, q, src, answer>>
        /\ n \in Phases /\ n - 1 \in Phases
    BY DEF LinkRuns, LinkIs
  <2>2. SnapshotsFor(src) /\ SnapshotsFor(src)' /\ q[n] \in RunTexts /\ q[n - 1] \in RunTexts
    BY <2>1 DEF LinksOK, SnapshotsFor
  <2>3. Follows(0)' /\ \A m \in Links : Follows(m)' = Follows(m)
    BY <2>1, <1>s DEF LinksOK
  <2>4. /\ link[n] = "runs" /\ link' = [link EXCEPT ![n] = "done"] /\ on' = on
        /\ named \subseteq named' /\ (n \notin named' => Reproduces(n))
    BY DEF LinkRuns, LinkIs
  <2>5. n \notin named' => Follows(n)
    BY <2>1, <2>2, <2>4, Reproduced DEF LinksOK
  <2>6. QED
    BY <2>1, <2>2, <2>3, <2>4, <2>5 DEF LinksOK
<1>25. CASE LinksEnd
  <2>1. CASE named # {}
    BY <1>25, <1>v, <2>1 DEF LinksEnd, Verdict
  <2>2. CASE named = {}
    <3>1. /\ at = "links" /\ at' = "compile" /\ answer' = q[Last] /\ verdict' # "ok"
          /\ UNCHANGED <<plan, q, src>> /\ \A n \in Links : link[n] = "done"
      BY <1>25, <2>2 DEF LinksEnd
    <3>2. \A n \in Phases : Follows(n)'
      BY <2>2, <3>1, <1>s DEF LinksOK
    <3>3. QED
      BY <3>1, <3>2 DEF LinksOK
  <2>3. QED
    BY <2>1, <2>2
<1>26. CASE CompilesAll
  <2>1. /\ at = "compile" /\ at' = "answered" /\ UNCHANGED <<plan, q, src, answer>>
        /\ verdict' = "ok" => \A n \in Phases : CompilesAt(n)
    BY <1>26 DEF CompilesAll, Verdict
  <2>2. \A n \in Phases : Follows(n)' /\ CompilesAt(n)' = CompilesAt(n)
    BY <2>1, <1>s DEF LinksOK, CompilesAt
  <2>3. QED
    BY <2>1, <2>2 DEF LinksOK
<1>27. CASE UNCHANGED vars
  BY <1>27, <1>u DEF vars
<1>28. QED
  BY <1>1, <1>2, <1>3, <1>4, <1>5, <1>6, <1>7, <1>8, <1>9, <1>10, <1>11, <1>12, <1>13, <1>14,
     <1>15, <1>16, <1>17, <1>18, <1>19, <1>20, <1>21, <1>22, <1>23, <1>24, <1>25, <1>26, <1>27
  DEF Next, Edits, Runs, Link, CheckSteps, Returns, Killed

(***************************************************************************)
(* The invariant holds; the types and the sealed set follow.               *)
(***************************************************************************)

LEMMA InitInv == Init => PipeInv
<1> SUFFICES ASSUME Init PROVE PipeInv
  OBVIOUS
<1>1. PipeTypeOK
  BY InitTypeOK
<1>2. /\ at = "idle" /\ verdict = None /\ manifest = None /\ named = {} /\ ed = None /\ units = None
      /\ \A n \in Links : link[n] = "waits"
      /\ \A n \in Phases : gm[n] = None
      /\ None \notin Verdicts
  BY PipelineAssumption DEF Init, Cleared
<1>3. AtOK /\ HandOK
  BY <1>2 DEF AtOK, HandOK, Stages, Prepares, Closings
<1>4. RunOK /\ StoreOK
  BY <1>2 DEF RunOK, StoreOK, Stages, Closings
<1>5. DiskOK
  BY <1>2 DEF DiskOK
<1>6. LinksOK
  BY <1>2 DEF LinksOK, Verdicts
<1>7. QED
  BY <1>1, <1>3, <1>4, <1>5, <1>6 DEF PipeInv

LEMMA InvHolds == Spec => []PipeInv
<1>1. PipeInv /\ [Next]_vars => PipeInv'
  BY StepTypeOK, StepAtOK, StepHandOK, StepRunOK, StepStoreOK, StepDiskOK, StepLinksOK DEF PipeInv
<1>2. QED
  BY InitInv, <1>1, PTL DEF Spec

\* No more links are at work than there are places.
LEMMA PlacesBounded == Spec => []PlacesOK
<1> DEFINE Working == {n \in Links : link[n] \in {"held", "runs"}}
<1>0. Jobs \in Nat \ {0} /\ Last \in Nat
  BY PipelineAssumption
<1>1. Init => PlacesOK
  <2>1. SUFFICES ASSUME Init PROVE Working = {}
    BY <1>0, FS_EmptySet DEF PlacesOK
  <2>2. QED
    BY <2>1 DEF Init, Cleared
<1>2. PlacesOK /\ PipeInv /\ [Next]_vars => PlacesOK'
  <2> SUFFICES ASSUME PlacesOK, PipeInv, [Next]_vars PROVE PlacesOK'
    OBVIOUS
  <2>1. link \in [Links -> {"waits", "held", "runs", "done"}] /\ IsFiniteSet(Working)
    <3>1. IsFiniteSet(Phases)
      BY <1>0, FS_Interval DEF Phases
    <3>2. QED
      BY <3>1, FS_Subset DEF PipeInv, PipeTypeOK
  <2>2. CASE \E n \in Links : LinkTakes(n)
    <3> PICK n \in Links : LinkTakes(n)
      BY <2>2
    <3>1. Working' = Working \cup {n} /\ n \notin Working /\ Cardinality(Working) < Jobs
      BY <2>1 DEF LinkTakes, LinkIs
    <3> HIDE DEF Working
    <3>2. Cardinality(Working) \in Nat
      BY <2>1, FS_CardinalityType
    <3>3. Cardinality(Working \cup {n}) = Cardinality(Working) + 1
      BY <2>1, <3>1, FS_AddElement
    <3>4. Cardinality(Working') <= Jobs
      BY <1>0, <3>1, <3>2, <3>3
    <3>5. QED
      BY <3>4 DEF PlacesOK, Working
  <2>3. CASE Working' \subseteq Working
    <3>1. Cardinality(Working') <= Cardinality(Working) /\ Cardinality(Working) \in Nat
          /\ Cardinality(Working') \in Nat
      BY <2>1, <2>3, FS_Subset, FS_CardinalityType
    <3>2. QED
      BY <1>0, <3>1 DEF PlacesOK
  <2>4. CASE UNCHANGED link
    BY <2>3, <2>4
  <2>5. CASE Ends
    <3>1. Working' = {}
      BY <2>5 DEF Ends, Clears
    <3>2. QED
      BY <2>3, <3>1
  <2>6. CASE \E n \in Links : LinkReads(n) \/ LinkRuns(n)
    <3>1. Working' \subseteq Working
      BY <2>1, <2>6 DEF LinkReads, LinkRuns, LinkIs
    <3>2. QED
      BY <2>3, <3>1
  <2>7. QED
    BY <2>2, <2>4, <2>5, <2>6
    DEF Next, Edits, Runs, Link, CheckSteps, Returns, Killed, vars, EditInput, EditPhase, Command, Starts,
        Unseals, EmptiesStore, Unindexes, HandsGraph, HandsText, HandsOn, Steps, StepsRefused, KeepBegins,
        KeepEnds, LogLine, Finishes, ClosesStore, Seals, ChecksWhat, ChecksSeed, LinksEnd, CompilesAll
<1>3. QED
  BY <1>1, <1>2, InvHolds, PTL DEF Spec

\* The variables keep their types, and no more links are at work than Jobs.
THEOREM TypeCorrect == Spec => []TypeOK
<1>1. PipeInv /\ PlacesOK => TypeOK
  <2> SUFFICES ASSUME PipeInv, PlacesOK PROVE TypeOK
    OBVIOUS
  <2>1. PipeTypeOK
    BY DEF PipeInv
  <2>2. \A t \in RunTexts \cup {None} : t = None \/ t \in Texts
    BY RunTextIsText
  <2>3. \A m \in [head : RunTexts, graph : RunTexts] : m \in Manifests
    BY RunTextIsText DEF Manifests
  <2>4. \A n \in Phases : (q[n] = None \/ q[n] \in Texts) /\ (gm[n] = None \/ gm[n] \in Manifests)
    BY <2>1, <2>2, <2>3 DEF PipeTypeOK
  <2>5. \A t \in {text, ed, units, answer} : t = None \/ t \in Texts
    BY <2>1, <2>2 DEF PipeTypeOK
  <2>6. DOMAIN link = Links
    BY <2>1 DEF PipeTypeOK
  <2>7. QED
    BY <2>1, <2>4, <2>5, <2>6 DEF PipeTypeOK, PlacesOK, TypeOK, Stages, Prepares, Closings
<1>2. QED
  BY <1>1, InvHolds, PlacesBounded, PTL

\* A manifest that names an input means the set is whole and is that
\* input's, however the runs before it ended.
THEOREM SealedIsWhole == Spec => []SealedWhole
<1>1. PipeInv => SealedWhole
  <2> SUFFICES ASSUME PipeInv, manifest # None, ~mixed
      PROVE  /\ \A n \in Phases : q[n] \notin {None, Torn}
             /\ q[0][1] = manifest
             /\ \A n \in Links : IF n \in NoSource THEN q[n] = q[n - 1]
                                  ELSE q[n] \in {Append(q[n - 1], p) : p \in Programs}
             /\ \A n \in Links \cap GraphPhases :
                  StoreGives(n - 1) /\ gm[n - 1].head = q[n - 1] /\ gm[n - 1].graph = q[n - 1]
    BY DEF SealedWhole
  <2>1. Sealed(manifest) /\ manifest \in Inputs /\ 0 \in Phases
    BY PipelineAssumption DEF PipeInv, PipeTypeOK, DiskOK, Phases
  <2>2. \A n \in Phases : q[n] \notin {None, Torn}
    BY <2>1, RunTextIsText, TornFacts DEF Sealed
  <2>3. \A n \in Links : IF n \in NoSource THEN q[n] = q[n - 1]
                          ELSE q[n] \in {Append(q[n - 1], p) : p \in Programs}
    BY <2>1 DEF Sealed
  <2>4. ASSUME NEW n \in Links \cap GraphPhases
        PROVE  StoreGives(n - 1) /\ gm[n - 1].head = q[n - 1] /\ gm[n - 1].graph = q[n - 1]
    <3>1. gm[n - 1] = [head |-> q[n - 1], graph |-> q[n - 1]] /\ q[n - 1] \in idx /\ q[n - 1] \in RunTexts
      <4>1. n - 1 \in Phases
        BY PipelineAssumption DEF Phases
      <4>2. QED
        BY <2>1, <4>1 DEF Sealed, Stored
    <3>2. gm[n - 1] # None
      <4>1. gm[n - 1] \in Manifests
        BY <3>1, RunTextIsText DEF Manifests
      <4>2. QED
        BY <4>1, PipelineAssumption
    <3>3. QED
      BY <3>1, <3>2 DEF StoreGives
  <2>5. QED
    BY <2>1, <2>2, <2>3, <2>4 DEF Sealed
<1>2. QED
  BY <1>1, InvHolds, PTL

(***************************************************************************)
(* What a check answers.                                                   *)
(***************************************************************************)

\* A set of naturals has a least: the induction these proofs use, as a fact
\* about sets.
LEMMA LeastOf ==
  ASSUME NEW S, S \subseteq Nat, S # {}
  PROVE  \E m \in S : \A k \in S : ~(k < m)
<1>1. \A x, y \in Nat : <<x, y>> \in OpToRel(<, Nat) <=> x < y
  BY DEF OpToRel
<1>2. \E m \in S : \A k \in S : ~(<<k, m>> \in OpToRel(<, Nat))
  BY NatLessThanWellFounded, WFMin
<1>3. QED
  BY <1>1, <1>2

\* Boundary is well defined where the snapshots themselves are what its
\* definition asks for, and is then just those.
LEMMA BoundaryIsMade ==
  ASSUME q = [n \in Phases |-> q[n]], \A n \in Phases : Follows(n)
  PROVE  \A n \in Phases : Boundary[n] = q[n]
<1> DEFINE Made(f) == [n \in Phases |-> Advance(n, IF n = 0 THEN Seed(src) ELSE f[n - 1], n)]
<1>1. q = Made(q)
  BY DEF Follows, Before
<1>2. Boundary = Made(Boundary)
  <2>1. Boundary = CHOOSE f : f = Made(f)
    BY DEF Boundary
  <2> HIDE DEF Made
  <2>2. QED
    BY <1>1, <2>1
<1>3. ASSUME NEW n \in Phases, n > 0 => Boundary[n - 1] = q[n - 1]
      PROVE  Boundary[n] = q[n]
  <2>1. Made(Boundary)[n] = Made(q)[n]
    BY <1>3 DEF Phases
  <2>2. QED
    BY <1>1, <1>2, <2>1
<1> DEFINE Wrong == {n \in Phases : Boundary[n] # q[n]}
<1>4. SUFFICES ASSUME Wrong # {} PROVE FALSE
  OBVIOUS
<1>5. Wrong \subseteq Nat
  BY DEF Phases
<1>6. PICK m \in Wrong : \A k \in Wrong : ~(k < m)
  BY <1>4, <1>5, LeastOf
<1>7. m > 0 => m - 1 \in Phases /\ m - 1 \notin Wrong
  BY <1>5, <1>6, PipelineAssumption DEF Phases
<1>8. Boundary[m] = q[m]
  BY <1>3, <1>7
<1>9. QED
  BY <1>6, <1>8

\* A check answers ok only of what the plan gives on the input it read, and
\* only when every boundary compiles, whatever the disk held before.
THEOREM ChecksAreSound == Spec => []CheckSound
<1>1. PipeInv => CheckSound
  <2> SUFFICES ASSUME PipeInv, verdict = "ok"
               PROVE  /\ answer = Boundary[Last]
                      /\ \A n \in Phases : ~Refuses(n) /\ (n \in Broken => plan[n] = "old")
    BY DEF CheckSound
  <2>1. /\ src \in Inputs /\ answer = q[Last]
        /\ \A n \in Phases : Follows(n) /\ CompilesAt(n)
        /\ Last \in Phases /\ Phases = 0 .. Last /\ Last \in Nat
    BY PipelineAssumption DEF PipeInv, LinksOK, Phases
  <2>2. answer = Boundary[Last]
    BY <2>1, BoundaryIsMade DEF PipeInv, PipeTypeOK
  <2>3. \A n \in Phases : q[n] \in RunTexts
    <3> DEFINE Lacking == {n \in Phases : q[n] \notin RunTexts}
    <3>1. SUFFICES ASSUME Lacking # {} PROVE FALSE
      OBVIOUS
    <3>2. Lacking \subseteq Nat
      BY <2>1
    <3>3. PICK m \in Lacking : \A k \in Lacking : ~(k < m)
      BY <3>1, <3>2, LeastOf
    <3>4. Before(m) \in RunTexts
      BY <2>1, <3>3, SeedFacts DEF Before
    <3>5. QED
      BY <2>1, <3>3, <3>4, AdvanceFacts DEF Follows, PipeInv, PipeTypeOK
  <2>4. ASSUME NEW n \in Broken PROVE plan[n] = "old"
    <3>1. n \in Phases /\ n \notin NoSource /\ plan[n] \in Programs
      BY PipelineAssumption DEF PipeInv, PipeTypeOK
    <3>2. Before(n) \in RunTexts
      BY <2>1, <2>3, <3>1, SeedFacts DEF Before
    <3>3. q[n] = Append(Before(n), plan[n])
      BY <2>1, <3>1 DEF Follows, Advance
    <3>4. q[n][Len(q[n])] = plan[n] /\ q[n] # None
      <4>1. Append(Before(n), plan[n])[Len(Append(Before(n), plan[n]))] = plan[n]
        BY <3>2, AppendText
      <4>2. q[n] # None
        BY <2>3, <3>1, RunTextIsText
      <4>3. QED
        BY <4>1, <4>2, <3>3
    <3>5. QED
      BY <2>1, <3>1, <3>4 DEF CompilesAt, Programs
  <2>5. QED
    BY <2>1, <2>2, <2>4 DEF Follows
<1>2. QED
  BY <1>1, InvHolds, PTL

(***************************************************************************)
(* Whom a check names.                                                     *)
(***************************************************************************)

\* In a sealed set a link gives its boundary if and only if its phase's
\* program is the one the boundary was made by.
LEMMA GivesItsBoundary ==
  ASSUME PipeTypeOK, NEW i, Sealed(i), NEW n \in Links,
         on[n] = q[n - 1], n \in Declared => env = n
  PROVE  Reproduces(n) <=> n \in NoSource \/ plan[n] = q[n][Len(q[n])]
<1>1. /\ n \in Phases /\ n - 1 \in Phases /\ q[n - 1] \in RunTexts
      /\ plan[n] \in Programs
  BY PipelineAssumption DEF Phases, Sealed, PipeTypeOK
<1>2. CASE n \in NoSource
  <2>1. ~Refuses(n) /\ Advance(n, on[n], env) = q[n - 1]
    BY <1>2, PipelineAssumption DEF Refuses, Advance
  <2>2. q[n] = q[n - 1]
    BY <1>2 DEF Sealed
  <2>3. QED
    BY <1>2, <2>1, <2>2 DEF Reproduces
<1>3. CASE n \notin NoSource
  <2>1. PICK p \in Programs : q[n] = Append(q[n - 1], p) /\ (n \in Refusing => p = "old")
    BY <1>3 DEF Sealed
  <2>2. q[n][Len(q[n])] = p
    BY <1>1, <2>1, AppendText
  <2>3. Advance(n, on[n], env) = Append(q[n - 1], plan[n])
    BY <1>3 DEF Advance
  <2>4. Append(q[n - 1], plan[n])[Len(Append(q[n - 1], plan[n]))] = plan[n]
    BY <1>1, AppendText
  <2>5. q[n] = Append(q[n - 1], plan[n]) <=> plan[n] = p
    BY <2>1, <2>2, <2>4
  <2>6. plan[n] = p => ~Refuses(n)
    BY <2>1 DEF Refuses
  <2>7. QED
    BY <1>3, <2>2, <2>3, <2>5, <2>6 DEF Reproduces
<1>4. QED
  BY <1>2, <1>3

LEMMA StepNames ==
  ASSUME \A m, n \in Declared : m = n, PipeInv, NamesInv, [Next]_vars
  PROVE  NamesInv'
<1>0. /\ PipeTypeOK /\ AtOK /\ DiskOK /\ LinksOK /\ NamesInv
      /\ None \notin Verdicts /\ None \notin Inputs
  BY PipelineAssumption DEF PipeInv
<1>u. ASSUME UNCHANGED <<plan, q, at, mixed, link, named, env, verdict>> PROVE NamesInv'
  BY <1>0, <1>u DEF NamesInv, NamesTheChanged
<1>v. ASSUME at' # "links", verdict' # "named" PROVE NamesInv'
  BY <1>v DEF NamesInv, NamesTheChanged
<1> USE <1>0 DEF PipeTypeOK, AtOK, Stages, Prepares, Closings, Verdicts
<1>1. CASE EditInput
  BY <1>1, <1>u DEF EditInput
<1>2. CASE \E n \in Phases : EditPhase(n)
  BY <1>2, <1>v DEF EditPhase
<1>3. CASE \E o \in Options : Command(o)
  BY <1>3, <1>v DEF Command
<1>4. CASE Ends
  BY <1>4, <1>v DEF Ends, Clears
<1>5. CASE Starts
  BY <1>5, <1>v DEF Starts
<1>6. CASE Unseals
  BY <1>6, <1>v DEF Unseals
<1>7. CASE EmptiesStore
  BY <1>7, <1>v DEF EmptiesStore
<1>8. CASE Unindexes
  BY <1>8, <1>v DEF Unindexes
<1>9. CASE HandsGraph
  BY <1>9, <1>v DEF HandsGraph
<1>10. CASE HandsText
  BY <1>10, <1>v DEF HandsText
<1>11. CASE HandsOn
  BY <1>11, <1>v DEF HandsOn
<1>12. CASE Steps
  BY <1>12, <1>v DEF Steps
<1>13. CASE StepsRefused
  BY <1>13, <1>v DEF StepsRefused
<1>14. CASE KeepBegins
  BY <1>14, <1>v DEF KeepBegins
<1>15. CASE KeepEnds
  BY <1>15, <1>v DEF KeepEnds
<1>16. CASE LogLine
  BY <1>16, <1>v DEF LogLine
<1>17. CASE Finishes
  BY <1>17, <1>v DEF Finishes
<1>18. CASE ClosesStore
  BY <1>18, <1>v DEF ClosesStore
<1>19. CASE Seals
  BY <1>19, <1>v DEF Seals
<1>20. CASE ChecksWhat
  BY <1>20, <1>v DEF ChecksWhat
<1>21. CASE ChecksSeed
  <2>1. verdict' # "named" /\ named' = {} /\ \A n \in Links : link'[n] = "waits"
    BY <1>21 DEF ChecksSeed, Verdict
  <2>2. QED
    BY <2>1 DEF NamesInv, NamesTheChanged
<1>22. CASE \E n \in Links : LinkTakes(n)
  <2> PICK n \in Links : LinkTakes(n)
    BY <1>22
  <2>1. at = "links" /\ verdict' # "named" /\ UNCHANGED <<plan, q, mixed>>
    BY DEF LinkTakes, LinkIs
  <2>2. link[n] = "waits" /\ link' = [link EXCEPT ![n] = "held"] /\ UNCHANGED <<named, env>>
    BY DEF LinkTakes, LinkIs
  <2>3. QED
    BY <2>1, <2>2 DEF NamesInv, NamesTheChanged
<1>23. CASE \E n \in Links : LinkReads(n)
  <2> PICK n \in Links : LinkReads(n)
    BY <1>23
  <2>1. at = "links" /\ verdict' # "named" /\ UNCHANGED <<plan, q, mixed>>
    BY DEF LinkReads, LinkIs
  <2>2. /\ link[n] = "held" /\ link' = [link EXCEPT ![n] = "runs"] /\ named' = named
        /\ env' = IF n \in Declared THEN n ELSE env
    BY DEF LinkReads, LinkIs
  <2>3. QED
    BY <2>1, <2>2 DEF NamesInv, NamesTheChanged
<1>24. CASE \E n \in Links : LinkRuns(n)
  <2> PICK n \in Links : LinkRuns(n)
    BY <1>24
  <2>1. at = "links" /\ verdict' # "named" /\ UNCHANGED <<plan, q, mixed>>
    BY DEF LinkRuns, LinkIs
  <2>2. /\ link[n] = "runs" /\ link' = [link EXCEPT ![n] = "done"]
        /\ named' = IF Reproduces(n) THEN named ELSE named \cup {n}
        /\ env' = IF n \in Declared THEN None ELSE env
    BY DEF LinkRuns, LinkIs
  <2>3. \A m \in Links \cap Declared : link'[m] = "runs" => env' = m
    BY <2>1, <2>2 DEF NamesInv
  <2>4. ASSUME ~mixed
        PROVE  named' = {m \in Links \ NoSource : link'[m] = "done" /\ plan[m] # q[m][Len(q[m])]}
    <3>1. Sealed(src) /\ on[n] = q[n - 1] /\ (n \in Declared => env = n)
      BY <2>1, <2>2, <2>4 DEF LinksOK, SnapshotsFor, DiskOK, NamesInv
    <3>2. Reproduces(n) <=> n \in NoSource \/ plan[n] = q[n][Len(q[n])]
      BY <3>1, GivesItsBoundary
    <3>3. named = {m \in Links \ NoSource : link[m] = "done" /\ plan[m] # q[m][Len(q[m])]}
      BY <2>1, <2>4 DEF NamesInv
    <3>4. QED
      BY <2>2, <3>2, <3>3
  <2>5. QED
    BY <2>1, <2>2, <2>3, <2>4 DEF NamesInv, NamesTheChanged
<1>25. CASE LinksEnd
  <2>1. /\ at = "links" /\ at' # "links" /\ \A n \in Links : link[n] = "done"
        /\ UNCHANGED <<plan, q, mixed, named>>
    BY <1>25 DEF LinksEnd, Verdict
  <2>2. QED
    BY <2>1 DEF NamesInv, NamesTheChanged
<1>26. CASE CompilesAll
  BY <1>26, <1>v DEF CompilesAll, Verdict
<1>27. CASE UNCHANGED vars
  BY <1>27, <1>u DEF vars
<1>28. QED
  BY <1>1, <1>2, <1>3, <1>4, <1>5, <1>6, <1>7, <1>8, <1>9, <1>10, <1>11, <1>12, <1>13, <1>14,
     <1>15, <1>16, <1>17, <1>18, <1>19, <1>20, <1>21, <1>22, <1>23, <1>24, <1>25, <1>26, <1>27
  DEF Next, Edits, Runs, Link, CheckSteps, Returns, Killed

\* Of a plan with at most one phase that reads its rows in the environment,
\* a check of a sealed set names just the phases whose program changed, in
\* whatever order the links run.  With two such phases it does not hold.
THEOREM ChangedAreNamed ==
  ASSUME \A m, n \in Declared : m = n
  PROVE  Spec => []NamesTheChanged
<1>1. Init => NamesInv
  BY PipelineAssumption DEF Init, Cleared, NamesInv, NamesTheChanged, Verdicts
<1>2. PipeInv /\ NamesInv /\ [Next]_vars => NamesInv'
  BY StepNames
<1>3. NamesInv => NamesTheChanged
  BY DEF NamesInv
<1>4. QED
  BY <1>1, <1>2, <1>3, InvHolds, PTL DEF Spec

(***************************************************************************)
(* The log.                                                                *)
(***************************************************************************)

Lines == Seq([of : Nat, waits : BOOLEAN])

LEMMA SameEnd == ASSUME NEW a \in Nat, NEW b \in Nat, 1 .. a = 1 .. b PROVE a = b
<1>1. a > b => a \in 1 .. a /\ a \notin 1 .. b
  OBVIOUS
<1>2. b > a => b \in 1 .. b /\ b \notin 1 .. a
  OBVIOUS
<1>3. QED
  BY <1>1, <1>2

\* Lines written in their order, and those left to wait, go on in it.
LEMMA WritesGoOn ==
  ASSUME log \in Seq(Nat), NEW STATE lines, lines \in Lines, NEW STATE n, n \in 0 .. Len(lines),
         NEW STATE from, from \in Nat,
         PhasesFrom(log, from), LinesFrom(lines, from + Len(log)), Writes(lines, n)
  PROVE  /\ log' \in Seq(Nat) /\ pending' \in Lines
         /\ Len(log') = Len(log) + n /\ Len(pending') = Len(lines) - n
         /\ PhasesFrom(log', from) /\ LinesFrom(pending', from + Len(log'))
<1> DEFINE written == [i \in 1 .. n |-> lines[i].of]
<1>1. Len(lines) \in Nat /\ n \in Nat /\ Len(log) \in Nat
  BY DEF Lines
<1>2. \A i \in 1 .. Len(lines) : lines[i] \in [of : Nat, waits : BOOLEAN]
  BY ElementOfSeq DEF Lines
<1>3. written \in Seq(Nat) /\ Len(written) = n /\ \A i \in 1 .. n : written[i] = lines[i].of
  <2>1. written \in [1 .. n -> Nat] /\ \A i \in 1 .. n : written[i] = lines[i].of
    BY <1>1, <1>2
  <2> HIDE DEF written
  <2>2. written \in Seq(Nat)
    BY <1>1, <2>1, SeqDef
  <2>3. Len(written) \in Nat /\ DOMAIN written = 1 .. Len(written) /\ DOMAIN written = 1 .. n
    BY <2>1, <2>2, LenProperties
  <2>4. Len(written) = n
    BY <1>1, <2>3, SameEnd
  <2>5. QED
    BY <2>1, <2>2, <2>4
<1>4. log' = log \o written /\ pending' = SubSeq(lines, n + 1, Len(lines))
  BY DEF Writes
<1> HIDE DEF written
<1>5. /\ log' \in Seq(Nat) /\ Len(log') = Len(log) + n
      /\ \A i \in 1 .. Len(log') : log'[i] = IF i <= Len(log) THEN log[i] ELSE written[i - Len(log)]
  <2>1. /\ log \o written \in Seq(Nat) /\ Len(log \o written) = Len(log) + Len(written)
        /\ \A i \in 1 .. Len(log) + Len(written) :
             (log \o written)[i] = IF i <= Len(log) THEN log[i] ELSE written[i - Len(log)]
    BY <1>3, ConcatProperties
  <2>2. QED
    BY <1>3, <1>4, <2>1
<1>6. \A i \in 1 .. Len(log') : log'[i] = from + i - 1
  <2> SUFFICES ASSUME NEW i \in 1 .. Len(log') PROVE log'[i] = from + i - 1
    OBVIOUS
  <2>1. CASE i <= Len(log)
    <3>1. i \in 1 .. Len(log) /\ log'[i] = log[i]
      BY <1>1, <1>5, <2>1
    <3>2. QED
      BY <3>1 DEF PhasesFrom
  <2>2. CASE ~(i <= Len(log))
    <3>1. i - Len(log) \in 1 .. n /\ i - Len(log) \in 1 .. Len(lines)
      BY <1>1, <1>5, <2>2
    <3>2. log'[i] = lines[i - Len(log)].of
      BY <1>3, <1>5, <2>2, <3>1
    <3>3. QED
      BY <1>1, <1>5, <3>1, <3>2 DEF LinesFrom
  <2>3. QED
    BY <2>1, <2>2
<1>7. /\ pending' \in Lines /\ Len(pending') = Len(lines) - n
      /\ \A i \in 1 .. Len(pending') : pending'[i] = lines[n + i]
  <2>1. \A i \in n + 1 .. Len(lines) : lines[i] \in [of : Nat, waits : BOOLEAN]
    BY <1>1, <1>2
  <2>2. /\ SubSeq(lines, n + 1, Len(lines)) \in Seq([of : Nat, waits : BOOLEAN])
        /\ Len(SubSeq(lines, n + 1, Len(lines)))
             = IF n + 1 <= Len(lines) THEN Len(lines) - (n + 1) + 1 ELSE 0
        /\ \A i \in 1 .. Len(lines) - (n + 1) + 1 :
             SubSeq(lines, n + 1, Len(lines))[i] = lines[(n + 1) + i - 1]
    BY <1>1, <2>1, SubSeqProperties
  <2>3. Len(pending') = Len(lines) - n
    BY <1>1, <1>4, <2>2, n <= Len(lines)
  <2>4. \A i \in 1 .. Len(pending') : i \in 1 .. Len(lines) - (n + 1) + 1 /\ (n + 1) + i - 1 = n + i
    BY <1>1, <2>3
  <2>5. QED
    BY <1>4, <2>2, <2>3, <2>4 DEF Lines
<1>8. \A i \in 1 .. Len(pending') : pending'[i].of = from + Len(log') + i - 1
  <2> SUFFICES ASSUME NEW i \in 1 .. Len(pending')
               PROVE  pending'[i].of = from + Len(log') + i - 1
    OBVIOUS
  <2>1. n + i \in 1 .. Len(lines) /\ i \in Nat
    BY <1>1, <1>7
  <2>2. lines[n + i].of = from + Len(log) + (n + i) - 1
    BY <2>1 DEF LinesFrom
  <2>3. QED
    BY <1>1, <1>5, <1>7, <2>1, <2>2
<1>9. QED
  BY <1>5, <1>6, <1>7, <1>8 DEF PhasesFrom, LinesFrom

LEMMA LogFacts ==
  ASSUME PipeInv, LogInv
  PROVE  /\ log \in Seq(Nat) /\ pending \in Lines
         /\ opt.from \in Nat /\ phase \in Nat /\ Len(log) \in Nat /\ Len(pending) \in Nat
         /\ PhasesFrom(log, opt.from) /\ LinesFrom(pending, opt.from + Len(log))
         /\ at \in Stages => opt.from + Len(log) + Len(pending) = phase
  BY OptionFacts, PipelineAssumption DEF PipeInv, PipeTypeOK, Phases, LogInv, Lines

\* The phase's line, put behind those that wait.
LEMMA PhaseLine ==
  ASSUME PipeInv, LogInv, at \in Stages, NEW w \in BOOLEAN
  PROVE  /\ Append(pending, Line(phase, w)) \in Lines
         /\ Len(Append(pending, Line(phase, w))) = Len(pending) + 1
         /\ LinesFrom(Append(pending, Line(phase, w)), opt.from + Len(log))
<1>1. Line(phase, w) \in [of : Nat, waits : BOOLEAN] /\ Line(phase, w).of = phase
  BY LogFacts DEF Line
<1>2. pending \in Seq([of : Nat, waits : BOOLEAN])
  BY LogFacts DEF Lines
<1>3. /\ Append(pending, Line(phase, w)) \in Seq([of : Nat, waits : BOOLEAN])
      /\ Len(Append(pending, Line(phase, w))) = Len(pending) + 1
      /\ Append(pending, Line(phase, w))[Len(pending) + 1] = Line(phase, w)
      /\ \A i \in 1 .. Len(pending) : Append(pending, Line(phase, w))[i] = pending[i]
  BY <1>1, <1>2, AppendProperties
<1> DEFINE p == Append(pending, Line(phase, w))
<1> HIDE DEF p
<1>4. ASSUME NEW i \in 1 .. Len(p) PROVE p[i].of = opt.from + Len(log) + i - 1
  <2>1. CASE i = Len(pending) + 1
    BY <1>1, <1>3, <2>1, LogFacts DEF p
  <2>2. CASE i # Len(pending) + 1
    <3>1. i \in 1 .. Len(pending) /\ p[i] = pending[i]
      BY <1>3, <2>2, LogFacts DEF p
    <3>2. QED
      BY <3>1, LogFacts DEF LinesFrom
  <2>3. QED
    BY <2>1, <2>2
<1>5. QED
  BY <1>3, <1>4 DEF LinesFrom, Lines, p

LEMMA StepLog == ASSUME PipeInv, PipeTypeOK', LogInv, [Next]_vars PROVE LogInv'
<1>0. /\ PipeTypeOK /\ AtOK /\ HandOK /\ LogInv /\ pending \in Lines
      /\ opt.from \in Nat /\ phase \in Nat /\ Len(log) \in Nat /\ Len(pending) \in Nat
      /\ Snaps(opt) => opt.from = 0
  BY LogFacts, OptionFacts DEF PipeInv, PipeTypeOK
<1>u. ASSUME UNCHANGED <<log, pending, opt, at, phase>> PROVE LogInv'
  BY <1>0, <1>u DEF LogInv
<1>e. /\ <<>> \in Seq(Nat) /\ <<>> \in Lines /\ Len(<<>>) = 0
      /\ \A n : PhasesFrom(<<>>, n) /\ LinesFrom(<<>>, n)
  BY EmptySeq DEF Lines, PhasesFrom, LinesFrom
<1>v. ASSUME UNCHANGED <<log, pending, opt>>, at \in Stages <=> at' \in Stages,
             at \in Stages => phase' = phase,
             at' \in {"idle", "start", "check"} \cup Prepares => log = <<>>
      PROVE LogInv'
  BY <1>0, <1>v DEF LogInv
<1> USE <1>0 DEF PipeTypeOK, AtOK, Stages, Prepares, Closings
<1>1. CASE EditInput
  BY <1>1, <1>u DEF EditInput
<1>2. CASE \E n \in Phases : EditPhase(n)
  BY <1>2, <1>u DEF EditPhase
<1>3. CASE \E o \in Options : Command(o)
  <2>1. log = <<>> /\ pending = <<>> /\ UNCHANGED <<log, pending>> /\ at' \in {"start", "check"}
    BY <1>3 DEF Command, LogInv
  <2>2. QED
    BY <1>e, <2>1 DEF LogInv
<1>4. CASE Ends
  <2>1. log' = <<>> /\ pending' = <<>> /\ at' = "idle"
    BY <1>4 DEF Ends, Clears
  <2>2. QED
    BY <1>e, <2>1 DEF LogInv, Lines
<1>5. CASE Starts
  <2>1. log = <<>> /\ pending = <<>> /\ UNCHANGED <<log, pending, opt>> /\ phase' = opt.from
    BY <1>5 DEF Starts, LogInv
  <2>2. QED
    BY <1>e, <2>1 DEF LogInv
<1>6. CASE Unseals
  BY <1>6, <1>v DEF Unseals, LogInv
<1>7. CASE EmptiesStore
  BY <1>7, <1>v DEF EmptiesStore, LogInv
<1>8. CASE Unindexes
  <2>1. log = <<>> /\ pending = <<>> /\ UNCHANGED <<log, pending, opt>> /\ phase' = 0 /\ opt.from = 0
    BY <1>8 DEF Unindexes, LogInv
  <2>2. QED
    BY <1>e, <2>1 DEF LogInv
<1>9. CASE HandsGraph
  BY <1>9, <1>v DEF HandsGraph, LogInv
<1>10. CASE HandsText
  BY <1>10, <1>v DEF HandsText, LogInv
<1>11. CASE HandsOn
  BY <1>11, <1>v DEF HandsOn, LogInv
<1>12. CASE Steps
  BY <1>12, <1>v DEF Steps, LogInv
<1>13. CASE StepsRefused
  <2>1. CASE opt.keepGoing
    BY <1>13, <1>v, <2>1 DEF StepsRefused, LogInv
  <2>2. CASE ~opt.keepGoing
    <3> DEFINE lines == Append(pending, Line(phase, FALSE))
    <3>1. /\ opt' = opt /\ at' = "answered" /\ at = "steps"
          /\ Writes(lines, 1 + Len(pending))
      BY <1>13, <2>2 DEF StepsRefused
    <3>2. /\ lines \in Lines /\ Len(lines) = Len(pending) + 1
          /\ LinesFrom(lines, opt.from + Len(log))
      BY <3>1, PhaseLine
    <3> HIDE DEF lines
    <3>3. /\ log' \in Seq(Nat) /\ pending' \in Lines /\ Len(pending') = Len(lines) - (1 + Len(pending))
          /\ PhasesFrom(log', opt.from) /\ LinesFrom(pending', opt.from + Len(log'))
      <4>1. 1 + Len(pending) \in 0 .. Len(lines)
        BY <3>2
      <4>2. QED
        BY <3>1, <3>2, <4>1, LogFacts, WritesGoOn
    <3>4. pending' = <<>>
      BY <3>2, <3>3, EmptySeq DEF Lines
    <3>5. QED
      BY <3>1, <3>3, <3>4 DEF LogInv, Lines
  <2>3. QED
    BY <2>1, <2>2
<1>14. CASE KeepBegins
  BY <1>14, <1>u DEF KeepBegins
<1>15. CASE KeepEnds
  BY <1>15, <1>v DEF KeepEnds, LogInv
<1>16. CASE LogLine
  <2>1. /\ opt' = opt /\ at = "log" /\ at' = "hand" /\ phase' = phase + 1
        /\ opt.from + Len(log) + Len(pending) = phase
    BY <1>16 DEF LogLine, LogInv
  <2>2. CASE Compares
    <3>1. pending' = Append(pending, Line(phase, TRUE)) /\ log' = log
      BY <1>16, <2>2 DEF LogLine
    <3>2. /\ pending' \in Lines /\ Len(pending') = Len(pending) + 1
          /\ LinesFrom(pending', opt.from + Len(log'))
      BY <2>1, <3>1, PhaseLine
    <3>3. opt'.from + Len(log') + Len(pending') = phase'
      BY <2>1, <3>1, <3>2
    <3>4. QED
      BY <2>1, <3>1, <3>2, <3>3, LogFacts DEF LogInv, Lines
  <2>3. CASE ~Compares
    <3> DEFINE lines == Append(pending, Line(phase, FALSE))
    <3>1. PICK n \in 0 .. Len(lines) : Writes(lines, n)
      BY <1>16, <2>3 DEF LogLine
    <3>2. /\ lines \in Lines /\ Len(lines) = Len(pending) + 1
          /\ LinesFrom(lines, opt.from + Len(log))
      BY <2>1, PhaseLine
    <3> HIDE DEF lines
    <3>3. /\ log' \in Seq(Nat) /\ pending' \in Lines
          /\ Len(log') = Len(log) + n /\ Len(pending') = Len(lines) - n
          /\ PhasesFrom(log', opt.from) /\ LinesFrom(pending', opt.from + Len(log'))
      BY <3>1, <3>2, LogFacts, WritesGoOn
    <3>4. opt.from + Len(log') + Len(pending') = phase'
      <4>1. n \in Nat /\ Len(lines) \in Nat
        BY <3>1, <3>2
      <4>2. QED
        BY <2>1, <3>2, <3>3, <4>1
    <3>5. QED
      BY <2>1, <3>3, <3>4 DEF LogInv, Lines
  <2>4. QED
    BY <2>2, <2>3
<1>17. CASE Finishes
  <2>1. /\ opt' = opt /\ at' \in {"close", "ran"} /\ Writes(pending, Len(pending))
    BY <1>17 DEF Finishes
  <2>2. /\ log' \in Seq(Nat) /\ pending' \in Lines /\ Len(pending') = Len(pending) - Len(pending)
        /\ PhasesFrom(log', opt.from) /\ LinesFrom(pending', opt.from + Len(log'))
    <3>1. Len(pending) \in 0 .. Len(pending)
      OBVIOUS
    <3>2. QED
      BY <2>1, <3>1, LogFacts, WritesGoOn
  <2>3. pending' = <<>>
    BY <2>2, EmptySeq DEF Lines
  <2>4. QED
    BY <2>1, <2>2, <2>3 DEF LogInv, Lines
<1>18. CASE ClosesStore
  BY <1>18, <1>v DEF ClosesStore, LogInv
<1>19. CASE Seals
  BY <1>19, <1>v DEF Seals, LogInv
<1>20. CASE ChecksWhat
  BY <1>20, <1>v DEF ChecksWhat, LogInv
<1>21. CASE ChecksSeed
  BY <1>21, <1>v DEF ChecksSeed, Verdict, LogInv
<1>22. CASE \E n \in Links : LinkTakes(n)
  BY <1>22, <1>v DEF LinkTakes, LinkIs, LogInv
<1>23. CASE \E n \in Links : LinkReads(n)
  BY <1>23, <1>v DEF LinkReads, LinkIs, LogInv
<1>24. CASE \E n \in Links : LinkRuns(n)
  BY <1>24, <1>v DEF LinkRuns, LinkIs, LogInv
<1>25. CASE LinksEnd
  BY <1>25, <1>v DEF LinksEnd, Verdict, LogInv
<1>26. CASE CompilesAll
  BY <1>26, <1>v DEF CompilesAll, Verdict, LogInv
<1>27. CASE UNCHANGED vars
  BY <1>27, <1>u DEF vars
<1>28. QED
  BY <1>1, <1>2, <1>3, <1>4, <1>5, <1>6, <1>7, <1>8, <1>9, <1>10, <1>11, <1>12, <1>13, <1>14,
     <1>15, <1>16, <1>17, <1>18, <1>19, <1>20, <1>21, <1>22, <1>23, <1>24, <1>25, <1>26, <1>27
  DEF Next, Edits, Runs, Link, CheckSteps, Returns, Killed

\* The lines of the log, written and waiting, are the phases' in order, and
\* when a run has ended none is left to wait.
THEOREM LogKeepsOrder == Spec => []LogInOrder
<1>1. Init => LogInv
  <2>1. <<>> \in Seq(Nat) /\ <<>> \in Seq([of : Nat, waits : BOOLEAN]) /\ Len(<<>>) = 0
    BY EmptySeq
  <2>2. QED
    BY <2>1 DEF Init, Cleared, LogInv, PhasesFrom, LinesFrom, Stages
<1>2. PipeInv /\ PipeInv' /\ LogInv /\ [Next]_vars => LogInv'
  BY StepLog DEF PipeInv
<1>3. PipeInv /\ LogInv => LogInOrder
  <2> SUFFICES ASSUME PipeInv, LogInv PROVE LogInOrder
    OBVIOUS
  <2> DEFINE waiting == [i \in 1 .. Len(pending) |-> pending[i].of]
             lines == log \o waiting
  <2>1. /\ opt.from \in Nat /\ Len(log) \in Nat /\ Len(pending) \in Nat /\ log \in Seq(Nat)
    BY LogFacts
  <2>2. waiting \in Seq(Nat) /\ Len(waiting) = Len(pending) /\ \A i \in 1 .. Len(pending) : waiting[i] = pending[i].of
    <3>1. waiting \in [1 .. Len(pending) -> Nat]
      <4>1. \A i \in 1 .. Len(pending) : pending[i] \in [of : Nat, waits : BOOLEAN]
        BY LogFacts, ElementOfSeq DEF Lines
      <4>2. QED
        BY <4>1
    <3>2. \A i \in 1 .. Len(pending) : waiting[i] = pending[i].of
      OBVIOUS
    <3> HIDE DEF waiting
    <3>3. waiting \in Seq(Nat)
      BY <2>1, <3>1, SeqDef
    <3>4. Len(waiting) \in Nat /\ DOMAIN waiting = 1 .. Len(waiting) /\ DOMAIN waiting = 1 .. Len(pending)
      BY <3>1, <3>3, LenProperties
    <3>5. QED
      BY <2>1, <3>2, <3>3, <3>4
  <2> HIDE DEF waiting
  <2>3. /\ Len(lines) = Len(log) + Len(pending)
        /\ \A i \in 1 .. Len(log) + Len(pending) :
             lines[i] = IF i <= Len(log) THEN log[i] ELSE waiting[i - Len(log)]
    <3>1. /\ Len(lines) = Len(log) + Len(waiting)
          /\ \A i \in 1 .. Len(log) + Len(waiting) :
               lines[i] = IF i <= Len(log) THEN log[i] ELSE waiting[i - Len(log)]
      BY <2>1, <2>2, ConcatProperties
    <3>2. QED
      BY <2>2, <3>1
  <2>4. ASSUME NEW i \in 1 .. Len(lines) PROVE lines[i] = opt.from + i - 1
    <3>1. CASE i <= Len(log)
      <4>1. i \in 1 .. Len(log) /\ lines[i] = log[i]
        BY <2>1, <2>3, <2>4, <3>1
      <4>2. QED
        BY <4>1, LogFacts DEF PhasesFrom
    <3>2. CASE ~(i <= Len(log))
      <4>1. i - Len(log) \in 1 .. Len(pending) /\ lines[i] = waiting[i - Len(log)] /\ i \in Nat
        BY <2>1, <2>3, <2>4, <3>2
      <4>2. lines[i] = opt.from + Len(log) + (i - Len(log)) - 1
        BY <2>2, <4>1, LogFacts DEF LinesFrom
      <4>3. QED
        BY <2>1, <4>1, <4>2
    <3>3. QED
      BY <3>1, <3>2
  <2>5. at \in {"close", "seal", "ran", "compile", "answered"} => pending = <<>>
    BY DEF LogInv, Stages
  <2>6. QED
    BY <2>4, <2>5 DEF LogInOrder, waiting
<1>4. QED
  BY <1>1, <1>2, <1>3, InvHolds, PTL DEF Spec

=============================================================================
