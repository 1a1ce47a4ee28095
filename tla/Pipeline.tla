------------------------------- MODULE Pipeline -------------------------------
(***************************************************************************)
(* The pipeline's driver (crefactor/pipeline): a plan of phases, each a    *)
(* function of the text it is handed, run in order from the input, the     *)
(* text after each kept in the directory of snapshots, and Check, which    *)
(* proves the plan from the snapshots, every phase at once.  One command   *)
(* (cmd/whim/build.go) runs at a time, over and over, on a plan and an     *)
(* input edited between, and may be killed between any two steps.          *)
(*                                                                         *)
(* A text is what it came of: the input, and each phase's program after    *)
(* it, so two texts are equal only if the same programs made them.  A      *)
(* graph is the text it is the graph of.  A phase's program is "old", or   *)
(* the "new" one an edit of the phase puts there.                          *)
(***************************************************************************)
EXTENDS Naturals, Sequences, FiniteSets

CONSTANTS
  Last,        \* the plan is the phases 0 .. Last
  GraphPhases, \* those that begin on the graph (BeginsOnGraph)
  TextEnds,    \* of these, those that end on text
  NoSource,    \* those that change no source
  Declared,    \* those with a step that reads the environment's REMOVED
  Refusing,    \* those whose new program refuses
  Broken,      \* those whose new program leaves C that does not compile
  Inputs,      \* what the input's file may hold
  Kinds,       \* the commands given besides whole runs and checks: see Options
  Jobs,        \* links at a time
  MaxEdits,    \* bounds: edits of the plan and the input,
  MaxCommands, \* and commands
  None

Phases == 0 .. Last
Programs == {"old", "new"}
Texts == Seq(Inputs \cup Programs \cup {"astray", "torn"})
Manifests == [head : Texts, graph : Texts]
Verdicts == {"ok", "seed", "named", "uncompiled", "refused"}

\* A phase that changes no source has no program: nothing of it is run
\* (check.go, advance), so it refuses nothing and leaves nothing.
ASSUME PipelineAssumption ==
  /\ Last \in Nat /\ Jobs \in Nat \ {0}
  /\ GraphPhases \cup NoSource \cup Declared \cup Refusing \cup Broken \subseteq Phases
  /\ TextEnds \subseteq GraphPhases
  /\ (GraphPhases \cup Declared \cup Refusing \cup Broken) \cap NoSource = {}
  /\ Inputs # {} /\ Inputs \cap (Programs \cup {"astray", "torn"}) = {}
  /\ None \notin Inputs \cup Verdicts \cup Texts \cup Manifests

VARIABLES
  input, plan,              \* the input's file, and each phase's program
  manifest, q,              \* the snapshots: the seal, and the boundaries
  gm, idx,                  \* the store of graphs: manifests, and what the index, if any, has
  mixed,                    \* an unsealed run kept boundaries in the set (no variable of the code)
  at, opt, src,             \* where the command is, its options, the input it read
  phase, text, ed, units,   \* Run: the phase, pr.text, pr.ed's graph, the units made ahead
  have,                     \* what the store's writer has put in the pack
  log, pending,             \* the phases' lines written, and those that wait
  env,                      \* REMOVED: the phase whose rows it holds
  link, on, named,          \* Check: each link, what it begins on, the phases that failed
  answer, verdict,
  edits, commands           \* counted for the bounds

givenVars == <<input, plan, edits>>
storeVars == <<gm, idx>>
diskVars == <<manifest, q, storeVars, mixed>>
progVars == <<phase, text, ed, units, have>>
logVars == <<log, pending>>
linkVars == <<link, on, named, env>>
vars == <<givenVars, diskVars, at, opt, src, progVars, logVars, linkVars, answer, verdict, commands>>

Torn == <<"torn">>           \* a file cut short, or the text made of it

\* What whim build is told: --check, --no-changes, --to, --from, --keep-going,
\* and --keep with the directory of snapshots.
Whole == [check |-> FALSE, from |-> 0, to |-> Last, whole |-> TRUE, keepGoing |-> FALSE, keep |-> FALSE, forms |-> TRUE]
Checks == [Whole EXCEPT !.check = TRUE]
To(n) == [Whole EXCEPT !.to = n, !.whole = FALSE, !.keep = TRUE]
From(n) == [Whole EXCEPT !.from = n, !.keep = TRUE]
NoForms == [Whole EXCEPT !.forms = FALSE]
KeepGoing == [Whole EXCEPT !.keepGoing = TRUE, !.keep = TRUE]

Options ==
  {Whole, Checks}
    \cup (IF "to" \in Kinds THEN {To(0)} ELSE {})
    \cup (IF "from" \in Kinds THEN {From(Last)} ELSE {})
    \cup (IF "noforms" \in Kinds THEN {NoForms} ELSE {})
    \cup (IF "keepgoing" \in Kinds THEN {KeepGoing} ELSE {})

(***************************************************************************)
(* A phase, as a function of the text it is handed.                        *)
(***************************************************************************)

Refuses(n) == n \in Refusing /\ plan[n] = "new"

\* Advance: phase n's program on text t, the environment holding e's rows.
Advance(n, t, e) ==
  IF n \in NoSource THEN t
  ELSE Append(t, IF n \in Declared /\ e # n THEN "astray" ELSE plan[n])

Seed(i) == <<i>>

\* The text after each phase, by the plan as it is, on the input read.
Boundary[n \in Phases] ==
  Advance(n, IF n = 0 THEN Seed(src) ELSE Boundary[n - 1], n)

CompilesAt(n) == ~(n \in Broken /\ q[n] # None /\ q[n][Len(q[n])] = "new")

(***************************************************************************)
(* The snapshots.                                                          *)
(***************************************************************************)

\* snapshotsFor: the seal is the input's, and every file is there.
SnapshotsFor(i) == manifest = i /\ \A n \in Phases : q[n] # None

\* ReadStoreLisp: the store has a graph of boundary n, and all its units.
StoreGives(n) == gm[n] # None /\ gm[n].graph \in idx

\* Mutant: whatever graph the store gives.
GraphFor_Any(n, t) == IF StoreGives(n) THEN gm[n].graph ELSE t

\* readGraphSnap: that graph, if it is t's; otherwise t is imported.
GraphFor(n, t) == IF StoreGives(n) /\ gm[n].head = t THEN gm[n].graph ELSE t

\* o.snap: only a whole, ordinary run from phase 0 writes the snapshots.
Snaps(o) == o.from = 0 /\ o.whole /\ ~o.keepGoing

(***************************************************************************)
(* States.                                                                 *)
(***************************************************************************)

TypeOK ==
  /\ input \in Inputs /\ plan \in [Phases -> Programs]
  /\ manifest \in Inputs \cup {None}
  /\ \A n \in Phases : q[n] = None \/ q[n] \in Texts
  /\ \A n \in Phases : gm[n] = None \/ gm[n] \in Manifests
  /\ at \in {"idle", "start", "unseal", "empty", "unindex", "hand", "steps", "keep", "log",
             "close", "seal", "ran", "check", "seed", "links", "compile", "answered"}
  /\ opt \in Options /\ src \in Inputs \cup {None}
  /\ phase \in 0 .. Last + 1
  /\ \A t \in {text, ed, units, answer} : t = None \/ t \in Texts
  /\ env \in Declared \cup {None}
  /\ link \in [Phases \ {0} -> {"waits", "held", "runs", "done"}]
  /\ Cardinality({n \in DOMAIN link : link[n] \in {"held", "runs"}}) <= Jobs
  /\ named \subseteq DOMAIN link
  /\ verdict \in Verdicts \cup {None}

\* A command's own variables before it, and after it.
Cleared ==
  /\ opt = Whole /\ src = None
  /\ phase = 0 /\ text = None /\ ed = None /\ units = None /\ have = {}
  /\ log = <<>> /\ pending = <<>>
  /\ link = [n \in Phases \ {0} |-> "waits"]
  /\ on = [n \in Phases \ {0} |-> None]
  /\ named = {} /\ env = None
  /\ answer = None /\ verdict = None

Clears ==
  /\ opt' = Whole /\ src' = None
  /\ phase' = 0 /\ text' = None /\ ed' = None /\ units' = None /\ have' = {}
  /\ log' = <<>> /\ pending' = <<>>
  /\ link' = [n \in Phases \ {0} |-> "waits"]
  /\ on' = [n \in Phases \ {0} |-> None]
  /\ named' = {} /\ env' = None
  /\ answer' = None /\ verdict' = None

Init ==
  /\ input = CHOOSE i \in Inputs : TRUE
  /\ plan = [n \in Phases |-> "old"]
  /\ manifest = None
  /\ q = [n \in Phases |-> None] /\ gm = [n \in Phases |-> None] /\ idx = {}
  /\ mixed = FALSE
  /\ at = "idle" /\ Cleared
  /\ edits = 0 /\ commands = 0

Goes(from, to) == at = from /\ at' = to

(***************************************************************************)
(* Between commands, and the end of one.                                   *)
(***************************************************************************)

\* An edit of a phase is in the next command's plan; the input is read
\* when a command reads it.
EditPhase(n) ==
  /\ at = "idle" /\ edits < MaxEdits
  /\ plan' = [plan EXCEPT ![n] = IF @ = "old" THEN "new" ELSE "old"]
  /\ edits' = edits + 1
  /\ UNCHANGED <<input, diskVars, at, opt, src, progVars, logVars, linkVars, answer, verdict, commands>>

EditInput ==
  /\ edits < MaxEdits
  /\ input' \in Inputs \ {input}
  /\ edits' = edits + 1
  /\ UNCHANGED <<plan, diskVars, at, opt, src, progVars, logVars, linkVars, answer, verdict, commands>>

Command(o) ==
  /\ Goes("idle", IF o.check THEN "check" ELSE "start")
  /\ commands < MaxCommands
  /\ opt' = o
  /\ commands' = commands + 1
  /\ UNCHANGED <<givenVars, diskVars, src, progVars, logVars, linkVars, answer, verdict>>

\* The command ends, or is killed: what it had in memory is gone.
Ends ==
  /\ at # "idle" /\ at' = "idle" /\ Clears
  /\ UNCHANGED <<givenVars, diskVars, commands>>

Returns == at \in {"ran", "answered"} /\ Ends
Killed == at \notin {"ran", "answered"} /\ Ends

(***************************************************************************)
(* Run.                                                                    *)
(***************************************************************************)

\* The input is read; a whole run goes on to unseal the set.  With --from,
\* the input is a boundary, which is to say what the one before it left.
Starts ==
  /\ at = "start"
  /\ IF opt.from = 0 THEN TRUE ELSE q[opt.from - 1] # None
  /\ src' = input
  /\ at' = IF Snaps(opt) THEN "unseal" ELSE "hand"
  /\ phase' = opt.from
  /\ text' = IF opt.from = 0 THEN None ELSE q[opt.from - 1]
  /\ UNCHANGED <<givenVars, diskVars, opt, ed, units, have, logVars, linkVars, answer, verdict, commands>>

\* Mutant: the set is sealed last and not unsealed first.
Unseals_Not ==
  /\ Goes("unseal", "empty")
  /\ UNCHANGED <<givenVars, diskVars, opt, src, progVars, logVars, linkVars, answer, verdict, commands>>

Unseals ==
  /\ Goes("unseal", "empty")
  /\ manifest' = None
  /\ UNCHANGED <<givenVars, q, storeVars, mixed, opt, src, progVars, logVars, linkVars, answer, verdict, commands>>

\* CreateStore: the manifests, then the index and the pack.
EmptiesStore ==
  /\ Goes("empty", "unindex")
  /\ gm' = [n \in Phases |-> None]
  /\ UNCHANGED <<givenVars, manifest, q, idx, mixed, opt, src, progVars, logVars, linkVars, answer, verdict, commands>>

Unindexes ==
  /\ Goes("unindex", "hand")
  /\ idx' = {}
  /\ UNCHANGED <<givenVars, manifest, q, gm, mixed, opt, src, progVars, logVars, linkVars, answer, verdict, commands>>

ToRun == phase <= opt.to

\* What pr.text is when the phase begins: at phase 0, the input's seed.
Handed == IF phase = 0 THEN Seed(src) ELSE text

\* A phase that begins on the graph is handed it, an import if the phase
\* before ended on text; and a whole run puts it beside its boundary.
HandsGraph ==
  /\ Goes("hand", "steps") /\ ToRun
  /\ phase \in GraphPhases
  /\ text' = Handed
  /\ ed' = IF phase > 0 /\ ed # None THEN ed ELSE Handed
  /\ IF Snaps(opt) /\ phase > 0
     THEN LET graph == IF units # None THEN units ELSE ed' IN
          /\ gm' = [gm EXCEPT ![phase - 1] = [head |-> text, graph |-> graph]]
          /\ have' = have \cup {graph}
     ELSE UNCHANGED <<gm, have>>
  /\ units' = None
  /\ UNCHANGED <<givenVars, manifest, q, idx, mixed, opt, src, phase, logVars, linkVars, answer, verdict, commands>>

\* Mutant: the units made ahead are not forgotten.
HandsText_Units ==
  /\ Goes("hand", "steps") /\ ToRun
  /\ phase \notin GraphPhases \cup NoSource
  /\ text' = Handed
  /\ ed' = None
  /\ UNCHANGED <<givenVars, diskVars, opt, src, phase, units, have, logVars, linkVars, answer, verdict, commands>>

HandsText ==
  /\ Goes("hand", "steps") /\ ToRun
  /\ phase \notin GraphPhases \cup NoSource
  /\ text' = Handed
  /\ ed' = None /\ units' = None
  /\ UNCHANGED <<givenVars, diskVars, opt, src, phase, have, logVars, linkVars, answer, verdict, commands>>

\* A phase that changes no source keeps its boundary, and what is held
\* goes on past it.
HandsOn ==
  /\ Goes("hand", "keep") /\ ToRun
  /\ phase \in NoSource
  /\ text' = Handed
  /\ UNCHANGED <<givenVars, diskVars, opt, src, phase, ed, units, have, logVars, linkVars, answer, verdict, commands>>

\* The phase's steps and its finish.
Steps ==
  /\ Goes("steps", "keep")
  /\ ~Refuses(phase)
  /\ text' = Advance(phase, IF phase \in GraphPhases THEN ed ELSE text, phase)
  /\ ed' = IF phase \in GraphPhases \ TextEnds THEN text' ELSE None
  /\ UNCHANGED <<givenVars, diskVars, opt, src, phase, units, have, logVars, linkVars, answer, verdict, commands>>

Line(n, waits) == [of |-> n, waits |-> waits]

\* Of the lines that are to be written, n are; the rest wait.
Writes(lines, n) ==
  /\ log' = log \o [i \in 1 .. n |-> lines[i].of]
  /\ pending' = SubSeq(lines, n + 1, Len(lines))

\* A phase refuses: the run ends, its set unsealed -- or, kept going, goes on
\* with the text as it was.
StepsRefused ==
  /\ at = "steps" /\ Refuses(phase)
  /\ IF opt.keepGoing
     THEN at' = "keep" /\ UNCHANGED verdict
     ELSE at' = "answered" /\ verdict' = "refused"
  /\ ed' = None
  /\ IF opt.keepGoing THEN UNCHANGED logVars ELSE Writes(Append(pending, Line(phase, FALSE)), 1 + Len(pending))
  /\ UNCHANGED <<givenVars, diskVars, opt, src, phase, text, units, have, linkVars, answer, commands>>

\* keep: the file is cut, then written.
Keeps == Snaps(opt) \/ opt.keep

KeepBegins ==
  /\ at = "keep" /\ Keeps /\ q[phase] # Torn
  /\ q' = [q EXCEPT ![phase] = Torn]
  /\ mixed' = (mixed \/ ~Snaps(opt))
  /\ UNCHANGED <<givenVars, manifest, storeVars, at, opt, src, progVars, logVars, linkVars, answer, verdict, commands>>

KeepEnds ==
  /\ Goes("keep", "log")
  /\ IF Keeps THEN q[phase] = Torn /\ q' = [q EXCEPT ![phase] = text] ELSE UNCHANGED q
  /\ UNCHANGED <<givenVars, manifest, storeVars, mixed, opt, src, progVars, logVars, linkVars, answer, verdict, commands>>

\* The phase is compared with what it was handed, in forms: it began on the
\* graph, and the graph it ends on is at hand, or imported for the phase
\* after it, or for this alone when it is the last.
Ahead ==
  IF ed # None THEN ed
  ELSE IF phase = opt.to \/ phase + 1 \in GraphPhases THEN text
  ELSE None

Compares == opt.forms /\ phase \in GraphPhases /\ ~Refuses(phase) /\ Ahead # None

\* Mutant: a line that waits for nothing is written at once.
LogLine_AtOnce ==
  /\ Goes("log", "hand")
  /\ phase' = phase + 1
  /\ IF Compares
     THEN /\ ed' = Ahead /\ units' = Ahead
          /\ pending' = Append(pending, Line(phase, TRUE)) /\ UNCHANGED log
     ELSE /\ UNCHANGED <<ed, units>>
          /\ log' = Append(log, phase) /\ UNCHANGED pending
  /\ UNCHANGED <<givenVars, diskVars, opt, src, text, have, linkVars, answer, verdict, commands>>

\* The line of a phase that is compared waits for the comparison, made
\* beside the run; any other is written behind the lines that wait: as many
\* as are ready go before it, in order, or it waits too.
LogLine ==
  /\ Goes("log", "hand")
  /\ phase' = phase + 1
  /\ IF Compares
     THEN /\ ed' = Ahead /\ units' = Ahead
          /\ pending' = Append(pending, Line(phase, TRUE)) /\ UNCHANGED log
     ELSE /\ UNCHANGED <<ed, units>>
          /\ LET lines == Append(pending, Line(phase, FALSE)) IN
             \E n \in 0 .. Len(lines) :
               /\ n < Len(lines) => lines[n + 1].waits
               /\ Writes(lines, n)
  /\ UNCHANGED <<givenVars, diskVars, opt, src, text, have, linkVars, answer, verdict, commands>>

\* The last phase is done: the lines that wait are waited for; a whole run
\* closes the store, and seals the set last.
Finishes ==
  /\ Goes("hand", IF Snaps(opt) THEN "close" ELSE "ran") /\ ~ToRun
  /\ Writes(pending, Len(pending))
  /\ answer' = text
  /\ UNCHANGED <<givenVars, diskVars, opt, src, progVars, linkVars, verdict, commands>>

ClosesStore ==
  /\ Goes("close", "seal")
  /\ idx' = have
  /\ UNCHANGED <<givenVars, manifest, q, gm, mixed, opt, src, progVars, logVars, linkVars, answer, verdict, commands>>

Seals ==
  /\ Goes("seal", IF opt.check THEN "compile" ELSE "ran")
  /\ manifest' = src
  /\ mixed' = FALSE
  /\ UNCHANGED <<givenVars, q, storeVars, opt, src, progVars, logVars, linkVars, answer, verdict, commands>>

(***************************************************************************)
(* Check.                                                                  *)
(***************************************************************************)

\* With no snapshots of the input it runs the pipeline, which reads the
\* input again.
ChecksWhat ==
  /\ Goes("check", IF SnapshotsFor(input) THEN "seed" ELSE "start")
  /\ src' = input
  /\ UNCHANGED <<givenVars, diskVars, opt, progVars, logVars, linkVars, answer, verdict, commands>>

Verdict(v) == at' = "answered" /\ verdict' = v

ChecksSeed ==
  /\ at = "seed"
  /\ IF ~Refuses(0) /\ q[0] = Advance(0, Seed(src), 0)
     THEN at' = "links" /\ UNCHANGED verdict
     ELSE Verdict("seed")
  /\ UNCHANGED <<givenVars, diskVars, opt, src, progVars, logVars, linkVars, answer, commands>>

Links == Phases \ {0}

LinkIs(n, from, to) == at = "links" /\ link[n] = from /\ link' = [link EXCEPT ![n] = to]

\* Mutant: a link begins without waiting for a place.
LinkTakes_Any(n) ==
  /\ LinkIs(n, "waits", "held")
  /\ UNCHANGED <<givenVars, diskVars, at, opt, src, progVars, logVars, on, named, env, answer, verdict, commands>>

LinkTakes(n) ==
  /\ LinkIs(n, "waits", "held")
  /\ Cardinality({m \in Links : link[m] \in {"held", "runs"}}) < Jobs
  /\ UNCHANGED <<givenVars, diskVars, at, opt, src, progVars, logVars, on, named, env, answer, verdict, commands>>

\* It reads the boundary before, and its graph if it begins on one; a step
\* that reads what its phase declares has it put in the environment.
LinkReads(n) ==
  /\ LinkIs(n, "held", "runs")
  /\ on' = [on EXCEPT ![n] = IF n \in GraphPhases THEN GraphFor(n - 1, q[n - 1]) ELSE q[n - 1]]
  /\ env' = IF n \in Declared THEN n ELSE env
  /\ UNCHANGED <<givenVars, diskVars, at, opt, src, progVars, logVars, named, answer, verdict, commands>>

\* The phase is run on it, and held against the boundary after.
Reproduces(n) == ~Refuses(n) /\ q[n] = Advance(n, on[n], env)

\* Mutant: what a phase declared is undone after every phase.
LinkRuns_Undoes(n) ==
  /\ LinkIs(n, "runs", "done")
  /\ named' = IF Reproduces(n) THEN named ELSE named \cup {n}
  /\ env' = None
  /\ UNCHANGED <<givenVars, diskVars, at, opt, src, progVars, logVars, on, answer, verdict, commands>>

LinkRuns(n) ==
  /\ LinkIs(n, "runs", "done")
  /\ named' = IF Reproduces(n) THEN named ELSE named \cup {n}
  /\ env' = IF n \in Declared THEN None ELSE env
  /\ UNCHANGED <<givenVars, diskVars, at, opt, src, progVars, logVars, on, answer, verdict, commands>>

\* Every link has answered: the last boundary is what the pipeline gives.
LinksEnd ==
  /\ at = "links" /\ \A n \in Links : link[n] = "done"
  /\ IF named # {}
     THEN Verdict("named") /\ UNCHANGED answer
     ELSE at' = "compile" /\ answer' = q[Last] /\ UNCHANGED verdict
  /\ UNCHANGED <<givenVars, diskVars, opt, src, progVars, logVars, linkVars, commands>>

CompilesAll ==
  /\ at = "compile"
  /\ Verdict(IF \A n \in Phases : CompilesAt(n) THEN "ok" ELSE "uncompiled")
  /\ UNCHANGED <<givenVars, diskVars, opt, src, progVars, logVars, linkVars, answer, commands>>

(***************************************************************************)
(* The specification.                                                      *)
(***************************************************************************)

Edits == EditInput \/ \E n \in Phases : EditPhase(n)

Runs ==
  \/ Starts \/ Unseals \/ EmptiesStore \/ Unindexes
  \/ HandsGraph \/ HandsText \/ HandsOn
  \/ Steps \/ StepsRefused \/ KeepBegins \/ KeepEnds \/ LogLine
  \/ Finishes \/ ClosesStore \/ Seals

Link(n) == LinkTakes(n) \/ LinkReads(n) \/ LinkRuns(n)

CheckSteps == ChecksWhat \/ ChecksSeed \/ LinksEnd \/ CompilesAll

Next ==
  \/ Edits
  \/ \E o \in Options : Command(o)
  \/ Runs
  \/ CheckSteps
  \/ \E n \in Links : Link(n)
  \/ Returns \/ Killed

Spec == Init /\ [][Next]_vars

(***************************************************************************)
(* Properties.                                                             *)
(***************************************************************************)

\* check.go, snapshotsFor: a manifest that names an input means the set is
\* whole and is that input's -- one run's, each boundary what the next came
\* of, and each graph in the store its boundary's -- however many runs
\* stopped part way, were killed, refused or kept going before.
SealedWhole ==
  manifest # None /\ ~mixed =>
    /\ \A n \in Phases : q[n] \notin {None, Torn}
    /\ q[0][1] = manifest
    /\ \A n \in Links : IF n \in NoSource THEN q[n] = q[n - 1]
                         ELSE q[n] \in {Append(q[n - 1], p) : p \in Programs}
    /\ \A n \in Links \cap GraphPhases :
         StoreGives(n - 1) /\ gm[n - 1].head = q[n - 1] /\ gm[n - 1].graph = q[n - 1]

\* check.go, Check: what it answers is what the plan as it is gives on the
\* input it read, and every boundary of it compiles, whatever was left in
\* the snapshots and the store before -- a set of another plan, boundaries a
\* run kept into it, files cut short.
CheckSound ==
  verdict = "ok" =>
    /\ answer = Boundary[Last]
    /\ \A n \in Phases : ~Refuses(n) /\ (n \in Broken => plan[n] = "old")

\* check.go, Check: of a set a run sealed, a phase whose program changed
\* breaks its own link and is named, and no other is, in whatever order the
\* links run.
NamesTheChanged ==
  verdict = "named" /\ ~mixed =>
    named = {n \in Links \ NoSource : plan[n] # q[n][Len(q[n])]}

\* changes.go: the phases' lines are written in the phases' order, though a
\* comparison may end after the lines of later phases are made, and by the
\* run's end all are.
LogInOrder ==
  LET lines == log \o [i \in 1 .. Len(pending) |-> pending[i].of] IN
    /\ \A i \in 1 .. Len(lines) : lines[i] = opt.from + i - 1
    /\ at \in {"close", "seal", "ran", "compile", "answered"} => pending = <<>>
=============================================================================
