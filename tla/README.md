# A TLA+ development of go-whim

go-whim takes vim apart: a pipeline in Go reduces one C translation unit to an
embeddable editor core, translates that into nine languages, and runs two of
the results as guests of a small virtual machine monitor of its own.  Most of
it is sequential and is held byte for byte by the repository's own tests.  This
development models the parts where that is not enough: where several threads,
several buffers on one graph, a signal, a timeout or a crash meet.

Paths below are relative to the repository's `src/`; runs, mutants, the map
from definitions to lines, the hazards and the findings are in `PROJECT.json`.

## Inventory

### The monitor (`vmm/`, `hv/`)

| part | state | operations | what is hard, and what must hold |
|---|---|---|---|
| vCPU loops (`vmm/vmm.go`, `vmm/smp.go`, `vmm/park_linux.go`) | each vCPU's park word and wake token, `started`, `smp.running`, the Host's lock `m.host`, `m.quit`, `m.end` | the exit loop; CPUStart, CPUWake, CPUPark; Host calls; exit; `halt`, `finish`, `destroy` | every vCPU is a thread; parks are limited in time exactly while another vCPU runs the guest; an end must reach vCPUs that park, call or run at that moment, and be recorded once |
| watchdog (`vmm/vmm.go`) | `lastCall`, `inHost` per vCPU, `m.killed` | a tick that looks at each vCPU; the stamps around a call | four fields read and written in no common lock; only a guest that overran is to be killed, and each that did |
| KVM backend (`hv/kvm_linux.go`) | one VM, its vCPUs, their `kvm_run` pages, a cancel flag each | VMCreate, VCPUCreate, VCPURun, VCPUsExit, the destroys | VCPUsExit must make a run on another thread return, running or about to; the Go runtime sends signals of its own |
| box store (`vmm/store.go`) | blobs and refs as files, a cache, `refMu` | Put, Get, Has, Ref, SetRef | calls of several vCPUs at once, crashes and full disks between two writes |
| image, layout, set-up, sandbox | fixed before the run | | data laid out once |

### The guests (`guest/`)

| part | state | operations | what is hard |
|---|---|---|---|
| box namespace (`guest/joker/box`) | transactions, spent or not | put, ref, ref!, txn, commit!, abort! | a capability used once; isolation of what it saw |
| editor namespace (`guest/joker/ed`) | the editing server's | requests | see the session |
| C runtime (`guest/rt/rt.c`) | the call page, the kept answer of a merged wait and read | every call of the core to its host | calls made again after a deadly signal; bytes kept and not lost |
| TamaGo board (`guest/tamago/board`) | `started` | idle, wake, task | the guest's side of parking |

### The pipeline and its graph (`crefactor/`)

| part | state | operations | what is hard |
|---|---|---|---|
| editing session (`crefactor/graph/view`) | the graph, the journals standing, the cached editor and index, each buffer's text, print and stale mark | open, at, change, undo, rename, revert, close | several views of one graph, each typed into; refusals, undos and renames must leave none of them lying |
| journal (`crefactor/graph/journal.go`) | what each edit saved | Begin, save, End, Undo | undoing restores exactly |
| graph and verbs | the typed program | edits | sequential, data-bound |
| driver (`crefactor/pipeline/run.go`) | the text and graph handed from phase to phase, the directory of snapshots and its seal, the store of graphs beside it | a run, whole or in part | a run may stop anywhere: what it left must not be taken for a set of the input's |
| checks side by side (`crefactor/pipeline/check.go`) | links, one a boundary | the check of a plan from its snapshots | links run in any order over files of other runs; what is answered must be what the plan gives |
| comparisons in forms (`crefactor/pipeline/changes.go`) | the queue of a run's log lines | a line queued, written, waited for | a comparison ends after later lines are made |
| store of graphs (`crefactor/graph/store.go`) | a pack, its index, a manifest a graph | create, put, close, read | read while half there |
| front end, printers, translators | none | functions of a program | |

### The editors (`editor/` and eight others)

The core is generated and sequential.  Its Go host `editor/term` is not: a
goroutine stands for the C's signal handlers, and a pipe stands for EINTR.
State: the pending flags, the queue of deadly signals, the wake-up pipe.
Operations: WaitForInput, ReadInput, Delay, Raise, Suspend.  What must hold: no
wait sleeps over a signal that came before it.  `editor/chunks.go` splits a
substitution over goroutines that write nothing they share.

### How they meet

    guest (C core, Go core, Joker) --doorbell--> vmm exit loops --> Host (editor/term) --> terminal
         box namespace ------------------------> vmm/store.go   --> the host's files
         ed namespace  --> crefactor/graph/view (in the guest, or `whim view-serve`)
    editor core --> rt.c's kept read --> vmm call --> editor/term --> the tty
    whim build --> pipeline run, check --> snapshots, store of graphs
    TamaGo's scheduler --> board's idle, wake, task --> vmm parks
    vmm exit loops and halt --> hv.VCPURun, hv.VCPUsExit
    signals goroutine --flags, pipe--> the core's goroutine

Calls are synchronous.  The shared state is: between vCPUs, `m.smp`, `m.host`
and `m.quit`; between the watchdog and vCPUs, the stamps; between VCPUsExit and
VCPURun, the `kvm_run` page; between the store's clients, the files; between
buffers, the graph; between the signals goroutine and the core, flags and pipe;
between a run and the commands after it, the snapshots and the store; between the
links of a check, the process's environment.

## The modules

| module | models | abstracts |
|---|---|---|
| `VcpuSMP` | the vCPU loops, parks, Host calls and the end of a run | time (a deadline or limit may end a wait at any moment); what calls say |
| `GuestIdle` | over `VcpuSMP`, a Go guest: its scheduler and the board's idle, wake, task and stop of the world | goroutines to a count, a timer to set or due; the scheduler to what the board rests on |
| `Watchdog` | the stamps and the watchdog's look at them | a stamp to zero, old or fresh against the limit |
| `KvmRun` | the backend's run/exit protocol | registers, memory, exits' data |
| `TxnRegister` | the abstract specification of a ref and its transactions | |
| `BoxStore` | the store's steps on files, crashes and faults; implements `TxnRegister` | a blob is its own hash; one ref |
| `EditSession` | the session, its buffers and the server's requests, with the journal at the grain of forms | a form to its content, a text to what it says of each form |
| `TermHost` | the terminal host's signals, waits, reads and delays, whoever calls it | the pipe to empty or not, sizes to a counter |
| `TtyStream` | the abstract specification of what a core reads of its terminal | signals' keys |
| `GuestInput` | `TermHost` and its callers: a native core, or a guest's core through `rt.c` and the monitor; implements `TtyStream` | output, strings, the call page's layout |
| `Pipeline` | the driver's runs and checks, its snapshots, seal, store and log lines, from command to command | a text to what it came of; what phases edit |
| `VcpuSMP_proofs`, `GuestIdle_proofs`, `Watchdog_proofs`, `KvmRun_proofs`, `BoxStore_proofs`, `EditSession_proofs`, `GuestInput_proofs`, `Pipeline_proofs` | theorems about the module each is named for, `GuestInput_proofs` about `TermHost` too | |

Names are the source's.  In every module one action is one critical section, or
one operation on an atomic, a channel, a file or a kernel object; a loop that
holds no lock takes a step an element.  Where the code holds a lock over several
steps no other thread can see between, they are one action.

**VcpuSMP.** `pc[c]` is where the thread of vCPU `c` is: `entry`/`guest` in
`loop`, `waking` in `wakeParked`, `parked`, `waiting`, `woken`, `deadline`,
`limit` in `parkFor`, `hostwait`, `inhost`, `resuming` around `lockHost` and
`unlockHost`, `exithalt`, `exitjoin`, `exiting` in the exit call, and the rest in
`finish`, `serve`'s end and `destroy`.  `halt` is a loop of `HaltKicks` in
whichever thread won `quitOnce` (`halter`).  `hv.VCPURun` and `hv.VCPUsExit` are
one flag per vCPU here (`cancel`); `KvmRun` has how that is done.  With one
vCPU the code skips the counting around Host calls, and so does the model.

**GuestIdle.** `board`, chosen by `Init`, says which guest runs: `VcpuSMP`'s own,
which calls what it likes, or one with the board, whose calls are its
scheduler's and its goroutines'.  `mode[c]` is what the M on vCPU `c` is about:
a goroutine (`run`), looking for work (`look`), in `idleSMP` without a deadline,
with one or with one near (`idle`, `timed`, `near`), or at a step of a stop of
the world.  The scheduler is TamaGo's, outside the repository; it is modelled as
`board/smp.go` and `vmm/smp.go` describe it: an M keeps its vCPU and its P,
looks at a stop first, then at timers and goroutines, and calls Idle when there
is nothing.  A semaphore's post and the `goos.Wake` after it are one step.  The
deadline of a park is a timer's or a stop's wait; it may end early, as in
`VcpuSMP`, but fairness forces only ends in time (`InTime`).  The board's guest
makes no end: halts and ends are the other guest's, which is why one run has
both.

**Watchdog.** A stamp is `zero` (never written), `old` or `fresh`; `Elapse` is
the limit going by.  It waits for the monitor's own steps, which take no time to
speak of beside 60 seconds, so the interleavings that remain are those of single
field writes.  `overran` is the history variable the properties compare with.
The model stops at the kill, where `VcpuSMP` begins.

**KvmRun.** The kernel is modelled by what KVM_RUN does with `immediate_exit` and
a pending signal.  `owed` is a history variable: an exit asked for and not yet
returned.

**BoxStore.** Two clients are two vCPUs' threads in the store, which does not
take the Host's lock.  A blob's file is created and then written, a ref's
truncated and then written, and a reader sees what is there.  `Crash` restarts
the monitor on the same directory.  `value` is a history variable, what the last
finished write of the ref set.  `TxnRegister` is stated in its terms, and the
run checks `Register!Spec` as a property: every step of the files is a step of
the register or none.

**EditSession.** A graph is a function from forms to contents.  A view shows one
form or all.  A change is any text; whether it edits, is refused, or is pending
follows Buffer.Change's order: stale first, then no forms in the text, then the
edit.  `refresh` is part of each action that calls it.  `missed` is a history
variable: the buffers a change of the graph did not reach because its request
failed before `refresh`.

`Plain` bounds what a form may say, so that one form has contents to change and
the other comes and goes.

**TermHost.** `pc` is the goroutine in the host, `taken`/`at` the signals
goroutine's.  It is an open component: its callers begin `WaitCalled`,
`ReadCalled`, `DelayCalled` and `RaiseCalled` and take up `pc = "done"`.
`deathtrap` is what `Init` was given, which returns to the caller, ends the
process, or panics out of the call (the monitor's; `deadly`).  `size` counts
resizes.  The wake-up pipe is taken to exist (Init makes it), and the terminal's
size to be had.  `HostSpec` closes it with a caller that makes any call at any
time.

**GuestInput.** `deathtrap` also says which system it is: `"core"` is an editor
run natively, `"monitor"` one in a guest, and every property is checked of both.
`core` is the call the core is in.  `held` and `kept` are
`whim_input_kept` and what is left from `whim_input_at`; `WaitsOnKept` and
`ReadsKept` are the calls answered in the guest, `WaitAnswered` is where the
monitor goes on from a wait to a read of its own, and `TakesEvent` is what
`rt.c` and `main.go` do with a call that came back deadly.  `told` and `known`
are history variables.  The run checks `Stream!Spec`: with `queue` the bytes
kept, those in the call, and the tty's, each step is one of `TtyStream` or none.

**Pipeline.** `at` is where the one command is; `whim build` commands follow one
another on a plan and an input edited between, each a whole run, a part, a run
kept going, one without comparisons, or a check, and each may be killed between
any two steps.  A text is the sequence of the input and the phases' programs it
came of, so that texts are equal only if made alike; a graph is the text it is
the graph of.  Files: `manifest` (the seal), `q` (boundaries; `Torn` between a
file's truncation and its write), `gm` and `idx` (the store's manifests and
index, `None` or `{}` standing for torn as well, which reads the same).  Check's links
are goroutines with `Jobs` places.  `env` is the environment's `REMOVED`.
`mixed` is a history variable: a run that did not unseal the set has kept
boundaries in it (`--keep` names any directory).  The comparison in forms is
left to end when it likes: `LogLine` writes any number of the lines whose
comparisons may be over.  The boundary before is read once where the code reads
it for its text and again for its graph, as no command writes beside another.

## The runs

Passing runs, with the bounds and why they are enough:

- `smp_safety` (3 vCPUs, watchdog): 2.5 million states; the count, parks, Host
  exclusion, halts, ends and the tear-down.  Three is the least where one runs
  while another parks and a third resumes or exits, and where `halt` is between
  two it has still to kick; the watchdog's thread is one actor more, a straggler
  in `halt` as the machine is torn down (`DestroyedLast`).
- `smp_watchdog` (2 vCPUs, watchdog, 1 goroutine waiting, 1 timer, fair; module
  `GuestIdle`, either guest): about 66,000 states.  Of the free guest: a
  halted run, whoever halts it, stops or stays in a Host's call that never
  returns.  Of both: parks end, wakes are not lost.  Of the board's:
  work, timers and stops of the world are found by vCPUs that nobody tells.  Two
  vCPUs are what that needs, one that runs, calls or stops the world and one
  that looks, is on its way to a park, or is parked.  The invariants of the
  board's guest are proved for any number (`GuestIdle_proofs`).
- `watchdog` (3 vCPUs, fair): who may be found overdue, and who must.  Three let
  one vCPU start another while a third is scanned.
- `kvm` (2 vCPUs, 2 askers, fair): the exit protocol with destroys and the
  runtime's signals.  Two askers can overlap in every step.
- `store` (2 clients, 2 blobs, crashes and failed writes): about a million
  states.  Two blobs are needed for a compare to fail, two clients for a race.
- `session` (2 buffers, symmetric; 2 forms, of which `f2` says one thing; 2
  edits standing): about 230,000 states.  Two buffers are what interplay needs:
  one edits, the other is pending, stale, printed again or missed.  Two edits
  undone in order is the least that could be undone in the wrong one.  A form may
  be absent, so forms are put in and deleted, a view's own root among them.
- `input` (2 bytes, read ahead with room, 1 signal queued and 2 sent, 1 resize,
  fair; native and guest): about 500,000 states.  A signal can come at each step
  of each call while another is on its way, and two bytes typed can be parted
  between the tty, the call and the guest.  `MaxSent` is more than a bound on
  states: a SIGINT before every read would keep the size report waiting for ever,
  in the code as in the model.
- `pipeline` (5 phases, 2 places, 2 edits, 3 commands): about 820,000
  states.  The five phases are one of each kind, placed so that each hand-over of
  a phase to the next occurs: a graph phase that ends on text, one that ends on
  the graph, a phase that changes no source, one on text (which also refuses),
  and a graph phase at the end whose new program does not compile.  Three
  commands are a set sealed, one run that spoils it, and one check of what is
  left; two edits are one of the plan before the second and another after it, or
  one of the input.

`CHECK_DEADLOCK FALSE` is in every configuration because each of these systems
may stop: a guest with every vCPU parked without a deadline is idle for ever, a
torn down machine takes no step, the watchdog's model ends with its kill, and the
others are quiet when nobody asks them anything.

Four runs show the code to differ from what the repository says of it (texts and
lines in `PROJECT.json`, "findings"):

| run | what happens |
|---|---|
| `smp_killed` | the watchdog kills a guest that is making a call: the call is refused, no loop records an end, and `run` returns success |
| `store_torn` | `box/ref` answers nil for a ref that exists, in the middle of another's write |
| `session_missed` | an undo that removes its own buffer's form returns before `refresh`: the other buffers keep an old print, and a change typed there takes the undo back |
| `term_room` | a resize met by a read of fewer than 32 bytes is forgotten |

Ten more statements of the repository are written down beside the modules'
properties, or follow from one by a change of a constant, and are false of the
models; no run is kept for them, but TLC shows each in under a minute with the
specification and constants given:

| definition | specification, constants | what happens |
|---|---|---|
| `VcpuSMP!ExitReturned` (`vmm.go:130`) | `Spec`, `N = 2`, no watchdog | a fault recorded before an exit's halt is returned though the Host was told to exit with the code |
| `GuestIdle!WorkFoundInCalls` (`smp.go:27`) | `IdleSpec`, as `smp_watchdog` | a goroutine made before its vCPU's Host call is not found by a parked vCPU whose limit passes in the call: that vCPU sleeps until the call returns |
| `Watchdog!OnlyOverrunKilled` (`vmm.go:656`) | `Spec`, `N = 2` | a tick between CPUStart's `started` (`smp.go:84`) and its first stamp (88) finds the zero time and kills |
| `KvmRun!UnaskedEnters` (`kvm_linux.go:332`) | `Spec`, one vCPU, one asker | a cancel flag taken before its asker sets `immediate_exit` leaves that set for ever; the monitor closes `quit` first and runs no vCPU again, so it does not meet this |
| `BoxStore!RefusedForShort` (`store.go:94`) | `Spec`, two clients, one blob, no faults | the same data put by two vCPUs at once: one is refused as though a short file had been left |
| `EditSession!StaleIsOld` (`buffer.go:37`) | as `session_missed` | `at` prints a stale buffer afresh and leaves it stale, so it refuses every change until a revert |
| `TermHost!DelayWakes` (`term.go:276`) | `HostSpec`, as `term_room`, room 250 only | a SIGTERM between Delay's look and its sleep's drain is drained unseen, and delivered when the sleep is over |
| `GuestInput!DeathComes` (`term.go:21`) | `PollSpec`, as `input` | while a read's answer is kept a guest's wait makes no call (`rt.c:210`): a core that polls with its input buffer full never takes a deadly signal |
| `Pipeline!NamesTheChanged` (`check.go:28`) | `Spec`, as `pipeline` with `Declared = {1, 4}` | two phases with declared removals run side by side and share the process's environment: a link reads the other's rows and a phase that is right is named.  One phase of the plan is so marked today |
| `Pipeline!SealedWhole` without `~mixed` (`check.go:114`) | `Spec`, as `pipeline` | a run in part or kept going, with `--keep` of the sealed directory, rewrites boundaries under a manifest that goes on naming the input |

The driver ignores the error of `os.Remove` when it unseals the set (`run.go`);
the model takes the removal to work.  One that fails is the mutant `Unseals_Not`,
which breaks `SealedWhole`.

The passing properties are stated around these: `EndUnlessKilled` is
`EndRecorded` but for a kill, `WorkFound` excepts calls of the Host that last,
`CallsDoNotCount` a vCPU whose start is under way, `OnlyTyped` the buffers a
failed request missed; `input` gives every read its room and is about a core
that reads what it is told of, `NoLostWakeup` is about waits and reads, and
`SealedWhole` and `NamesTheChanged` are about sets no run kept boundaries into
unsealed (`CheckSound` is about all of them).

Every property of a passing run has a mutant: a plausible slip in one mapped
definition (a wake not sent, a lock of one's own, a drain after the look, an old
value not saved) under which TLC finds that property violated.

## Fairness

- `VcpuSMP`, `Watchdog`, `KvmRun`: weak fairness of the monitor's own steps, one
  condition a thread -- the Go scheduler and the kernel run every runnable
  thread.  None for the guest, which need never exit, nor for a call of the
  Host, which need never answer, nor for time going by.  `KvmRun` has strong
  fairness of entering VCPURun: the loop calls it again for as long as the run
  is on, behind a mutex that others take and let go.
- `GuestIdle`: the same of the monitor, and of the guest weak fairness of each
  vCPU's scheduler: a vCPU in the guest executes.  A goroutine may run for ever,
  make nothing and never come to where it can be stopped.  Strong fairness of
  taking a goroutine and of running a timer, over all vCPUs: a look is at both,
  and a stop of the world between two looks takes neither away.
- `GuestInput`, `FairSpec`: weak fairness of the signals goroutine, of the host's
  steps inside a call (a wait with nothing to end it is not enabled), and of what
  the monitor and the guest do with an answer.  Strong fairness of the core's
  waiting, and of its reading once a wait has said there is input: vim's long
  operations poll (`ui_breakcheck`), and its main loop waits and then reads; the
  package comment of `term.go` rests on the same.  `PollSpec` leaves out the
  reading, which `fill_input_buf` does not do while its buffer is full.

## Refinements

- `store` checks `BoxStore!Register!Spec`, an instance of `TxnRegister`: files cut
  and written, caches and locks are steps of one register with transactions that
  commit at most once, each on the value it saw.
- `input` checks `GuestInput!Stream!Spec`, an instance of `TtyStream`: reads ahead,
  partial reads and calls made again are steps of one queue.

## The proofs

Eight modules hold theorems.  Each is about its component's specification for
every value of the constants the component's assumptions allow: any number of
vCPUs, clients, buffers or signals, any plan, any bound.  What is assumed of the
constants is what the modules state, no more; `TLC` evaluates it in each run.
An invariant is proved with Init and each action, one lemma or step an action;
the inductive one was first checked by TLC on its run's instance.

**`VcpuSMP_proofs`** (any `N` of vCPUs, with or without a watchdog)

- `TypeCorrect`.
- `RunningCounted`, `ParksBounded`: from the inductive invariant `CountInv`.
  `RunningCount` says `smp.running` is the cardinality of the vCPUs in the
  guest.  It is not inductive by itself: a vCPU not started must not be counted
  before CPUStart (`NotStarted`), and nothing happens before `Serve`
  (`NotServing`).  `ParkBounded` needs that a vCPU parked until woken implies no
  vCPU in the guest (`UntilWokenIdle`), that a wait without the limit is of a
  park until woken or has its wake (`WaitsForWake`), and that the park's state is
  set throughout `parkFor` (`ParkedState`).  The lemmas about cardinality say
  what one vCPU entering or leaving the set does to it.
- `HostCallsExclude`: one holder of `m.host` at each location that needs it.
- `EndAlwaysRecorded`: `EndUnlessKilled`, from `killed \/ EndInv`: until the
  watchdog kills, whenever `quit` is closed and `run` has not returned, an end
  is recorded or some vCPU is on its way to recording one.  A kill is never
  taken back (`KilledStep`), and the watchdog halts only what it has killed.
  `EndRecorded` itself is false with a watchdog (`smp_killed`).
- `HaltReachesAll`: `HaltReaches`, from `HaltInv`: a vCPU the loop of `halt` is
  past keeps its token until it wakes and its cancel flag until it leaves, and no
  park or run begins after `quit` is closed that does not look at it.
- `ExitsAlone`, `MachineDestroyedLast`: an exit is reported after every other
  loop has ended, and the VM is destroyed after every vCPU and every `halt`.

**`GuestIdle_proofs`** (over `VcpuSMP_proofs`)

- `IdleTypeCorrect`, which also says that a board's guest makes no end.
- `StopsAreSeen`: `StopSeen`, from `StopInv`: the loop of the stopper's CPUWake
  has passed no vCPU that is asleep or on its way to a park without its wake
  (`WokenFor`).  What it rests on of `VcpuSMP` is one statement of a monitor's
  step, `Passes`: who may lose a wake, begin to park, or go on in the loop.
  The proof found the model wrong at three vCPUs and more, where TLC's run has
  two: a second stop could begin while the first's was being ended.  The
  runtime's `worldsema` excludes that, and `BeginsStop` now has it.

**`Watchdog_proofs`**

- `CallsNeverCount`: `CallsDoNotCount`, from `DogInv`: each of the monitor's
  moments outside a call has a fresh stamp, a guest has one or has overrun
  (`Stamped`), and what the watchdog has seen out of its calls has still that
  stamp (`SeenOut`), because the limit does not go by inside a look.  The swap
  of `started` must let one CPUStart through (`OneStart`).

**`KvmRun_proofs`**

- `TypeCorrect`, with the lock's holder the one asker inside VCPUsExit.
- `ExitFindsItWhole`, `ExitTakesHold`: `TargetWhole` and `AskedLeaves`, from
  `AskInv`: which of its three marks (`cancel`, `immediate`, `signal`) an exit
  asked for has left on its vCPU at which step, until VCPURun's last two take
  them.

**`BoxStore_proofs`** (any clients and blobs, with faults or without)

- `TypeCorrect`.
- `RefsAreWhole`: `RefWhole`, from `StoreInv`: what is cached, and what a SetRef
  past its look works on, is whole and stays so.
- `StoreImplementsRegister`: `Spec => TxnsIsolated`, that `BoxStore` implements
  `TxnRegister`, step by step: the write of the ref's file is the register's
  `Commit` or `Set`, the rest of a call a stutter.  It rests on the ref's file
  being the value but while it is cut (`RefHolds`), and on nobody having written
  the ref since a commit's comparison (`Compared`).

**`EditSession_proofs`** (any buffers, forms and contents)

- `TypeCorrect`, `CachesAreCurrent`, `UndoGivesTheFirst`, from `SessionInv`.
  `UndoneToTheFirst` is not inductive: it says nothing of the graphs between.
  `SessionOK` says there is a sequence of graphs, `past`, from the first to the
  present one, each journal taking one back to the one before.
- `NothingIsTakenBack`: `OnlyTyped`, from `PrintsOK`: a buffer not stale and not
  missed has the print of the graph as it is.
- `PendingIsKept`: `PendingKept`, an action property that needs no invariant.

**`GuestInput_proofs`** (any tty, rooms and signals)

- `NoWakeupIsLost`: `HostSpec => []NoLostWakeup`, of the host under any caller,
  from `HostInv`: past the drain, each flag already looked at is down, or its
  wake is in the pipe or coming (`SeenWake`).  `WakeupsReachTheWait` is the same
  of `Spec`, under the guest's runtime and the monitor.
- `TypeCorrect`, `WhatIsToldIsThere`, `EndlessWaitsGoOn`: from `InputInv`, which
  adds where the host is in each of the core's calls (`CallAt`) and what a wait
  that is done has seen (`WaitIsAnswered`).
- `BytesInOrder`: `Spec => TtyInOrder`, that `GuestInput` implements `TtyStream`:
  from `StreamInv`, that an answer is bytes of the tty or one signal's keys, and
  that nothing is kept while a read is under way.

**`Pipeline_proofs`** (a plan of any length, of any phases)

- `TypeCorrect`, with no more links at work than `Jobs` places.
- `SealedIsWhole`, `ChecksAreSound`: `SealedWhole` and `CheckSound`, from
  `PipeInv`: of a run that is to seal, that the set is unsealed and that each
  boundary behind the phase it is at follows from the one before (`RunOK`), the
  store having the graphs handed on (`StoreOK`); of a sealed set, the same with
  the programs it was made by, which may not be the plan's any more (`Sealed`);
  of a check, what each link that is done has shown (`LinksOK`).
- `ChangedAreNamed`: `NamesTheChanged`, of a plan with at most one phase in
  `Declared`.  That hypothesis is the plan's as it is; with two such phases the
  statement is false (the table above).
- `LogKeepsOrder`: `LogInOrder`, from where the lines written and those that wait
  begin and end (`LogInv`).

`UndoGivesTheFirst` and the proofs about `Boundary` are inductions over the
naturals.  The library's rule of induction takes a predicate as a parameter,
which the provers cannot instantiate; the proofs take the least of a set of
counterexamples instead (`LeastOf`).

What the proofs changed in the modules beside `BeginsStop`: `Pipeline`'s
assumption says what `check.go` and `run.go` take for granted of a plan (a phase
of no source neither edits nor refuses; an input is no phase's program), and an
index removed is `{}`, since a reader finds in it what it finds in none;
`GuestInput`'s map to `TtyStream` picks the bytes of a sequence by name; and
`EditSession`'s `Undone` and `Back` are written so that they can be reasoned
about, and its assumption says that there is something to say and that `Half` is
nothing a form says.

Only model-checked: every liveness property (`ParksEnd`, `Stops`, `WorkFound`,
`WorldStops`, `OverrunEnds`, `AskedReturns`, `ResizeSeen`, `DeathComes`), for
fairness and ENABLED are out of the prover's reach.

## Not modelled

- Generated code (the editor cores), the translators, the C front end and the
  printers: functions of a program, held by byte comparison.
- The HVF backend; the KVM backend's memory, registers and exit decoding.
- The graph's verbs; a session's zipper, its fall-out closure, follow views and
  roots by name, and the server's notion of a current buffer.  An `open` that
  fails on a buffer in use (`server.go:414`) is a hazard listed without a
  property.
- Of the C runtime, the allocator, output and the calls that pass strings: one
  thread and no state between calls.
- Of the TamaGo board, its console and clock, its set-up, and the one-vCPU
  board's spin, which has nobody to meet.
- Suspend's exchange of kernel signal handlers, and a burst of more than 64
  signals (`term.go:183`), which os/signal drops from.
- Two monitors on one store directory (`store.go:147`, `refMu` is a process's), or
  two `whim build`s on one directory of snapshots (`check.go:280`): neither
  excludes the other, and neither is said to.
- A Put that fails half way is modelled in `BoxStore`; that the short file then
  refuses the same data until it is removed (`store.go:96`) is the code's intent.
- What the pipeline's phases edit, `build.go`'s other commands, and the work file
  a run keeps its text in, which nothing reads back.

## Plan

Done: 1 `VcpuSMP` and its proofs; 2 `Watchdog`; 3 `KvmRun`; 4 `TxnRegister` and
`BoxStore`; 5 `EditSession`; 6 `TermHost`; 7 `TtyStream` and `GuestInput`, the
composition of the guest's runtime, the monitor's call and the host; 8
`Pipeline`; 9 `GuestIdle`, the board's idle, wake and stop of the world over the
parking of `VcpuSMP`.

Modules to come, in this order:

10. `Journal`: the journal at the grain of nodes and IDs, with Begin inside Begin
    and what End hands on; `EditSession` rests on it.
11. `Chunks`: the split of a substitution against its sequential meaning.

Proofs to come, with the modules: that `Journal` implements the journal at the
grain of forms, and that `Chunks` implements the sequential substitution.
