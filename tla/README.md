# copyfail-validation in TLA+

`copyfail-validate` checks whether a Linux host is protected against
CVE-2026-31431 by blocking the kernel module `algif_aead`. It runs a set of
checks concurrently, writes a report and turns it into an exit code that fleets
act on. What can go wrong without a test noticing is mostly in time: a check that
ignores its timeout, a signal while the report is being assembled, an
administrator who edits `modprobe.d` during the scan, a child process that holds
a pipe. These modules model that, TLC checks them on small instances, and TLAPS
proves, for all values of the constants, every safety and action property that a
passing run checks. Liveness is model-checked only.

Paths below are relative to `src/`.

## The system and its parts

| part | state it keeps | operations | hard because |
|---|---|---|---|
| check runner, `check/` | result slice with `completed` and `frozen` under a mutex, semaphore, WaitGroup, `done` | `Run`, `runOne`, `executeCheck` | n + 2 goroutines, cancellation, panics, `Goexit`, workers that outlive `Run` |
| report, `report/` | none (values), the renderer registry | `NewSummary`, `WriteTo` | the tally is read after the mutex is released; only counters reach the exit code |
| command line, `cmd/copyfail-validate/` | the `FlagSet`, context of `signal.NotifyContext`, the output file | `parseFlags`, `run`, `filterChecks`, `openOutput`, `computeExit`, `signalExitCode` | repeated, valueless and overriding flags; a signal at any step, failures after the checks ran, a truncated old report |
| subprocess runner, `internal/exec/` | two capped buffers, the child, `os/exec`'s goroutines | `Run`, `runProcess`, `cappedBuffer.Write`, `ResolveCommand`, `Validate` | exit, kill, deadline and copying race; pipes can outlive the child |
| copyfail preset, `preset/copyfail/` | none; it reads the host | five required checks | the checks look at a changing host at different times |
| kernelmod, `internal/kernelmod/` | the parser's pending block | `ParseConfReader`, `ParseConfDir`, `InstallTarget`, `ParseProcModules`, `DryRunModule` | continuation lines; a directory scan of many system calls; partial results with errors |
| textfile, `internal/render/prom.go` | a temp file and the published name | `WriteTextfileAtomic` | concurrent writers and readers, failures half-way, loss of power |
| AF_ALG scan, `internal/procscan/` | the `ScanResult` | `Scan` | processes exit and PIDs are reused between system calls |
| host information, `internal/hostinfo/` | a partial `HostInfo` | `Gather`, `ParseOSReleaseReader` | `uname` runs under the signal context; quotes and escapes of os-release |
| package integrity, `internal/integrity/` | none | `Detect`, `OwnerOf`, `Verify`, `Clean` | output formats of rpm and debsums, errors that are findings, packages that change between the calls |
| renderers, `internal/render/` | none | human, JSON, SARIF, Prometheus | four ways to say one verdict |
| logging, redact, canonjson, buildinfo | none | formatting | pure |

They interact by calls. `run` gathers the host, builds the preset, filters it,
calls `Runner.Run` with the signal context and renders what it returns. The
runner calls the checks, on a goroutine each; the checks call kernelmod, and
`modprobe.dry_run` calls the subprocess runner under the check's context. The only
shared state is the runner's slice, semaphore and WaitGroup, the context that a
signal cancels, and the host itself: its files, its process table, its module
table. `WriteTextfileAtomic`, `procscan` and `integrity` are library code that
no bundled check calls yet.

## Which module models what

| module | code | shape |
|---|---|---|
| `ReportSummary` | `report/report.go`, `exit.go` | values, `NewSummary`, `computeExit` |
| `RunReport` | what `Runner.Run` promises | abstract specification: slots settled at most once, sealed, published |
| `CheckRunner` | `check/runner.go` | the goroutines; implements `RunReport` |
| `CheckRunnerProofs` | | inductive invariant, the safety theorems, and proof that `CheckRunner` implements `RunReport` |
| `Flags` | `flags.go`, over package `flag` | `ParseOne`, a token at a time; `Outcome`, `Options` |
| `OSRelease` | `hostinfo/osrelease.go` | the parser, and what the author of a line meant |
| `Renderers` | `internal/render` | the four documents, and what a reader of each is told |
| `ValidateCli` | `main.go`, `hostinfo.go` | composes `RunReport` (instance `Run`), `Flags`, `OSRelease` and `Renderers` with signals, filters and output |
| `ValidateCliProofs` | | inductive invariant and the safety theorems |
| `MCValidateCli` | | the command lines, environments and os-release files of its runs |
| `RunAnswers` | errors of `internal/exec` | which errors may accompany which end of a child |
| `RunContract` | what `osRunner.Run` promises | abstract specification: a child, a context, one answer |
| `ExecRunner` | `internal/exec` | one `osRunner.Run` and `os/exec`'s goroutines; implements `RunContract` |
| `ExecRunnerProofs` | | inductive invariant, and proof that `ExecRunner` implements `RunContract` |
| `Integrity` | `internal/integrity` | `Detect`, `OwnerOf`, `Verify` over the answers of `RunAnswers`, against a changing host |
| `IntegrityProofs` | | inductive invariant and the action properties |
| `Kernelmod` | `internal/kernelmod/conf.go` | pure: the scanner loop as a recursive function, the lookups, and a reference reading by logical lines |
| `ParserProofs` | | what `ParseOSRelease` and `ParseConfReader` compute, for texts of any length |
| `PresetChecks` | `preset/copyfail`, `ParseConfDir` | the five checks against a changing host |
| `PresetProofs` | | inductive invariant and the safety theorems |
| `TextfileAtomic` | `WriteTextfileAtomic` | writers, file system, collector, kill, loss of power |
| `TextfileProofs` | | inductive invariant and the safety theorems |
| `ProcScan` | `internal/procscan/afalg.go` | the scan against a changing process table |
| `ProcScanProofs` | | inductive invariant and the safety theorems |

Where modules meet, one stands for the other by its promise: `ValidateCli` takes
`RunReport` for the runner that `CheckRunner` is shown to be, and `Integrity` takes
from `RunAnswers` what `ExecRunner`, through `RunContract`, is shown to answer.

**CheckRunner.** `main` is `Run`'s goroutine (`start`, `select`, `freeze`,
`summarise`, `log`, `returned`), `dpc` the dispatcher, `worker[i]` the goroutine of
check `i`; `sem` and `wg` are the semaphore and the WaitGroup; `results`,
`completed` and `frozen` the `runState`; `out[i]` the local result of `runOne`.
The steps are what Go makes atomic: a channel operation, a critical section, a call
of the check. `MayIgnoreCtx` are the checks that may ignore their context;
`stubborn` is the set that does. A check may answer, skip, panic, or end its
goroutine with `runtime.Goexit`, and may return a Result with zero identity fields,
which `FillIdentity` patches as `executeCheck` does. `Lost` maps a worker that ended
without a result, `Phase` maps `main`, and `Report!Spec` is then `RunReport`.

**Flags.** A text is the sequence of its comma-separated fragments, a token a flag
with or without `=value`, an operand or `--`. `ParseOne` is one turn of
`FlagSet.Parse`'s loop and the `Set` of the flag it meets: the token after a flag
that needs a value is its value, whatever it looks like; a malformed value or an
unknown flag ends the parse. `Options` and `Outcome` are what `parseFlags` does after
the loop: the format, the filters, help and version. Package `flag` is external.

**OSRelease.** A line holds what its author meant (`key`, `value`, `form` of quoting)
and the raw characters, and the parser is given the latter only. `Meant` is the
reading that `ParseOSRelease` is compared with.

**Renderers.** A document is the facts of it that depend on states, severities and
the summary. `StatesTold`, `GapTold` and `TroubleTold` are what a reader gathers from
it: rows and verdict line, results and summary, levels and
`executionSuccessful`, state metrics and `required_failures`.

**ValidateCli.** `pc` follows `main` and `run` in order, from the first token to
`os.Exit`. `Running` steps are steps of `RunReport`, whose `cancelled` is "a signal
has landed". Signals before `NotifyContext` and after its deferred stop kill the
process. `output` tells whether the destination still holds what it held, is
truncated, partial or complete, or was complete and lost by a failing `Close`. State
that no later step reads (the tokens after the parse, the host after the filter) is
reset on the way, so that the runs do not tell its values apart.

**RunContract and ExecRunner.** The promise: a child may start, write and end, the
context may end, and there is one answer, whose error fits the child's end, the
context and the bytes over the cap (`RunAnswers`), with nothing going on after it. In
`ExecRunner` a stream is a number of bytes, as the buffers only keep prefixes.
`pc` is `runProcess` and, inside `c.Run`, `Cmd.Wait`: reap the child, join the watcher,
join the copiers. `desc` is a descendant that may keep the pipes open. `os/exec`
itself is external and modelled from how `runProcess` configures it (no `WaitDelay`,
non-file writers). `Outcome` maps it to the promise: nothing until `pc` is
`returned`, and the buffers at the cap from then on.

**Integrity.** A file deviates from its manifest by a set of attributes. The tools
print lines of those, in either order, for the queried file and a sibling whose path
it is a prefix of; `Answers` cuts, truncates, kills or refuses each as the runner
may, and `parseRPMVerify`, `parseDebsums` and the owner parsers read what is left.
Files are changed and packages leave between the calls.

**Kernelmod and PresetChecks.** A line is its words after comment stripping and
whether a backslash continues it. `ParseConfReader` applies `ScanLine` line after line;
`LogicalLines` says without a scanner where each logical line begins and ends. In `PresetChecks` the host is a
directory of files, each regular, denied, dangling, special or absent, and a state of
`/proc/modules`. `dependency_chain` takes a step per system call (`ReadDir`, `Look`,
`Read`); the other checks look once. `Change` edits the host between any two steps.

**TextfileAtomic.** A file is named by the writer that created it; `data` has the
writer of each block, so a mixed file shows. `temp` and `final` are directory
entries. `PowerLoss` keeps what was synced, any prefix of the rest, and leaves the
published name at any file it has named or at none, as the directory is not synced.

**ProcScan.** Each process has a number, so a reused PID is told from its
predecessor. `been[p]` records every process PID `p` has had since the listing. `List` says what
`sort.Ints` makes of the directory, the ascending sequence of the live PIDs.

## The runs

| run | what it shows | bounds, and why they are enough |
|---|---|---|
| `runner_safety` | `IInv`; the Report is complete, settled once, in the right order, tallied right, honest about abandoned checks and logged faithfully; `RunReport` is implemented | 3 checks on 2 tokens: a check waits for a token while two run, and a required and an advisory severity occur; `MayIgnoreCtx` is empty because without fairness no check is ever obliged to return |
| `runner_liveness` | `Run` returns after a cancel whatever checks do; without one when they honour their timeout; a stubborn check blocks no sibling | the same size, one check that may ignore its context and one token left for the others |
| `dispatch_after_cancel` | violation: checks start after the cancellation | a shortest schedule |
| `cli_run` | `IInv`; every option is the last one given; host fields are what os-release means; exit code, report and document agree in every format; a cancelled run yields no verdict; the old report survives until the new one is ready; a signal ends the process | 2 checks: a filter may keep none, one or both, and a fail may meet an error. All command lines of up to 2 tokens out of 25, and those of 3 that end in two selecting tokens: a flag that takes the next token, what it takes, and what follows. 3 environments: none, malformed, complete. os-release files of up to 2 lines, so that a key repeats; quoted values of 2 characters over quotes and backslashes |
| `cli_empty_filter` | violation: `--only=` runs every check | command lines of up to 2 selecting tokens |
| `exec_run` | `IInv`; `RunContract` is implemented; `Run` returns unless pipes are held | 2 bytes kept of up to 3 written per stream: less, exactly and more than the cap, in every split into chunks |
| `exec_timeout` | violation: the timeout does not bound `Run` | |
| `integrity` | `IInv`; an unowned path is one no package owned; clean without an error is evidence; flags are those of the queried file | every subset of the 3 tools; 3 packages, one of a name `exec.Validate` refuses, so that a path has none, one, two or an odd owner; 6 deviations of the file and 3 of its sibling cover the letters with a flag, one without (`P`), `?` and `missing` |
| `posture` | `IInv`; the parser reads logical lines; five passes mean a mitigated host; a scan is as good as one look | 2 files in 7 states each with every module state, and every text of up to 3 lines of 7 kinds; one change at any step. Three lines hold a continuation, what interrupts it and what ends it; two files suffice for one to override the other |
| `posture_symlink` | violation: a dangling link is reported as a missing directory | |
| `textfile` | `IInv`; reader and disk see one whole report; outcome matches publication; no debris | 3 writers on 2 suffixes: two collide, a third does not; 2 blocks, so that a file can be half written |
| `proc_scan` | silence about a PID is evidence, candidates are real, a cut-short report is a prefix | 3 PIDs, 3 changes: exit, reuse and remap of one PID during its visit, with a PID before and one after |

Deadlock is checked in every run: where a system may rest, a stuttering disjunct of
`Next` says when (all goroutines gone, process ended, all checks done).

`PresetChecks` states its two host-level properties for at most one change
(`changes <= 1`). They are false for two: a file fixed after one check's look and
another broken before the next one's satisfies every check in turn.

## Fairness

* `CheckRunner`: weak fairness of `main`, the dispatcher and each worker (Go
  schedules every runnable goroutine), of each timer, and of a check that honours its
  context once that is done. Nothing makes a check return before, nor a stubborn
  one ever, nor the caller cancel.
* `ValidateCli`: weak fairness of `run`'s own steps and of `RunnerCloses`; the
  latter stands for `CheckRunner!CancelReturns`, checked by `runner_liveness`.
  Parsing flags and gathering the host are among its own steps.
* `ExecRunner`: weak fairness of the caller, the watcher, the copiers and the
  timer. The child and its descendants are free to hang.
* The other modules have no liveness property and no fairness.

## What is proved

Seven components, each for all values of its constants that meet the named
assumptions of its module, and each along the same line: an inductive invariant
`IInv` that TLC checked first, a lemma per action or group of actions that it is
kept, and the properties from it. Together the theorems state every invariant, action
property and refinement of the passing runs.

### The check runner

`CheckRunnerProofs` proves, for all values of `MaxChecks`, `Concurrency`,
`Required`, `RunStates` and `MayIgnoreCtx` that meet the three assumptions of
`CheckRunner` (`MaxChecks` a natural number, `Concurrency` a positive one,
`RunStates` a set of states): `TypeCorrect`, `ConcurrencyBounded`, `OrderKept`,
`ReportComplete`, `SummaryCorrect`, `AbandonmentHonest`, `LeakFree`, `LogFaithful`
and the action property `SlotSettledOnce`. The first two are parts of `IInv` and
have no run of their own. Its last theorem is
`Refinement`: every behaviour of `CheckRunner` is one of `RunReport`.

None of the properties is inductive. `IInv` adds what they rest on, and TLC checks
it in `runner_safety`:

* `Accounting`: `sem` and `wg` are the numbers of workers that owe a release and a
  `Done`. Without it the bound on `sem` says nothing of the checks that run, and
  `wg = 0` nothing of who is gone.
* `DispatchProgress`: the dispatcher has started exactly the checks before `next`,
  stops early only if cancelled, and closes `done` with no worker left.
* `MainProgress`: `Run` leaves its select only for `done` or a cancelled context, and
  `frozen` is set from the freeze on.
* `Produced`: what a worker holds is a result of its own check.
* `Slots`: an open slot is empty; a completed one holds its worker's result or, after
  the freeze, the backfill, which says "context canceled" only for a worker that
  ended without a result.
* `SummaryMatchesResults`: needed in its own right once `Run` has tallied.

`Invariance` has a lemma per group of steps - `main`, dispatcher, worker, environment -
and under each a step per action and conjunct; cardinalities change by one element
at a time by lemmas on `WorkersAt`. The safety theorems follow from `IInv` without
temporal reasoning beyond the last step. For the refinement, `SameSummary` shows that
the two copies of `NewSummary` agree, `InitRefines` maps the initial states, and each
group of actions maps to `Settle`, `Lose`, `Cancel`, `Seal`, `Publish` or a stutter;
`SlotOK` is what makes a recorded result a legal `Settle` and the backfill a `Seal`.

### The subprocess runner

`ExecRunnerProofs` proves `Invariance` and `Refinement` (`Spec => ImplementsContract`)
for any cap, any number of bytes, and with or without descendants. `IInv` has what
the promise needs at the moment of the answer: `Buffered` (each buffer is the capped
prefix of what its copier took, and `truncated` says if it is proper), `Childless`
and `Reaped` (the error of `c.Run` and the exit code are the child's, or the
context's if the watcher fired), and `Drained` (`c.Run` returns with the pipes closed
and read to the end). `Returning` shows that the step that returns is the promise's
`Answer`; every other step starts or ends the child, writes, ends the context, or is
hidden.

### The textfile

`TextfileProofs` proves `ReadersSeeWhole`, `PowerLossKeepsWhole`, `OutcomeTrue` and
`DebrisFree` for any writers, suffixes (equal ones included) and number of blocks.
None is inductive: what a reader sees depends on who could write to the file it has
open. `IInv` adds `OwnTemp` and `Named` (from the exclusive open to the rename or the
removal, a temp name leads to the file of the one call that drew its suffix),
`Stored` (a file is a prefix of its creator's report, holds what was synced, and is
whole once it is), `Published` (exactly the calls that returned nil have been
renamed) and `Reading` (a reader has a prefix of a published file).

### The AF_ALG scan

`ProcScanProofs` proves `SilenceJustified`, `CandidatesJustified` and
`PrefixReported` for any number of PIDs and of changes. They are inductive together
with `Numbered` (no process has the number of one yet to start, so that one which
reuses a PID is not taken for the one whose maps are open) and `InHand` (what has
been established of the PID in hand: while its maps are read, the opened process, if
it still runs, can be read; when `comm` is read, it had matched). `Walked` shows that
this PID is larger than all the scan is done with, which keeps the lists in order and
disjoint; `Accounted` is the one lemma for the three ways to be done with a PID.

### The parsers

`ParserProofs` is about texts of any length, and the two proofs below rest on it.

*Induction.* The induction theorems of the library take an operator as a parameter and
cannot be used, but a set of naturals has a least member (from `WFMin`), so that a
statement about all lengths is proved by giving the set of lengths for which it holds
(`SetInduction`). A recursive function inside a definition is a `CHOOSE` for the
prover: its equation is named as a predicate (`IsFlat`, `Marks`, `Scans`), a function
that satisfies it is shown to exist, and the definition is then any such function.
`FlattenSnoc` follows: what is flattened so far, and one sequence more.

*os-release.* `ExpandEscape`: what `expandDoubleQuoteEscapes` makes of an escaped value
is the value. The induction adds one character to the value at a time and needs that
the text before it is `Closed`, with no backslash at its end that would take the next
character literally. `LineIsAsWritten` goes through the five forms of quoting, and
`FileIsAsWritten` takes the last line of a key.

*modprobe.d.* `ScanOK` is the invariant of the scanner loop: without a malformed
directive, `pending` is what is `Open` (the words since the last complete line) and the
directives match the logical lines that are `Whole`; after one, they match those before
the first that is no directive. `ScanStep` proves it of one line, by the four arms
of `ScanLine`. `LogicalIs` says that the logical lines of a text are the whole ones
and what a trailing continuation holds, `ParsedIs` that the parser returns them.

### The command line

`ValidateCliProofs` is about any number of checks, any set of command lines over the
25 tokens, any environments, and any os-release files that an author can write
(`OSReleaseFilesAssumption`: each line is `AsWritten`, so that a value written without
quotes has none at its head and no blank at its end, and a quote left open does not
end like a closed one; TLC evaluates it on the files of `cli_run`). The Runner is its
promise, `RunReport`. `IInv` has three parts besides the types:

* `RunInv`: a slot is empty or holds a result of its check, one that says it was
  abandoned comes with a signal, and the destination is untouched until the Runner has
  returned. `OldReportSafe` is this last part as an action property.
* `ExitInv`: a code is chosen once, at the end, and one that tells of the host or of a
  signal after the report was written. With `DocumentsTell` and `TroubleIsTold` (what
  the reader of each format gathers is the states and the verdict of the report) and
  `ExitIsTheWorst` it gives `VerdictTrue`, `CancelledRunIsSilent` and
  `DocumentComplete`.
* `ParseInv`: what the parser has read is what the heads so far give. `HeadsExist` is
  the induction over the tokens that says which are heads, `PendingRead` and
  `HeadRead` the step of the parser at a value and at a flag. `OptionsGiven` is what is
  left of it behind the last token.

`HostIsWhatWasMeant` is `FileIsAsWritten` at the step that gathers the host.

### The package integrity

`IntegrityProofs` proves `OwnerNamed`, `CleanProves` and `FlagsOwn` for any finite set
of packages, none of which is called like a message of the tools. The argument is
about what an answer without an error can say: `AnswersAreHonest` shows that cut,
killed and refused commands carry an error, so that the parsers saw all that the tool
printed; `OwnerLinesTell` and `VerifyLinesTell` say what that is, in either order
of the lines; `FlagsOfWholeOutput` that neither the sibling nor a word that is no line
adds a flag. `IInv` keeps, between the two calls, that a name which `Verify` takes is
that of the only owner `OwnerOf` saw, while packages go.

### The preset

`PresetProofs` is about any number of files and of lines, made of the seven kinds of
line. `ParserFaithful` says by `ParsedIs` that the parser reads each of these texts
as its logical lines, and `FilesReadAsWritten` that it does so on every host;
`DirectivesAsWritten` that the last install directive is then modprobe's. The
heart of `IInv` is `SeenAs`: as long as the scan has met no error, what it has found is
what modprobe would find in the files behind it, on the host before the one change or
after it. `NowOrBefore` shows why this survives a file that changes when it is next:
if the scan has seen the old host, and the file in hand is new, all behind it are the
same in both. `ChainInOnePiece` and `PassesAreWhole` follow. `FivePassesMitigate` needs
that the checks which look once can disagree about when they looked: `RightBlocks`
shows that the one file they may disagree about, if it is `--conf`, overrides no other.

### What the proofs changed

* TLC takes the first true arm of a `CASE` whose arms overlap, the prover any. Where
  the code has an order the models state it by disjoint arms or `IF`.
* `UNION S \cap T` was read differently by the two tools; the set is now in brackets.
* `ParseConfReader` was a fold, of which nothing can be proved here, and
  `LogicalLines` sorted a set of line numbers. A recursive function and a description
  by positions took their place, compared on the texts of `posture`.
* `HostIsAsWritten` is false of lines nobody can write (a bare value that ends in a
  blank, an open quote that ends in a quote); no assumption used to exclude them.

### Only model-checked

Liveness, as the prover has neither fairness nor `ENABLED` in reach: `CancelReturns`,
`EveryGoroutineEnds`, `SiblingsSettled`, `ReturnsUnlessPipesHeld` and
`SignalEndsProcess`. `ValidateCli` is proved over `RunReport` and `CheckRunner` shown to
implement it, each in its module; that a behaviour of the two together is one of
`ValidateCli` is by the reading of `Run!Next`, not by a theorem. The four
properties of the next section that fail are, of course, not theorems.

## Where code and documentation differ

* `check/runner.go:179` says dispatching stops when the parent is cancelled; the
  `select` may still take a free token (`dispatch_after_cancel`).
* `flags.go:54` says that an empty `--only` or `--skip` is refused loudly; it is
  taken for no filter, and every check runs (`cli_empty_filter`). `--only=,` is refused.
* `internal/exec/cmd.go:16` says the timeout keeps a hung child from blocking the
  validator; a descendant with the pipes does block it (`exec_timeout`).
* `modprobe_dependency_chain.go:79` says only a missing directory fails and a broken
  symlink is a probe failure; both are `StateFail` (`posture_symlink`).

Smaller ones that no run checks:

* `--help` and the README promise 130 for SIGINT; every signal exits 143, as
  `NotifyContext` does not tell which it was. The comment at `main.go:237` knows it.
* `exit.go:26` says 3 means that no check could run; it also covers an output that
  cannot be opened or written after all checks ran. `exit.go:16`: a skipped required
  check also exits 0. `main.go:97` calls a hostinfo failure a tool error; the run
  goes on.
* `--help` lists `-vv`, which is an unknown flag and exits 64. A malformed
  `COPYFAIL_TIMEOUT` is ignored without a word.
* `VerifyResult.Clean` claims a match "in every observable way"; `D`, `L`, `P`, `?`
  and a missing file leave no trace in the result, and the error beside it is the only
  sign (`CleanIsEvidence` says what a clean result without an error does show).
  `OwnerOf` expects a single line from rpm; several owners are joined, and dpkg's
  diversions and shared files come as one name, which `Verify` then refuses.
* `unquoteOSReleaseValue` takes `"a\"` for a closed quote, and in single quotes
  expands escapes that its comment lists for double ones. `unameField` says it
  returns the first line and returns all of them.
* The help text of the Prometheus timestamp speaks of the last successful run; it is
  the time of any. `required_failures` does not count required errors.
* `conf.go:303`: special files are skipped without a warning. `afalg.go:71`:
  `UnreadablePIDs` holds every read error, not only EACCES.

## What is not modelled

Text: titles, details, evidence, layout, colours, durations and labels of the
documents, redaction, canonical JSON, log formatting, the texts of help and version.
Logging, redaction and canonical JSON are pure functions of their input, a matter of
bytes and corpora. Values of `/proc/modules` columns. Argument validation and the
allowlist appear as outcomes. A `maps` or os-release line over 64 KiB, a read error
in the middle of a `modprobe.d` file, and a FIFO in place of `--conf` (which makes that
check one that ignores its context) are not in the runs. A Result whose State is
zero counts nowhere in the summary; `CheckRunner` admits it, but no bundled check
returns one (`PresetChecks!TypeOK`), and no property is about its exit code. The
renderer registry is the `Render` step; `Register`, `Snapshot` and `Restore` run in
`init` functions and tests. Build information, the example and the licence script
have no behaviour to model.

## Plan

In order of what matters to a user of the exit code:

1. Done: `ReportSummary`, `RunReport`, `CheckRunner`; `Flags`, `OSRelease`,
   `Renderers` and `ValidateCli`; `RunContract` and `ExecRunner`; `Kernelmod` and
   `PresetChecks`; `TextfileAtomic`, `ProcScan` and `Integrity`; each with its proofs.
2. Next modules: `DryRun` of `PresetChecks` over `RunAnswers`, as `Integrity` is; the
   error paths inside one file of `ParseConfDir`.
3. Next theorems: that `Broken` and `SeenAs` hold as those paths are added; that what
   modprobe finds does not depend on the seven kinds of line (`ParsedIs` already does
   not).
