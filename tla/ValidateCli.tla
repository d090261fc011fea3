---------------------------- MODULE ValidateCli ----------------------------
(***************************************************************************)
(* cmd/copyfail-validate: main and run, from the flags to the exit code,   *)
(* with the signals that may arrive at any point and the output file they  *)
(* leave behind.  The command line is read by Flags, os-release by         *)
(* OSRelease, the report is rendered by Renderers, and the call of         *)
(* Runner.Run is RunReport, the promise that CheckRunner keeps, with the   *)
(* signal context as its parent context.  What no later step looks at is   *)
(* forgotten on the way.                                                   *)
(***************************************************************************)
EXTENDS Flags, OSRelease, Renderers

CONSTANTS
    CheckNames,    \* the ids of the checks of preset/copyfail, in their order
    RunStates,     \* the states those checks put in a Result
    CommandLines,  \* what the process may be started with, and
    Environments,  \* the COPYFAIL_ variables it may find
    OSReleaseFiles \* the lines of /etc/os-release

NumChecks == Len(CheckNames)
Ids == 1..NumChecks \* all of severity required

ASSUME CheckNamesAssumption == NumChecks \in Nat \ {0}
ASSUME CheckStatesAssumption == RunStates \subseteq States
ASSUME CommandLinesAssumption == CommandLines \subseteq Seq(Tokens)
ASSUME OSReleaseFilesAssumption ==
    \A f \in OSReleaseFiles : f \in Seq(ToSet(f)) /\ \A i \in DOMAIN f : AsWritten(f[i])

VARIABLES
    pc,      \* where main or run is
    argv, env, tty, \* the command line, the environment, stdout is a terminal
    parser,  \* the FlagSet
    opts,    \* the options of run
    osFile,  \* /etc/os-release
    host,    \* which parts of hostinfo.Gather are filled in
    hostErr, \* Gather returned an error
    signal,  \* the signal that cancelled the context
    output,  \* what is at the destination
    code,    \* the exit code, once one is chosen
    total, lost, slots, phase, summary \* of the Runner's call

inputs == <<argv, env, tty>>
argVars == <<inputs, parser>>
hostVars == <<osFile, host, hostErr>>
runVars == <<total, lost, slots, phase, summary>>

vars == <<pc, argVars, opts, hostVars, signal, output, code, runVars>>

\* Err() of the context of signal.NotifyContext is non-nil.
ctxDone == signal # "none"

Run == INSTANCE RunReport
           WITH MaxChecks <- NumChecks, Required <- Ids, cancelled <- ctxDone

Signals == {"SIGINT", "SIGTERM"}

\* The points of run between NotifyContext and its deferred stop.
HandlerInstalled == {"os", "kernel", "arch", "filter", "run", "open",
                     "render", "verdict", "close"}

PC == HandlerInstalled \cup {"parse", "notify", "leave", "exited", "killed"}

File(state, lines) == [state |-> state, lines |-> lines]
NoFile == File("absent", <<>>)
HostParts == {"os", "kernel", "arch"}
NoHost == [part \in HostParts |-> FALSE]
NoArgs == <<>>
NoEnv == [format |-> Empty, timeout |-> Empty, module |-> Empty, conf |-> Empty]
Defaults == Options(NewParser(NoEnv), FALSE)

\* A FlagSet has a text for each flag but the counter, and texts are free.
ParserOK(p) ==
    /\ DOMAIN p = {"status", "pending", "pos", "values", "verbosity"}
    /\ DOMAIN p.values = ValueFlags \cup SwitchFlags
    /\ p.status \in {"flags", "operands", "help", "error"}
    /\ p.pending \in ValueFlags \cup {"none"}
    /\ Admits("timeout", p.values["timeout"])
    /\ p.pos \in Nat \ {0} /\ p.verbosity \in Nat

OSFileOK(f) ==
    /\ f.state \in {"file", "absent", "unreadable"}
    /\ f.lines \in OSReleaseFiles \cup {NoFile.lines}

TypeOK ==
    /\ pc \in PC
    /\ ParserOK(parser)
    /\ opts.format \in Formats
    /\ opts.only \cap Blanks = {} /\ opts.skip \cap Blanks = {}
    /\ opts.only = {} \/ opts.skip = {}
    /\ Admits("timeout", opts.timeout) /\ opts.verbosity \in Nat
    /\ OSFileOK(osFile)
    /\ host \in [HostParts -> BOOLEAN] /\ hostErr \in BOOLEAN
    /\ signal \in Signals \cup {"none"}
    /\ output \in {"untouched", "truncated", "partial", "complete", "lost"}
    /\ code \in ExitCodes \cup {-1}
    /\ total \in 0..NumChecks
    /\ lost \subseteq 1..total
    /\ slots \in [1..total -> Result(0..NumChecks)]
    /\ phase \in {"open", "sealed", "published"}
    /\ summary \in Summary

Init ==
    /\ pc = "parse"
    /\ argv \in CommandLines /\ env \in Environments /\ tty \in BOOLEAN
    /\ parser = NewParser(env) /\ opts = Defaults
    /\ osFile = NoFile /\ host = NoHost /\ hostErr = FALSE
    /\ signal = "none"
    /\ output = "untouched"
    /\ code = -1
    /\ total = 0 /\ lost = {} /\ slots = <<>> /\ phase = "open"
    /\ summary = NoSummary

-----------------------------------------------------------------------------
ReadToken ==
    /\ pc = "parse"
    /\ parser.status = "flags"
    /\ parser.pos <= Len(argv)
    /\ parser' = [ParseOne(parser, argv[parser.pos]) EXCEPT !.pos = @ + 1]
    /\ UNCHANGED <<pc, inputs, opts, hostVars, signal, output, code, runVars>>

AllRead == pc = "parse" /\ (parser.status # "flags" \/ parser.pos > Len(argv))

\* --help and --version end the process well, a usage error does not.
StopAtFlags ==
    /\ AllRead
    /\ Outcome(parser, tty) # "run"
    /\ pc' = "exited"
    /\ code' = IF Outcome(parser, tty) = "help" THEN exitOK ELSE exitUsage
    /\ UNCHANGED <<argVars, opts, hostVars, signal, output, runVars>>

AcceptFlags ==
    /\ AllRead
    /\ Outcome(parser, tty) = "run"
    /\ pc' = "notify"
    /\ opts' = Options(parser, tty)
    /\ UNCHANGED <<argVars, hostVars, signal, output, code, runVars>>

\* What the Runner, the checks and the logger take is not followed further;
\* os-release is what it is by now.
InstallHandler ==
    /\ pc = "notify"
    /\ pc' = "os"
    /\ argv' = NoArgs /\ env' = NoEnv /\ tty' = FALSE /\ parser' = NewParser(NoEnv)
    /\ opts' = [Defaults EXCEPT !.format = opts.format, !.output = opts.output,
                                !.only = opts.only, !.skip = opts.skip]
    /\ osFile' \in {File("file", f) : f \in OSReleaseFiles}
                   \cup {NoFile, File("unreadable", <<>>)}
    /\ UNCHANGED <<host, hostErr, signal, output, code, runVars>>

\* A part of Gather fills in its fields, or ends the gathering.
Gather(at, then, filled) ==
    /\ pc = at
    /\ pc' = then
    /\ host' = filled
    /\ UNCHANGED <<argVars, opts, osFile, hostErr, signal, output, code, runVars>>

GatherFails(at) ==
    /\ pc = at
    /\ pc' = "filter"
    /\ hostErr' = TRUE
    /\ UNCHANGED <<argVars, opts, osFile, host, signal, output, code, runVars>>

\* The fields of the host that os-release gives.
osFields == IF host.os THEN ParseOSRelease(osFile.lines) ELSE NoFields

\* A missing os-release leaves its fields empty and is no error.
GatherOSRelease ==
    \/ osFile.state # "unreadable" /\ Gather("os", "kernel", [host EXCEPT !.os = TRUE])
    \/ osFile.state = "unreadable" /\ GatherFails("os")

\* uname runs under the signal context: once that is done it fails.
GatherKernel ==
    \/ ~ctxDone /\ Gather("kernel", "arch", [host EXCEPT !.kernel = TRUE])
    \/ GatherFails("kernel")
GatherArch ==
    \/ ~ctxDone /\ Gather("arch", "filter", [host EXCEPT !.arch = TRUE])
    \/ GatherFails("arch")

Named(names) == {i \in Ids : CheckNames[i] \in names}

\* filterChecks: --only keeps, --skip drops; at most one is non-empty.
filterChecks == IF opts.only # {} THEN Named(opts.only) ELSE Ids \ Named(opts.skip)

\* An early return of run.
Return(c) == pc' = "close" /\ code' = c

Filter ==
    /\ pc = "filter"
    /\ IF opts.only # {} /\ filterChecks = {}
       THEN Return(exitUsage) /\ UNCHANGED runVars
       ELSE /\ pc' = "run"
            /\ total' = Cardinality(filterChecks)
            /\ slots' = [i \in 1..total' |-> Run!Empty]
            /\ UNCHANGED <<code, lost, phase, summary>>
    /\ opts' = [opts EXCEPT !.only = {}, !.skip = {}]
    /\ osFile' = NoFile /\ host' = NoHost /\ hostErr' = FALSE
    /\ UNCHANGED <<argVars, signal, output>>

\* A step of Runner.Run under the signal context.
Running ==
    /\ pc = "run"
    /\ UNCHANGED <<pc, argVars, opts, hostVars, signal, output, code>>

CheckSettles == Running /\ \E i \in 1..total : Run!Settle(i) \/ Run!Lose(i)
RunnerCloses == Running /\ (Run!Seal \/ Run!Publish)

RunReturns ==
    /\ pc = "run"
    /\ phase = "published"
    /\ pc' = "open"
    /\ UNCHANGED <<argVars, opts, hostVars, signal, output, code, runVars>>

dest == IF opts.output = <<"-">> THEN "stdout" ELSE "file"

\* Faulty: the output file is opened before the checks have run.
OpenAnyTime ==
    /\ pc \in {"run", "open"}
    /\ pc' = IF pc = "open" THEN "render" ELSE pc
    /\ output' = IF dest = "file" THEN "truncated" ELSE output
    /\ UNCHANGED <<argVars, opts, hostVars, signal, code, runVars>>

\* openOutput: stdout is just used, a file is created or truncated.
OpenOutput ==
    /\ pc = "open"
    /\ pc' = "render"
    /\ output' = IF dest = "file" THEN "truncated" ELSE output
    /\ UNCHANGED <<argVars, opts, hostVars, signal, code, runVars>>

OpenFails ==
    /\ pc = "open"
    /\ dest = "file"
    /\ Return(exitToolError)
    /\ UNCHANGED <<argVars, opts, hostVars, signal, output, runVars>>

\* WriteTo renders into memory and writes the whole report at once.
Render ==
    /\ pc = "render"
    /\ pc' = "verdict"
    /\ output' = "complete"
    /\ UNCHANGED <<argVars, opts, hostVars, signal, code, runVars>>

\* Encoding fails, or the write stops short.
RenderFails ==
    /\ pc = "render"
    /\ output' \in {output, "partial"}
    /\ Return(exitToolError)
    /\ UNCHANGED <<argVars, opts, hostVars, signal, runVars>>

\* Faulty: no exit code of its own for a cancelled context.
NoSignalCode == 0

\* signalExitCode: NotifyContext does not tell which signal it was.
signalExitCode == IF ctxDone THEN exitTerminated ELSE 0

Verdict ==
    /\ pc = "verdict"
    /\ Return(IF signalExitCode # 0 THEN signalExitCode
                                    ELSE computeExit(summary))
    /\ UNCHANGED <<argVars, opts, hostVars, signal, output, runVars>>

\* The deferred Close, whose error is dropped: what could not be written
\* back is gone.
CloseOutput ==
    /\ pc = "close"
    /\ pc' = "leave"
    /\ output' \in {output} \cup {"lost" : o \in {output} \cap {"complete"}}
    /\ dest = "stdout" => output' = output
    /\ UNCHANGED <<argVars, opts, hostVars, signal, code, runVars>>

\* The deferred stop, then os.Exit.
Leave ==
    /\ pc = "leave"
    /\ pc' = "exited"
    /\ UNCHANGED <<argVars, opts, hostVars, signal, output, code, runVars>>

MainStep == \/ ReadToken \/ StopAtFlags \/ AcceptFlags \/ InstallHandler
            \/ GatherOSRelease \/ GatherKernel \/ GatherArch
            \/ Filter \/ RunReturns \/ OpenOutput \/ OpenFails
            \/ Render \/ RenderFails \/ Verdict \/ CloseOutput \/ Leave

(***************************************************************************)
(* The environment.  The first signal after NotifyContext cancels the      *)
(* context and every later one is swallowed; before it, and after the      *)
(* deferred stop, a signal kills the process.                              *)
(***************************************************************************)
Signal ==
    /\ pc \in HandlerInstalled
    /\ ~ctxDone
    /\ signal' \in Signals
    /\ UNCHANGED <<pc, argVars, opts, hostVars, output, code, runVars>>

Kill ==
    /\ pc \in {"parse", "notify", "leave"}
    /\ pc' = "killed"
    /\ UNCHANGED <<argVars, opts, hostVars, signal, output, code, runVars>>

\* The reader of a piped stdout is gone: SIGPIPE.
BrokenPipe ==
    /\ pc = "render"
    /\ dest = "stdout"
    /\ pc' = "killed"
    /\ output' \in {output, "partial"}
    /\ UNCHANGED <<argVars, opts, hostVars, signal, code, runVars>>

Ended == pc \in {"exited", "killed"}

Next == \/ MainStep \/ CheckSettles \/ RunnerCloses
        \/ Signal \/ Kill \/ BrokenPipe
        \/ Ended /\ UNCHANGED vars

Spec == Init /\ [][Next]_vars

\* run is one goroutine that never blocks outside Runner.Run, and that
\* returns once its context is done (CheckRunner!CancelReturns).
FairSpec == Spec /\ WF_vars(MainStep) /\ WF_vars(RunnerCloses)

-----------------------------------------------------------------------------
(***************************************************************************)
(* Safety.                                                                 *)
(***************************************************************************)

\* run came to a verdict about the host, rather than to an error or a signal.
VerdictCodes == {exitOK, exitMitigationGap, exitCheckError}
HostVerdict == pc = "exited" /\ phase = "published" /\ code \in VerdictCodes

\* The report was written in full; only its Close may have lost it since.
Written == output = "complete" \/ (output = "lost" /\ dest = "file")

\* The exit code, the report and the document agree: the report was written
\* in full, the code is the worst of its results - a fail, then an error -
\* and a reader of the document, in whatever format, would have said so.
VerdictMatchesReport ==
    HostVerdict =>
        LET has(st) == \E i \in 1..total : slots[i].state = st
        IN  /\ Written
            /\ code = exitMitigationGap <=> has("fail")
            /\ code = exitCheckError <=> has("error") /\ ~has("fail")
            /\ code = exitMitigationGap <=> GapTold(opts.format, slots, summary)
            /\ code # exitOK <=> TroubleTold(opts.format, slots, summary)

\* No verdict is drawn from a run that a signal cut short: a report with an
\* abandoned check never comes with a pass, a gap or a check error.
NoVerdictFromCancelledRun ==
    HostVerdict =>
        \A i \in 1..total : slots[i].err # "parent context canceled"

\* A run that ends, a signalled one too, has written its report, and the
\* document gives each check, in whatever format, the one state of its result.
DocumentTellsEveryCheck ==
    HostVerdict \/ (pc = "exited" /\ code = exitTerminated) =>
        /\ Written
        /\ \A i \in 1..total :
              StatesTold(opts.format, slots, summary, i) = {slots[i].state}

\* A report already at the destination survives everything that happens
\* before the new one is ready: usage errors, filters, signals, slow checks.
OldReportKeptUntilReady ==
    [][output' # output => phase = "published" /\ summary = NewSummary(slots)]_vars

\* What these rest on.  Before the call there is no result; a slot is open or
\* holds the result of its check; an abandoned check tells of a signal; and
\* the destination is first touched when the Runner has returned.
BeforeRun == {"parse", "notify", "os", "kernel", "arch", "filter"}
IsAbandoned(i) == slots[i].err = "parent context canceled"
ResultsOf(i) == [id : {i}, severity : {"required"}, state : States, err : Errs]
RunInv ==
    /\ pc \in BeforeRun => phase = "open" /\ lost = {}
    /\ \A i \in 1..total : \/ phase = "open" /\ slots[i] = Run!Empty
                          \/ slots[i] \in ResultsOf(i)
    /\ \A i \in 1..total : IsAbandoned(i) => ctxDone
    /\ phase = "published" => summary = NewSummary(slots)
    /\ pc \in {"open", "render", "verdict"} \/ output # "untouched" => phase = "published"

\* A code is chosen once, at the end; one that tells of the host, or of a
\* signal, after the report was written, and the former without a signal.
ExitInv ==
    /\ code # -1 => pc \in {"close", "leave", "exited", "killed"}
    /\ pc = "verdict" => output = "complete"
    /\ code = exitTerminated => phase = "published"
    /\ phase = "published" /\ code \in VerdictCodes \cup {exitTerminated} => Written
    /\ phase = "published" /\ code \in VerdictCodes =>
          code = computeExit(summary) /\ \A i \in 1..total : ~IsAbandoned(i)

(***************************************************************************)
(* What is read: a reference for the command line that knows no parser.    *)
(* The heads are the tokens that are not taken for a value.                *)
(***************************************************************************)
TakesNext(tok) == tok.name \in ValueFlags /\ tok.value = None
AreHeads(H) == \A i \in DOMAIN argv :
                  i \in H <=> i = 1 \/ i - 1 \notin H \/ ~TakesNext(argv[i - 1])
Given(H, fs) == {i \in H : /\ argv[i].name \in fs
                           /\ \A j \in H : j < i => argv[j].name \notin {"operand", "--"}}
ValueAt(i) == IF TakesNext(argv[i]) THEN Text(argv[i + 1]) ELSE argv[i].value
LastValue(G, default) == IF G = {} THEN default ELSE ValueAt(LastOf(G))
OrDefault(v, default) == IF v = Empty THEN default ELSE v

\* How often -v is given: it counts from the last number on.
CountOf(G) ==
    LET bare  == {i \in G : argv[i].value \in {None, <<"true">>}}
        reset == G \ bare
    IN  IF reset = {} THEN Cardinality(bare)
        ELSE Cardinality({i \in bare : i > LastOf(reset)})
             + (IF argv[LastOf(reset)].value = <<"false">> THEN 0
                ELSE NumberOf(argv[LastOf(reset)].value))

\* Every option is the value of its last flag before the first operand, else
\* of its variable, else the default - an empty or malformed variable counts
\* as none, an empty --format asks for the terminal's - and -v counts from
\* the last number on.
OptionsAreTheLastGiven ==
    pc = "notify" =>
      \E H \in SUBSET DOMAIN argv :
        /\ AreHeads(H)
        /\ LET value(f, default) == LastValue(Given(H, {f}), default)
               format == value("format", env.format)
           IN  /\ opts.format = IF format # Empty THEN format[1] ELSE IF tty THEN "human" ELSE "json"
               /\ opts.output = value("output", <<"-">>)
               /\ opts.module = value("module", OrDefault(env.module, <<"algif_aead">>))
               /\ opts.timeout = value("timeout", IF env.timeout \in Durations
                                                  THEN env.timeout ELSE <<"30s">>)
               /\ opts.only = ToSet(value("only", Empty)) \ {"", " "}
               /\ opts.skip = ToSet(value("skip", Empty)) \ {"", " "}
               /\ opts.verbosity = CountOf(Given(H, CountFlags))

\* What it rests on.  The values so far are those of the heads before the
\* token in hand, of which the pending one has still to get its value; no
\* operand or terminator is among them but the one that ends the flags.
Before(H, n, fs) == {i \in H : i < n /\ argv[i].name \in fs}
ParsedAs(s, H) ==
    LET open  == s.pending # "none"
        taken == IF open THEN s.pos - 1 ELSE s.pos
        ends  == Before(H, s.pos, {"operand", "--"})
    IN  /\ IF s.status = "flags" THEN ends = {} ELSE ends = {s.pos - 1} /\ ~open
        /\ s.status = "flags" =>
              (open <=> s.pos - 1 \in H /\ TakesNext(argv[s.pos - 1]))
        /\ open => argv[s.pos - 1].name = s.pending
        /\ \A f \in ValueFlags :
              s.values[f] = LastValue(Before(H, taken, {f}), readEnvDefaults(env)[f])
        /\ s.verbosity = CountOf(Before(H, taken, CountFlags))

ParseInv ==
    /\ argv \in Seq(Tokens)
    /\ pc \in {"parse", "notify"} /\ parser.status \in {"flags", "operands"} =>
          /\ parser.pos \in 1..Len(argv) + 1
          /\ \A H \in SUBSET DOMAIN argv : AreHeads(H) => ParsedAs(parser, H)
    /\ pc = "notify" =>
          /\ parser.status = "flags" => parser.pos > Len(argv)
          /\ Outcome(parser, tty) = "run"
          /\ opts = Options(parser, tty)

IInv == TypeOK /\ RunInv /\ ExitInv /\ ParseInv

\* The host fields are what the author of os-release meant: the value of the
\* last well-formed line, whatever its quotes and escapes, and nothing of a
\* line that is not.
HostIsAsWritten ==
    host.os => osFields = [k \in DOMAIN NoFields |-> Meant(osFile.lines, k)]

(***************************************************************************)
(* Liveness, of FairSpec.                                                  *)
(***************************************************************************)

\* A signal during run ends the process, whatever the checks do.
SignalEndsProcess == ctxDone ~> Ended

(***************************************************************************)
(* What the documentation says and the code does not do.                   *)
(***************************************************************************)

\* An empty --only or --skip value is "almost always a shell mishap (e.g.,
\* `--only=$EMPTY`) and we surface it loudly rather than silently treating it
\* as "no filter"" (flags.go).
EmptyFilterIsLoud ==
    pc = "notify" =>
        \A H \in SUBSET DOMAIN argv : AreHeads(H) =>
            \A f \in {"only", "skip"} :
                Given(H, {f}) # {} => Items(LastValue(Given(H, {f}), Empty)) # {}
=============================================================================
