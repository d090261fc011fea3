---------------------------- MODULE CheckRunner ----------------------------
(***************************************************************************)
(* check.Runner: one call of Runner.Run, with its three kinds of           *)
(* goroutine - the caller's own (main), the dispatcher and one worker per  *)
(* dispatched check - and the parent context the caller may cancel.        *)
(*                                                                         *)
(* A step is what a goroutine does between two points at which another     *)
(* goroutine can observe it: a channel operation, a critical section of    *)
(* runState.mu, a WaitGroup operation, a call of the Check, a log line.    *)
(***************************************************************************)
EXTENDS ReportSummary

CONSTANTS
    MaxChecks,    \* bound on the length of the checks slice
    Concurrency,  \* Runner.Concurrency, after Run replaced 0 by NumCPU
    Required,     \* the positions whose check has SeverityRequired
    RunStates,    \* the states a Check.Run may put in its Result
    MayIgnoreCtx  \* the positions whose check may ignore its context

ASSUME MaxChecksAssumption == MaxChecks \in Nat
ASSUME ConcurrencyAssumption == Concurrency \in Nat \ {0}
ASSUME RunStatesAssumption == RunStates \subseteq States \cup {Blank}

VARIABLES
    total,     \* len(checks)
    stubborn,  \* the checks that ignore their context
    ctxDone,   \* the parent context is cancelled
    main,      \* where the caller's goroutine is in Run
    dpc,       \* where the dispatcher is
    next,      \* the dispatcher's loop index
    sem,       \* number of tokens in the semaphore channel
    wg,        \* counter of the WaitGroup
    worker,    \* where the worker of each check is
    expired,   \* the context of a check that is executing has timed out
    out,       \* res of runOne: what the worker has to record
    results,   \* runState.results, which is rep.Results
    completed, \* runState.completed
    frozen,    \* runState.frozen
    summary    \* rep.Summary

vars == <<total, stubborn, ctxDone, main, dpc, next, sem, wg, worker, expired, out,
          results, completed, frozen, summary>>

callVars == <<total, stubborn>>
mainVars == <<callVars, main, summary>>
dispVars == <<dpc, next>>
chanVars == <<sem, wg>>
workVars == <<worker, expired, out>>
stateVars == <<results, completed, frozen>>

-----------------------------------------------------------------------------
(***************************************************************************)
(* The goroutines' positions.  A worker holds its token from before it     *)
(* starts until its second deferred call, and counts in the WaitGroup      *)
(* until its last.                                                         *)
(***************************************************************************)
MainPC == {"start", "select", "freeze", "summarise", "log", "returned"}

DispatcherPC == {"none", "loop", "wait", "closed"}

Executing == {"applicable", "run"}
Started == Executing \cup {"record", "log"}
HoldsToken == Started \cup {"spawned", "release"}
InWaitGroup == HoldsToken \cup {"wgDone"}
Ended == {"release", "wgDone", "gone"}
WorkerPC == InWaitGroup \cup {"none", "gone"}

Checks == 1..total

\* c.Severity() of the check at position i.
SeverityOf(i) == IF i \in Required THEN "required" ELSE "advisory"

\* The zero Result of a slot nobody has written.
NoResult == [id |-> 0, severity |-> Blank, state |-> Blank, err |-> Blank]

Results == Result(0..MaxChecks)

WorkersAt(pcs) == {i \in Checks : worker[i] \in pcs}

\* A context derived with WithTimeout is done when its parent is, too.
CheckCtxDone(i) == ctxDone \/ expired[i]

TypeOK ==
    /\ total \in 0..MaxChecks
    /\ stubborn \subseteq Checks
    /\ ctxDone \in BOOLEAN
    /\ main \in MainPC
    /\ dpc \in DispatcherPC
    /\ next \in 1..(total + 1)
    /\ sem \in 0..Concurrency
    /\ wg \in 0..total
    /\ worker \in [Checks -> WorkerPC]
    /\ expired \in [Checks -> BOOLEAN]
    /\ out \in [Checks -> Results]
    /\ results \in [Checks -> Results]
    /\ completed \in [Checks -> BOOLEAN]
    /\ frozen \in BOOLEAN
    /\ summary \in Summary

Init ==
    /\ total \in 0..MaxChecks
    /\ stubborn \in SUBSET (Checks \cap MayIgnoreCtx)
    /\ ctxDone = FALSE
    /\ main = "start"
    /\ dpc = "none"
    /\ next = 1
    /\ sem = 0
    /\ wg = 0
    /\ worker = [i \in Checks |-> "none"]
    /\ expired = [i \in Checks |-> FALSE]
    /\ out = [i \in Checks |-> NoResult]
    /\ results = [i \in Checks |-> NoResult]
    /\ completed = [i \in Checks |-> FALSE]
    /\ frozen = FALSE
    /\ summary = NoSummary

-----------------------------------------------------------------------------
(***************************************************************************)
(* The caller's goroutine.                                                 *)
(***************************************************************************)

\* An empty slice: Run summarises nothing and returns without a dispatcher.
RunNothing ==
    /\ main = "start"
    /\ total = 0
    /\ summary' = NewSummary(results)
    /\ main' = "returned"
    /\ UNCHANGED <<callVars, ctxDone, dispVars, chanVars, workVars, stateVars>>

\* Set up the run state and start the dispatcher.
StartRun ==
    /\ main = "start"
    /\ total > 0
    /\ main' = "select"
    /\ dpc' = "loop"
    /\ UNCHANGED <<callVars, ctxDone, next, chanVars, workVars, stateVars,
                   summary>>

\* Faulty: done is closed as soon as the dispatch loop is over.
WorkersDispatched == dpc \in {"wait", "closed"}

\* done is closed.
WorkersFinished == dpc = "closed"

\* Faulty: Run waits for done alone.
WaitForWorkers ==
    /\ main = "select"
    /\ WorkersFinished
    /\ main' = "freeze"
    /\ UNCHANGED <<callVars, ctxDone, dispVars, chanVars, workVars, stateVars,
                   summary>>

\* The two cases of Run's select: every worker finished, or the parent
\* context is done.  When both are ready Go picks either.
StopWaiting ==
    /\ main = "select"
    /\ WorkersFinished \/ ctxDone
    /\ main' = "freeze"
    /\ UNCHANGED <<callVars, ctxDone, dispVars, chanVars, workVars, stateVars,
                   summary>>

\* newCancelledResult: the error quotes the parent's ctx.Err() if it has one.
newCancelledResult(i) ==
    [id |-> i, severity |-> SeverityOf(i), state |-> "error",
     err |-> IF ctxDone THEN "parent context canceled"
                        ELSE "context canceled"]

Freeze(slots) ==
    /\ main = "freeze"
    /\ main' = "summarise"
    /\ frozen' = TRUE
    /\ results' = slots
    /\ completed' = [i \in Checks |-> TRUE]
    /\ UNCHANGED <<callVars, ctxDone, dispVars, chanVars, workVars, summary>>

\* Faulty: no backfill, and a backfill that ignores completed.
FreezeOnly == Freeze(results)
FreezeAndOverwrite == Freeze([i \in Checks |-> newCancelledResult(i)])

\* Under the mutex: freeze the slice and fill every slot still open.
FreezeAndBackfill ==
    Freeze([i \in Checks |-> IF completed[i] THEN results[i]
                              ELSE newCancelledResult(i)])

\* Summarise the slice, now without the mutex.
Summarise ==
    /\ main = "summarise"
    /\ main' = "log"
    /\ summary' = NewSummary(results)
    /\ UNCHANGED <<callVars, ctxDone, dispVars, chanVars, workVars, stateVars>>

\* Write the "runner completed" line and hand the Report to the caller.
LogRunnerCompleted ==
    /\ main = "log"
    /\ main' = "returned"
    /\ UNCHANGED <<callVars, ctxDone, dispVars, chanVars, workVars, stateVars,
                   summary>>

MainNext == RunNothing \/ StartRun \/ StopWaiting \/ FreezeAndBackfill
            \/ Summarise \/ LogRunnerCompleted

-----------------------------------------------------------------------------
(***************************************************************************)
(* The dispatcher.  Its select is over a free slot of the semaphore and    *)
(* the parent context; with both ready Go picks either, so a cancelled run *)
(* may still dispatch.                                                     *)
(***************************************************************************)

\* The loop body: the case of a free slot, wg.Add(1), go runOne.
SpawnWorker(i, token, count) ==
    /\ dpc = "loop"
    /\ sem' = sem + token
    /\ wg' = wg + count
    /\ worker' = [worker EXCEPT ![i] = "spawned"]
    /\ next' = next + 1
    /\ dpc' = IF next = total THEN "wait" ELSE "loop"
    /\ UNCHANGED <<mainVars, ctxDone, expired, out, stateVars>>

\* Faulty: no token is taken; the worker is not counted; last check first.
DispatchWithoutToken == SpawnWorker(next, 0, 1)
DispatchUncounted == sem < Concurrency /\ SpawnWorker(next, 1, 0)
DispatchBackwards == sem < Concurrency /\ SpawnWorker(total + 1 - next, 1, 1)

\* Take a token, count the worker in, start it: nobody else adds to sem or wg.
Dispatch == sem < Concurrency /\ SpawnWorker(next, 1, 1)

\* goto waitWorkers: the rest of the slice is left for the backfill.
StopDispatching ==
    /\ dpc = "loop"
    /\ ctxDone
    /\ dpc' = "wait"
    /\ UNCHANGED <<mainVars, ctxDone, next, chanVars, workVars, stateVars>>

\* Faulty: done is closed without wg.Wait().
CloseAtOnce ==
    /\ dpc = "wait"
    /\ dpc' = "closed"
    /\ UNCHANGED <<mainVars, ctxDone, next, chanVars, workVars, stateVars>>

\* wg.Wait() returns and done is closed.
CloseDone ==
    /\ dpc = "wait"
    /\ wg = 0
    /\ dpc' = "closed"
    /\ UNCHANGED <<mainVars, ctxDone, next, chanVars, workVars, stateVars>>

DispatcherNext == Dispatch \/ StopDispatching \/ CloseDone

-----------------------------------------------------------------------------
(***************************************************************************)
(* A worker: runOne and the executeCheck it calls.                         *)
(***************************************************************************)

\* A worker's own moves touch its position and its result, nothing shared.
Step(i, from, to) ==
    /\ worker[i] \in from
    /\ worker' = [worker EXCEPT ![i] = to]
    /\ UNCHANGED <<mainVars, ctxDone, dispVars>>

\* The check is over: its context no longer matters, runOne has its result.
Produce(i, res) ==
    /\ out' = [out EXCEPT ![i] = res]
    /\ expired' = [expired EXCEPT ![i] = FALSE]
    /\ UNCHANGED <<chanVars, stateVars>>

\* The goroutine is scheduled: arm the timeout and call Applicable.
StartCheck(i) ==
    /\ Step(i, {"spawned"}, "applicable")
    /\ UNCHANGED <<chanVars, expired, out, stateVars>>

ApplicableTrue(i) ==
    /\ Step(i, {"applicable"}, "run")
    /\ UNCHANGED <<chanVars, expired, out, stateVars>>

\* Applicable says no: a skip is recorded and Run is never called.
ApplicableFalse(i) ==
    /\ Step(i, {"applicable"}, "record")
    /\ Produce(i, [id |-> i, severity |-> SeverityOf(i), state |-> "skip",
                   err |-> Blank])

\* What executeCheck fills in of a Result whose check left fields zero.
FillIdentity(i, res) ==
    [id       |-> IF res.id = 0 THEN i ELSE res.id,
     severity |-> IF res.severity = Blank THEN SeverityOf(i) ELSE res.severity,
     state    |-> res.state,
     err      |-> res.err]

\* Run returns a Result of its own or a zero one; only an error carries Err.
RunReturns(i) ==
    /\ Step(i, {"run"}, "record")
    /\ \E st \in RunStates, id \in {0, i}, sev \in {Blank, SeverityOf(i)} :
          Produce(i, FillIdentity(i,
              [id |-> id, severity |-> sev, state |-> st,
               err |-> IF st = "error" THEN "from check" ELSE Blank]))

\* Faulty: a panic ends the worker past its release of the token.
PanicKeepsToken(i) ==
    /\ Step(i, Executing, "wgDone")
    /\ Produce(i, NoResult)

\* Applicable or Run panics and executeCheck's deferred recover catches it.
CheckPanics(i) ==
    /\ Step(i, Executing, "record")
    /\ Produce(i, [id |-> i, severity |-> SeverityOf(i), state |-> "error",
                   err |-> "panic"])

\* Applicable or Run ends its goroutine (runtime.Goexit): recover sees
\* nothing, and only the deferred calls of runOne still run.
CheckExits(i) ==
    /\ Step(i, Executing, "release")
    /\ Produce(i, NoResult)

\* The critical section of runOne.
WriteSlot(i, write) ==
    /\ IF write
       THEN /\ results' = [results EXCEPT ![i] = out[i]]
            /\ completed' = [completed EXCEPT ![i] = TRUE]
       ELSE UNCHANGED <<results, completed>>
    /\ UNCHANGED <<chanVars, expired, out, frozen>>

\* Faulty: the slot is written although frozen; a dropped result is logged.
RecordAlways(i) ==
    /\ Step(i, {"record"}, IF frozen THEN "release" ELSE "log")
    /\ WriteSlot(i, TRUE)
RecordAndLog(i) ==
    /\ Step(i, {"record"}, "log")
    /\ WriteSlot(i, ~frozen /\ ~completed[i])

\* Under the mutex: write the slot unless frozen or taken; look at frozen.
Record(i) ==
    /\ Step(i, {"record"}, IF frozen THEN "release" ELSE "log")
    /\ WriteSlot(i, ~frozen /\ ~completed[i])

\* The "check completed" line, after the mutex is released.
LogCheckCompleted(i) ==
    /\ Step(i, {"log"}, "release")
    /\ UNCHANGED <<chanVars, expired, out, stateVars>>

\* Faulty: the token is not given back.
KeepToken(i) ==
    /\ Step(i, {"release"}, "wgDone")
    /\ UNCHANGED <<chanVars, expired, out, stateVars>>

\* The deferred calls, in LIFO order: cancel, then the token, then wg.Done.
ReleaseToken(i) ==
    /\ Step(i, {"release"}, "wgDone")
    /\ sem' = sem - 1
    /\ UNCHANGED <<wg, expired, out, stateVars>>

\* Faulty: wg.Done is not called.
WorkerLeaves(i) ==
    /\ Step(i, {"wgDone"}, "gone")
    /\ UNCHANGED <<chanVars, expired, out, stateVars>>

WorkerDone(i) ==
    /\ Step(i, {"wgDone"}, "gone")
    /\ wg' = wg - 1
    /\ UNCHANGED <<sem, expired, out, stateVars>>

\* The moves that are the check's to make, and the ones that are runOne's.
CheckEnds(i) == \/ ApplicableTrue(i)
                \/ ApplicableFalse(i)
                \/ RunReturns(i)
                \/ CheckPanics(i)
                \/ CheckExits(i)

RunOneNext(i) == StartCheck(i) \/ Record(i) \/ LogCheckCompleted(i)
                 \/ ReleaseToken(i) \/ WorkerDone(i)

-----------------------------------------------------------------------------
(***************************************************************************)
(* The environment: the caller cancels the parent context, at any time,    *)
(* and the timer of a per-check context fires.                             *)
(***************************************************************************)
CancelParent ==
    /\ ~ctxDone
    /\ ctxDone' = TRUE
    /\ UNCHANGED <<mainVars, dispVars, chanVars, workVars, stateVars>>

Expire(i) ==
    /\ worker[i] \in Executing
    /\ ~expired[i]
    /\ expired' = [expired EXCEPT ![i] = TRUE]
    /\ UNCHANGED <<mainVars, ctxDone, dispVars, chanVars, worker, out,
                   stateVars>>

\* Run has returned and none of its goroutines is left.
AllGone ==
    /\ main = "returned"
    /\ dpc \in {"none", "closed"}
    /\ WorkersAt(InWaitGroup) = {}

Next == \/ MainNext
        \/ DispatcherNext
        \/ \E i \in Checks : CheckEnds(i) \/ RunOneNext(i) \/ Expire(i)
        \/ CancelParent
        \/ AllGone /\ UNCHANGED vars

(***************************************************************************)
(* The Go scheduler runs every runnable goroutine; a timer fires; a check  *)
(* that honours its context returns once that is done.  Nothing obliges a  *)
(* check to return earlier, a stubborn one ever, or the caller to cancel.  *)
(***************************************************************************)
Fairness ==
    /\ WF_vars(MainNext)
    /\ WF_vars(DispatcherNext)
    /\ \A i \in 1..MaxChecks :
          /\ WF_vars(i \in Checks /\ RunOneNext(i))
          /\ WF_vars(i \in Checks /\ Expire(i))
          /\ WF_vars(/\ i \in Checks \ stubborn
                     /\ CheckCtxDone(i)
                     /\ CheckEnds(i))

Spec == Init /\ [][Next]_vars

FairSpec == Spec /\ Fairness

-----------------------------------------------------------------------------
(***************************************************************************)
(* Safety.                                                                 *)
(***************************************************************************)

\* The semaphore bounds the checks that run at once: no schedule of
\* dispatches, panics, exits and releases puts more of them in runOne.
BoundedConcurrency == Cardinality(WorkersAt(Started)) <= Concurrency

\* Input order: a check runs only when fewer than Concurrency of the checks
\* before it are still to finish.  With one token that is the sequential
\* Runner of the godoc: each check starts after its predecessor's release.
\* The last of the checks that run shows that BoundedConcurrency follows.
InputOrder ==
    \A j \in WorkersAt(Started) :
        Cardinality({i \in 1..(j - 1) : worker[i] \in HoldsToken \cup {"none"}})
            < Concurrency

\* The Report the caller gets has, at every position, a result of the check
\* at that position in a state that check or the Runner gave it.
CompleteReport ==
    main = "returned" =>
        \A i \in Checks : /\ results[i].id = i
                          /\ results[i].severity = SeverityOf(i)
                          /\ results[i].state \in RunStates \cup {"skip", "error"}

\* NewSummary reads the slice without the mutex, yet its tally is and stays
\* that of the Results it is returned with, whatever leaked workers do.
SummaryMatchesResults ==
    main \in {"log", "returned"} => summary = NewSummary(results)

\* A result says "context canceled" although no context was only if the
\* check ended its goroutine; a run that nobody cancels abandons no check.
AbandonedOnlyWhenCanceled ==
    \A i \in Checks :
        results[i].err = "context canceled" =>
            worker[i] \in Ended /\ out[i] = NoResult

\* Run leaves goroutines behind only after a cancellation: when it stops
\* waiting for any other reason, the dispatcher and the workers are gone.
NoLeakWithoutCancel ==
    main \notin {"start", "select"} /\ ~ctxDone =>
        dpc \in {"none", "closed"} /\ WorkersAt(InWaitGroup) = {}

\* A "check completed" line tells the state that is in the Report, so the
\* log and the Report never disagree about a check.
LogMatchesReport ==
    \A i \in Checks : worker[i] = "log" => completed[i] /\ results[i] = out[i]

(***************************************************************************)
(* Action properties.                                                      *)
(***************************************************************************)

\* A slot is written once: neither the backfill nor a worker that finishes
\* during or after it replaces a recorded result.
SettledOnce ==
    [][\A i \in Checks : completed[i] => /\ completed'[i]
                                         /\ results'[i] = results[i]]_vars

(***************************************************************************)
(* The inductive invariant behind them.                                    *)
(***************************************************************************)

\* Tokens and WaitGroup count exactly the workers that owe a release.
Accounting ==
    /\ sem = Cardinality(WorkersAt(HoldsToken))
    /\ wg = Cardinality(WorkersAt(InWaitGroup))

\* The dispatcher has reached the checks before next and no other, stops
\* short only of a cancelled slice, and closes done when nobody is left.
DispatchProgress ==
    /\ \A i \in Checks : worker[i] = "none" <=> i >= next
    /\ dpc = "none" => next = 1
    /\ dpc = "loop" => next <= total
    /\ dpc \in {"wait", "closed"} => next = total + 1 \/ ctxDone
    /\ dpc = "closed" => WorkersAt(InWaitGroup) = {}

\* Where main is, against the dispatcher, the freeze and the context.
MainProgress ==
    /\ dpc = "none" <=> main = "start" \/ total = 0
    /\ total = 0 => main \in {"start", "returned"}
    /\ main \notin {"start", "select"} /\ total > 0 => dpc = "closed" \/ ctxDone
    /\ frozen <=> total > 0 /\ main \in {"summarise", "log", "returned"}

\* What a worker has produced, by where it is.
ProducedOK(i) ==
    /\ worker[i] \in {"none", "spawned"} \cup Executing => out[i] = NoResult
    /\ worker[i] \in {"record", "log"} => out[i] # NoResult
    /\ out[i] # NoResult =>
          /\ out[i].id = i
          /\ out[i].severity = SeverityOf(i)
          /\ out[i].state \in RunStates \cup {"skip", "error"}
          /\ out[i].err \in {Blank, "from check", "panic"}

Produced == \A i \in Checks : ProducedOK(i)

\* Who has written a slot: nobody, its worker, or the backfill.
BackfilledSlot(i) ==
    /\ results[i] = [id |-> i, severity |-> SeverityOf(i), state |-> "error",
                     err |-> results[i].err]
    /\ \/ results[i].err = "parent context canceled" /\ ctxDone
       \/ /\ results[i].err = "context canceled"
          /\ worker[i] \in Ended
          /\ out[i] = NoResult

OwnSlot(i) == results[i] = out[i] /\ out[i] # NoResult

SlotOK(i) ==
    /\ ~completed[i] => ~frozen /\ results[i] = NoResult
    /\ completed[i] => OwnSlot(i) \/ (frozen /\ BackfilledSlot(i))
    /\ worker[i] = "log" => completed[i] /\ OwnSlot(i)
    /\ ~frozen /\ worker[i] \in Ended => completed[i] \/ out[i] = NoResult
    /\ ~frozen /\ completed[i] => worker[i] \in Ended \cup {"log"}

Slots == \A i \in Checks : SlotOK(i)

IInv ==
    /\ TypeOK
    /\ Accounting
    /\ DispatchProgress
    /\ MainProgress
    /\ Produced
    /\ Slots
    /\ SummaryMatchesResults

(***************************************************************************)
(* Liveness, of FairSpec.                                                  *)
(***************************************************************************)

\* Once the parent context is cancelled Run returns, even if no check does.
CancelReturns == ctxDone ~> main = "returned"

\* With checks that honour their context, Run returns without a cancel and
\* the dispatcher and every worker end as well.
EveryGoroutineEnds == stubborn = {} ~> AllGone

\* Stubborn checks that leave a token free keep no other check from being
\* settled: panics, exits and skips all give their token back.
SiblingsSettled ==
    \A i \in 1..MaxChecks :
        (i \in Checks \ stubborn /\ Cardinality(stubborn) < Concurrency)
            ~> (i \in Checks /\ (completed[i] \/ worker[i] = "gone"))

(***************************************************************************)
(* Run keeps its promise.                                                  *)
(***************************************************************************)
Lost == {i \in Checks : worker[i] \in Ended /\ out[i] = NoResult}

Phase == CASE main \in {"log", "returned"} -> "published"
           [] main = "summarise"           -> "sealed"
           [] OTHER                        -> "open"

Report == INSTANCE RunReport
              WITH cancelled <- ctxDone, lost <- Lost, slots <- results,
                   phase <- Phase

\* Goroutines, tokens and the mutex implement the sealed slice of RunReport:
\* every step of Run settles, loses, cancels, seals, publishes or stutters.
ImplementsRunReport == Report!Spec

(***************************************************************************)
(* What a comment of the code says and the code does not do.               *)
(***************************************************************************)

\* "If the parent ctx cancels before we've dispatched every check, stop
\* dispatching" (the dispatcher's comment in Run).
NoDispatchAfterCancel == [][ctxDone => next' = next]_vars
=============================================================================
