----------------------------- MODULE ExecRunner -----------------------------
(***************************************************************************)
(* internal/exec: one call of osRunner.Run.  The goroutines are the caller *)
(* in runProcess (pc), os/exec's watcher of the context and its two        *)
(* copiers, which feed a cappedBuffer each; beside them run the child, a   *)
(* descendant it may leave behind holding the pipes, the timer and the     *)
(* parent context.  A stream is the number of its bytes: buffers only ever *)
(* hold a prefix.                                                          *)
(***************************************************************************)
EXTENDS Integers

CONSTANTS
    MaxOutput,  \* bytes a cappedBuffer keeps
    MaxWritten, \* bound on the bytes a stream carries
    MayFork     \* the child may leave a descendant behind

ASSUME MaxOutputAssumption == MaxOutput \in Nat \ {0}
ASSUME MaxWrittenAssumption == MaxWritten \in Nat

Streams == {"stdout", "stderr"}

VARIABLES
    pc,        \* where Run or runProcess is
    ctxErr,    \* Err() of the context with the timeout
    proc,      \* the child
    desc,      \* a descendant of the child
    watch,     \* os/exec's goroutine that waits for the context
    written,   \* bytes written to each stream
    copied,    \* bytes the copier has taken from the pipe
    kept,      \* len(cappedBuffer.bytes)
    truncated, \* cappedBuffer.truncated
    runErr,    \* the error of c.Run
    exitCode,  \* Result.ExitCode
    errs       \* the sentinels the returned error matches

ctlVars == <<ctxErr, watch>>
ioVars == <<written, copied, kept, truncated>>
resVars == <<runErr, exitCode, errs>>
vars == <<pc, ctlVars, proc, desc, ioVars, resVars>>

\* How a child can end.
Ended == {"exit 0", "exit 1", "killed"}

Sentinels == {"denied", "not found", "invalid arg", "start", "exit", "context",
              "timeout", "truncated"}

TypeOK ==
    /\ pc \in {"resolve", "validate", "start", "wait", "watcher", "copiers",
               "classify", "returned"}
    /\ ctxErr \in {"none", "deadline", "canceled"}
    /\ proc \in {"none", "running"} \cup Ended
    /\ desc \in {"none", "alive", "gone"}
    /\ watch \in {"none", "watching", "fired", "late", "stopped"}
    /\ written \in [Streams -> 0..MaxWritten]
    /\ copied \in [Streams -> 0..MaxWritten]
    /\ kept \in [Streams -> 0..MaxOutput]
    /\ truncated \in [Streams -> BOOLEAN]
    /\ runErr \in {"none", "start", "exit", "context"}
    /\ exitCode \in {-1, 0, 1}
    /\ errs \subseteq Sentinels

Init ==
    /\ pc = "resolve"
    /\ ctxErr = "none"
    /\ proc = "none" /\ desc = "none" /\ watch = "none"
    /\ written = [s \in Streams |-> 0]
    /\ copied = [s \in Streams |-> 0]
    /\ kept = [s \in Streams |-> 0]
    /\ truncated = [s \in Streams |-> FALSE]
    /\ runErr = "none" /\ exitCode = -1 /\ errs = {}

-----------------------------------------------------------------------------
(***************************************************************************)
(* The caller.                                                             *)
(***************************************************************************)
Fail(err) == pc' = "returned" /\ errs' = {err} /\ UNCHANGED <<runErr, exitCode>>

\* ResolveCommand: not on the allowlist, or neither at its preferred path
\* nor on $PATH, or found.
Resolve ==
    /\ pc = "resolve"
    /\ \/ Fail("denied") \/ Fail("not found")
       \/ pc' = "validate" /\ UNCHANGED resVars
    /\ UNCHANGED <<ctlVars, proc, desc, ioVars>>

\* validateAll: the first bad Untrusted argument ends the call.
Validate ==
    /\ pc = "validate"
    /\ \/ Fail("invalid arg")
       \/ pc' = "start" /\ UNCHANGED resVars
    /\ UNCHANGED <<ctlVars, proc, desc, ioVars>>

\* c.Start with a context that is already done, or one that fails to fork.
StartFails ==
    /\ pc = "start"
    /\ pc' = "classify"
    /\ runErr' = IF ctxErr = "none" THEN "start" ELSE "context"
    /\ UNCHANGED <<ctlVars, proc, desc, ioVars, exitCode, errs>>

Start ==
    /\ pc = "start"
    /\ ctxErr = "none"
    /\ pc' = "wait"
    /\ proc' = "running"
    /\ watch' = "watching"
    /\ UNCHANGED <<ctxErr, desc, ioVars, resVars>>

\* ProcessState.ExitCode(), -1 for a child that a signal ended.
ExitCode == CASE proc = "exit 0" -> 0
              [] proc = "exit 1" -> 1
              [] OTHER -> -1

\* c.Wait: the child is reaped, and its status is the first source of err.
Reap ==
    /\ pc = "wait"
    /\ proc \in Ended
    /\ pc' = "watcher"
    /\ exitCode' = ExitCode
    /\ runErr' = IF proc = "exit 0" THEN "none" ELSE "exit"
    /\ UNCHANGED <<ctlVars, proc, desc, ioVars, errs>>

\* ... then the watcher, which is told to stop or has fired.
JoinWatcher ==
    /\ pc = "watcher"
    /\ watch \in {"watching", "fired", "late"}
    /\ pc' = "copiers"
    /\ watch' = IF watch = "watching" THEN "stopped" ELSE watch
    /\ runErr' = IF runErr = "none" /\ watch = "fired" THEN "context" ELSE runErr
    /\ UNCHANGED <<ctxErr, proc, desc, ioVars, exitCode, errs>>

\* Nobody has the write end of the pipes open.
PipesClosed == proc \notin {"running"} /\ desc # "alive"

\* ... and the copiers last, which read to the end of their pipes: WaitDelay
\* is not set, so this wait has no bound of its own.
JoinCopiers ==
    /\ pc = "copiers"
    /\ PipesClosed
    /\ copied = written
    /\ pc' = "classify"
    /\ UNCHANGED <<ctlVars, proc, desc, ioVars, resVars>>

AnyTruncated == \E s \in Streams : truncated[s]

\* Faulty: an error of c.Run is returned by itself, without errors.Join.
ExitHidesTruncation ==
    IF ctxErr = "deadline" THEN {"timeout"}
    ELSE IF runErr # "none" THEN {runErr}
    ELSE IF AnyTruncated THEN {"truncated"} ELSE {}

\* The priorities of runProcess: the deadline hides everything else, and
\* truncation is joined to an error of c.Run.
Classification ==
    IF ctxErr = "deadline" THEN {"timeout"}
    ELSE ({runErr} \ {"none"}) \cup (IF AnyTruncated THEN {"truncated"} ELSE {})

Classify ==
    /\ pc = "classify"
    /\ pc' = "returned"
    /\ errs' = Classification
    /\ UNCHANGED <<ctlVars, proc, desc, ioVars, runErr, exitCode>>

Caller == Resolve \/ Validate \/ StartFails \/ Start \/ Reap \/ JoinWatcher
          \/ JoinCopiers \/ Classify

-----------------------------------------------------------------------------
(***************************************************************************)
(* os/exec's goroutines.                                                   *)
(***************************************************************************)

\* Faulty: the child is asked to stop and does not have to.
WatchOnly ==
    /\ watch = "watching"
    /\ ctxErr # "none"
    /\ watch' = IF pc = "wait" THEN "fired" ELSE "late"
    /\ UNCHANGED <<pc, ctxErr, proc, desc, ioVars, resVars>>

\* The context is done: kill the child.  One that has ended but is not yet
\* reaped takes the signal as well; after that there is nothing to kill.
Watch ==
    /\ watch = "watching"
    /\ ctxErr # "none"
    /\ watch' = IF pc = "wait" THEN "fired" ELSE "late"
    /\ proc' = IF proc = "running" THEN "killed" ELSE proc
    /\ UNCHANGED <<pc, ctxErr, desc, ioVars, resVars>>

\* Faulty: everything is kept.
WriteUncapped(s, k) ==
    /\ kept' = [kept EXCEPT ![s] = @ + k]
    /\ truncated' = [truncated EXCEPT ![s] = @ \/ kept[s] + k > MaxOutput]

\* cappedBuffer.Write of a chunk of k bytes.
Write(s, k) ==
    LET room == MaxOutput - kept[s]
    IN  /\ kept' = [kept EXCEPT ![s] = IF truncated[s] THEN @
                                       ELSE IF k > room THEN MaxOutput
                                       ELSE @ + k]
        /\ truncated' = [truncated EXCEPT ![s] = @ \/ k > room]

\* A copier moves what the pipe has, in chunks of any size.
Copy(s) ==
    \E k \in 1..(written[s] - copied[s]) :
        /\ copied' = [copied EXCEPT ![s] = @ + k]
        /\ Write(s, k)
        /\ UNCHANGED <<pc, ctlVars, proc, desc, written, resVars>>

-----------------------------------------------------------------------------
(***************************************************************************)
(* The environment: the child and its descendant, the timer (ours or that  *)
(* of the check, whose context is the parent), and a cancelled parent.     *)
(***************************************************************************)
ChildWrites(s) ==
    /\ ~PipesClosed
    /\ proc # "none"
    /\ \E n \in (written[s] + 1)..MaxWritten :
          written' = [written EXCEPT ![s] = n]
    /\ UNCHANGED <<pc, ctlVars, proc, desc, copied, kept, truncated, resVars>>

ChildForks ==
    /\ MayFork
    /\ proc = "running"
    /\ desc = "none"
    /\ desc' = "alive"
    /\ UNCHANGED <<pc, ctlVars, proc, ioVars, resVars>>

ChildExits ==
    /\ proc = "running"
    /\ proc' \in Ended
    /\ UNCHANGED <<pc, ctlVars, desc, ioVars, resVars>>

DescendantExits ==
    /\ desc = "alive"
    /\ desc' = "gone"
    /\ UNCHANGED <<pc, ctlVars, proc, ioVars, resVars>>

ContextEnds(err) ==
    /\ ctxErr = "none"
    /\ ctxErr' = err
    /\ UNCHANGED <<pc, watch, proc, desc, ioVars, resVars>>

\* WithTimeout arms the timer when runProcess begins.
TimerFires == pc \notin {"resolve", "validate"} /\ ContextEnds("deadline")
ParentCanceled == ContextEnds("canceled")
ParentExpires == ContextEnds("deadline")

Next == \/ Caller
        \/ Watch
        \/ \E s \in Streams : Copy(s) \/ ChildWrites(s)
        \/ ChildForks \/ ChildExits \/ DescendantExits
        \/ TimerFires \/ ParentCanceled \/ ParentExpires
        \/ pc = "returned" /\ UNCHANGED vars

Spec == Init /\ [][Next]_vars

\* Goroutines run and the timer fires; no child need ever exit by itself.
FairSpec ==
    /\ Spec
    /\ WF_vars(Caller)
    /\ WF_vars(Watch)
    /\ WF_vars(TimerFires)
    /\ \A s \in Streams : WF_vars(Copy(s))

-----------------------------------------------------------------------------
(***************************************************************************)
(* Safety.                                                                 *)
(***************************************************************************)

\* What the caller of Run has been told.
Outcome ==
    IF pc = "returned"
    THEN [errs |-> errs, exitCode |-> exitCode, kept |-> kept, truncated |-> truncated]
    ELSE [errs |-> {"pending"}, exitCode |-> -1,
          kept |-> [s \in Streams |-> 0], truncated |-> [s \in Streams |-> FALSE]]

Contract == INSTANCE RunContract WITH answer <- Outcome

\* However the exit, the timer, the watcher and the copiers interleave, Run
\* answers as promised: no error only for a child that ended well and whose
\* output is whole, never for one that was killed; truncation for a byte over
\* the cap and not for a stream that just fills it; the deadline alone, even
\* next to truncation; and nothing of the child goes on after the answer.
ImplementsContract == Contract!Spec

(***************************************************************************)
(* The inductive invariant that ImplementsContract rests on.               *)
(***************************************************************************)

\* A buffer is the prefix of what its copier has taken, and knows if it is a
\* proper one.
Buffered ==
    \A s \in Streams :
        /\ copied[s] <= written[s]
        /\ kept[s] = (IF copied[s] > MaxOutput THEN MaxOutput ELSE copied[s])
        /\ truncated[s] <=> copied[s] > MaxOutput

\* Without a child there is nothing to read, wait for or kill.
Childless ==
    proc = "none" =>
        /\ pc \in {"resolve", "validate", "start", "classify", "returned"}
        /\ desc = "none" /\ watch = "none" /\ exitCode = -1
        /\ \A s \in Streams : written[s] = 0
        /\ pc \in {"resolve", "validate", "start"} => runErr = "none"
        /\ pc = "classify" => runErr = "start" \/ (runErr = "context" /\ ctxErr # "none")

\* With one, the error of c.Run and the exit status are the child's from Reap
\* on, and the context's only if the watcher has fired.
Reaped ==
    proc # "none" =>
        /\ pc \notin {"resolve", "validate", "start"}
        /\ pc = "wait" => runErr = "none"
        /\ pc # "wait" =>
              /\ proc \in Ended
              /\ exitCode = ExitCode
              /\ proc # "exit 0" => runErr = "exit"
              /\ proc = "exit 0" => runErr = "none" \/ (runErr = "context" /\ ctxErr # "none")

\* c.Run has returned: the pipes are closed and read to their end.
Drained == pc \in {"classify", "returned"} => PipesClosed /\ copied = written

\* At every step of a Run the buffers, the child's error and status, and the
\* point c.Run has reached agree; only a done context makes the watcher fire.
IInv == /\ TypeOK
        /\ Buffered
        /\ Childless
        /\ Reaped
        /\ watch = "fired" => ctxErr # "none"
        /\ Drained

(***************************************************************************)
(* Liveness, of FairSpec.                                                  *)
(***************************************************************************)

\* Run returns, even from a child that hangs, unless a descendant keeps the
\* pipes open for good.
ReturnsUnlessPipesHeld == <>[](desc # "alive") => <>(pc = "returned")

(***************************************************************************)
(* What a comment of the code says and the code does not do.               *)
(***************************************************************************)

\* DefaultTimeout is "short enough that a hung subprocess does not block the
\* validator indefinitely" (cmd.go).
TimeoutBoundsRun == ctxErr = "deadline" ~> pc = "returned"
=============================================================================
