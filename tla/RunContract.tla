---------------------------- MODULE RunContract ----------------------------
(***************************************************************************)
(* The promise of exec.Runner: a child, its output and its context live on *)
(* their own, and one step answers the call with what has then become of   *)
(* them.  No goroutine, pipe or buffer appears here; ExecRunner, which has *)
(* them all, implements it.                                                *)
(***************************************************************************)
EXTENDS RunAnswers

CONSTANTS MaxOutput, MaxWritten

VARIABLES
    ctxErr,  \* Err() of the context of the call
    proc,    \* the child: none, running, or one of Ends
    written, \* bytes it and its descendants wrote to each stream
    answer   \* what Run returned, or Pending

vars == <<ctxErr, proc, written, answer>>

Streams == {"stdout", "stderr"}
Pending == [errs |-> {"pending"}, exitCode |-> -1,
            kept |-> [s \in Streams |-> 0], truncated |-> [s \in Streams |-> FALSE]]

Init ==
    /\ ctxErr = "none"
    /\ proc = "none"
    /\ written = [s \in Streams |-> 0]
    /\ answer = Pending

ContextEnds ==
    /\ ctxErr = "none"
    /\ ctxErr' \in {"deadline", "canceled"}
    /\ UNCHANGED <<proc, written, answer>>

\* No child is started for a context that is done, and none after the call.
ChildStarts ==
    /\ proc = "none" /\ ctxErr = "none"
    /\ answer = Pending
    /\ proc' = "running"
    /\ UNCHANGED <<ctxErr, written, answer>>

ChildEnds ==
    /\ proc = "running"
    /\ proc' \in Ends
    /\ UNCHANGED <<ctxErr, written, answer>>

\* A descendant may write after the child has ended, never after the call.
Output ==
    /\ proc # "none"
    /\ answer = Pending
    /\ \E s \in Streams : \E n \in (written[s] + 1)..MaxWritten :
          written' = [written EXCEPT ![s] = n]
    /\ UNCHANGED <<ctxErr, proc, answer>>

Over(s) == written[s] > MaxOutput

Answer ==
    /\ answer = Pending
    /\ proc # "running"
    /\ \E errs \in IF proc = "none" THEN NoChildErrs(ctxErr)
                   ELSE ChildErrs(proc, ctxErr, \E s \in Streams : Over(s)) :
          answer' = [errs |-> errs,
                     exitCode |-> ExitCodeOf(proc),
                     kept |-> [s \in Streams |-> IF Over(s) THEN MaxOutput ELSE written[s]],
                     truncated |-> [s \in Streams |-> Over(s)]]
    /\ UNCHANGED <<ctxErr, proc, written>>

Next == ContextEnds \/ ChildStarts \/ ChildEnds \/ Output \/ Answer

Spec == Init /\ [][Next]_vars
=============================================================================
