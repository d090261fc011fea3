----------------------------- MODULE RunReport -----------------------------
(***************************************************************************)
(* What Runner.Run promises its caller, without goroutines: a slot per     *)
(* check that is settled at most once, by its check or - when the run is   *)
(* sealed - by the Runner; sealing early needs a cancelled parent context; *)
(* the summary published is the tally of the sealed slots.                 *)
(***************************************************************************)
EXTENDS ReportSummary

CONSTANTS MaxChecks, Required, RunStates

VARIABLES
    total,     \* number of checks in the run
    cancelled, \* the caller has cancelled the run
    lost,      \* checks whose goroutine ended without a result
    slots,     \* the Results of the Report
    phase,     \* "open" while slots may be settled, "sealed", "published"
    summary    \* the Summary of the Report

vars == <<total, cancelled, lost, slots, phase, summary>>

Checks == 1..total

Empty == [id |-> 0, severity |-> Blank, state |-> Blank, err |-> Blank]

SeverityOf(i) == IF i \in Required THEN "required" ELSE "advisory"

\* What check i may report of itself, a skip and a panic included.
OwnResults(i) ==
    [id : {i}, severity : {SeverityOf(i)},
     state : RunStates \cup {"skip", "error"},
     err : {Blank, "from check", "panic"}]

\* What the Runner reports of a check it abandons.
Abandoned(i) ==
    [id |-> i, severity |-> SeverityOf(i), state |-> "error",
     err |-> IF cancelled THEN "parent context canceled"
                          ELSE "context canceled"]

Init ==
    /\ total \in 0..MaxChecks
    /\ cancelled = FALSE
    /\ lost = {}
    /\ slots = [i \in Checks |-> Empty]
    /\ phase = "open"
    /\ summary = NoSummary

\* A check reports: it is not lost, and its slot is open.
Settle(i) ==
    /\ phase = "open"
    /\ slots[i] = Empty
    /\ i \notin lost
    /\ \E res \in OwnResults(i) : slots' = [slots EXCEPT ![i] = res]
    /\ UNCHANGED <<total, cancelled, lost, phase, summary>>

\* A check ends its goroutine without reporting.
Lose(i) ==
    /\ i \notin lost
    /\ slots[i] \notin OwnResults(i)
    /\ lost' = lost \cup {i}
    /\ UNCHANGED <<total, cancelled, slots, phase, summary>>

Cancel ==
    /\ ~cancelled
    /\ cancelled' = TRUE
    /\ UNCHANGED <<total, lost, slots, phase, summary>>

\* Faulty: the Runner waits for every check, cancelled or not.
SealSettled ==
    /\ phase = "open"
    /\ total > 0
    /\ \A i \in Checks : slots[i] # Empty \/ i \in lost
    /\ phase' = "sealed"
    /\ slots' = [i \in Checks |-> IF slots[i] = Empty THEN Abandoned(i)
                                  ELSE slots[i]]
    /\ UNCHANGED <<total, cancelled, lost, summary>>

\* Close the slots.  Only a cancelled run abandons a check that may yet report.
Seal ==
    /\ phase = "open"
    /\ total > 0
    /\ cancelled \/ \A i \in Checks : slots[i] # Empty \/ i \in lost
    /\ phase' = "sealed"
    /\ slots' = [i \in Checks |-> IF slots[i] = Empty THEN Abandoned(i)
                                  ELSE slots[i]]
    /\ UNCHANGED <<total, cancelled, lost, summary>>

\* An empty run has nothing to seal.
Publish ==
    /\ phase = "sealed" \/ (phase = "open" /\ total = 0)
    /\ phase' = "published"
    /\ summary' = NewSummary(slots)
    /\ UNCHANGED <<total, cancelled, lost, slots>>

Next == Cancel \/ Seal \/ Publish \/ \E i \in Checks : Settle(i) \/ Lose(i)

Spec == Init /\ [][Next]_vars
=============================================================================
