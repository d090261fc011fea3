--------------------------- MODULE ReportSummary ---------------------------
(***************************************************************************)
(* The value types of package report and the two pure functions computed   *)
(* from a finished result slice: report.NewSummary and the CLI's           *)
(* computeExit.  A Result keeps the fields some decision depends on: whose *)
(* result it is, its severity, its state, and which class of message Err   *)
(* carries.  Title, Detail, Evidence and the timestamps are left out.      *)
(***************************************************************************)
EXTENDS Naturals, Sequences, FiniteSets

\* The Go zero string, which a careless check may leave in any field.
Blank == ""

States == {"pass", "fail", "skip", "error"}

Severities == {"required", "advisory"}

(***************************************************************************)
(* The message classes of Result.Err: written by the check itself, by the  *)
(* panic recovery of executeCheck, or by newCancelledResult with and       *)
(* without a parent context error to quote.                                *)
(***************************************************************************)
Errs == {Blank, "from check", "panic", "parent context canceled",
         "context canceled"}

Result(Ids) == [id : Ids, severity : Severities \cup {Blank},
                state : States \cup {Blank}, err : Errs]

\* The slots of one state, and those among them of severity required.
InState(results, st) == {i \in DOMAIN results : results[i].state = st}

RequiredIn(results, st) ==
    {i \in InState(results, st) : results[i].severity = "required"}

(***************************************************************************)
(* NewSummary tallies every result by state and the required ones by pass, *)
(* fail and error.  A required skip, and a state that is none of the four, *)
(* falls through the switch and is counted in no bucket of its own.        *)
(***************************************************************************)
NewSummary(results) ==
    [total    |-> Len(results),
     pass     |-> Cardinality(InState(results, "pass")),
     fail     |-> Cardinality(InState(results, "fail")),
     skip     |-> Cardinality(InState(results, "skip")),
     error    |-> Cardinality(InState(results, "error")),
     required |-> [pass  |-> Cardinality(RequiredIn(results, "pass")),
                   fail  |-> Cardinality(RequiredIn(results, "fail")),
                   error |-> Cardinality(RequiredIn(results, "error"))]]

Summary == [total : Nat, pass : Nat, fail : Nat, skip : Nat, error : Nat,
            required : [pass : Nat, fail : Nat, error : Nat]]

\* The zero Summary a Report carries until NewSummary is stored in it.
NoSummary == NewSummary(<<>>)

\* The exit codes of cmd/copyfail-validate/exit.go.
exitOK == 0
exitMitigationGap == 2
exitToolError == 3
exitCheckError == 4
exitUsage == 64
exitInterrupted == 130
exitTerminated == 143

ExitCodes == {exitOK, exitMitigationGap, exitToolError, exitCheckError,
              exitUsage, exitInterrupted, exitTerminated}

\* Faulty: an indeterminate error outranks a definite gap.
computeExitErrorFirst(summary) ==
    IF summary.required.error > 0 THEN exitCheckError
    ELSE IF summary.required.fail > 0 THEN exitMitigationGap
    ELSE exitOK

\* computeExit: a definite gap outranks an indeterminate error.
computeExit(summary) ==
    IF summary.required.fail > 0 THEN exitMitigationGap
    ELSE IF summary.required.error > 0 THEN exitCheckError
    ELSE exitOK
============================================================================
