----------------------------- MODULE Renderers -----------------------------
(***************************************************************************)
(* internal/render: what the four documents say of a report.  Texts, order *)
(* of fields and colours are left out, and so is everything a document     *)
(* repeats of the tool and the host.                                       *)
(***************************************************************************)
EXTENDS ReportSummary, SequencesExt

\* report.State.SARIFKind: an unknown state is open.
SARIFKind(st) == CASE st = "pass" -> "pass"
                   [] st = "fail" -> "fail"
                   [] st = "skip" -> "notApplicable"
                   [] OTHER -> "open"

sarifLevel(r) == IF r.state # "fail" THEN "none"
                 ELSE IF r.severity = "required" THEN "error" ELSE "warning"

statusLabel(st) == CASE st = "pass" -> "OK"
                     [] st = "fail" -> "FAIL"
                     [] st = "skip" -> "SKIP"
                     [] st = "error" -> "ERROR"
                     [] OTHER -> "?"

NoRequiredTrouble(summary) == summary.required.fail = 0 /\ summary.required.error = 0

RenderHuman(results, summary) ==
    [rows |-> [i \in DOMAIN results |->
                  [check |-> results[i].id, severity |-> results[i].severity,
                   label |-> statusLabel(results[i].state)]],
     verdict |-> IF NoRequiredTrouble(summary) THEN "PASS" ELSE "FAIL",
     tally |-> summary]

RenderJSON(results, summary) == [results |-> results, summary |-> summary]

executionSuccessful(summary) == NoRequiredTrouble(summary)

\* A rule for each check; a result for each result.
RenderSARIF(results, summary) ==
    [rules |-> {results[i].id : i \in DOMAIN results},
     results |-> [i \in DOMAIN results |->
                     [ruleId |-> results[i].id, kind |-> SARIFKind(results[i].state),
                      level |-> sarifLevel(results[i])]],
     executionSuccessful |-> executionSuccessful(summary)]

\* Faulty: only the state a check is in has a row, and a skip is no state.
StateRowsOfPresent(r) ==
    [st \in States \ {"skip"} |-> IF r.state = st THEN 1 ELSE 0]

\* One row for each state, 1 for the check's own.
StateRows(r) == [st \in States |-> IF r.state = st THEN 1 ELSE 0]

sortedByCheckID(results) ==
    LET order == CHOOSE p \in Bijection(DOMAIN results, DOMAIN results) :
                    \A i, j \in DOMAIN results : i < j => results[p[i]].id <= results[p[j]].id
    IN  [i \in DOMAIN results |-> results[order[i]]]

RenderPrometheus(results, summary) ==
    LET sorted == sortedByCheckID(results)
    IN  [check_state |-> [i \in DOMAIN sorted |->
                             [check |-> sorted[i].id, severity |-> sorted[i].severity,
                              rows |-> StateRows(sorted[i])]],
         summary |-> [outcome \in States |-> summary[outcome]],
         required_failures |-> summary.required.fail]

(***************************************************************************)
(* What a reader of each document takes from it.                           *)
(***************************************************************************)

\* The states a document gives for check id.
StatesTold(format, results, summary, id) ==
    CASE format = "human" ->
            LET doc == RenderHuman(results, summary)
            IN  {st \in States : \E i \in DOMAIN doc.rows :
                    doc.rows[i].check = id /\ doc.rows[i].label = statusLabel(st)}
      [] format = "json" ->
            {r.state : r \in {s \in ToSet(RenderJSON(results, summary).results) : s.id = id}}
      [] format = "sarif" ->
            LET doc == RenderSARIF(results, summary)
            IN  {st \in States : \E i \in DOMAIN doc.results :
                    doc.results[i].ruleId = id /\ doc.results[i].kind = SARIFKind(st)}
      [] format = "prometheus" ->
            LET doc == RenderPrometheus(results, summary)
            IN  {st \in States : \E i \in DOMAIN doc.check_state :
                    /\ doc.check_state[i].check = id
                    /\ st \in DOMAIN doc.check_state[i].rows
                    /\ doc.check_state[i].rows[st] = 1}

\* Whether a document speaks of a required check that failed, and of one
\* that failed or errored ("unknown" where it does not say).
GapTold(format, results, summary) ==
    CASE format = "human" -> RenderHuman(results, summary).tally.required.fail > 0
      [] format = "json" -> RenderJSON(results, summary).summary.required.fail > 0
      [] format = "sarif" -> \E r \in ToSet(RenderSARIF(results, summary).results) : r.level = "error"
      [] format = "prometheus" -> RenderPrometheus(results, summary).required_failures > 0

TroubleTold(format, results, summary) ==
    CASE format = "human" -> RenderHuman(results, summary).verdict = "FAIL"
      [] format = "json" ->
            LET req == RenderJSON(results, summary).summary.required
            IN  req.fail + req.error > 0
      [] format = "sarif" -> ~RenderSARIF(results, summary).executionSuccessful
      [] format = "prometheus" ->
            LET rows == RenderPrometheus(results, summary).check_state
            IN  \E i \in DOMAIN rows : rows[i].severity = "required"
                    /\ rows[i].rows["fail"] + rows[i].rows["error"] > 0
=============================================================================
