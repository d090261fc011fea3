-------------------------- MODULE ValidateCliProofs --------------------------
(***************************************************************************)
(* What the exit code, the document and the output file say of a run: the  *)
(* inductive invariant of ValidateCli and what follows from it.  The       *)
(* Runner is its promise, RunReport, whose slots the invariant follows.    *)
(***************************************************************************)
EXTENDS ValidateCli, ParserProofs, FiniteSetTheorems

USE CheckNamesAssumption, CheckStatesAssumption

-----------------------------------------------------------------------------
(***************************************************************************)
(* Values.                                                                 *)
(***************************************************************************)

\* RunReport reads the definitions of ReportSummary as ValidateCli does.
LEMMA SameValues ==
    /\ Run!Empty = [id |-> 0, severity |-> "", state |-> "", err |-> ""]
    /\ \A r : Run!NewSummary(r) = NewSummary(r)
<1>1. \A r, st : Run!InState(r, st) = InState(r, st)
  BY DEF Run!InState, InState
<1>2. \A r, st : Run!RequiredIn(r, st) = RequiredIn(r, st)
  BY <1>1 DEF Run!RequiredIn, RequiredIn
<1>3. \A S : Run!Cardinality(S) = Cardinality(S)
  BY Zenon DEF Run!Cardinality, Cardinality
<1>4. \A r : Run!NewSummary(r) = NewSummary(r)
  BY <1>1, <1>2, <1>3, Zenon DEF Run!NewSummary, NewSummary
<1>5. QED
  BY <1>4 DEF Run!Empty, Run!Blank

\* The results of a run whose checks are all required and have all a state.
Settled(results, n) ==
    /\ n \in Nat
    /\ DOMAIN results = 1..n
    /\ \A i \in 1..n : results[i] \in ResultsOf(i)

Has(results, st) == \E i \in DOMAIN results : results[i].state = st

\* A count is positive when there is something to count.
LEMMA CountPositive ==
    ASSUME NEW n \in Nat, NEW S \in SUBSET (1..n)
    PROVE  /\ Cardinality(S) \in Nat
           /\ Cardinality(S) > 0 <=> S # {}
<1>1. IsFiniteSet(1..n)
  BY FS_Interval
<1>2. IsFiniteSet(S)
  BY <1>1, FS_Subset
<1>3. QED
  BY <1>2, FS_CardinalityType, FS_EmptySet

\* The tally is of type Summary, for any results.
LEMMA SummaryTyped ==
    ASSUME NEW n \in Nat, NEW results \in [1..n -> Result(0..NumChecks)]
    PROVE  NewSummary(results) \in Summary
<1>1. \A st : InState(results, st) \in SUBSET (1..n) /\ RequiredIn(results, st) \in SUBSET (1..n)
  BY DEF InState, RequiredIn
<1>2. \A st : Cardinality(InState(results, st)) \in Nat /\ Cardinality(RequiredIn(results, st)) \in Nat
  BY <1>1, CountPositive
<1>3. Len(results) = n
  OBVIOUS
<1>4. QED
  BY <1>2, <1>3 DEF NewSummary, Summary

\* Of settled results, a required counter is positive when there is such a
\* result.
LEMMA CountersTell ==
    ASSUME NEW n, NEW results, Settled(results, n)
    PROVE  LET s == NewSummary(results)
           IN  /\ s.required.fail \in Nat /\ s.required.error \in Nat
               /\ s.required.fail > 0 <=> Has(results, "fail")
               /\ s.required.error > 0 <=> Has(results, "error")
<1>1. \A st : /\ RequiredIn(results, st) \in SUBSET (1..n)
              /\ RequiredIn(results, st) # {} <=> Has(results, st)
  BY DEF Settled, ResultsOf, RequiredIn, InState, Has
<1>2. \A st : /\ Cardinality(RequiredIn(results, st)) \in Nat
              /\ Cardinality(RequiredIn(results, st)) > 0 <=> Has(results, st)
  BY <1>1, CountPositive DEF Settled
<1>3. QED
  BY <1>2 DEF NewSummary

-----------------------------------------------------------------------------
(***************************************************************************)
(* The documents.                                                          *)
(***************************************************************************)

\* The label of a human row and the kind of a SARIF result tell the four
\* states apart.
LEMMA LabelsTell ==
    \A st1, st2 \in States : /\ statusLabel(st1) = statusLabel(st2) => st1 = st2
                             /\ SARIFKind(st1) = SARIFKind(st2) => st1 = st2
BY DEF States, statusLabel, SARIFKind

\* Sorting settled results by id loses and repeats none.
LEMMA SortedOK ==
    ASSUME NEW n, NEW results, Settled(results, n)
    PROVE  /\ DOMAIN sortedByCheckID(results) = 1..n
           /\ \A i \in 1..n : \E j \in 1..n : sortedByCheckID(results)[i] = results[j]
           /\ \A j \in 1..n : \E i \in 1..n : sortedByCheckID(results)[i] = results[j]
<1> DEFINE D == 1..n
           Sorts(p) == \A i, j \in D : i < j => results[p[i]].id <= results[p[j]].id
           order == CHOOSE p \in Bijection(D, D) : Sorts(p)
           id == [i \in D |-> i]
<1>1. id \in Bijection(D, D)
  BY DEF Bijection, Injection, Surjection, IsInjective
<1>2. Sorts(id)
  BY DEF Settled, ResultsOf
<1>3. order \in Bijection(D, D)
  BY <1>1, <1>2
<1>4. sortedByCheckID(results) = [i \in D |-> results[order[i]]]
  BY DEF sortedByCheckID, Settled
<1>5. order \in [D -> D] /\ \A j \in D : \E i \in D : order[i] = j
  BY <1>3 DEF Bijection, Injection, Surjection
<1> HIDE DEF order
<1>6. /\ DOMAIN sortedByCheckID(results) = D
      /\ \A i \in D : sortedByCheckID(results)[i] = results[order[i]]
  BY <1>4
<1>7. \A i \in D : order[i] \in D
  BY <1>5
<1>8. \A i \in D : \E j \in D : sortedByCheckID(results)[i] = results[j]
  BY <1>6, <1>7, Zenon
<1>9. \A j \in D : \E i \in D : sortedByCheckID(results)[i] = results[j]
  <2> TAKE j \in D
  <2>1. PICK i \in D : order[i] = j
    BY <1>5
  <2>2. sortedByCheckID(results)[i] = results[j]
    BY <2>1, <1>6
  <2>3. QED
    BY <2>2
<1>10. QED
  BY <1>6, <1>8, <1>9

\* Every document gives each check the state of its result, and no other.
LEMMA DocumentsTell ==
    ASSUME NEW n, NEW results, Settled(results, n), NEW s,
           NEW format \in Formats, NEW i \in 1..n
    PROVE  StatesTold(format, results, s, i) = {results[i].state}
<1> DEFINE st == results[i].state
<1>1. st \in States /\ \A j \in 1..n : results[j].state \in States /\ results[j].id = j
  BY DEF Settled, ResultsOf
<1>2. CASE format = "human"
  <2>1. StatesTold(format, results, s, i) =
          {x \in States : \E j \in 1..n : results[j].id = i /\ statusLabel(results[j].state) = statusLabel(x)}
    BY <1>2 DEF StatesTold, RenderHuman, Settled
  <2>2. QED
    BY <2>1, <1>1, LabelsTell
<1>3. CASE format = "json"
  <2>1. StatesTold(format, results, s, i) = {r.state : r \in {x \in ToSet(results) : x.id = i}}
    BY <1>3 DEF StatesTold, RenderJSON
  <2>2. {x \in ToSet(results) : x.id = i} = {results[i]}
    BY <1>1 DEF ToSet, Settled
  <2>3. QED
    BY <2>1, <2>2
<1>4. CASE format = "sarif"
  <2>1. StatesTold(format, results, s, i) =
          {x \in States : \E j \in 1..n : results[j].id = i /\ SARIFKind(results[j].state) = SARIFKind(x)}
    BY <1>4 DEF StatesTold, RenderSARIF, Settled
  <2>2. QED
    BY <2>1, <1>1, LabelsTell
<1>5. CASE format = "prometheus"
  <2> DEFINE sorted == sortedByCheckID(results)
         rows == [j \in 1..n |-> [check |-> sorted[j].id, severity |-> sorted[j].severity,
                                  rows |-> StateRows(sorted[j])]]
  <2>0. /\ DOMAIN sorted = 1..n
        /\ \A k \in 1..n : \E j \in 1..n : sorted[k] = results[j]
        /\ \A j \in 1..n : \E k \in 1..n : sorted[k] = results[j]
    BY SortedOK
  <2> HIDE DEF sorted
  <2>a. RenderPrometheus(results, s).check_state = rows
    BY <2>0 DEF RenderPrometheus, sorted
  <2>b. StatesTold(format, results, s, i) =
          {x \in States : \E j \in DOMAIN rows : /\ rows[j].check = i
                                                /\ x \in DOMAIN rows[j].rows
                                                /\ rows[j].rows[x] = 1}
    BY <1>5, <2>a DEF StatesTold
  <2>1. StatesTold(format, results, s, i) =
          {x \in States : \E j \in 1..n : /\ sorted[j].id = i
                                          /\ x \in DOMAIN StateRows(sorted[j])
                                          /\ StateRows(sorted[j])[x] = 1}
    BY <2>b
  <2>2. \A r : \A x \in States : x \in DOMAIN StateRows(r) /\ (StateRows(r)[x] = 1 <=> r.state = x)
    BY DEF StateRows
  <2>3. StatesTold(format, results, s, i) =
          {x \in States : \E j \in 1..n : sorted[j].id = i /\ sorted[j].state = x}
    BY <2>1, <2>2
  <2>4. \A k \in 1..n : sorted[k].id = i => sorted[k].state = st
    <3> TAKE k \in 1..n
    <3>1. PICK j \in 1..n : sorted[k] = results[j]
      BY <2>0
    <3>2. QED
      BY <3>1, <1>1
  <2>5. \E k \in 1..n : sorted[k].id = i /\ sorted[k].state = st
    BY <2>0, <1>1
  <2>6. QED
    BY <2>3, <2>4, <2>5, <1>1
<1>6. QED
  BY <1>2, <1>3, <1>4, <1>5 DEF Formats
\* Every document speaks of a gap when there is a fail, and of trouble when
\* there is a fail or an error.
LEMMA TroubleIsTold ==
    ASSUME NEW n, NEW results, Settled(results, n), NEW format \in Formats
    PROVE  /\ GapTold(format, results, NewSummary(results)) <=> Has(results, "fail")
           /\ TroubleTold(format, results, NewSummary(results)) <=>
                  Has(results, "fail") \/ Has(results, "error")
<1> DEFINE s == NewSummary(results)
<1>1. /\ s.required.fail \in Nat /\ s.required.error \in Nat
      /\ s.required.fail > 0 <=> Has(results, "fail")
      /\ s.required.error > 0 <=> Has(results, "error")
  BY CountersTell
<1>2. /\ DOMAIN results = 1..n
      /\ \A j \in 1..n : results[j].severity = "required" /\ results[j].state \in States
  BY DEF Settled, ResultsOf
<1> HIDE DEF s
<1>3. CASE format = "human"
  <2>1. GapTold(format, results, s) <=> s.required.fail > 0
    BY <1>3 DEF GapTold, RenderHuman
  <2>2. TroubleTold(format, results, s) <=> ~(s.required.fail = 0 /\ s.required.error = 0)
    BY <1>3 DEF TroubleTold, RenderHuman, NoRequiredTrouble
  <2>3. QED
    BY <1>1, <2>1, <2>2 DEF s
<1>4. CASE format = "json"
  <2>1. GapTold(format, results, s) <=> s.required.fail > 0
    BY <1>4 DEF GapTold, RenderJSON
  <2>2. TroubleTold(format, results, s) <=> s.required.fail + s.required.error > 0
    BY <1>4 DEF TroubleTold, RenderJSON
  <2>3. QED
    BY <1>1, <2>1, <2>2 DEF s
<1>5. CASE format = "sarif"
  <2>1. GapTold(format, results, s) <=> \E j \in 1..n : sarifLevel(results[j]) = "error"
    <3>1. RenderSARIF(results, s).results =
            [j \in 1..n |-> [ruleId |-> results[j].id, kind |-> SARIFKind(results[j].state),
                             level |-> sarifLevel(results[j])]]
      BY <1>2 DEF RenderSARIF
    <3>2. QED
      BY <1>5, <3>1 DEF GapTold, ToSet
  <2>2. \A j \in 1..n : sarifLevel(results[j]) = "error" <=> results[j].state = "fail"
    BY <1>2 DEF sarifLevel
  <2>3. TroubleTold(format, results, s) <=> ~(s.required.fail = 0 /\ s.required.error = 0)
    BY <1>5 DEF TroubleTold, RenderSARIF, executionSuccessful, NoRequiredTrouble
  <2>4. QED
    BY <1>1, <1>2, <2>1, <2>2, <2>3 DEF s, Has
<1>6. CASE format = "prometheus"
  <2> DEFINE sorted == sortedByCheckID(results)
             rows == [j \in 1..n |-> [check |-> sorted[j].id, severity |-> sorted[j].severity,
                                      rows |-> StateRows(sorted[j])]]
  <2>1. /\ DOMAIN sorted = 1..n
        /\ \A k \in 1..n : \E j \in 1..n : sorted[k] = results[j]
        /\ \A j \in 1..n : \E k \in 1..n : sorted[k] = results[j]
    BY SortedOK
  <2> HIDE DEF sorted
  <2>2. /\ RenderPrometheus(results, s).check_state = rows
        /\ RenderPrometheus(results, s).required_failures = s.required.fail
    BY <2>1 DEF RenderPrometheus, sorted
  <2>3. GapTold(format, results, s) <=> s.required.fail > 0
    BY <1>6, <2>2 DEF GapTold
  <2>4. TroubleTold(format, results, s) <=>
          \E j \in DOMAIN rows : /\ rows[j].severity = "required"
                                 /\ rows[j].rows["fail"] + rows[j].rows["error"] > 0
    BY <1>6, <2>2 DEF TroubleTold
  <2>5. \A r : StateRows(r)["fail"] + StateRows(r)["error"] > 0
                 <=> r.state = "fail" \/ r.state = "error"
    BY DEF StateRows, States
  <2>6. TroubleTold(format, results, s) <=>
          \E j \in 1..n : /\ sorted[j].severity = "required"
                          /\ sorted[j].state = "fail" \/ sorted[j].state = "error"
    BY <2>4, <2>5
  <2>7. ASSUME NEW k \in 1..n, sorted[k].state = "fail" \/ sorted[k].state = "error"
        PROVE  Has(results, "fail") \/ Has(results, "error")
    <3>1. PICK j \in 1..n : sorted[k] = results[j]
      BY <2>1
    <3>2. QED
      BY <3>1, <2>7, <1>2 DEF Has
  <2>8. ASSUME NEW j \in 1..n, results[j].state = "fail" \/ results[j].state = "error"
        PROVE  \E k \in 1..n : /\ sorted[k].severity = "required"
                               /\ sorted[k].state = "fail" \/ sorted[k].state = "error"
    <3>1. PICK k \in 1..n : sorted[k] = results[j]
      BY <2>1
    <3>2. QED
      BY <3>1, <2>8, <1>2
  <2>9. TroubleTold(format, results, s) <=> Has(results, "fail") \/ Has(results, "error")
    BY <2>6, <2>7, <2>8, <1>2 DEF Has
  <2>10. QED
    BY <1>1, <2>3, <2>9 DEF s
<1>7. QED
  BY <1>3, <1>4, <1>5, <1>6 DEF Formats, s

\* The exit code is the worst of the results.
LEMMA ExitIsTheWorst ==
    ASSUME NEW n, NEW results, Settled(results, n)
    PROVE  LET c == computeExit(NewSummary(results))
           IN  /\ c \in VerdictCodes
               /\ c = exitMitigationGap <=> Has(results, "fail")
               /\ c = exitCheckError <=> Has(results, "error") /\ ~Has(results, "fail")
BY CountersTell
   DEF computeExit, VerdictCodes, exitOK, exitMitigationGap, exitCheckError
-----------------------------------------------------------------------------
(***************************************************************************)
(* The command line.                                                       *)
(***************************************************************************)
FlagNames == ValueFlags \cup SwitchFlags

\* A text of one fragment.
LEMMA SingleText == \A x : ToSet(<<x>>) = {x}
BY DEF ToSet

\* Setting a flag keeps the FlagSet a FlagSet.
LEMMA SetFlagTyped ==
    ASSUME NEW s, ParserOK(s),
           NEW f \in FlagNames \cup CountFlags, NEW v
    PROVE  ParserOK(SetFlag(s, f, v))
<1>1. "timeout" \in FlagNames
  BY DEF FlagNames, ValueFlags
<1>2. CASE ~Admits(f, v)
  BY <1>2 DEF SetFlag, ParserOK
<1>3. CASE Admits(f, v) /\ f \in CountFlags
  <2>1. Counted(s.verbosity, v) \in Nat
    BY DEF Counted, NumberOf, ParserOK
  <2>2. QED
    BY <1>3, <2>1 DEF SetFlag, ParserOK
<1>4. CASE Admits(f, v) /\ f \notin CountFlags
  <2>1. SetFlag(s, f, v) = [s EXCEPT !.pending = "none", !.values[f] = v]
    BY <1>4 DEF SetFlag
  <2>2. SetFlag(s, f, v).values["timeout"] = IF f = "timeout" THEN v ELSE s.values["timeout"]
    BY <2>1, <1>1 DEF ParserOK, FlagNames
  <2>3. QED
    BY <2>1, <2>2, <1>4 DEF ParserOK
<1>5. QED
  BY <1>2, <1>3, <1>4

LEMMA ParseOneTyped ==
    ASSUME NEW s, ParserOK(s), NEW tok
    PROVE  ParserOK(ParseOne(s, tok))
<1>2. CASE s.pending # "none"
  <2>1. s.pending \in FlagNames
    BY <1>2 DEF ParserOK, FlagNames
  <2>2. ParseOne(s, tok) = SetFlag(s, s.pending, Text(tok))
    BY <1>2 DEF ParseOne
  <2>3. QED
    BY <2>1, <2>2, SetFlagTyped
<1>3. CASE s.pending = "none" /\ tok.name \in SwitchFlags \cup CountFlags
  <2> DEFINE v == IF tok.value = None THEN <<"true">> ELSE tok.value
  <2>2. ParseOne(s, tok) = SetFlag(s, tok.name, v)
    BY <1>3 DEF ParseOne, ValueFlags, TextFlags, SwitchFlags, CountFlags
  <2>3. tok.name \in FlagNames \cup CountFlags
    BY <1>3 DEF FlagNames
  <2> HIDE DEF v
  <2>4. QED
    BY <2>2, <2>3, SetFlagTyped
<1>4. CASE s.pending = "none" /\ tok.name \in ValueFlags
  <2>1. CASE tok.value = None
    <3>1. ParseOne(s, tok) = [s EXCEPT !.pending = tok.name]
      BY <1>4, <2>1 DEF ParseOne, ValueFlags, TextFlags, SwitchFlags, CountFlags
    <3>2. QED
      BY <1>4, <3>1 DEF ParserOK
  <2>2. CASE tok.value # None
    <3>1. ParseOne(s, tok) = SetFlag(s, tok.name, tok.value)
      BY <1>4, <2>2 DEF ParseOne, ValueFlags, TextFlags, SwitchFlags, CountFlags
    <3>2. tok.name \in FlagNames
      BY <1>4 DEF FlagNames
    <3>3. QED
      BY <3>1, <3>2, SetFlagTyped
  <2>3. QED
    BY <2>1, <2>2
<1>5. CASE s.pending = "none" /\ tok.name \notin SwitchFlags \cup CountFlags \cup ValueFlags
  <2>1. \E st \in {"operands", "help", "error"} : ParseOne(s, tok) = [s EXCEPT !.status = st]
    BY <1>5 DEF ParseOne, AtOperand
  <2>2. QED
    BY <2>1 DEF ParserOK
<1>6. QED
  BY <1>2, <1>3, <1>4, <1>5

LEMMA NewParserTyped == \A e : ParserOK(NewParser(e))
<1> TAKE e
<1>1. DOMAIN readEnvDefaults(e) = FlagNames
  BY DEF readEnvDefaults, FlagNames
<1>2. readEnvDefaults(e)["timeout"] = IF Admits("timeout", e.timeout) THEN e.timeout ELSE <<"30s">>
  BY DEF readEnvDefaults, ValueFlags, TextFlags, SwitchFlags
<1>3. Admits("timeout", readEnvDefaults(e)["timeout"])
  BY <1>2 DEF Admits, TextFlags, Durations, SwitchFlags, CountFlags
<1>4. QED
  BY <1>1, <1>3 DEF NewParser, ParserOK, FlagNames

\* The options of a command line that is accepted.
OptsOK(o) ==
    /\ o.format \in Formats
    /\ o.only \cap Blanks = {} /\ o.skip \cap Blanks = {}
    /\ o.only = {} \/ o.skip = {}
    /\ Admits("timeout", o.timeout) /\ o.verbosity \in Nat

LEMMA OptionsTyped ==
    ASSUME NEW s, ParserOK(s), NEW t,
           Outcome(s, t) = "run"
    PROVE  OptsOK(Options(s, t))
<1>1. ~Malformed(s, t) /\ ~Conflict(Options(s, t))
  BY DEF Outcome, UsageError
<1>2. FormatOf(s.values["format"], t) \in Formats
  BY <1>1 DEF Malformed, Options, FormatOf, autoDetectFormat, Formats
<1>3. \A v : Items(v) \cap Blanks = {}
  BY DEF Items
<1>4. QED
  BY <1>1, <1>2, <1>3 DEF Conflict, Options, OptsOK, ParserOK

\* The options of an empty command line.
LEMMA DefaultsOK == OptsOK(Defaults)
<1> DEFINE p == NewParser(NoEnv)
<1>1. /\ p.status = "flags" /\ p.pending = "none"
      /\ p.values = readEnvDefaults(NoEnv)
  BY DEF NewParser
<1>2. /\ p.values["format"] = Empty /\ p.values["only"] = Empty /\ p.values["skip"] = Empty
      /\ p.values["version"] = <<"false">>
  BY <1>1 DEF readEnvDefaults, NoEnv, ValueFlags, TextFlags, SwitchFlags
<1> HIDE DEF p
<1>3. Items(Empty) = {}
  <2>1. ToSet(Empty) \subseteq {""}
    BY SingleText DEF Empty
  <2>2. QED
    BY <2>1 DEF Items, Blanks
<1>4. /\ Options(p, FALSE).format = "json"
      /\ Options(p, FALSE).only = {}
  BY <1>2, <1>3 DEF Options, FormatOf, autoDetectFormat
<1>5. ~Malformed(p, FALSE) /\ ~Conflict(Options(p, FALSE))
  BY <1>1, <1>2, <1>4 DEF Malformed, EmptyFilter, Conflict
<1>6. <<"false">> # <<"true">>
  OBVIOUS
<1>7. Outcome(p, FALSE) = "run"
  BY <1>1, <1>2, <1>5, <1>6 DEF Outcome, isHelpOrVersionExit, UsageError
<1>8. QED
  BY <1>7, NewParserTyped, OptionsTyped DEF Defaults, p

-----------------------------------------------------------------------------
(***************************************************************************)
(* The inductive invariant.                                                *)
(***************************************************************************)
CoreInv == TypeOK /\ RunInv /\ ExitInv

LEMMA InitInv == Init => CoreInv
<1> SUFFICES ASSUME Init PROVE CoreInv
  OBVIOUS
<1>1. ParserOK(parser) /\ OptsOK(opts)
  BY DefaultsOK, NewParserTyped DEF Init
<1>2. TypeOK
  <2>1. NoSummary \in Summary
    <3>1. <<>> \in [1..0 -> Result(0..NumChecks)]
      OBVIOUS
    <3>2. QED
      BY <3>1, SummaryTyped DEF NoSummary
  <2>2. slots \in [1..total -> Result(0..NumChecks)]
    BY DEF Init
  <2>3. /\ pc \in PC /\ signal = "none" /\ total = 0 /\ lost = {} /\ phase = "open"
        /\ output = "untouched" /\ code = -1 /\ hostErr = FALSE
        /\ OSFileOK(osFile)
    BY DEF Init, PC, NoFile, File, OSFileOK
  <2>4. host \in [HostParts -> BOOLEAN]
    BY DEF Init, NoHost
  <2>5. summary \in Summary
    BY <2>1 DEF Init
  <2>6. /\ total \in 0..NumChecks /\ lost \subseteq 1..total
        /\ signal \in Signals \cup {"none"} /\ code \in ExitCodes \cup {-1}
        /\ phase \in {"open", "sealed", "published"}
        /\ output \in {"untouched", "truncated", "partial", "complete", "lost"}
    BY <2>3
  <2>7. QED
    BY <1>1, <2>2, <2>3, <2>4, <2>5, <2>6 DEF TypeOK, OptsOK
<1>3. RunInv /\ ExitInv
  BY DEF Init, RunInv, ExitInv, BeforeRun, exitTerminated, VerdictCodes,
         exitOK, exitMitigationGap, exitCheckError
<1>4. QED
  BY <1>2, <1>3 DEF CoreInv

\* A step of main that leaves the Runner's call, the signal and the output
\* alone, and chooses no code, has its pc and the options to answer for.
LEMMA BeforeInv ==
    ASSUME CoreInv, UNCHANGED <<runVars, signal, output, code>>,
           pc \in BeforeRun, pc' \in BeforeRun \cup {"run"}, TypeOK'
    PROVE  CoreInv'
<1>1. code = -1 /\ output = "untouched"
  BY DEF CoreInv, TypeOK, ExitInv, RunInv, BeforeRun
<1>2. RunInv'
  BY <1>1 DEF CoreInv, RunInv, runVars, BeforeRun, IsAbandoned, ctxDone
<1>3. ExitInv'
  BY <1>1 DEF ExitInv, exitTerminated, VerdictCodes, exitOK, exitMitigationGap, exitCheckError, BeforeRun
<1>4. QED
  BY <1>2, <1>3 DEF CoreInv
\* What main reads before it calls the Runner.
ReadingNext ==
    \/ ReadToken \/ AcceptFlags \/ InstallHandler
    \/ GatherOSRelease \/ GatherKernel \/ GatherArch

LEMMA ReadingInv == CoreInv /\ ReadingNext => CoreInv'
<1> SUFFICES ASSUME CoreInv, ReadingNext PROVE CoreInv'
  OBVIOUS
<1>1. TypeOK
  BY DEF CoreInv
<1>2. /\ UNCHANGED <<runVars, signal, output, code>>
      /\ pc \in BeforeRun /\ pc' \in BeforeRun \cup {"run"}
  BY DEF ReadingNext, ReadToken, AcceptFlags, InstallHandler, AllRead, GatherOSRelease,
         GatherKernel, GatherArch, Gather, GatherFails, BeforeRun
<1>3. /\ pc' \in PC /\ signal' \in Signals \cup {"none"}
      /\ output' \in {"untouched", "truncated", "partial", "complete", "lost"}
      /\ code' \in ExitCodes \cup {-1}
      /\ total' \in 0..NumChecks /\ lost' \subseteq 1..total'
      /\ slots' \in [1..total' -> Result(0..NumChecks)]
      /\ phase' \in {"open", "sealed", "published"} /\ summary' \in Summary
  BY <1>1, <1>2 DEF TypeOK, runVars, PC, BeforeRun, HandlerInstalled
<1>4. ParserOK(parser)'
  <2>1. CASE ReadToken
    <3>1. ParserOK(ParseOne(parser, argv[parser.pos]))
      BY <1>1, ParseOneTyped DEF TypeOK
    <3>2. QED
      BY <2>1, <3>1 DEF ReadToken, ParserOK
  <2>2. CASE InstallHandler
    BY <2>2, NewParserTyped DEF InstallHandler
  <2>3. CASE AcceptFlags \/ GatherOSRelease \/ GatherKernel \/ GatherArch
    <3>1. UNCHANGED parser
      BY <2>3 DEF AcceptFlags, GatherOSRelease, GatherKernel, GatherArch, Gather, GatherFails, argVars
    <3>2. QED
      BY <1>1, <3>1 DEF TypeOK, ParserOK
  <2>4. QED
    BY <2>1, <2>2, <2>3 DEF ReadingNext
<1>5. OptsOK(opts)'
  <2>1. CASE AcceptFlags
    <3>1. OptsOK(Options(parser, tty))
      BY <1>1, <2>1, OptionsTyped DEF TypeOK, AcceptFlags
    <3>2. opts' = Options(parser, tty)
      BY <2>1 DEF AcceptFlags
    <3>3. QED
      BY <3>1, <3>2 DEF OptsOK
  <2>2. CASE InstallHandler
    <3>1. opts' = [Defaults EXCEPT !.format = opts.format, !.output = opts.output,
                                   !.only = opts.only, !.skip = opts.skip]
      BY <2>2 DEF InstallHandler
    <3>2. /\ DOMAIN Defaults = {"format", "output", "timeout", "concurrency", "module",
                               "conf", "only", "skip", "noColor", "verbosity"}
      BY DEF Defaults, Options
    <3>3. /\ opts'.format = opts.format /\ opts'.only = opts.only /\ opts'.skip = opts.skip
          /\ opts'.timeout = Defaults.timeout /\ opts'.verbosity = Defaults.verbosity
      BY <3>1, <3>2
    <3>4. QED
      BY <1>1, <3>3, DefaultsOK DEF TypeOK, OptsOK
  <2>3. CASE ReadToken \/ GatherOSRelease \/ GatherKernel \/ GatherArch
    <3>1. UNCHANGED opts
      BY <2>3 DEF ReadToken, GatherOSRelease, GatherKernel, GatherArch, Gather, GatherFails
    <3>2. QED
      BY <1>1, <3>1 DEF TypeOK, OptsOK
  <2>4. QED
    BY <2>1, <2>2, <2>3 DEF ReadingNext
<1>6. OSFileOK(osFile') /\ host' \in [HostParts -> BOOLEAN]
      /\ hostErr' \in BOOLEAN
  <2>1. CASE ReadToken \/ AcceptFlags
    BY <1>1, <2>1 DEF TypeOK, ReadToken, AcceptFlags, hostVars
  <2>2. CASE InstallHandler
    BY <1>1, <2>2 DEF TypeOK, InstallHandler, File, NoFile, OSFileOK
  <2>3. CASE GatherOSRelease
    BY <1>1, <2>3 DEF TypeOK, GatherOSRelease, Gather, GatherFails
  <2>4. CASE GatherKernel \/ GatherArch
    BY <1>1, <2>4 DEF TypeOK, GatherKernel, GatherArch, Gather, GatherFails
  <2>5. QED
    BY <2>1, <2>2, <2>3, <2>4 DEF ReadingNext
<1>7. TypeOK'
  BY <1>3, <1>4, <1>5, <1>6 DEF TypeOK, OptsOK
<1>8. QED
  BY <1>2, <1>7, BeforeInv
\* The part of the type that is about what is read.
ReadOK ==
    /\ ParserOK(parser) /\ OptsOK(opts)
    /\ OSFileOK(osFile)
    /\ host \in [HostParts -> BOOLEAN] /\ hostErr \in BOOLEAN

LEMMA ReadKept == TypeOK /\ UNCHANGED <<argVars, opts, hostVars>> => ReadOK'
BY DEF TypeOK, ReadOK, argVars, hostVars, ParserOK, OptsOK

LEMMA StopInv == CoreInv /\ StopAtFlags => CoreInv'
<1> SUFFICES ASSUME CoreInv, StopAtFlags PROVE CoreInv'
  OBVIOUS
<1>1. /\ UNCHANGED <<argVars, opts, hostVars, signal, output, runVars>>
      /\ pc = "parse" /\ pc' = "exited" /\ code' \in {exitOK, exitUsage}
  BY DEF StopAtFlags, AllRead
<1>2. phase = "open" /\ output = "untouched" /\ TypeOK
  BY <1>1 DEF CoreInv, RunInv, BeforeRun
<1>3. ReadOK'
  BY <1>1, <1>2, ReadKept
<1>4. TypeOK'
  BY <1>1, <1>2, <1>3 DEF TypeOK, ReadOK, OptsOK, runVars, PC, ExitCodes
<1>5. RunInv'
  BY <1>1, <1>2 DEF CoreInv, RunInv, runVars, IsAbandoned, ctxDone, BeforeRun
<1>6. ExitInv'
  BY <1>1, <1>2 DEF ExitInv, runVars, exitTerminated, exitOK, exitUsage
<1>7. QED
  BY <1>4, <1>5, <1>6 DEF CoreInv

LEMMA EmptyTyped == Run!Empty \in Result(0..NumChecks)
<1>1. /\ 0 \in 0..NumChecks /\ "" \in Severities \cup {Blank}
      /\ "" \in States \cup {Blank} /\ "" \in Errs
  BY DEF Blank, Errs
<1>2. QED
  BY <1>1, SameValues DEF Result

\* A filter keeps some of the checks.
LEMMA FilterBounded == Cardinality(filterChecks) \in 0..NumChecks
<1>1. filterChecks \in SUBSET (1..NumChecks)
  BY DEF filterChecks, Named, Ids
<1>2. IsFiniteSet(1..NumChecks) /\ Cardinality(1..NumChecks) = NumChecks
  BY FS_Interval
<1>3. IsFiniteSet(filterChecks) /\ Cardinality(filterChecks) <= NumChecks
  BY <1>1, <1>2, FS_Subset
<1>4. QED
  BY <1>3, FS_CardinalityType

LEMMA FilterInv == CoreInv /\ Filter => CoreInv'
<1> SUFFICES ASSUME CoreInv, Filter PROVE CoreInv'
  OBVIOUS
<1>1. /\ pc = "filter" /\ UNCHANGED <<argVars, signal, output>>
      /\ opts' = [opts EXCEPT !.only = {}, !.skip = {}]
      /\ osFile' = NoFile /\ host' = NoHost /\ hostErr' = FALSE
  BY DEF Filter
<1>2. TypeOK /\ phase = "open" /\ output = "untouched" /\ code = -1
  BY <1>1 DEF CoreInv, RunInv, ExitInv, BeforeRun
<1>3. ReadOK'
  <2>1. OptsOK(opts)'
    BY <1>1, <1>2 DEF TypeOK, OptsOK
  <2>2. QED
    BY <1>1, <1>2, <2>1 DEF TypeOK, ReadOK, ParserOK, argVars, NoFile, File, NoHost, OSFileOK
<1>4. CASE Return(exitUsage) /\ UNCHANGED runVars
  <2>1. pc' = "close" /\ code' = exitUsage
    BY <1>4 DEF Return
  <2>2. TypeOK'
    BY <1>1, <1>2, <1>3, <1>4, <2>1
       DEF TypeOK, ReadOK, OptsOK, runVars, PC, HandlerInstalled, ExitCodes
  <2>3. RunInv'
    BY <1>1, <1>2, <1>4, <2>1 DEF CoreInv, RunInv, runVars, IsAbandoned, ctxDone, BeforeRun
  <2>4. ExitInv'
    BY <1>2, <1>4, <2>1 DEF ExitInv, runVars, exitTerminated, exitUsage
  <2>5. QED
    BY <2>2, <2>3, <2>4 DEF CoreInv
<1>5. CASE /\ pc' = "run"
           /\ total' = Cardinality(filterChecks)
           /\ slots' = [i \in 1..total' |-> Run!Empty]
           /\ UNCHANGED <<code, lost, phase, summary>>
  <2>1. total' \in 0..NumChecks
    BY <1>5, FilterBounded
  <2>2. slots' \in [1..total' -> Result(0..NumChecks)]
    BY <1>5, EmptyTyped
  <2>3. lost = {}
    BY <1>1, <1>2 DEF CoreInv, RunInv, BeforeRun
  <2>4. TypeOK'
    BY <1>1, <1>2, <1>3, <1>5, <2>1, <2>2, <2>3 DEF TypeOK, ReadOK, OptsOK, PC, HandlerInstalled
  <2>5. RunInv'
    BY <1>1, <1>2, <1>5, SameValues DEF RunInv, IsAbandoned, BeforeRun
  <2>6. ExitInv'
    BY <1>2, <1>5 DEF ExitInv, exitTerminated
  <2>7. QED
    BY <2>4, <2>5, <2>6 DEF CoreInv
<1>6. QED
  BY <1>4, <1>5 DEF Filter
\* What a check reports of itself, and what the Runner reports of one it
\* abandons, is a result of that check.
LEMMA ResultsTyped ==
    ASSUME TypeOK, NEW i \in 1..total
    PROVE  /\ \A r \in Run!OwnResults(i) :
                  r \in ResultsOf(i) /\ r.err # "parent context canceled"
           /\ Run!Abandoned(i) \in ResultsOf(i)
           /\ Run!Abandoned(i).err = "parent context canceled" => ctxDone
           /\ ResultsOf(i) \subseteq Result(0..NumChecks)
<1>1. i \in Ids /\ i \in 0..NumChecks
  BY DEF TypeOK, Ids
<1>2. Run!SeverityOf(i) = "required"
  BY <1>1 DEF Run!SeverityOf
<1>3. RunStates \cup {"skip", "error"} \subseteq States
  BY DEF States
<1>4. {Run!Blank, "from check", "panic"} \subseteq Errs \ {"parent context canceled"}
  BY DEF Errs, Run!Blank, Blank
<1>5. \A r \in Run!OwnResults(i) : r \in ResultsOf(i) /\ r.err # "parent context canceled"
  BY <1>2, <1>3, <1>4 DEF Run!OwnResults, ResultsOf
<1>6. Run!Abandoned(i) \in ResultsOf(i)
  BY <1>2 DEF Run!Abandoned, ResultsOf, States, Errs
<1>7. Run!Abandoned(i).err = "parent context canceled" => ctxDone
  BY DEF Run!Abandoned
<1>8. ResultsOf(i) \subseteq Result(0..NumChecks)
  BY <1>1 DEF ResultsOf, Result, Severities
<1>9. QED
  BY <1>5, <1>6, <1>7, <1>8

\* The Runner's steps.
LEMMA RunningInv == CoreInv /\ (CheckSettles \/ RunnerCloses) => CoreInv'
<1> SUFFICES ASSUME CoreInv, CheckSettles \/ RunnerCloses PROVE CoreInv'
  OBVIOUS
<1>1. /\ UNCHANGED <<pc, argVars, opts, hostVars, signal, output, code>>
      /\ pc = "run"
      /\ \/ \E i \in 1..total : Run!Settle(i) \/ Run!Lose(i)
         \/ Run!Seal \/ Run!Publish
  BY DEF CheckSettles, RunnerCloses, Running
<1>2. TypeOK /\ RunInv /\ code = -1 /\ UNCHANGED <<total, ctxDone>>
  <2>1. TypeOK /\ RunInv /\ code = -1
    BY <1>1 DEF CoreInv, ExitInv
  <2>2. UNCHANGED total
    BY <1>1 DEF Run!Settle, Run!Lose, Run!Seal, Run!Publish
  <2>3. QED
    BY <1>1, <2>1, <2>2 DEF ctxDone
<1>3. ReadOK'
  BY <1>1, <1>2, ReadKept
<1>4. ExitInv'
  BY <1>1, <1>2 DEF ExitInv, exitTerminated, VerdictCodes, exitOK, exitMitigationGap, exitCheckError
<1>5. SUFFICES /\ lost' \subseteq 1..total
               /\ slots' \in [1..total -> Result(0..NumChecks)]
               /\ phase' \in {"open", "sealed", "published"}
               /\ summary' \in Summary
               /\ RunInv'
  <2>1. (pc \in PC /\ signal \in Signals \cup {"none"}
         /\ output \in {"untouched", "truncated", "partial", "complete", "lost"}
         /\ code \in ExitCodes \cup {-1} /\ total \in 0..NumChecks)'
    BY <1>1, <1>2 DEF TypeOK
  <2>2. QED
    BY <1>2, <1>3, <1>4, <2>1 DEF CoreInv, TypeOK, ReadOK, OptsOK
<1>6. ASSUME NEW i \in 1..total, Run!Settle(i)
      PROVE  /\ lost' \subseteq 1..total
             /\ slots' \in [1..total -> Result(0..NumChecks)]
             /\ phase' \in {"open", "sealed", "published"}
             /\ summary' \in Summary
             /\ RunInv'
  <2>1. /\ phase = "open" /\ UNCHANGED <<lost, phase, summary>>
        /\ \E r \in Run!OwnResults(i) : slots' = [slots EXCEPT ![i] = r]
    BY <1>6 DEF Run!Settle
  <2>2. PICK r \in Run!OwnResults(i) : slots' = [slots EXCEPT ![i] = r]
    BY <2>1
  <2>3. /\ r \in ResultsOf(i) /\ r \in Result(0..NumChecks)
        /\ r.err # "parent context canceled"
    BY <1>2, ResultsTyped
  <2>4. RunInv'
    BY <1>1, <1>2, <2>1, <2>2, <2>3 DEF RunInv, TypeOK, IsAbandoned, BeforeRun
  <2>5. QED
    BY <1>2, <2>1, <2>2, <2>3, <2>4 DEF TypeOK
<1>7. ASSUME NEW i \in 1..total, Run!Lose(i)
      PROVE  /\ lost' \subseteq 1..total
             /\ slots' \in [1..total -> Result(0..NumChecks)]
             /\ phase' \in {"open", "sealed", "published"}
             /\ summary' \in Summary
             /\ RunInv'
  <2>1. UNCHANGED <<slots, phase, summary>> /\ lost' = lost \cup {i}
    BY <1>7 DEF Run!Lose
  <2>2. RunInv'
    BY <1>1, <1>2, <2>1 DEF RunInv, IsAbandoned, BeforeRun
  <2>3. QED
    BY <1>2, <2>1, <2>2 DEF TypeOK
<1>8. CASE Run!Seal
  <2>1. /\ phase = "open" /\ phase' = "sealed" /\ UNCHANGED <<lost, summary>>
        /\ slots' = [i \in 1..total |-> IF slots[i] = Run!Empty THEN Run!Abandoned(i) ELSE slots[i]]
    BY <1>8 DEF Run!Seal, Run!Checks
  <2>2. \A i \in 1..total : slots'[i] \in ResultsOf(i) /\ (slots'[i].err = "parent context canceled" => ctxDone)
    BY <1>2, <2>1, ResultsTyped DEF RunInv, IsAbandoned
  <2>3. RunInv'
    BY <1>1, <1>2, <2>1, <2>2 DEF RunInv, IsAbandoned, BeforeRun
  <2>4. \A i \in 1..total : slots'[i] \in Result(0..NumChecks)
    BY <1>2, <2>2, ResultsTyped
  <2>5. QED
    BY <1>2, <2>1, <2>3, <2>4 DEF TypeOK
<1>9. CASE Run!Publish
  <2>1. /\ phase = "sealed" \/ (phase = "open" /\ total = 0)
        /\ phase' = "published" /\ UNCHANGED <<lost, slots>>
        /\ summary' = NewSummary(slots)
    BY <1>9, SameValues DEF Run!Publish
  <2>2. summary' \in Summary
    BY <1>2, <2>1, SummaryTyped DEF TypeOK
  <2>3. \A i \in 1..total : slots[i] \in ResultsOf(i)
    BY <1>2, <2>1 DEF RunInv
  <2>4. RunInv'
    BY <1>1, <1>2, <2>1, <2>3 DEF RunInv, IsAbandoned, BeforeRun
  <2>5. QED
    BY <1>2, <2>1, <2>2, <2>4 DEF TypeOK
<1>10. QED
  BY <1>1, <1>6, <1>7, <1>8, <1>9

\* The steps after the Runner's call, the signals and the kills: the call's
\* state is no longer touched.
LateNext == \/ RunReturns \/ OpenOutput \/ OpenFails \/ Render \/ RenderFails
            \/ Verdict \/ CloseOutput \/ Leave
            \/ Signal \/ Kill \/ BrokenPipe

LEMMA LateTyped == CoreInv /\ LateNext => TypeOK'
<1> SUFFICES ASSUME CoreInv, LateNext PROVE TypeOK'
  OBVIOUS
<1>1. UNCHANGED <<argVars, opts, hostVars, runVars>>
  BY DEF LateNext, RunReturns, OpenOutput, OpenFails, Render, RenderFails, Verdict,
         CloseOutput, Leave, Signal, Kill, BrokenPipe
<1>2. TypeOK /\ ReadOK'
  BY <1>1, ReadKept DEF CoreInv
<1>3. (total \in 0..NumChecks /\ lost \subseteq 1..total
       /\ slots \in [1..total -> Result(0..NumChecks)]
       /\ phase \in {"open", "sealed", "published"} /\ summary \in Summary)'
  BY <1>1, <1>2 DEF TypeOK, runVars
<1>4. pc' \in PC
  BY <1>2 DEF TypeOK, LateNext, RunReturns, OpenOutput, OpenFails, Render, RenderFails, Verdict,
         CloseOutput, Leave, Signal, Kill, BrokenPipe, Return, PC, HandlerInstalled
<1>5. signal' \in Signals \cup {"none"}
  BY <1>2 DEF TypeOK, LateNext, RunReturns, OpenOutput, OpenFails, Render, RenderFails, Verdict,
         CloseOutput, Leave, Signal, Kill, BrokenPipe
<1>6. output' \in {"untouched", "truncated", "partial", "complete", "lost"}
  BY <1>2 DEF TypeOK, LateNext, RunReturns, OpenOutput, OpenFails, Render, RenderFails, Verdict,
         CloseOutput, Leave, Signal, Kill, BrokenPipe
<1>7. code' \in ExitCodes \cup {-1}
  BY <1>2 DEF TypeOK, LateNext, RunReturns, OpenOutput, OpenFails, Render, RenderFails, Verdict,
         CloseOutput, Leave, Signal, Kill, BrokenPipe, Return, ExitCodes, signalExitCode, computeExit
<1>8. QED
  BY <1>2, <1>3, <1>4, <1>5, <1>6, <1>7 DEF TypeOK, ReadOK, OptsOK
LEMMA LateRunInv == CoreInv /\ LateNext => RunInv'
<1> SUFFICES ASSUME CoreInv, LateNext PROVE RunInv'
  OBVIOUS
<1> DEFINE Slots == \A i \in 1..total : \/ phase = "open" /\ slots[i] = Run!Empty
                                       \/ slots[i] \in ResultsOf(i)
<1>1. TypeOK /\ RunInv /\ UNCHANGED <<total, lost, slots, phase, summary>>
  BY DEF CoreInv, LateNext, RunReturns, OpenOutput, OpenFails, Render, RenderFails, Verdict,
         CloseOutput, Leave, Signal, Kill, BrokenPipe, runVars
<1>2. Slots' /\ (phase = "published" => summary = NewSummary(slots))'
  BY <1>1 DEF RunInv
<1>3. ctxDone => ctxDone'
  BY DEF ctxDone, LateNext, RunReturns, OpenOutput, OpenFails, Render, RenderFails, Verdict,
         CloseOutput, Leave, Signal, Kill, BrokenPipe, Signals
<1>4. (\A i \in 1..total : IsAbandoned(i) => ctxDone)'
  BY <1>1, <1>3 DEF RunInv, IsAbandoned
<1>5. (pc \in BeforeRun => phase = "open" /\ lost = {})'
  BY <1>1 DEF RunInv, LateNext, RunReturns, OpenOutput, OpenFails, Render, RenderFails, Verdict,
         CloseOutput, Leave, Signal, Kill, BrokenPipe, Return, BeforeRun
<1>6. (pc \in {"open", "render", "verdict"} \/ output # "untouched" => phase = "published")'
  BY <1>1 DEF RunInv, LateNext, RunReturns, OpenOutput, OpenFails, Render, RenderFails, Verdict,
         CloseOutput, Leave, Signal, Kill, BrokenPipe, Return
<1>7. QED
  BY <1>2, <1>4, <1>5, <1>6 DEF RunInv

LEMMA LateExitInv == CoreInv /\ LateNext => ExitInv'
<1> SUFFICES ASSUME CoreInv, LateNext PROVE ExitInv'
  OBVIOUS
<1> USE DEF exitOK, exitMitigationGap, exitCheckError, exitTerminated, exitToolError, VerdictCodes
<1>1. TypeOK /\ RunInv /\ ExitInv /\ UNCHANGED <<opts, total, slots, phase, summary>>
  BY DEF CoreInv, LateNext, RunReturns, OpenOutput, OpenFails, Render, RenderFails, Verdict,
         CloseOutput, Leave, Signal, Kill, BrokenPipe, runVars
<1>2. UNCHANGED dest /\ (\A i \in 1..total : ~IsAbandoned(i)) = (\A i \in 1..total : ~IsAbandoned(i))'
  BY <1>1 DEF dest, IsAbandoned
<1>3. CASE RunReturns \/ OpenOutput \/ BrokenPipe
  BY <1>1, <1>3 DEF ExitInv, RunReturns, OpenOutput, BrokenPipe
<1>4. CASE Render
  BY <1>1, <1>4 DEF ExitInv, Render
<1>5. CASE OpenFails \/ RenderFails
  BY <1>1, <1>5 DEF ExitInv, OpenFails, RenderFails, Return
<1>6. CASE Verdict
  <2>1. /\ output = "complete" /\ output' = output /\ phase = "published" /\ pc' = "close"
        /\ code' = IF signalExitCode # 0 THEN signalExitCode ELSE computeExit(summary)
    BY <1>1, <1>6 DEF ExitInv, RunInv, Verdict, Return
  <2>2. Written'
    BY <2>1 DEF Written
  <2>3. computeExit(summary) \in VerdictCodes
    BY DEF computeExit
  <2>4. CASE ctxDone
    BY <1>1, <2>1, <2>2, <2>4 DEF ExitInv, signalExitCode
  <2>5. CASE ~ctxDone
    <3>1. \A i \in 1..total : ~IsAbandoned(i)
      BY <1>1, <2>5 DEF RunInv
    <3>2. code' = computeExit(summary)
      BY <2>1, <2>5 DEF signalExitCode
    <3>3. QED
      BY <1>1, <1>2, <2>1, <2>2, <2>3, <3>1, <3>2 DEF ExitInv
  <2>6. QED
    BY <2>4, <2>5
<1>7. CASE CloseOutput
  <2>1. Written => Written'
    BY <1>2, <1>7 DEF Written, CloseOutput, dest
  <2>2. QED
    BY <1>1, <1>2, <1>7, <2>1 DEF ExitInv, CloseOutput
<1>8. CASE Leave \/ Signal \/ Kill
  <2>1. Written' = Written /\ UNCHANGED <<output, code>>
    BY <1>2, <1>8 DEF Written, Leave, Signal, Kill
  <2>2. QED
    BY <1>1, <1>2, <1>8, <2>1 DEF ExitInv, Leave, Signal, Kill, HandlerInstalled
<1>9. QED
  BY <1>3, <1>4, <1>5, <1>6, <1>7, <1>8 DEF LateNext

LEMMA StepInv == CoreInv /\ [Next]_vars => CoreInv'
<1> SUFFICES ASSUME CoreInv, [Next]_vars PROVE CoreInv'
  OBVIOUS
<1>1. CASE ReadingNext
  BY <1>1, ReadingInv
<1>2. CASE StopAtFlags
  BY <1>2, StopInv
<1>3. CASE Filter
  BY <1>3, FilterInv
<1>4. CASE CheckSettles \/ RunnerCloses
  BY <1>4, RunningInv
<1>5. CASE LateNext
  BY <1>5, LateTyped, LateRunInv, LateExitInv DEF CoreInv
<1>6. CASE UNCHANGED vars
  <2>1. UNCHANGED <<argVars, opts, hostVars>> /\ TypeOK
    BY <1>6 DEF vars, CoreInv
  <2>2. ReadOK'
    BY <2>1, ReadKept
  <2>3. TypeOK'
    BY <1>6, <2>1, <2>2 DEF TypeOK, ReadOK, OptsOK, vars, runVars
  <2>4. RunInv'
    BY <1>6 DEF CoreInv, RunInv, IsAbandoned, ctxDone, vars, runVars
  <2>5. ExitInv'
    BY <1>6 DEF CoreInv, ExitInv, Written, dest, IsAbandoned, vars, runVars
  <2>6. QED
    BY <2>3, <2>4, <2>5 DEF CoreInv
<1>7. QED
  BY <1>1, <1>2, <1>3, <1>4, <1>5, <1>6 DEF Next, MainStep, ReadingNext, LateNext

-----------------------------------------------------------------------------
(***************************************************************************)
(* What the parser has read of the command line.                           *)
(***************************************************************************)

\* Every command line has its heads.
LEMMA HeadsExist ==
    ASSUME argv \in Seq(Tokens)
    PROVE  \E H \in SUBSET DOMAIN argv : AreHeads(H)
<1> DEFINE IsHead(H, i) == i \in H <=> i = 1 \/ i - 1 \notin H \/ ~TakesNext(argv[i - 1])
           Bad == {n \in 0..Len(argv) : ~\E H \in SUBSET (1..n) : \A i \in 1..n : IsHead(H, i)}
<1>1. Len(argv) \in Nat /\ DOMAIN argv = 1..Len(argv)
  OBVIOUS
<1>2. ASSUME Bad # {} PROVE FALSE
  <2>1. PICK n \in Bad : \A m \in Bad : n <= m
    <3>1. Bad \in SUBSET Nat
      BY <1>1
    <3> HIDE DEF Bad
    <3> QED
      BY <1>2, <3>1, LeastNat
  <2>2. n # 0
    <3>1. {} \in SUBSET (1..0) /\ \A i \in 1..0 : IsHead({}, i)
      BY <1>1
    <3> QED
      BY <2>1, <3>1
  <2>3. n - 1 \in 0..Len(argv) /\ ~(n <= n - 1) /\ n \in Nat
    BY <1>1, <2>2
  <2>4. n - 1 \notin Bad
    BY <2>1, <2>3
  <2>5. PICK H \in SUBSET (1..(n - 1)) : \A i \in 1..(n - 1) : IsHead(H, i)
    BY <2>3, <2>4
  <2> DEFINE G == IF n = 1 \/ n - 1 \notin H \/ ~TakesNext(argv[n - 1]) THEN H \cup {n} ELSE H
  <2>6. n \notin H /\ G \in SUBSET (1..n) /\ \A i \in 1..(n - 1) : i \in G <=> i \in H
    BY <2>3
  <2>7. IsHead(G, n)
    <3>1. n \in G <=> n = 1 \/ n - 1 \notin H \/ ~TakesNext(argv[n - 1])
      BY <2>6
    <3>2. n # 1 => (n - 1 \in G <=> n - 1 \in H)
      BY <2>3, <2>6
    <3> HIDE DEF G
    <3> QED
      BY <3>1, <3>2
  <2>8. \A i \in 1..(n - 1) : IsHead(G, i)
    <3> SUFFICES ASSUME NEW i \in 1..(n - 1) PROVE IsHead(G, i)
      OBVIOUS
    <3>1. i \in G <=> i \in H
      BY <2>6
    <3>2. i # 1 => (i - 1 \in G <=> i - 1 \in H)
      BY <2>3, <2>6
    <3>3. IsHead(H, i)
      BY <2>5
    <3> HIDE DEF G
    <3> QED
      BY <3>1, <3>2, <3>3
  <2>9. \A i \in 1..n : IsHead(G, i)
    <3>1. \A i \in 1..n : i \in 1..(n - 1) \/ i = n
      BY <2>3
    <3> HIDE DEF G, IsHead
    <3> QED
      BY <2>7, <2>8, <3>1
  <2> QED
    BY <2>1, <2>6, <2>9
<1>3. Len(argv) \in 0..Len(argv)
  BY <1>1
<1>4. Len(argv) \notin Bad
  <2> HIDE DEF Bad
  <2> QED
    BY <1>2
<1>5. PICK H \in SUBSET (1..Len(argv)) : \A i \in 1..Len(argv) : IsHead(H, i)
  <2> HIDE DEF IsHead
  <2> QED
    BY <1>3, <1>4
<1> QED
  BY <1>1, <1>5 DEF AreHeads

\* One more -v after the others.
LEMMA CountGrows ==
    ASSUME NEW n \in Nat, NEW G \in SUBSET (1..n), NEW v, Admits("v", v),
           v = IF argv[n + 1].value = None THEN <<"true">> ELSE argv[n + 1].value
    PROVE  CountOf(G \cup {n + 1}) = Counted(CountOf(G), v)
<1> DEFINE k == n + 1
           bare(S) == {i \in S : argv[i].value \in {None, <<"true">>}}
           reset(S) == S \ bare(S)
           K == G \cup {k}
           last(S) == LastOf(reset(S))
           later(S) == {i \in bare(S) : i > last(S)}
           from(S) == IF argv[last(S)].value = <<"false">> THEN 0 ELSE NumberOf(argv[last(S)].value)
<1>1. \A S : CountOf(S) = IF reset(S) = {} THEN Cardinality(bare(S))
                          ELSE Cardinality(later(S)) + from(S)
  BY DEF CountOf
<1>2. k \in Nat /\ k \notin G /\ \A i \in G : i < k /\ i \in Nat
  OBVIOUS
<1>3. \A S \in SUBSET G : IsFiniteSet(S) /\ Cardinality(S \cup {k}) = Cardinality(S) + 1
  <2> SUFFICES ASSUME NEW S \in SUBSET G
               PROVE  IsFiniteSet(S) /\ Cardinality(S \cup {k}) = Cardinality(S) + 1
    OBVIOUS
  <2>1. IsFiniteSet(1..n)
    BY FS_Interval
  <2>2. IsFiniteSet(S)
    BY <2>1, FS_Subset
  <2> QED
    BY <1>2, <2>2, FS_AddElement
<1>4. reset(G) # {} => last(G) \in reset(G) /\ \A y \in reset(G) : y <= last(G)
  <2>1. reset(G) \in SUBSET (1..n)
    OBVIOUS
  <2> HIDE DEF reset
  <2> QED
    BY <2>1, LastIs
<1>5. v \in {<<"true">>, <<"false">>} \cup Numbers
  BY DEF Admits, TextFlags, SwitchFlags, CountFlags
<1>6. CASE v = <<"true">>
  <2>1. argv[k].value \in {None, <<"true">>}
    BY <1>6
  <2>2. bare(K) = bare(G) \cup {k} /\ reset(K) = reset(G)
    BY <1>2, <2>1
  <2>3. Counted(CountOf(G), v) = CountOf(G) + 1
    BY <1>6 DEF Counted
  <2>4. CASE reset(G) = {}
    BY <1>1, <1>3, <2>2, <2>3, <2>4
  <2>5. CASE reset(G) # {}
    <3>1. last(K) = last(G) /\ last(G) \in G
      BY <1>4, <2>2, <2>5
    <3>2. k > last(G)
      BY <1>2, <3>1
    <3>3. later(K) = later(G) \cup {k}
      BY <2>2, <3>1, <3>2
    <3>4. Cardinality(later(K)) = Cardinality(later(G)) + 1 /\ Cardinality(later(G)) \in Nat
      <4>1. later(G) \in SUBSET G
        OBVIOUS
      <4> HIDE DEF later
      <4> QED
        BY <1>3, <3>3, <4>1, FS_CardinalityType
    <3>5. from(K) = from(G) /\ from(G) \in Nat
      BY <3>1 DEF NumberOf
    <3>6. reset(K) # {}
      BY <2>2, <2>5
    <3> HIDE DEF later, from, reset, bare, last, K
    <3>7. CountOf(K) = Cardinality(later(K)) + from(K)
      BY <1>1, <3>6
    <3>8. CountOf(G) = Cardinality(later(G)) + from(G)
      BY <1>1, <2>5
    <3>9. CountOf(K) = CountOf(G) + 1
      BY <3>4, <3>5, <3>7, <3>8
    <3> QED
      BY <2>3, <3>9 DEF K
  <2> QED
    BY <2>4, <2>5
<1>7. CASE v # <<"true">>
  <2>1. argv[k].value = v /\ argv[k].value \notin {None, <<"true">>}
    BY <1>7 DEF None
  <2>2. bare(K) = bare(G) /\ reset(K) = reset(G) \cup {k}
    BY <1>2, <2>1
  <2>3. last(K) = k
    <3>1. reset(G) \subseteq G
      OBVIOUS
    <3>2. reset(K) \in SUBSET Nat /\ k \in reset(K) /\ \A y \in reset(K) : y <= k
      <4> HIDE DEF reset, k, K
      <4>1. \A y \in reset(K) : y \in G \/ y = k
        BY <2>2, <3>1
      <4>2. \A y \in G \cup {k} : y \in Nat /\ y <= k
        BY <1>2
      <4> QED
        BY <2>2, <4>1, <4>2
    <3> HIDE DEF reset
    <3> QED
      BY <3>2, LastOnly
  <2>4. later(K) = {}
    <3>1. \A i \in bare(G) : i \in G
      OBVIOUS
    <3>2. \A i \in bare(K) : ~(i > last(K))
      <4> HIDE DEF bare, last, k, K
      <4>1. \A i \in G : ~(i > k)
        BY <1>2
      <4> QED
        BY <2>2, <2>3, <3>1, <4>1
    <3> QED
      BY <3>2
  <2>5. Cardinality(later(K)) = 0
    BY <2>4, FS_EmptySet
  <2>6. from(K) = IF v = <<"false">> THEN 0 ELSE NumberOf(v)
    BY <2>1, <2>3
  <2>7. from(K) \in Nat /\ reset(K) # {}
    BY <2>2, <2>6 DEF NumberOf
  <2>8. CountOf(K) = IF v = <<"false">> THEN 0 ELSE NumberOf(v)
    <3> HIDE DEF later, from, reset, bare, last, K, k
    <3> QED
      BY <1>1, <2>5, <2>6, <2>7
  <2> QED
    BY <1>7, <2>8 DEF Counted
<1> QED
  BY <1>6, <1>7

\* A flag's value joins those before it, which all stand before its head.
LEMMA LastGrows ==
    ASSUME NEW n \in Nat, NEW G \in SUBSET (1..n), NEW k \in Nat, n < k, NEW default
    PROVE  LastValue(G \cup {k}, default) = ValueAt(k)
<1>1. LastOf(G \cup {k}) = k
  <2>1. G \cup {k} \in SUBSET Nat /\ \A y \in G \cup {k} : y <= k
    OBVIOUS
  <2> QED
    BY <2>1, LastOnly
<1> QED
  BY <1>1 DEF LastValue

\* The token after a flag that needs one is its value.
LEMMA PendingRead ==
    ASSUME NEW H \in SUBSET DOMAIN argv, AreHeads(H), argv \in Seq(Tokens),
           NEW s, ParserOK(s), s.pos \in 1..Len(argv), s.status = "flags",
           ParsedAs(s, H), s.pending # "none"
    PROVE  LET t == [ParseOne(s, argv[s.pos]) EXCEPT !.pos = @ + 1]
           IN  t.status \in {"flags", "operands"} => ParsedAs(t, H)
<1> DEFINE p == s.pos
           f == s.pending
           v == Text(argv[p])
           t == [ParseOne(s, argv[p]) EXCEPT !.pos = @ + 1]
<1>1. /\ p - 1 \in H /\ TakesNext(argv[p - 1]) /\ argv[p - 1].name = f
      /\ f \in ValueFlags /\ p \in Nat /\ p - 1 \in 1..Len(argv) /\ Len(argv) \in Nat
  <2>1. p - 1 \in H /\ TakesNext(argv[p - 1]) /\ argv[p - 1].name = f
    BY DEF ParsedAs
  <2>2. f \in ValueFlags /\ p \in Nat /\ Len(argv) \in Nat
    BY DEF ParserOK
  <2>3. p - 1 \in 1..Len(argv)
    BY <2>1
  <2> QED
    BY <2>1, <2>2, <2>3
<1>2. p \notin H
  BY <1>1 DEF AreHeads
<1>3. \A fs : Before(H, p + 1, fs) = IF f \in fs THEN Before(H, p - 1, fs) \cup {p - 1}
                                                 ELSE Before(H, p - 1, fs)
  <2>1. \A i \in H : i < p + 1 <=> i < p - 1 \/ i = p - 1
    BY <1>1, <1>2
  <2> QED
    BY <1>1, <2>1 DEF Before
<1>4. CASE Admits(f, v)
  <2>1. ParseOne(s, argv[p]) = [s EXCEPT !.pending = "none", !.values[f] = v]
    BY <1>1, <1>4 DEF ParseOne, SetFlag, CountFlags, ValueFlags, TextFlags
  <2>2. /\ t.pos = p + 1 /\ t.pending = "none" /\ t.status = "flags"
        /\ t.verbosity = s.verbosity /\ t.values = [s.values EXCEPT ![f] = v]
    BY <2>1 DEF ParserOK
  <2>3. Before(H, p + 1, {"operand", "--"}) = {}
    <3>1. Before(H, p, {"operand", "--"}) = {}
      BY DEF ParsedAs
    <3>2. f \notin {"operand", "--"}
      BY <1>1 DEF ValueFlags, TextFlags
    <3>3. Before(H, p - 1, {"operand", "--"}) \subseteq Before(H, p, {"operand", "--"})
      BY <1>1 DEF Before
    <3> QED
      BY <1>3, <3>1, <3>2, <3>3
  <2>4. ASSUME NEW g \in ValueFlags
        PROVE  t.values[g] = LastValue(Before(H, p + 1, {g}), readEnvDefaults(env)[g])
    <3>1. s.values[g] = LastValue(Before(H, p - 1, {g}), readEnvDefaults(env)[g])
      BY <2>4 DEF ParsedAs
    <3>2. CASE g # f
      <4>1. t.values[g] = s.values[g]
        BY <2>2, <2>4, <3>2 DEF ParserOK
      <4>2. Before(H, p + 1, {g}) = Before(H, p - 1, {g})
        BY <1>3, <3>2
      <4> HIDE DEF t, p
      <4> QED
        BY <3>1, <4>1, <4>2
    <3>3. CASE g = f
      <4>1. Before(H, p - 1, {g}) \in SUBSET (1..(p - 2)) /\ p - 2 \in Nat /\ p - 2 < p - 1
        BY <1>1 DEF Before
      <4>2. LastValue(Before(H, p + 1, {g}), readEnvDefaults(env)[g]) = ValueAt(p - 1)
        <5> DEFINE G == Before(H, p - 1, {g})
                   n == p - 2
                   k == p - 1
                   default == readEnvDefaults(env)[g]
        <5>1. k \in Nat
          BY <1>1
        <5>2. G \in SUBSET (1..n) /\ n \in Nat /\ n < k
          BY <4>1
        <5>3. Before(H, p + 1, {g}) = G \cup {k}
          BY <1>3, <3>3
        <5> HIDE DEF G, n, k, default
        <5>4. LastValue(G \cup {k}, default) = ValueAt(k)
          BY <5>1, <5>2, LastGrows
        <5> QED
          BY <5>3, <5>4 DEF k, default
      <4>3. ValueAt(p - 1) = v
        BY <1>1 DEF ValueAt
      <4>4. t.values[f] = v
        BY <1>1, <2>2 DEF ParserOK
      <4> QED
        BY <3>3, <4>2, <4>3, <4>4
    <3> QED
      BY <3>2, <3>3
  <2>5. s.verbosity = CountOf(Before(H, p + 1, CountFlags))
    <3>1. f \notin CountFlags
      BY <1>1 DEF CountFlags, ValueFlags, TextFlags
    <3> QED
      BY <1>3, <3>1 DEF ParsedAs
  <2>6. (p + 1) - 1 = p
    BY <1>1
  <2> HIDE DEF t, p, f, v
  <2>7. ParsedAs(t, H)
    BY <1>2, <2>2, <2>3, <2>4, <2>5, <2>6 DEF ParsedAs
  <2> QED
    BY <2>7 DEF t, p
<1>5. CASE ~Admits(f, v)
  <2>1. ParseOne(s, argv[p]) = [s EXCEPT !.status = "error"]
    BY <1>5 DEF ParseOne, SetFlag
  <2>2. t.status = "error"
    BY <2>1 DEF ParserOK
  <2> QED
    BY <2>2
<1> QED
  BY <1>4, <1>5

\* A head that changes no value and no count.
LEMMA HeadRead ==
    ASSUME NEW H \in SUBSET DOMAIN argv, AreHeads(H), argv \in Seq(Tokens),
           NEW s, ParserOK(s), s.pos \in 1..Len(argv), s.status = "flags",
           ParsedAs(s, H), s.pending = "none"
    PROVE  LET t == [ParseOne(s, argv[s.pos]) EXCEPT !.pos = @ + 1]
           IN  t.status \in {"flags", "operands"} => ParsedAs(t, H)
<1> DEFINE p == s.pos
           tok == argv[p]
           f == tok.name
           t == [ParseOne(s, tok) EXCEPT !.pos = @ + 1]
<1>1. p \in Nat /\ Len(argv) \in Nat /\ p \in DOMAIN argv /\ (p + 1) - 1 = p
  BY DEF ParserOK
<1>2. p \in H
  <2>1. ~(p - 1 \in H /\ TakesNext(argv[p - 1]))
    BY DEF ParsedAs
  <2> QED
    BY <1>1, <2>1 DEF AreHeads
<1>3. \A fs : Before(H, p + 1, fs) = IF f \in fs THEN Before(H, p, fs) \cup {p} ELSE Before(H, p, fs)
  <2>1. \A i \in H : i < p + 1 <=> i < p \/ i = p
    BY <1>1
  <2> QED
    BY <1>1, <1>2, <2>1 DEF Before
<1>4. \A fs : Before(H, p, fs) \in SUBSET (1..(p - 1)) /\ p - 1 \in Nat /\ p - 1 < p /\ (p - 1) + 1 = p
  BY <1>1 DEF Before
<1>5. Before(H, p, {"operand", "--"}) = {}
  BY DEF ParsedAs
<1>6. \A g \in ValueFlags : s.values[g] = LastValue(Before(H, p, {g}), readEnvDefaults(env)[g])
  BY DEF ParsedAs
<1>7. s.verbosity = CountOf(Before(H, p, CountFlags))
  BY DEF ParsedAs
\* What is to show of a parser that goes on with nothing pending.
<1>8. ASSUME NEW vals, NEW n,
             t.pos = p + 1, t.pending = "none", t.status = "flags", t.verbosity = n, t.values = vals,
             f \notin {"operand", "--"}, ~TakesNext(tok),
             \A g \in ValueFlags : vals[g] = LastValue(Before(H, p + 1, {g}), readEnvDefaults(env)[g]),
             n = CountOf(Before(H, p + 1, CountFlags))
      PROVE  ParsedAs(t, H)
  <2>1. Before(H, p + 1, {"operand", "--"}) = {}
    BY <1>3, <1>5, <1>8
  <2> HIDE DEF t, p, f
  <2> QED
    BY <1>1, <1>8, <2>1 DEF ParsedAs
<1>9. CASE f \in {"operand", "--"}
  <2>1. ParseOne(s, tok) = [s EXCEPT !.status = "operands"]
    BY <1>9 DEF ParseOne, AtOperand, ValueFlags, TextFlags, SwitchFlags, CountFlags
  <2>2. /\ t.pos = p + 1 /\ t.pending = "none" /\ t.status = "operands"
        /\ t.verbosity = s.verbosity /\ t.values = s.values
    BY <2>1 DEF ParserOK
  <2>3. Before(H, p + 1, {"operand", "--"}) = {p}
    BY <1>3, <1>5, <1>9
  <2>4. \A g \in ValueFlags : Before(H, p + 1, {g}) = Before(H, p, {g})
    BY <1>3, <1>9 DEF ValueFlags, TextFlags
  <2>5. Before(H, p + 1, CountFlags) = Before(H, p, CountFlags)
    BY <1>3, <1>9 DEF CountFlags
  <2> HIDE DEF t, p, f
  <2>6. ParsedAs(t, H)
    BY <1>1, <1>6, <1>7, <2>2, <2>3, <2>4, <2>5 DEF ParsedAs
  <2> QED
    BY <2>6 DEF t, p
<1>10. CASE f \in SwitchFlags \cup CountFlags
  <2> DEFINE v == IF tok.value = None THEN <<"true">> ELSE tok.value
  <2>1. ParseOne(s, tok) = SetFlag(s, f, v)
    BY <1>10 DEF ParseOne, ValueFlags, TextFlags, SwitchFlags, CountFlags
  <2>2. f \notin {"operand", "--"} /\ f \notin ValueFlags /\ ~TakesNext(tok)
    BY <1>10 DEF TakesNext, ValueFlags, TextFlags, SwitchFlags, CountFlags
  <2>3. \A g \in ValueFlags : Before(H, p + 1, {g}) = Before(H, p, {g})
    BY <1>3, <2>2
  <2>4. CASE ~Admits(f, v)
    <3>1. t.status = "error"
      BY <2>1, <2>4 DEF SetFlag, ParserOK
    <3> QED
      BY <3>1
  <2>5. CASE Admits(f, v) /\ f \in CountFlags
    <3>1. ParseOne(s, tok) = [s EXCEPT !.verbosity = Counted(s.verbosity, v)]
      BY <2>1, <2>5 DEF SetFlag, ParserOK
    <3>2. /\ t.pos = p + 1 /\ t.pending = "none" /\ t.status = "flags"
          /\ t.verbosity = Counted(s.verbosity, v) /\ t.values = s.values
      BY <3>1 DEF ParserOK
    <3>3. Before(H, p + 1, CountFlags) = Before(H, p, CountFlags) \cup {p}
      BY <1>3, <2>5
    <3>4. Admits("v", v)
      BY <2>5 DEF Admits, TextFlags, SwitchFlags, CountFlags
    <3>5. CountOf(Before(H, p + 1, CountFlags)) = Counted(CountOf(Before(H, p, CountFlags)), v)
      <4> DEFINE G == Before(H, p, CountFlags)
                 n == p - 1
      <4>1. G \in SUBSET (1..n) /\ n \in Nat /\ n + 1 = p
        BY <1>4
      <4>2. v = IF argv[n + 1].value = None THEN <<"true">> ELSE argv[n + 1].value
        BY <4>1
      <4> HIDE DEF G, n, v
      <4>3. CountOf(G \cup {n + 1}) = Counted(CountOf(G), v)
        BY <3>4, <4>1, <4>2, CountGrows
      <4> QED
        BY <3>3, <4>1, <4>3 DEF G
    <3> HIDE DEF t, p, f, v, tok
    <3>6. ParsedAs(t, H)
      BY <1>6, <1>7, <1>8, <2>2, <2>3, <3>2, <3>5
    <3> QED
      BY <3>6 DEF t, p, tok
  <2>6. CASE Admits(f, v) /\ f \notin CountFlags
    <3>1. ParseOne(s, tok) = [s EXCEPT !.pending = "none", !.values[f] = v]
      BY <2>1, <2>6 DEF SetFlag
    <3>2. /\ t.pos = p + 1 /\ t.pending = "none" /\ t.status = "flags"
          /\ t.verbosity = s.verbosity /\ t.values = [s.values EXCEPT ![f] = v]
      BY <3>1 DEF ParserOK
    <3>3. \A g \in ValueFlags : t.values[g] = s.values[g]
      BY <2>2, <3>2 DEF ParserOK
    <3>4. Before(H, p + 1, CountFlags) = Before(H, p, CountFlags)
      BY <1>3, <2>6
    <3> HIDE DEF t, p, f, v, tok
    <3>5. \A g \in ValueFlags :
              t.values[g] = LastValue(Before(H, p + 1, {g}), readEnvDefaults(env)[g])
      BY <1>6, <2>3, <3>3
    <3>6. t.verbosity = CountOf(Before(H, p + 1, CountFlags))
      BY <1>7, <3>2, <3>4
    <3>7. ParsedAs(t, H)
      BY <1>8, <2>2, <3>2, <3>5, <3>6
    <3> QED
      BY <3>7 DEF t, p, tok
  <2> QED
    BY <2>4, <2>5, <2>6
<1>11. CASE f \in ValueFlags
  <2>1. f \notin {"operand", "--"} /\ f \notin CountFlags
    BY <1>11 DEF ValueFlags, TextFlags, CountFlags
  <2>2. Before(H, p + 1, CountFlags) = Before(H, p, CountFlags)
    BY <1>3, <2>1
  <2>3. CASE tok.value = None
    <3>1. ParseOne(s, tok) = [s EXCEPT !.pending = f]
      BY <1>11, <2>3 DEF ParseOne, ValueFlags, TextFlags, SwitchFlags, CountFlags
    <3>2. /\ t.pos = p + 1 /\ t.pending = f /\ t.status = "flags" /\ f # "none"
          /\ t.verbosity = s.verbosity /\ t.values = s.values
      BY <1>11, <3>1 DEF ParserOK, ValueFlags, TextFlags
    <3>3. TakesNext(tok)
      BY <1>11, <2>3 DEF TakesNext
    <3>4. Before(H, p + 1, {"operand", "--"}) = {}
      BY <1>3, <1>5, <2>1
    <3> HIDE DEF t, p
    <3>5. ParsedAs(t, H)
      BY <1>1, <1>2, <1>6, <1>7, <3>2, <3>3, <3>4 DEF ParsedAs
    <3> QED
      BY <3>5 DEF t, p
  <2>4. CASE tok.value # None /\ Admits(f, tok.value)
    <3>1. ParseOne(s, tok) = [s EXCEPT !.pending = "none", !.values[f] = tok.value]
      BY <1>11, <2>1, <2>4 DEF ParseOne, SetFlag, ValueFlags, TextFlags, SwitchFlags, CountFlags
    <3>2. /\ t.pos = p + 1 /\ t.pending = "none" /\ t.status = "flags"
          /\ t.verbosity = s.verbosity /\ t.values = [s.values EXCEPT ![f] = tok.value]
      BY <3>1 DEF ParserOK
    <3>3. ~TakesNext(tok)
      BY <2>4 DEF TakesNext
    <3>4. ASSUME NEW g \in ValueFlags
          PROVE  t.values[g] = LastValue(Before(H, p + 1, {g}), readEnvDefaults(env)[g])
      <4>1. CASE g # f
        <5>1. t.values[g] = s.values[g]
          BY <3>2, <3>4, <4>1 DEF ParserOK
        <5>2. Before(H, p + 1, {g}) = Before(H, p, {g})
          BY <1>3, <4>1
        <5> HIDE DEF t, p
        <5> QED
          BY <1>6, <3>4, <5>1, <5>2
      <4>2. CASE g = f
        <5>1. t.values[f] = tok.value
          BY <1>11, <3>2 DEF ParserOK
        <5>2. Before(H, p + 1, {g}) = Before(H, p, {g}) \cup {p}
          BY <1>3, <4>2
        <5>3. LastValue(Before(H, p + 1, {g}), readEnvDefaults(env)[g]) = ValueAt(p)
          <6> DEFINE G == Before(H, p, {g})
                     n == p - 1
                     default == readEnvDefaults(env)[g]
          <6>1. G \in SUBSET (1..n) /\ n \in Nat /\ n < p /\ p \in Nat
            BY <1>1, <1>4
          <6> HIDE DEF G, n, default, p
          <6>2. LastValue(G \cup {p}, default) = ValueAt(p)
            BY <6>1, LastGrows
          <6> QED
            BY <5>2, <6>2 DEF G, default
        <5>4. ValueAt(p) = tok.value
          BY <3>3 DEF ValueAt
        <5> QED
          BY <4>2, <5>1, <5>3, <5>4
      <4> QED
        BY <4>1, <4>2
    <3> HIDE DEF t, p, f, tok
    <3>5. ParsedAs(t, H)
      BY <1>7, <1>8, <2>1, <2>2, <3>2, <3>3, <3>4
    <3> QED
      BY <3>5 DEF t, p, tok
  <2>5. CASE tok.value # None /\ ~Admits(f, tok.value)
    <3>1. ParseOne(s, tok) = [s EXCEPT !.status = "error"]
      BY <1>11, <2>5 DEF ParseOne, SetFlag, ValueFlags, TextFlags, SwitchFlags, CountFlags
    <3>2. t.status = "error"
      BY <3>1 DEF ParserOK
    <3> QED
      BY <3>2
  <2> QED
    BY <2>3, <2>4, <2>5
<1>12. CASE f \notin {"operand", "--"} \cup SwitchFlags \cup CountFlags \cup ValueFlags
  <2>1. \E st \in {"help", "error"} : ParseOne(s, tok) = [s EXCEPT !.status = st]
    BY <1>12 DEF ParseOne
  <2>2. t.status \in {"help", "error"}
    BY <2>1 DEF ParserOK
  <2> QED
    BY <2>2
<1> QED
  BY <1>9, <1>10, <1>11, <1>12

\* A token keeps what is read a reading of the command line so far.
LEMMA TokenKeeps == TypeOK /\ ParseInv /\ ReadToken => ParseInv'
<1> SUFFICES ASSUME TypeOK, ParseInv, ReadToken PROVE ParseInv'
  OBVIOUS
<1> DEFINE s == parser
           t == [ParseOne(s, argv[s.pos]) EXCEPT !.pos = @ + 1]
<1>1. /\ UNCHANGED <<argv, env, tty>> /\ parser' = t /\ pc = "parse" /\ pc' = "parse"
      /\ s.status = "flags" /\ s.pos <= Len(argv) /\ argv \in Seq(Tokens)
      /\ ParserOK(s) /\ s.pos \in 1..Len(argv) + 1
  BY DEF ReadToken, inputs, TypeOK, ParseInv
<1>2. s.pos \in 1..Len(argv) /\ s.pos + 1 \in 1..Len(argv) + 1
  <2>1. s.pos \in Nat /\ Len(argv) \in Nat
    BY <1>1
  <2> HIDE DEF s
  <2> QED
    BY <1>1, <2>1
<1>3. t.pos = s.pos + 1
  <2>1. ParserOK(ParseOne(s, argv[s.pos]))
    BY <1>1, ParseOneTyped
  <2>2. ParseOne(s, argv[s.pos]).pos = s.pos
    BY <1>1 DEF ParseOne, SetFlag, AtOperand, ParserOK
  <2> QED
    BY <2>1, <2>2 DEF ParserOK
<1>4. ASSUME t.status \in {"flags", "operands"},
             NEW H \in SUBSET DOMAIN argv, AreHeads(H)
      PROVE  ParsedAs(t, H)
  <2>1. ParsedAs(s, H)
    BY <1>1, <1>4 DEF ParseInv
  <2>2. CASE s.pending = "none"
    BY <1>1, <1>2, <1>4, <2>1, <2>2, HeadRead
  <2>3. CASE s.pending # "none"
    BY <1>1, <1>2, <1>4, <2>1, <2>3, PendingRead
  <2> QED
    BY <2>2, <2>3
<1> HIDE DEF t, s
<1>5. \A H : AreHeads(H)' <=> AreHeads(H)
  BY <1>1 DEF AreHeads
<1>6. ASSUME NEW H, ParsedAs(t, H)
      PROVE  ParsedAs(parser, H)'
  <2>1. argv' = argv /\ env' = env
    BY <1>1
  <2>2. ParsedAs(parser', H)
    BY <1>1, <1>6
  <2>3. \A G : CountOf(G)' = CountOf(G)
    BY <2>1 DEF CountOf
  <2>4. \A G, default : LastValue(G, default)' = LastValue(G, default)
    BY <2>1 DEF LastValue, ValueAt
  <2>5. \A n, fs : Before(H, n, fs)' = Before(H, n, fs)
    BY <2>1 DEF Before
  <2> QED
    BY <2>1, <2>2, <2>3, <2>4, <2>5 DEF ParsedAs
<1>7. (parser.status \in {"flags", "operands"} =>
          /\ parser.pos \in 1..Len(argv) + 1
          /\ \A H \in SUBSET DOMAIN argv : AreHeads(H) => ParsedAs(parser, H))'
  BY <1>1, <1>2, <1>3, <1>4, <1>5, <1>6
<1> QED
  BY <1>1, <1>7 DEF ParseInv

\* So do the steps that read no token; what is read is forgotten once the
\* handler is installed.
LEMMA ParseKept == TypeOK /\ ParseInv /\ [Next]_vars => ParseInv'
<1> SUFFICES ASSUME TypeOK, ParseInv, [Next]_vars PROVE ParseInv'
  OBVIOUS
<1>1. CASE ReadToken
  BY <1>1, TokenKeeps
<1>2. CASE AcceptFlags
  <2>1. /\ UNCHANGED <<argv, env, tty, parser>> /\ pc = "parse" /\ pc' = "notify"
        /\ parser.status # "flags" \/ parser.pos > Len(argv)
        /\ Outcome(parser, tty) = "run" /\ opts' = Options(parser, tty)
    BY <1>2 DEF AcceptFlags, AllRead, argVars, inputs
  <2>2. Outcome(parser, tty)' = Outcome(parser, tty) /\ Options(parser, tty)' = Options(parser, tty)
    BY <2>1
  <2>3. \A H : /\ AreHeads(H)' <=> AreHeads(H)
               /\ ParsedAs(parser, H)' <=> ParsedAs(parser, H)
    BY <2>1 DEF AreHeads, ParsedAs, Before, LastValue, CountOf, ValueAt
  <2> QED
    BY <2>1, <2>2, <2>3 DEF ParseInv
<1>3. CASE InstallHandler
  <2>1. argv' = <<>> /\ pc' = "os"
    BY <1>3 DEF InstallHandler, NoArgs
  <2>2. argv' \in Seq(Tokens)
    BY <2>1
  <2> QED
    BY <2>1, <2>2 DEF ParseInv
<1>4. CASE UNCHANGED vars
  <2>1. UNCHANGED <<argv, env, tty, parser, pc, opts>>
    BY <1>4 DEF vars, argVars, inputs
  <2>2. \A H : /\ AreHeads(H)' <=> AreHeads(H)
               /\ ParsedAs(parser, H)' <=> ParsedAs(parser, H)
    BY <2>1 DEF AreHeads, ParsedAs, Before, LastValue, CountOf, ValueAt
  <2> QED
    BY <2>1, <2>2 DEF ParseInv
<1>5. CASE ~(ReadToken \/ AcceptFlags \/ InstallHandler \/ UNCHANGED vars)
  <2>1. UNCHANGED argv /\ pc' \notin {"parse", "notify"}
    BY <1>5 DEF Next, MainStep, StopAtFlags, GatherOSRelease, GatherKernel, GatherArch, Gather,
         GatherFails, Filter, Return, RunReturns, OpenOutput, OpenFails, Render, RenderFails, Verdict,
         CloseOutput, Leave, CheckSettles, RunnerCloses, Running, Signal, HandlerInstalled, Kill,
         BrokenPipe, argVars, inputs
  <2> QED
    BY <2>1 DEF ParseInv
<1> QED
  BY <1>1, <1>2, <1>3, <1>4, <1>5

LEMMA InitParse == Init => ParseInv
<1> SUFFICES ASSUME Init PROVE ParseInv
  OBVIOUS
<1>1. /\ argv \in Seq(Tokens) /\ pc = "parse" /\ parser = NewParser(env) /\ Len(argv) \in Nat
  BY CommandLinesAssumption DEF Init
<1>2. /\ parser.status = "flags" /\ parser.pending = "none" /\ parser.pos = 1
      /\ parser.values = readEnvDefaults(env) /\ parser.verbosity = 0
  BY <1>1 DEF NewParser
<1>3. 1 \in 1..Len(argv) + 1
  BY <1>1
<1>4. ASSUME NEW H \in SUBSET DOMAIN argv
      PROVE  ParsedAs(parser, H)
  <2>1. \A i \in H : i \in Nat /\ ~(i < 1) /\ i # 0
    BY <1>1
  <2>2. \A fs : Before(H, 1, fs) = {}
    BY <2>1 DEF Before
  <2>3. CountOf({}) = 0
    BY FS_EmptySet DEF CountOf
  <2>4. 1 - 1 \notin H
    BY <2>1
  <2> QED
    BY <1>2, <2>2, <2>3, <2>4 DEF ParsedAs, LastValue
<1> QED
  BY <1>1, <1>2, <1>3, <1>4 DEF ParseInv
-----------------------------------------------------------------------------
(***************************************************************************)
(* The theorems.                                                           *)
(***************************************************************************)

\* The inductive invariant of main and run: every slot belongs to its check,
\* an abandoned one tells of a signal, the destination is untouched until the
\* Runner returns, and a code is chosen once, after the report is written.
THEOREM Invariance == Spec => []IInv
<1>1. Init => IInv
  BY InitInv, InitParse DEF CoreInv, IInv
<1>2. IInv /\ [Next]_vars => IInv'
  <2>1. IInv <=> CoreInv /\ ParseInv
    BY DEF IInv, CoreInv
  <2>2. IInv' <=> CoreInv' /\ ParseInv'
    BY DEF IInv, CoreInv
  <2> QED
    BY <2>1, <2>2, StepInv, ParseKept DEF CoreInv
<1> QED
  BY <1>1, <1>2, PTL DEF Spec

\* The slots of a published report are settled.
LEMMA PublishedSettled == IInv /\ phase = "published" => Settled(slots, total)
BY DEF IInv, TypeOK, RunInv, Settled

\* The exit code, the report and the document agree, for any checks, command
\* line, environment and os-release: computeExit, the Summary it reads and
\* the renderers all tell of the worst result.
THEOREM VerdictTrue == Spec => []VerdictMatchesReport
<1>1. IInv => VerdictMatchesReport
  <2> SUFFICES ASSUME IInv, HostVerdict PROVE VerdictMatchesReport
    BY DEF VerdictMatchesReport
  <2>1. /\ phase = "published" /\ summary = NewSummary(slots) /\ Settled(slots, total)
        /\ code = computeExit(summary) /\ Written /\ opts.format \in Formats
    BY PublishedSettled DEF HostVerdict, IInv, TypeOK, RunInv, ExitInv
  <2>2. \A st : (\E i \in 1..total : slots[i].state = st) <=> Has(slots, st)
    BY <2>1 DEF Settled, Has
  <2>3. /\ code \in VerdictCodes
        /\ code = exitMitigationGap <=> Has(slots, "fail")
        /\ code = exitCheckError <=> Has(slots, "error") /\ ~Has(slots, "fail")
    BY <2>1, ExitIsTheWorst
  <2>4. /\ GapTold(opts.format, slots, summary) <=> Has(slots, "fail")
        /\ TroubleTold(opts.format, slots, summary) <=> Has(slots, "fail") \/ Has(slots, "error")
    BY <2>1, TroubleIsTold
  <2>5. code # exitOK <=> Has(slots, "fail") \/ Has(slots, "error")
    BY <2>3 DEF VerdictCodes, exitOK, exitMitigationGap, exitCheckError
  <2>6. QED
    BY <2>1, <2>2, <2>3, <2>4, <2>5 DEF VerdictMatchesReport
<1>2. QED
  BY <1>1, Invariance, PTL

\* A run cut short by a signal gives no pass, gap or check error: the verdict
\* comes after the last look at the context, and an abandoned check before it.
THEOREM CancelledRunIsSilent == Spec => []NoVerdictFromCancelledRun
<1>1. IInv => NoVerdictFromCancelledRun
  BY DEF IInv, ExitInv, IsAbandoned, HostVerdict, NoVerdictFromCancelledRun
<1>2. QED
  BY <1>1, Invariance, PTL

\* A run that ends with a verdict or by a signal has written a document that
\* gives each check the one state of its result, whatever the format.
THEOREM DocumentComplete == Spec => []DocumentTellsEveryCheck
<1>1. IInv => DocumentTellsEveryCheck
  <2> SUFFICES ASSUME IInv, HostVerdict \/ (pc = "exited" /\ code = exitTerminated)
               PROVE  DocumentTellsEveryCheck
    BY DEF DocumentTellsEveryCheck
  <2>1. phase = "published" /\ Written /\ opts.format \in Formats
    BY DEF HostVerdict, IInv, TypeOK, ExitInv
  <2>2. Settled(slots, total)
    BY <2>1, PublishedSettled
  <2>3. \A i \in 1..total : StatesTold(opts.format, slots, summary, i) = {slots[i].state}
    BY <2>1, <2>2, DocumentsTell
  <2>4. QED
    BY <2>1, <2>3 DEF DocumentTellsEveryCheck
<1>2. QED
  BY <1>1, Invariance, PTL

\* The host fields are what the author of os-release meant: the value of the
\* last well-formed line, whatever its quotes and escapes.
THEOREM HostIsWhatWasMeant == Spec => []HostIsAsWritten
<1>1. IInv => HostIsAsWritten
  <2> SUFFICES ASSUME IInv, host.os PROVE osFields = [k \in DOMAIN NoFields |-> Meant(osFile.lines, k)]
    BY DEF HostIsAsWritten
  <2> DEFINE f == osFile.lines
  <2>1. f \in OSReleaseFiles \cup {<<>>}
    BY DEF IInv, TypeOK, OSFileOK, NoFile, File
  <2>2. f \in Seq(ToSet(f)) /\ \A i \in DOMAIN f : AsWritten(f[i])
    <3>1. CASE f \in OSReleaseFiles
      BY <3>1, OSReleaseFilesAssumption
    <3>2. CASE f = <<>>
      BY <3>2
    <3> QED
      BY <2>1, <3>1, <3>2
  <2>3. osFields = ParseOSRelease(f)
    BY DEF osFields
  <2> HIDE DEF f
  <2>4. ParseOSRelease(f) = [k \in DOMAIN NoFields |-> Meant(f, k)]
    BY <2>2, FileIsAsWritten
  <2> QED
    BY <2>3, <2>4 DEF f
<1> QED
  BY <1>1, Invariance, PTL

\* No step of main, no signal and no failure touches an old report before the
\* Runner has returned with the summary of the new one.
THEOREM OldReportSafe == Spec => OldReportKeptUntilReady
<1> DEFINE Ready == output' # output => phase = "published" /\ summary = NewSummary(slots)
<1>1. IInv /\ [Next]_vars => [Ready]_vars
  <2> SUFFICES ASSUME IInv, Next, output' # output PROVE Ready
    BY DEF vars
  <2>1. OpenOutput \/ Render \/ RenderFails \/ CloseOutput \/ BrokenPipe
    BY DEF Next, MainStep, ReadToken, StopAtFlags, AcceptFlags, InstallHandler, GatherOSRelease,
           GatherKernel, GatherArch, Gather, GatherFails, Filter, RunReturns, OpenFails, Verdict,
           Leave, CheckSettles, RunnerCloses, Running, Signal, Kill, vars
  <2>2. pc \in {"open", "render"} \/ output = "complete"
    BY <2>1 DEF OpenOutput, Render, RenderFails, CloseOutput, BrokenPipe
  <2>3. QED
    BY <2>2 DEF IInv, RunInv
<1>2. QED
  BY <1>1, Invariance, PTL DEF Spec, OldReportKeptUntilReady

\* The flags of a command line that was accepted are those before its first
\* operand, each with its value.
LEMMA GivenAre ==
    ASSUME IInv, pc = "notify", NEW H \in SUBSET DOMAIN argv, AreHeads(H),
           NEW fs, fs \cap {"operand", "--"} = {}
    PROVE  ParsedAs(parser, H) /\ parser.pending = "none"
           /\ Before(H, parser.pos, fs) = Given(H, fs)
<1> DEFINE p == parser.pos
           ends == Before(H, p, {"operand", "--"})
<1>1. /\ Outcome(parser, tty) = "run" /\ ParserOK(parser) /\ argv \in Seq(Tokens)
      /\ parser.status = "flags" => p > Len(argv)
  BY DEF IInv, ParseInv, TypeOK
<1>2. parser.status \in {"flags", "operands"} /\ (parser.status = "flags" => parser.pending = "none")
  BY <1>1 DEF Outcome, isHelpOrVersionExit, UsageError, Malformed, ParserOK
<1>3. ParsedAs(parser, H) /\ p \in 1..Len(argv) + 1
  BY <1>2 DEF IInv, ParseInv
<1>4. parser.pending = "none"
  BY <1>2, <1>3 DEF ParsedAs
<1>5. Len(argv) \in Nat /\ p \in Nat /\ \A i \in H : i \in 1..Len(argv)
  BY <1>1, <1>3
<1> HIDE DEF p
<1>6. CASE parser.status = "flags"
  <2>1. ends = {}
    BY <1>3, <1>6 DEF ParsedAs, p
  <2>2. \A i \in H : i < p
    BY <1>1, <1>5, <1>6
  <2>3. \A i \in H : argv[i].name \notin {"operand", "--"}
    BY <2>1, <2>2 DEF Before
  <2> QED
    BY <1>3, <1>4, <2>2, <2>3 DEF Before, Given, p
<1>7. CASE parser.status = "operands"
  <2>1. ends = {p - 1}
    BY <1>3, <1>7 DEF ParsedAs, p
  <2>2. p - 1 \in H /\ argv[p - 1].name \in {"operand", "--"}
    BY <2>1 DEF Before
  <2>3. \A i \in H : i < p - 1 => argv[i].name \notin {"operand", "--"}
    <3>1. ASSUME NEW i \in H, i < p - 1, argv[i].name \in {"operand", "--"}
          PROVE  FALSE
      <4>1. i \in ends /\ i # p - 1
        BY <1>5, <3>1 DEF Before
      <4> QED
        BY <2>1, <4>1
    <3> QED
      BY <3>1
  <2>4. \A i \in H : /\ i < p <=> i < p - 1 \/ i = p - 1
                     /\ i < p \/ p - 1 < i
    BY <1>5
  <2>5. ASSUME NEW i \in H, argv[i].name \in fs, i < p
        PROVE  \A j \in H : j < i => argv[j].name \notin {"operand", "--"}
    BY <1>5, <2>3, <2>4, <2>5
  <2>6. ASSUME NEW i \in H, \A j \in H : j < i => argv[j].name \notin {"operand", "--"}
        PROVE  i < p
    BY <2>2, <2>4, <2>6
  <2>7. Before(H, p, fs) = Given(H, fs)
    BY <2>5, <2>6 DEF Before, Given
  <2> QED
    BY <1>3, <1>4, <2>7 DEF p
<1> QED
  BY <1>2, <1>6, <1>7

\* Every option that run gets is the last one given, for any command line and
\* environment: FlagSet.Parse goes by position, and takes the token after a
\* flag without a value for its value, whatever it looks like.
THEOREM OptionsGiven == Spec => []OptionsAreTheLastGiven
<1>1. IInv => OptionsAreTheLastGiven
  <2> SUFFICES ASSUME IInv, pc = "notify" PROVE OptionsAreTheLastGiven
    BY DEF OptionsAreTheLastGiven
  <2>1. PICK H \in SUBSET DOMAIN argv : AreHeads(H)
    BY HeadsExist DEF IInv, ParseInv
  <2> DEFINE value(f, default) == LastValue(Given(H, {f}), default)
             d == readEnvDefaults(env)
  <2>2. \A f \in ValueFlags : parser.values[f] = value(f, d[f])
    <3> SUFFICES ASSUME NEW f \in ValueFlags PROVE parser.values[f] = value(f, d[f])
      OBVIOUS
    <3>1. {f} \cap {"operand", "--"} = {}
      BY DEF ValueFlags, TextFlags
    <3>2. /\ ParsedAs(parser, H) /\ parser.pending = "none"
          /\ Before(H, parser.pos, {f}) = Given(H, {f})
      BY <2>1, <3>1, GivenAre
    <3> QED
      BY <3>2 DEF ParsedAs
  <2>3. parser.verbosity = CountOf(Given(H, CountFlags))
    <3>1. CountFlags \cap {"operand", "--"} = {}
      BY DEF CountFlags
    <3>2. /\ ParsedAs(parser, H) /\ parser.pending = "none"
          /\ Before(H, parser.pos, CountFlags) = Given(H, CountFlags)
      BY <2>1, <3>1, GivenAre
    <3> QED
      BY <3>2 DEF ParsedAs
  <2>4. /\ d["format"] = env.format /\ d["output"] = <<"-">>
        /\ d["module"] = OrDefault(env.module, <<"algif_aead">>)
        /\ d["timeout"] = IF env.timeout \in Durations THEN env.timeout ELSE <<"30s">>
        /\ d["only"] = Empty /\ d["skip"] = Empty
    BY DEF readEnvDefaults, OrDefault, Admits, ValueFlags, TextFlags, SwitchFlags, CountFlags
  <2>5. {"format", "output", "module", "timeout", "only", "skip"} \subseteq ValueFlags
    BY DEF ValueFlags, TextFlags
  <2> HIDE DEF d, value
  <2>6. /\ parser.values["format"] = value("format", env.format)
        /\ parser.values["output"] = value("output", <<"-">>)
        /\ parser.values["module"] = value("module", OrDefault(env.module, <<"algif_aead">>))
        /\ parser.values["timeout"] = value("timeout", IF env.timeout \in Durations
                                                      THEN env.timeout ELSE <<"30s">>)
        /\ parser.values["only"] = value("only", Empty)
        /\ parser.values["skip"] = value("skip", Empty)
    BY <2>2, <2>4, <2>5
  <2>7. opts = Options(parser, tty) /\ Outcome(parser, tty) = "run"
    BY DEF IInv, ParseInv
  <2>8. /\ opts.output = parser.values["output"] /\ opts.module = parser.values["module"]
        /\ opts.timeout = parser.values["timeout"] /\ opts.verbosity = parser.verbosity
        /\ opts.only = ToSet(parser.values["only"]) \ {"", " "}
        /\ opts.skip = ToSet(parser.values["skip"]) \ {"", " "}
    BY <2>7 DEF Options, Items, Blanks
  <2>9. opts.format = IF parser.values["format"] # Empty THEN parser.values["format"][1]
                      ELSE IF tty THEN "human" ELSE "json"
    <3>1. FormatOf(parser.values["format"], tty) # "unknown"
      BY <2>7 DEF Outcome, UsageError, Malformed, Options
    <3>2. opts.format = FormatOf(parser.values["format"], tty)
      BY <2>7 DEF Options
    <3> QED
      BY <3>1, <3>2 DEF FormatOf, autoDetectFormat
  <2> QED
    BY <2>1, <2>3, <2>6, <2>8, <2>9 DEF OptionsAreTheLastGiven, value
<1>2. QED
  BY <1>1, Invariance, PTL
=============================================================================
