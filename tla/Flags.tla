------------------------------- MODULE Flags -------------------------------
(***************************************************************************)
(* The command line of copyfail-validate: parseFlags over package flag,    *)
(* whose reading of argv is external.  A text is the sequence of its       *)
(* comma-separated fragments, so <<"">> is the empty text and <<"", "">> a *)
(* lone comma.                                                             *)
(***************************************************************************)
EXTENDS Integers, SequencesExt

Empty == <<"">>
Formats == {"human", "json", "sarif", "prometheus"}
Durations == {<<"5s">>, <<"30s">>}
Numbers == {<<"0">>, <<"2">>}
NumberOf(v) == IF v = <<"2">> THEN 2 ELSE 0

TextFlags == {"format", "output", "module", "conf", "skip", "only"}
ValueFlags == TextFlags \cup {"timeout", "concurrency"}
SwitchFlags == {"no-color", "version"}
CountFlags == {"v", "verbose"}

\* What flag f accepts as its value.
Admits(f, v) ==
    CASE f \in TextFlags -> TRUE
      [] f = "timeout" -> v \in Durations
      [] f = "concurrency" -> v \in Numbers
      [] f \in SwitchFlags -> v \in {<<"true">>, <<"false">>}
      [] f \in CountFlags -> v \in {<<"true">>, <<"false">>} \cup Numbers

(***************************************************************************)
(* A token is a flag, with its "=value" or with none; an operand, whose    *)
(* value is its text; or the terminator "--".                              *)
(***************************************************************************)
None == <<>>
Tokens == [name : STRING, value : Seq(STRING)]
Flag(f, v) == [name |-> f, value |-> v]
Operand(v) == [name |-> "operand", value |-> v]
Terminator == [name |-> "--", value |-> None]

\* A flag token taken for a value keeps what follows its first comma.
Text(tok) == IF tok.name = "operand" THEN tok.value
             ELSE <<"dashed">> \o (IF tok.value = None THEN <<>> ELSE Tail(tok.value))

\* The zero configuration of the flags, from the environment.
readEnvDefaults(env) ==
    [f \in ValueFlags \cup SwitchFlags |->
        CASE f = "format" -> env.format
          [] f = "module" -> IF env.module = Empty THEN <<"algif_aead">> ELSE env.module
          [] f = "conf" -> IF env.conf = Empty THEN <<"disable-algif-aead.conf">> ELSE env.conf
          [] f = "timeout" -> IF Admits("timeout", env.timeout) THEN env.timeout ELSE <<"30s">>
          [] f = "output" -> <<"-">>
          [] f = "concurrency" -> <<"0">>
          [] f \in {"skip", "only"} -> Empty
          [] f \in SwitchFlags -> <<"false">>]

(***************************************************************************)
(* FlagSet.Parse, token by token.  "pending" is the flag that takes the    *)
(* next token as its value, whatever that is.                              *)
(***************************************************************************)
\* Faulty: every occurrence counts, whatever its value.
CountEvery(n, v) == n + 1

\* verbosityCount.Set: a bare -v counts, a number replaces the count.
Counted(n, v) == CASE v = <<"true">> -> n + 1
                   [] v = <<"false">> -> 0
                   [] OTHER -> NumberOf(v)

SetFlag(s, f, v) ==
    IF ~Admits(f, v) THEN [s EXCEPT !.status = "error"]
    ELSE IF f \in CountFlags THEN [s EXCEPT !.verbosity = Counted(@, v)]
    ELSE [s EXCEPT !.pending = "none", !.values[f] = v]

\* The first operand ends the flags; what follows it is ignored.
AtOperand(s) == [s EXCEPT !.status = "operands"]

ParseOne(s, tok) ==
    IF s.pending # "none" THEN SetFlag(s, s.pending, Text(tok)) ELSE
    CASE tok.name \in {"operand", "--"} -> AtOperand(s)
      [] tok.name \in {"h", "help"} -> [s EXCEPT !.status = "help"]
      [] tok.name \in SwitchFlags \cup CountFlags ->
            SetFlag(s, tok.name, IF tok.value = None THEN <<"true">> ELSE tok.value)
      [] tok.name \in ValueFlags ->
            IF tok.value = None THEN [s EXCEPT !.pending = tok.name]
            ELSE SetFlag(s, tok.name, tok.value)
      [] OTHER -> [s EXCEPT !.status = "error"]

NewParser(env) == [status |-> "flags", pending |-> "none", pos |-> 1,
                   values |-> readEnvDefaults(env), verbosity |-> 0]

(***************************************************************************)
(* What parseFlags makes of the values.                                    *)
(***************************************************************************)
Blanks == {"", " "}
Items(v) == ToSet(v) \ Blanks

\* parseCSVFilter fails for a text that has fragments and no item.
EmptyFilter(v) == v # Empty /\ Items(v) = {}

autoDetectFormat(tty) == IF tty THEN "human" ELSE "json"
FormatOf(v, tty) == IF v = Empty THEN autoDetectFormat(tty)
                    ELSE IF v \in {<<f>> : f \in Formats} THEN v[1]
                    ELSE "unknown"

Options(s, tty) ==
    [format |-> FormatOf(s.values["format"], tty),
     output |-> s.values["output"], timeout |-> s.values["timeout"],
     concurrency |-> s.values["concurrency"],
     module |-> s.values["module"], conf |-> s.values["conf"],
     only |-> Items(s.values["only"]), skip |-> Items(s.values["skip"]),
     noColor |-> s.values["no-color"] = <<"true">>,
     verbosity |-> s.verbosity]

\* help and version come out of the parser as errors; main tells them from
\* the usage errors.
isHelpOrVersionExit(s) ==
    \/ s.status = "help"
    \/ s.status # "error" /\ s.pending = "none" /\ s.values["version"] = <<"true">>

Malformed(s, tty) ==
    \/ s.status = "error"
    \/ s.status = "flags" /\ s.pending # "none"
    \/ Options(s, tty).format = "unknown"
    \/ EmptyFilter(s.values["only"]) \/ EmptyFilter(s.values["skip"])

\* --only and --skip together make no sense.
Conflict(o) == o.only # {} /\ o.skip # {}
UsageError(s, tty) == Malformed(s, tty) \/ Conflict(Options(s, tty))

Outcome(s, tty) == IF isHelpOrVersionExit(s) THEN "help"
                   ELSE IF UsageError(s, tty) THEN "usage" ELSE "run"
=============================================================================
