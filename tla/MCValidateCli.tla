--------------------------- MODULE MCValidateCli ---------------------------
(***************************************************************************)
(* Bounded inputs for ValidateCli: short command lines over the tokens     *)
(* that parse in different ways, and os-release files of short lines over  *)
(* the characters that quoting treats in different ways.                   *)
(***************************************************************************)
EXTENDS ValidateCli

MCCheckNames == <<"c1", "c2">>

\* Tokens that select: filters, in all the shapes of a list, and formats.
SelectTokens ==
    {Flag("only", <<"c1">>), Flag("only", <<"c1", "c2">>), Flag("only", <<"other">>),
     Flag("only", Empty), Flag("only", <<"", " ">>), Flag("only", None),
     Flag("skip", <<"c2">>), Flag("skip", None),
     Flag("format", <<"sarif">>), Flag("format", Empty)}

\* Tokens that steer the parser, and flags of each kind of value.
OtherTokens ==
    {Flag("format", <<"prometheus">>), Flag("format", <<"yaml">>),
     Flag("output", <<"report">>), Flag("timeout", <<"5s">>), Flag("timeout", None),
     Flag("module", None), Flag("v", None), Flag("v", <<"2">>), Flag("v", <<"false">>),
     Flag("vv", None), Flag("version", None), Flag("help", None),
     Operand(<<"c1">>), Operand(<<"-">>), Terminator}

MCCommandLines ==
    BoundedSeq(SelectTokens \cup OtherTokens, 2)
    \cup {<<s>> \o tail : s \in OtherTokens, tail \in TupleOf(SelectTokens, 2)}

\* The lines the run of the comment in flags.go needs.
FilterLines == BoundedSeq(SelectTokens, 2)

MCEnvironments ==
    {NoEnv, [NoEnv EXCEPT !.format = <<"human">>, !.timeout = <<"soon">>],
     [NoEnv EXCEPT !.format = <<"xml">>, !.module = <<"algif_hash">>, !.timeout = <<"5s">>]}

PlainEnvironment == {NoEnv}

MCLines ==
    {Assignment("ID", "plain", <<"a">>), Assignment("ID", "padded", <<"a", SP, "n">>),
     Assignment("ID", "open", <<"a">>), Assignment("ID", "single", <<"a", BS, DQ>>),
     Assignment("VERSION_ID", "double", <<>>), Assignment("NAME", "plain", <<"n">>),
     Assignment("#ID", "plain", <<"n">>)}
    \cup {Assignment("ID", "double", v) : v \in TupleOf({"n", BS, DQ, SQ}, 2)}

MCOSReleaseFiles == BoundedSeq(MCLines, 1) \cup
    {<<a, b>> : a \in {Assignment("ID", "double", <<BS, DQ>>), Assignment("VERSION_ID", "plain", <<"2">>)},
                b \in MCLines}

NoLines == {}
=============================================================================
