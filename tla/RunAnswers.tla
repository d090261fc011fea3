----------------------------- MODULE RunAnswers -----------------------------
(***************************************************************************)
(* What a caller of exec.Runner may be told: the error, as the set of      *)
(* sentinels that errors.Is finds in it, and the exit status.              *)
(***************************************************************************)
EXTENDS Integers

\* The ends of a child.
Ends == {"exit 0", "exit 1", "killed"}

\* ProcessState.ExitCode(), or -1 where there is none.
ExitCodeOf(end) ==
    CASE end = "exit 0" -> 0
      [] end = "exit 1" -> 1
      [] OTHER -> -1

\* The errors of a call that ran no child.
NoChildErrs(ctxErr) ==
    {{"denied"}, {"not found"}, {"invalid arg"}}
    \cup CASE ctxErr = "deadline" -> {{"timeout"}}
           [] ctxErr = "canceled" -> {{"context"}, {"start"}}
           [] ctxErr = "none" -> {{"start"}}

\* The errors of a call whose child ended as end, cut saying whether its
\* output went over the cap.  A deadline is reported alone, even where the
\* child had answered.
ChildErrs(end, ctxErr, cut) ==
    IF ctxErr = "deadline" THEN {{"timeout"}}
    ELSE LET truncation == IF cut THEN {"truncated"} ELSE {}
             ending == IF end # "exit 0" THEN {{"exit"}}
                       ELSE {{}} \cup {{"context"} : c \in {ctxErr} \cap {"canceled"}}
         IN  {e \cup truncation : e \in ending}
=============================================================================
