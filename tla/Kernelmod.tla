----------------------------- MODULE Kernelmod -----------------------------
(***************************************************************************)
(* The pure functions of internal/kernelmod over modprobe.d files.  A line *)
(* is what is left of it after comment stripping and strings.Fields: its   *)
(* words, and whether a backslash continues it.                            *)
(***************************************************************************)
EXTENDS Naturals, SequencesExt

confDirectiveMinFields == 2

IsBlank(line) == line.words = <<>> /\ ~line.cont

\* The loop variables of ParseConfReader before the first line.
Scanner == [pending |-> <<>>, pendingStart |-> 0, lineNum |-> 0,
            directives |-> <<>>, malformed |-> FALSE]

\* Flush the pending block through parseConfDirectiveLine.
Flush(sc) ==
    IF Len(sc.pending) < confDirectiveMinFields
    THEN [sc EXCEPT !.malformed = TRUE]
    ELSE [sc EXCEPT !.pending = <<>>,
                    !.directives = Append(@,
                        [kind   |-> sc.pending[1],
                         module |-> sc.pending[2],
                         args   |-> SubSeq(sc.pending, 3, Len(sc.pending)),
                         line   |-> sc.pendingStart])]

\* Take a line into the pending block.  The block starts anew as long as it
\* has no content, so a line that is only a backslash starts none.
Gathered(sc, line) ==
    [sc EXCEPT !.lineNum = @ + 1,
               !.pendingStart = IF sc.pending = <<>> THEN sc.lineNum + 1 ELSE @,
               !.pending = @ \o line.words]

\* Faulty: a blank line ends the block it interrupts.
ScanLineBlankFlushes(sc, line) ==
    IF sc.malformed THEN sc
    ELSE IF IsBlank(line) /\ sc.pending = <<>> THEN [sc EXCEPT !.lineNum = @ + 1]
    ELSE IF line.cont THEN Gathered(sc, line)
    ELSE Flush(Gathered(sc, line))

\* One round of the scanner loop; a malformed directive has ended it.
ScanLine(sc, line) ==
    IF sc.malformed THEN sc
    ELSE IF IsBlank(line) THEN [sc EXCEPT !.lineNum = @ + 1]
    ELSE IF line.cont THEN Gathered(sc, line)
    ELSE Flush(Gathered(sc, line))

\* ParseConfReader: the directives before the first malformed one, with a
\* trailing continuation parsed for what it holds.
ParseConfReader(lines) ==
    LET scanned[n \in 0..Len(lines)] ==
            IF n = 0 THEN Scanner ELSE ScanLine(scanned[n - 1], lines[n])
        end == scanned[Len(lines)]
    IN  IF end.malformed \/ end.pending = <<>> THEN end ELSE Flush(end)

\* The positions of the install directives for a module.
Installs(directives, module) ==
    {i \in DOMAIN directives : /\ directives[i].kind = "install"
                               /\ directives[i].module = module}

NoTarget == <<"no install directive">>

\* Faulty: the first install directive wins.
FirstInstallTarget(directives, module) ==
    IF Installs(directives, module) = {} THEN NoTarget
    ELSE directives[Min(Installs(directives, module))].args

\* InstallTarget and lastInstallDirective: the last install directive wins.
InstallTarget(directives, module) ==
    IF Installs(directives, module) = {} THEN NoTarget
    ELSE directives[Max(Installs(directives, module))].args

IsBlacklisted(directives, module) ==
    \E i \in DOMAIN directives : /\ directives[i].kind = "blacklist"
                                 /\ directives[i].module = module

-----------------------------------------------------------------------------
(***************************************************************************)
(* The reference: what a modprobe.d file says, by its logical lines.       *)
(***************************************************************************)

\* A logical line runs from behind the last line that was complete to the
\* next one that is, or to the last of the file with anything on it; its
\* words are theirs in order.
Completes(line) == ~IsBlank(line) /\ ~line.cont
IsLast(lines, j) ==
    ~IsBlank(lines[j]) /\ \A k \in DOMAIN lines : k > j => IsBlank(lines[k])
Behind(lines, j) == Max({0} \cup {k \in 1..(j - 1) : Completes(lines[k])})
WordsTo(lines, j) ==
    FlattenSeq([k \in 1..(j - Behind(lines, j)) |-> lines[Behind(lines, j) + k].words])

LogicalLines(lines) ==
    FlattenSeq([j \in DOMAIN lines |->
                    IF /\ Completes(lines[j]) \/ IsLast(lines, j)
                       /\ WordsTo(lines, j) # <<>>
                    THEN <<WordsTo(lines, j)>> ELSE <<>>])

IsDirective(words) == Len(words) >= confDirectiveMinFields

\* The logical lines before the first that is no directive.
GoodLines(lines) ==
    LET ll  == LogicalLines(lines)
        bad == {i \in DOMAIN ll : ~IsDirective(ll[i])}
    IN  IF bad = {} THEN ll ELSE SubSeq(ll, 1, Min(bad) - 1)

WellFormed(lines) ==
    LET ll == LogicalLines(lines) IN \A i \in DOMAIN ll : IsDirective(ll[i])

\* The logical lines that are a directive of some kind for a module.
DirectiveLines(logical, kind, module) ==
    {i \in DOMAIN logical : /\ IsDirective(logical[i])
                            /\ logical[i][1] = kind
                            /\ logical[i][2] = module}

\* The install command in force after a sequence of logical lines.
InForce(logical, module) ==
    LET at == DirectiveLines(logical, "install", module)
    IN  IF at = {} THEN NoTarget
        ELSE SubSeq(logical[Max(at)], 3, Len(logical[Max(at)]))
=============================================================================
