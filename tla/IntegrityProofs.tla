-------------------------- MODULE IntegrityProofs --------------------------
(***************************************************************************)
(* Proofs about internal/integrity, for every set of packages: that the    *)
(* owner OwnerOf names is the path's only one, that a clean verification   *)
(* without an error is evidence about the moment it ran, and that the      *)
(* flags of a whole answer are the queried file's own.                     *)
(*                                                                         *)
(* The argument is about what an answer without an error can say: a cut or *)
(* killed command always carries one, so the parsers then saw all that the *)
(* tool printed.                                                           *)
(***************************************************************************)
EXTENDS Integrity, FiniteSetTheorems, TLAPS

\* The words that are no package.
Messages == {"unowned", "no such file", "diversion"}

\* Each sequence of SetToSeqs names the members of its finite set, and there
\* is one.
LEMMA SetToSeqsOnto ==
    ASSUME NEW S, IsFiniteSet(S)
    PROVE  /\ \A s \in SetToSeqs(S) : /\ DOMAIN s = 1..Cardinality(S)
                                      /\ {s[i] : i \in DOMAIN s} = S
           /\ SetToSeq(S) \in SetToSeqs(S)
<1> DEFINE n == Cardinality(S)
           D == 1..n
<1>1. n \in Nat /\ ExistsBijection(D, S)
  BY FS_CardinalityType
<1>2. IsFiniteSet(D) /\ Cardinality(D) = n
  BY <1>1, FS_Interval
<1>3. ASSUME NEW s \in SetToSeqs(S)
      PROVE  DOMAIN s = D /\ {s[i] : i \in DOMAIN s} = S
  <2>1. /\ s \in [D -> S]
        /\ \A i, j \in D : i # j => s[i] # s[j]
    BY <1>3 DEF SetToSeqs
  <2>2. s \in Injection(D, S)
    BY <2>1 DEF Injection, IsInjective
  <2>3. s \in Surjection(D, S)
    BY <1>2, <2>2, FS_Injection
  <2> QED
    BY <2>1, <2>3 DEF Surjection
<1>4. SetToSeq(S) \in SetToSeqs(S)
  <2>1. PICK f : f \in Bijection(D, S)
    BY <1>1 DEF ExistsBijection
  <2>2. f \in [D -> S] /\ IsInjective(f)
    BY <2>1 DEF Bijection, Injection
  <2>3. SetToSeq(S) \in [D -> S] /\ IsInjective(SetToSeq(S))
    BY <2>2 DEF SetToSeq
  <2> QED
    BY <2>3 DEF SetToSeqs, IsInjective
<1> QED
  BY <1>3, <1>4

\* -1 stands for no exit status.
LEMMA NoExitStatus == -1 \notin {0, 1}
OBVIOUS

\* What an answer may say of a command that prints lines and exits as end:
\* no error only with all of the lines, as with an exit status.
Honest(a, lines, end, beginnings) ==
    /\ a.errs = {} => a.lines = lines /\ a.code = 0 /\ end = "exit 0"
    /\ a.errs \in {{}, {"exit"}} /\ a.code \in {0, 1} => a.lines = lines
    /\ a.lines \in beginnings \cup {lines, <<>>}
    /\ a.errs # {"package unknown"}

LEMMA AnswersAreHonest ==
    ASSUME NEW tool, NEW lines, NEW end \in {"exit 0", "exit 1"}, NEW beginnings,
           NEW a \in Answers(tool, lines, end, beginnings)
    PROVE  Honest(a, lines, end, beginnings)
<1> USE DEF Honest
<1>1. ExitCodeOf("exit 0") = 0 /\ ExitCodeOf("exit 1") = 1
  BY DEF ExitCodeOf
<1>2. CASE tool \notin tools
  <2>1. a \in AnswersWith({{"not found"}}, {-1}, {<<>>})
    BY <1>2 DEF Answers
  <2>2. a.errs = {"not found"} /\ a.lines = <<>>
    BY <2>1 DEF AnswersWith
  <2> QED
    BY <2>2
<1>3. CASE tool \in tools
  <2>1. PICK c \in Contexts :
          \/ a \in AnswersWith(NoChildErrs(c) \ {{"denied"}, {"not found"}, {"invalid arg"}},
                         {-1}, {<<>>})
          \/ a \in AnswersWith(ChildErrs(end, c, FALSE), {ExitCodeOf(end)}, {lines})
          \/ a \in AnswersWith(ChildErrs(end, c, TRUE), {ExitCodeOf(end)}, beginnings)
          \/ a \in AnswersWith(ChildErrs("killed", c, FALSE), {-1}, beginnings)
    BY <1>3 DEF Answers
  <2>2. CASE a \in AnswersWith(NoChildErrs(c) \ {{"denied"}, {"not found"}, {"invalid arg"}},
                         {-1}, {<<>>})
    <3>1. a.errs \in NoChildErrs(c) /\ a.lines = <<>>
      BY <2>2 DEF AnswersWith
    <3>2. a.errs \notin {{}, {"exit"}, {"package unknown"}}
      BY <3>1 DEF NoChildErrs, Contexts
    <3> QED
      BY <3>1, <3>2
  <2>3. CASE a \in AnswersWith(ChildErrs(end, c, FALSE), {ExitCodeOf(end)}, {lines})
    <3>1. /\ a.errs \in ChildErrs(end, c, FALSE)
          /\ a.code = ExitCodeOf(end)
          /\ a.lines = lines
      BY <2>3 DEF AnswersWith
    <3>2. a.errs # {"package unknown"} /\ (a.errs = {} => end = "exit 0")
      BY <3>1 DEF ChildErrs
    <3> QED
      BY <1>1, <3>1, <3>2
  <2>4. CASE a \in AnswersWith(ChildErrs(end, c, TRUE), {ExitCodeOf(end)}, beginnings)
    <3>1. a.errs \in ChildErrs(end, c, TRUE) /\ a.lines \in beginnings
      BY <2>4 DEF AnswersWith
    <3>2. "timeout" \in a.errs \/ "truncated" \in a.errs
      BY <3>1 DEF ChildErrs
    <3>3. a.errs \notin {{}, {"exit"}, {"package unknown"}}
      BY <3>2
    <3> QED
      BY <3>1, <3>3
  <2>5. CASE a \in AnswersWith(ChildErrs("killed", c, FALSE), {-1}, beginnings)
    <3>1. a.errs \in ChildErrs("killed", c, FALSE) /\ a.code = -1 /\ a.lines \in beginnings
      BY <2>5 DEF AnswersWith
    <3>2. "timeout" \in a.errs \/ "exit" \in a.errs
      BY <3>1 DEF ChildErrs
    <3>3. a.errs \notin {{}, {"package unknown"}}
      BY <3>2
    <3>4. a.code \notin {0, 1}
      BY <3>1, NoExitStatus, Zenon
    <3> QED
      BY <3>1, <3>3, <3>4
  <2> QED
    BY <2>1, <2>2, <2>3, <2>4, <2>5
<1> QED
  BY <1>2, <1>3
-----------------------------------------------------------------------------
(***************************************************************************)
(* OwnerOf.                                                                *)
(***************************************************************************)

\* One line, and two.
LEMMA FewLines ==
    ASSUME NEW W, NEW x \in W, NEW y \in W
    PROVE  /\ <<x>> \in [1..1 -> W] /\ ToSet(<<x>>) = {x}
           /\ <<x, y>> \in [1..2 -> W] /\ ToSet(<<x, y>>) = {x, y}
<1>1. <<x>> \in [1..1 -> W] /\ <<x, y>> \in [1..2 -> W]
  <2>1. /\ <<x>> \in Seq(W) /\ Len(<<x>>) = 1
        /\ <<x, y>> \in Seq(W) /\ Len(<<x, y>>) = 2
    OBVIOUS
  <2> QED
    BY <2>1
<1>2. ToSet(<<x>>) = {x} /\ ToSet(<<x, y>>) = {x, y}
  BY DEF ToSet
<1> QED
  BY <1>1, <1>2

\* dpkg -S names its owners on the first line.
LEMMA FirstLineOwns ==
    ASSUME NEW x, NEW y, x # {}
    PROVE  parseDPKGOwner(<<x>>) = x /\ parseDPKGOwner(<<x, y>>) = x
<1>1. ASSUME NEW n \in {1, 2}, NEW lines, DOMAIN lines = 1..n, lines[1] = x
      PROVE  parseDPKGOwner(lines) = x
  <2> DEFINE named == {i \in DOMAIN lines : lines[i] # {}}
  <2>1. 1 \in named /\ named \subseteq 1..n
    BY <1>1
  <2>2. parseDPKGOwner(lines) = IF named = {} THEN {} ELSE lines[Min(named)]
    BY DEF parseDPKGOwner
  <2> HIDE DEF named
  <2>3. \A i \in named : i \in Int /\ 1 <= i
    BY <2>1
  <2>4. Min(named) \in named /\ \A i \in named : Min(named) <= i
    BY <2>1, <2>3 DEF Min
  <2>5. Min(named) = 1
    <3> DEFINE m == Min(named)
    <3>1. m \in Int /\ 1 <= m /\ m <= 1
      BY <2>1, <2>3, <2>4
    <3> HIDE DEF m
    <3> QED
      BY <3>1 DEF m
  <2> QED
    BY <1>1, <2>1, <2>2, <2>5
<1>2. DOMAIN <<x>> = 1..1 /\ <<x>>[1] = x
  OBVIOUS
<1>3. DOMAIN <<x, y>> = 1..2 /\ <<x, y>>[1] = x
  OBVIOUS
<1> QED
  BY <1>1, <1>2, <1>3

\* What rpm -qf and dpkg -S print is a sequence of sets of words; the marker
\* of an unowned path is on it for no other path, and after exit 0 the text
\* is never empty, and an argument that Verify takes only where it is the
\* whole of the path's owners.
LEMMA OwnerLinesTell ==
    ASSUME backend \in Backends, owners \in [Backends -> SUBSET Packages]
    PROVE  /\ OwnerEnd \in {"exit 0", "exit 1"}
           /\ \E n \in Nat : OwnerLines \in [1..n -> SUBSET (Packages \cup Messages)]
           /\ {"unowned"} \in ToSet(OwnerLines) => owners[backend] = {}
           /\ OwnerEnd = "exit 0" =>
                 /\ OwnerText(OwnerLines) # {}
                 /\ OwnerText(OwnerLines) \subseteq Packages \cup {"diversion"}
                 /\ ValidArg(OwnerText(OwnerLines)) => OwnerText(OwnerLines) = owners[backend]
<1> DEFINE own == owners[backend]
           W == SUBSET (Packages \cup Messages)
<1>1. own \subseteq Packages /\ IsFiniteSet(own)
  BY PackagesAssumption, FS_Subset
<1>2. OwnerEnd \in {"exit 0", "exit 1"}
  BY DEF OwnerEnd
<1>3. \A x \in {"unowned", "no such file", "diversion"} : x \notin Packages
  BY PackagesAssumption
<1>4. CASE backend = "rpm" /\ own # {}
  <2> DEFINE S == {{p} : p \in own}
  <2>1. IsFiniteSet(S)
    <3>1. [p \in own |-> {p}] \in Surjection(own, S)
      BY DEF Surjection
    <3> QED
      BY <1>1, <3>1, FS_Surjection
  <2>2. OwnerLines = SetToSeq(S)
    BY <1>4 DEF OwnerLines
  <2>3. /\ Cardinality(S) \in Nat
        /\ DOMAIN OwnerLines = 1..Cardinality(S)
        /\ {OwnerLines[i] : i \in DOMAIN OwnerLines} = S
    <3> HIDE DEF S
    <3>1. SetToSeq(S) \in SetToSeqs(S)
      BY <2>1, SetToSeqsOnto
    <3>2. \A s \in SetToSeqs(S) : /\ DOMAIN s = 1..Cardinality(S)
                                 /\ {s[i] : i \in DOMAIN s} = S
      BY <2>1, SetToSeqsOnto
    <3>3. Cardinality(S) \in Nat
      BY <2>1, FS_CardinalityType
    <3> QED
      BY <2>2, <3>1, <3>2, <3>3
  <2>4. OwnerLines \in [1..Cardinality(S) -> S]
    BY <2>1, <2>2, SetToSeqsOnto DEF SetToSeqs
  <2>5. S \subseteq SUBSET (Packages \cup Messages)
    BY <1>1
  <2>6. ToSet(OwnerLines) = S
    BY <2>3 DEF ToSet
  <2>7. OwnerText(OwnerLines) = own
    BY <1>4, <2>6 DEF OwnerText
  <2>8. {"unowned"} \notin S
    BY <1>1, <1>3
  <2>9. OwnerLines \in [1..Cardinality(S) -> SUBSET (Packages \cup Messages)]
    BY <2>4, <2>5
  <2> HIDE DEF S
  <2> QED
    BY <1>1, <1>2, <1>4, <2>3, <2>6, <2>7, <2>8, <2>9
<1>5. CASE backend = "rpm" /\ own = {}
  <2>1. PICK m \in {"no such file", "unowned"} : OwnerLines = <<{m}>>
    BY <1>5 DEF OwnerLines
  <2>2. OwnerEnd = "exit 1"
    BY <2>1 DEF OwnerEnd
  <2>3. OwnerLines \in [1..1 -> SUBSET (Packages \cup Messages)]
    <3>1. {"no such file"} \in W /\ {"unowned"} \in W
      BY DEF Messages
    <3> QED
      BY <2>1, <3>1, FewLines
  <2> QED
    BY <1>5, <2>2, <2>3
<1>6. CASE backend = "dpkg" /\ diverted
  <2>1. OwnerLines = <<{"diversion"}, own>>
    BY <1>6 DEF OwnerLines
  <2>2. {"diversion"} \in W /\ own \in W
    BY <1>1 DEF Messages
  <2>3. OwnerLines \in [1..2 -> W] /\ {"unowned"} \notin ToSet(OwnerLines)
    <3> HIDE DEF W, own
    <3>1. OwnerLines \in [1..2 -> W] /\ ToSet(OwnerLines) = {{"diversion"}, own}
      BY <2>1, <2>2, FewLines
    <3>2. {"unowned"} # own
      <4>1. "unowned" \notin Packages
        BY <1>3
      <4>2. "unowned" \notin own
        BY <1>1, <4>1 DEF own
      <4> QED
        BY <4>2
    <3>3. {"unowned"} # {"diversion"}
      OBVIOUS
    <3> QED
      BY <3>1, <3>2, <3>3, Zenon
  <2>4. OwnerText(OwnerLines) = {"diversion"}
    BY <1>6, <2>1, FirstLineOwns DEF OwnerText
  <2>5. ~ValidArg({"diversion"})
    <3>1. "diversion" \notin Packages
      BY <1>3
    <3> QED
      BY <3>1 DEF ValidArg
  <2> QED
    BY <1>2, <2>3, <2>4, <2>5
<1>7. CASE backend = "dpkg" /\ ~diverted /\ own = {}
  <2>1. OwnerLines = <<{"unowned"}>>
    BY <1>7 DEF OwnerLines
  <2>2. OwnerEnd = "exit 1"
    BY <2>1 DEF OwnerEnd
  <2>3. OwnerLines \in [1..1 -> SUBSET (Packages \cup Messages)]
    <3>1. {"no such file"} \in W /\ {"unowned"} \in W
      BY DEF Messages
    <3> QED
      BY <2>1, <3>1, FewLines
  <2> QED
    BY <1>7, <2>2, <2>3
<1>8. CASE backend = "dpkg" /\ ~diverted /\ own # {}
  <2>1. OwnerLines = <<own>>
    BY <1>8 DEF OwnerLines
  <2>2. own \in W
    BY <1>1
  <2>3. OwnerLines \in [1..1 -> W] /\ {"unowned"} \notin ToSet(OwnerLines)
    <3>1. OwnerLines \in [1..1 -> W] /\ ToSet(OwnerLines) = {own}
      BY <2>1, <2>2, FewLines
    <3> QED
      BY <1>1, <1>3, <3>1
  <2>4. OwnerText(OwnerLines) = own
    BY <1>8, <2>1, FirstLineOwns DEF OwnerText
  <2> QED
    BY <1>1, <1>2, <1>8, <2>3, <2>4
<1> QED
  BY <1>4, <1>5, <1>6, <1>7, <1>8 DEF Backends

\* A cut leaves no marker that was not there.
LEMMA CutsAddNoMarker ==
    ASSUME NEW n \in Nat, NEW lines \in [1..n -> SUBSET (Packages \cup Messages)],
           NEW s \in Beginnings(lines, CutMessage), {"unowned"} \in ToSet(s)
    PROVE  {"unowned"} \in ToSet(lines)
<1> DEFINE W == SUBSET (Packages \cup Messages)
<1>1. lines \in Seq(W) /\ Len(lines) = n
  OBVIOUS
<1>2. ASSUME NEW k \in 0..n
      PROVE  /\ SubSeq(lines, 1, k) \in Seq(W)
             /\ Len(SubSeq(lines, 1, k)) = k
             /\ \A i \in 1..k : SubSeq(lines, 1, k)[i] = lines[i]
  <2>1. SubSeq(lines, 1, k) \in Seq(W)
    BY <1>1, <1>2
  <2>2. Len(SubSeq(lines, 1, k)) = k
    BY <1>1, <1>2
  <2>3. \A i \in 1..k : SubSeq(lines, 1, k)[i] = lines[i]
    BY <1>1, <1>2
  <2> QED
    BY <2>1, <2>2, <2>3
<1>3. CASE \E k \in 0..n : s = SubSeq(lines, 1, k)
  <2>1. PICK k \in 0..n : s = SubSeq(lines, 1, k)
    BY <1>3
  <2>2. DOMAIN s = 1..k /\ \A i \in 1..k : s[i] = lines[i]
    BY <1>2, <2>1
  <2>3. PICK i \in 1..k : s[i] = {"unowned"}
    BY <2>2 DEF ToSet
  <2>4. i \in DOMAIN lines /\ lines[i] = {"unowned"}
    BY <2>2, <2>3
  <2> QED
    BY <2>4 DEF ToSet
<1>4. CASE \E k \in 1..n : s = Append(SubSeq(lines, 1, k - 1), {})
  <2>1. PICK k \in 1..n : s = Append(SubSeq(lines, 1, k - 1), {})
    BY <1>4
  <2>2. k - 1 \in 0..n
    OBVIOUS
  <2>3. /\ DOMAIN s = 1..k
        /\ s[k] = {}
        /\ \A i \in 1..(k - 1) : s[i] = lines[i]
    BY <1>2, <2>1, <2>2
  <2>4. PICK i \in 1..k : s[i] = {"unowned"}
    BY <2>3 DEF ToSet
  <2>5. i # k
    BY <2>3, <2>4
  <2> QED
    BY <2>3, <2>4, <2>5 DEF ToSet
<1>5. (\E k \in 0..n : s = SubSeq(lines, 1, k))
      \/ (\E k \in 1..n : s = Append(SubSeq(lines, 1, k - 1), {}))
  BY <1>1 DEF Beginnings, CutMessage
<1> QED
  BY <1>3, <1>4, <1>5
-----------------------------------------------------------------------------
(***************************************************************************)
(* Verify.                                                                 *)
(***************************************************************************)

\* What rpm -V and debsums -s print, in any order: one line for each file
\* they report, and nothing only where they report none.
LEMMA VerifyLinesTell ==
    ASSUME NEW p, NEW lines \in VerifyLines(p)
    PROVE  /\ p \notin installed[backend] => lines = <<Prose>>
           /\ p \in installed[backend] => ToSet(lines) = {ReportLine(f) : f \in Reported(p)}
           /\ lines = <<>> => p \in installed[backend] /\ Reported(p) = {}
<1>1. CASE p \notin installed[backend]
  <2>1. lines = <<Prose>>
    BY <1>1 DEF VerifyLines
  <2>2. <<Prose>> # <<>>
    OBVIOUS
  <2> QED
    BY <1>1, <2>1, <2>2
<1>2. CASE p \in installed[backend]
  <2>1. PICK s \in SetToSeqs(Reported(p)) : lines = [i \in DOMAIN s |-> ReportLine(s[i])]
    BY <1>2 DEF VerifyLines
  <2>2. IsFiniteSet(Reported(p))
    <3>1. IsFiniteSet({Queried}) /\ IsFiniteSet({Sibling})
      BY FS_Singleton
    <3>2. IsFiniteSet({Queried} \cup {Sibling})
      BY <3>1, FS_Union
    <3>3. Reported(p) \in SUBSET ({Queried} \cup {Sibling})
      BY DEF Reported, FilesOf
    <3> QED
      BY <3>2, <3>3, FS_Subset
  <2>3. /\ DOMAIN s = 1..Cardinality(Reported(p))
        /\ {s[i] : i \in DOMAIN s} = Reported(p)
    BY <2>1, <2>2, SetToSeqsOnto
  <2>4. ToSet(lines) = {ReportLine(s[i]) : i \in DOMAIN s}
    BY <2>1 DEF ToSet
  <2>5. ToSet(lines) = {ReportLine(f) : f \in Reported(p)}
    BY <2>3, <2>4
  <2>6. ASSUME lines = <<>>  PROVE Reported(p) = {}
    <3>1. ToSet(lines) = {}
      BY <2>6 DEF ToSet
    <3> QED
      BY <2>5, <3>1
  <2> QED
    BY <1>2, <2>5, <2>6
<1> QED
  BY <1>1, <1>2

\* The flags of the only line that is of the queried path.
LEMMA RPMFlags ==
    ASSUME NEW lines, NEW q,
           {l \in rpmParsed(lines) : rpmIsQueried(l)} \subseteq {q}
    PROVE  parseRPMVerify(lines).flags =
              Surfaced \cap (IF q \in {l \in rpmParsed(lines) : rpmIsQueried(l)}
                            THEN q.flags ELSE {})
<1> DEFINE Q == {l \in rpmParsed(lines) : rpmIsQueried(l)}
           U == UNION {l.flags : l \in Q}
<1>1. parseRPMVerify(lines).flags = Surfaced \cap U
  BY DEF parseRPMVerify
<1>2. Q \subseteq {q}
  OBVIOUS
<1> HIDE DEF Q
<1>3. U = IF q \in Q THEN q.flags ELSE {}
  BY <1>2
<1> HIDE DEF U
<1>4. parseRPMVerify(lines).flags = Surfaced \cap (IF q \in Q THEN q.flags ELSE {})
  BY <1>1, <1>3
<1> QED
  BY <1>4 DEF Q

\* The flags parsed from a whole output are the queried file's.
LEMMA FlagsOfWholeOutput ==
    ASSUME backend \in Backends, dev[Queried] \in QueriedDeviations,
           class \in {"plain", "c", "d"}, NEW p, NEW lines \in VerifyLines(p)
    PROVE  parseVerify(lines).flags =
              IF p \notin installed[backend] \/ p \notin owners[backend] THEN {}
              ELSE IF backend = "rpm" THEN (IF class = "d" THEN {} ELSE dev[Queried] \cap Surfaced)
              ELSE IF class = "c" THEN {} ELSE dev[Queried] \cap {"5"}
<1>1. "missing" \in dev[Queried] => dev[Queried] = {"missing"}
  BY DEF QueriedDeviations
<1>2. Queried # Sibling /\ Prose.kind = "prose" /\ Prose.path = "none"
  BY DEF Queried, Sibling, Prose, Line
<1>3. CASE p \notin installed[backend]
  <2>1. ToSet(lines) = {Prose}
    <3>1. lines = <<Prose>>
      BY <1>3, VerifyLinesTell
    <3> QED
      BY <3>1, FewLines
  <2>2. CASE backend = "rpm"
    <3>1. rpmParsed(lines) = {}
      BY <1>2, <2>1 DEF rpmParsed
    <3> QED
      BY <1>3, <2>2, <3>1 DEF parseVerify, parseRPMVerify
  <2>3. CASE backend = "dpkg"
    <3>1. {l \in ToSet(lines) : l.kind = "changed"} = {}
      BY <1>2, <2>1
    <3> QED
      BY <1>3, <2>3, <3>1 DEF parseVerify, parseDebsums
  <2> QED
    BY <2>2, <2>3 DEF Backends
<1>4. CASE p \in installed[backend] /\ backend = "rpm"
  <2> DEFINE own == {l \in rpmParsed(lines) : rpmIsQueried(l)}
  <2>1. ToSet(lines) = {rpmLine(f) : f \in Reported(p)}
    BY <1>4, VerifyLinesTell DEF ReportLine
  <2>2. Reported(p) = {f \in FilesOf(p) : dev[f] # {}}
    BY <1>4 DEF Reported, rpmReports
  <2>3. \A f : IF "missing" \in dev[f] THEN rpmLine(f).kind = "prose"
               ELSE /\ rpmLine(f).kind = classOf(f)
                    /\ rpmLine(f).flags = dev[f]
                    /\ rpmLine(f).path = f
    BY <1>2 DEF rpmLine, Line
  <2>4. \A f \in FilesOf(p) : f \in {Queried, Sibling} /\ (f = Queried => p \in owners[backend])
    BY <1>2 DEF FilesOf
  <2>5. own \subseteq {rpmLine(Queried)}
    BY <1>2, <2>1, <2>2, <2>3, <2>4 DEF rpmParsed, rpmIsQueried
  <2>6. rpmLine(Queried) \in own <=>
          /\ p \in owners[backend] /\ dev[Queried] # {} /\ "missing" \notin dev[Queried]
          /\ class \in {"plain", "c"}
    <3>1. rpmLine(Queried) \in own =>
            /\ "missing" \notin dev[Queried]
            /\ class \in {"plain", "c"}
      BY <2>3 DEF rpmParsed, rpmIsQueried, classOf
    <3>2. ASSUME rpmLine(Queried) \in own
          PROVE  Queried \in Reported(p)
      <4>1. PICK f \in Reported(p) : rpmLine(f) = rpmLine(Queried)
        BY <2>1, <3>2 DEF rpmParsed
      <4>2. rpmLine(f).kind # "prose" /\ rpmLine(f).path = Queried
        BY <3>2, <4>1 DEF rpmParsed, rpmIsQueried
      <4> QED
        BY <2>3, <4>1, <4>2
    <3>3. Queried \in Reported(p) <=> p \in owners[backend] /\ dev[Queried] # {}
      BY <1>2, <2>2 DEF FilesOf
    <3>4. ASSUME Queried \in Reported(p), "missing" \notin dev[Queried],
                 class \in {"plain", "c"}
          PROVE  rpmLine(Queried) \in own
      BY <2>1, <2>3, <3>4 DEF rpmParsed, rpmIsQueried, classOf
    <3> QED
      BY <3>1, <3>2, <3>3, <3>4
  <2>7. parseVerify(lines).flags =
          Surfaced \cap (IF rpmLine(Queried) \in own THEN rpmLine(Queried).flags ELSE {})
    <3>1. parseVerify(lines) = parseRPMVerify(lines)
      BY <1>4 DEF parseVerify
    <3> QED
      BY <2>5, <3>1, RPMFlags
  <2> HIDE DEF own
  <2>8. CASE rpmLine(Queried) \in own
    <3>1. /\ p \in owners[backend] /\ class # "d"
          /\ rpmLine(Queried).flags = dev[Queried]
      BY <2>3, <2>6, <2>8
    <3> QED
      BY <1>4, <2>7, <2>8, <3>1
  <2>9. CASE rpmLine(Queried) \notin own
    BY <1>1, <1>4, <2>6, <2>7, <2>9 DEF Surfaced
  <2> QED
    BY <2>8, <2>9
<1>5. CASE p \in installed[backend] /\ backend = "dpkg"
  <2> DEFINE whole == {l \in {m \in ToSet(lines) : m.kind = "changed"} : l.path # "none"}
             own == {l \in whole : l.path = Queried}
  <2>1. ToSet(lines) = {debsumsLine(f) : f \in Reported(p)}
    BY <1>5, VerifyLinesTell DEF ReportLine
  <2>2. \A f : IF "missing" \in dev[f] THEN debsumsLine(f).kind = "prose"
               ELSE debsumsLine(f).kind = "changed" /\ debsumsLine(f).path = f
    BY <1>2 DEF debsumsLine, Line
  <2>3. Queried \in Reported(p) <=>
          p \in owners[backend] /\ class # "c" /\ dev[Queried] \cap {"5", "missing"} # {}
    BY <1>2, <1>5 DEF Reported, FilesOf, debsumsReports, classOf
  <2>4. own # {} <=> Queried \in Reported(p) /\ "missing" \notin dev[Queried]
    <3>1. ASSUME own # {}
          PROVE  Queried \in Reported(p) /\ "missing" \notin dev[Queried]
      <4>1. PICK f \in Reported(p) : debsumsLine(f).kind = "changed" /\ debsumsLine(f).path = Queried
        BY <2>1, <3>1
      <4> QED
        BY <2>2, <4>1
    <3>2. ASSUME Queried \in Reported(p), "missing" \notin dev[Queried]
          PROVE  debsumsLine(Queried) \in own
      BY <2>1, <2>2, <3>2 DEF Queried
    <3> QED
      BY <3>1, <3>2
  <2>5. parseVerify(lines).flags = {"5" : l \in own}
    BY <1>5 DEF parseVerify, parseDebsums
  <2>6. parseVerify(lines).flags = IF own # {} THEN {"5"} ELSE {}
    BY <2>5
  <2>7. CASE own # {}
    BY <1>5, <2>3, <2>4, <2>6, <2>7
  <2>8. CASE own = {}
    BY <1>1, <1>5, <2>3, <2>4, <2>6, <2>8
  <2> QED
    BY <2>7, <2>8
<1> QED
  BY <1>3, <1>4, <1>5 DEF Backends
\* Whatever was printed, the parsers return flags and reasons.
LEMMA ParsedIsResult ==
    ASSUME NEW lines
    PROVE  /\ parseVerify(lines).flags \subseteq Surfaced
           /\ parseVerify(lines).reasons \subseteq
                 {"config marker", "sibling", "diagnostic", "malformed"}
<1>1. parseRPMVerify(lines).flags \subseteq Surfaced
  BY DEF parseRPMVerify
<1>2. parseRPMVerify(lines).reasons \subseteq {"config marker", "sibling"}
  BY DEF parseRPMVerify
<1>3. parseDebsums(lines).flags \subseteq Surfaced
  BY DEF parseDebsums, Surfaced
<1>4. parseDebsums(lines).reasons \subseteq {"diagnostic", "malformed", "sibling"}
  BY DEF parseDebsums
<1> QED
  BY <1>1, <1>2, <1>3, <1>4 DEF parseVerify

\* What OwnerOf returns.
LEMMA OwnerOfReturns ==
    ASSUME IInv, OwnerOf
    PROVE  /\ pc' = "done" /\ owner' = owner /\ (err' = {} => exitCode' \in {-1, 0})
              /\ (err' = {"package unknown"} => owners[backend] = {})
           \/ /\ pc' = "verify" /\ UNCHANGED <<err, exitCode>>
              /\ owner' # {} /\ owner' \subseteq Packages \cup {"diversion"}
              /\ ValidArg(owner') => owner' = owners[backend]
<1>1. /\ backend \in Backends
      /\ owners \in [Backends -> SUBSET Packages]
      /\ pc = "owner"
  BY DEF IInv, TypeOK, OwnerOf, Tools, Backends
<1>2. CASE ~pathOK
  BY <1>2 DEF OwnerOf, Done
<1>3. CASE pathOK
  <2>1. PICK a \in Answers(backend, OwnerLines, OwnerEnd,
                           Beginnings(OwnerLines, CutMessage)) :
          \/ /\ runOwnerOf(a) # {}
             /\ Done(runOwnerOf(a), a.code) /\ UNCHANGED owner
          \/ /\ a.errs = {} /\ OwnerText(a.lines) = {}
             /\ Done({"package unknown"}, a.code) /\ UNCHANGED owner
          \/ /\ a.errs = {} /\ OwnerText(a.lines) # {}
             /\ owner' = OwnerText(a.lines)
             /\ pc' = "verify"
             /\ UNCHANGED <<err, exitCode>>
    BY <1>3 DEF OwnerOf
  <2>2. /\ a.errs = {} => a.lines = OwnerLines /\ a.code = 0 /\ OwnerEnd = "exit 0"
        /\ a.lines \in Beginnings(OwnerLines, CutMessage) \cup {OwnerLines, <<>>}
        /\ a.errs # {"package unknown"}
    <3>1. OwnerEnd \in {"exit 0", "exit 1"}
      BY <1>1, OwnerLinesTell
    <3>2. Honest(a, OwnerLines, OwnerEnd, Beginnings(OwnerLines, CutMessage))
      BY <2>1, <3>1, AnswersAreHonest
    <3> QED
      BY <3>2 DEF Honest
  <2>3. {"unowned"} \in ToSet(a.lines) => owners[backend] = {}
    <3>1. PICK n \in Nat : OwnerLines \in [1..n -> SUBSET (Packages \cup Messages)]
      BY <1>1, OwnerLinesTell
    <3>2. {"unowned"} \notin ToSet(<<>>)
      BY DEF ToSet
    <3>3. {"unowned"} \in ToSet(a.lines) => {"unowned"} \in ToSet(OwnerLines)
      BY <2>2, <3>1, <3>2, CutsAddNoMarker
    <3> QED
      BY <1>1, <3>3, OwnerLinesTell
  <2>4. CASE runOwnerOf(a) # {} /\ Done(runOwnerOf(a), a.code) /\ UNCHANGED owner
    <3>1. runOwnerOf(a) = {"package unknown"} => owners[backend] = {}
      BY <2>2, <2>3 DEF runOwnerOf, classifyOwnerErr
    <3> QED
      BY <2>4, <3>1 DEF Done
  <2>5. CASE a.errs = {}
    <3>1. /\ OwnerText(a.lines) # {}
          /\ OwnerText(a.lines) \subseteq Packages \cup {"diversion"}
          /\ ValidArg(OwnerText(a.lines)) => OwnerText(a.lines) = owners[backend]
      BY <1>1, <2>2, <2>5, OwnerLinesTell
    <3>2. runOwnerOf(a) = {}
      BY <2>5 DEF runOwnerOf, classifyOwnerErr
    <3> QED
      BY <2>1, <3>1, <3>2
  <2> QED
    BY <2>1, <2>4, <2>5
<1> QED
  BY <1>2, <1>3

\* What Verify returns: an error that is not nothing after anything but a
\* whole and silent output, and after a whole one the queried file's flags.
LEMMA VerifyReturnsWhat ==
    ASSUME IInv, Verify
    PROVE  /\ pc = "verify" /\ pc' = "done"
           /\ UNCHANGED <<host, pathOK, backend, owner>>
           /\ result'.flags \subseteq Surfaced
           /\ result'.reasons \subseteq {"config marker", "sibling", "diagnostic", "malformed"}
           /\ err' = {} => /\ exitCode' = 0
                           /\ \E p \in Packages : /\ ValidArg(owner) /\ owner = {p}
                                                  /\ <<>> \in VerifyLines(p)
           /\ err' \in {{}, {"exit"}} /\ exitCode' \in {0, 1} =>
                 \E p \in Packages : /\ ValidArg(owner) /\ owner = {p}
                                     /\ \E lines \in VerifyLines(p) :
                                           result' = parseVerify(lines)
<1>1. CASE ~ValidArg(owner) /\ Done({"invalid arg"}, -1) /\ UNCHANGED result
  <2>1. {"invalid arg"} \notin {{}, {"exit"}}
    OBVIOUS
  <2> QED
    BY <1>1, <2>1 DEF Verify, Done, IInv, TypeOK
<1>2. CASE ValidArg(owner)
  <2>1. PICK p \in Packages :
          /\ owner = {p}
          /\ \E lines \in VerifyLines(p) :
             \E a \in Answers(verifyTool, lines,
                              IF lines = <<>> THEN "exit 0" ELSE "exit 1",
                              Beginnings(lines, CutVerifyLine)) :
                result' = parseVerify(a.lines) /\ Done(VerifyErr(a), a.code)
    BY <1>2 DEF Verify
  <2>2. PICK lines \in VerifyLines(p) :
             \E a \in Answers(verifyTool, lines,
                              IF lines = <<>> THEN "exit 0" ELSE "exit 1",
                              Beginnings(lines, CutVerifyLine)) :
                result' = parseVerify(a.lines) /\ Done(VerifyErr(a), a.code)
    BY <2>1
  <2> DEFINE end == IF lines = <<>> THEN "exit 0" ELSE "exit 1"
             cuts == Beginnings(lines, CutVerifyLine)
  <2>3. PICK a \in Answers(verifyTool, lines, end, cuts) :
                result' = parseVerify(a.lines) /\ Done(VerifyErr(a), a.code)
    BY <2>2
  <2>4. end \in {"exit 0", "exit 1"} /\ (end = "exit 0" => lines = <<>>)
    OBVIOUS
  <2> HIDE DEF end, cuts
  <2>5. /\ a.errs = {} => a.lines = lines /\ a.code = 0 /\ end = "exit 0"
        /\ a.errs \in {{}, {"exit"}} /\ a.code \in {0, 1} => a.lines = lines
    <3>1. Honest(a, lines, end, cuts)
      BY <2>4, AnswersAreHonest
    <3> QED
      BY <3>1 DEF Honest
  <2>6. err' = a.errs /\ exitCode' = a.code /\ pc' = "done"
    BY <2>3 DEF Done, VerifyErr
  <2>7. pc = "verify" /\ UNCHANGED <<host, pathOK, backend, owner>>
    BY DEF Verify
  <2> QED
    BY <1>2, <2>1, <2>2, <2>3, <2>4, <2>5, <2>6, <2>7, ParsedIsResult
<1> QED
  BY <1>1, <1>2 DEF Verify
-----------------------------------------------------------------------------
(***************************************************************************)
(* The inductive invariant.                                                *)
(***************************************************************************)

LEMMA InitIInv == Init => IInv
<1> SUFFICES ASSUME Init PROVE IInv
  OBVIOUS
<1>1. PICK b \in Backends : /\ owners \in [Backends -> SUBSET Packages]
                            /\ \A c \in Backends \ {b} : owners[c] = {}
  BY DEF Init
<1>2. DOMAIN dev = Files /\ dev[Queried] \in QueriedDeviations /\ dev[Sibling] \in SiblingDeviations
  BY DEF Init, Files, QueriedDeviations, SiblingDeviations
<1>3. result.flags \subseteq Surfaced /\ result.reasons \subseteq {}
  BY DEF Init, NoResult
<1>4. TypeOK
  BY <1>1, <1>2, <1>3 DEF Init, TypeOK, Backends
<1> QED
  BY <1>4 DEF Init, IInv

LEMMA DetectKeeps == IInv /\ Detect => IInv'
<1> SUFFICES ASSUME IInv, Detect PROVE IInv'
  OBVIOUS
<1> USE DEF IInv, TypeOK, host
<1>1. /\ UNCHANGED <<host, pathOK, owner, result>>
      /\ pc = "detect"
  BY DEF Detect
<1>2. CASE tools \cap Backends = {}
  BY <1>1, <1>2 DEF Detect, Done, ValidArg
<1>3. CASE tools \cap Backends # {}
  <2>1. /\ backend' \in tools \cap Backends
        /\ pc' = "owner" /\ UNCHANGED <<err, exitCode>>
    BY <1>3 DEF Detect, Backends
  <2> QED
    BY <1>1, <2>1 DEF ValidArg
<1> QED
  BY <1>2, <1>3

LEMMA OwnerOfKeeps == IInv /\ OwnerOf => IInv'
<1> SUFFICES ASSUME IInv, OwnerOf PROVE IInv'
  OBVIOUS
<1>1. UNCHANGED <<host, pathOK, backend, result>> /\ pc = "owner"
  BY DEF OwnerOf
<1>2. backend # "none" /\ backend \in tools
  BY <1>1 DEF IInv, TypeOK, Tools, Backends
<1>3. CASE pc' = "done" /\ owner' = owner /\ (err' = {} => exitCode' \in {-1, 0})
  BY <1>1, <1>3 DEF IInv, TypeOK, host
<1>4. CASE /\ pc' = "verify" /\ UNCHANGED <<err, exitCode>>
           /\ owner' # {} /\ owner' \subseteq Packages \cup {"diversion"}
           /\ ValidArg(owner') => owner' = owners[backend]
  <2>1. ValidArg(owner)' => owners[backend] \subseteq owner'
    BY <1>4 DEF ValidArg
  <2> QED
    BY <1>1, <1>2, <1>4, <2>1 DEF IInv, TypeOK, host
<1> QED
  BY <1>3, <1>4, OwnerOfReturns

LEMMA VerifyKeeps == IInv /\ Verify => IInv'
<1> SUFFICES ASSUME IInv, Verify PROVE IInv'
  OBVIOUS
<1> QED
  BY VerifyReturnsWhat DEF IInv, TypeOK, host

LEMMA HostKeeps ==
    IInv /\ (FileChanges \/ \E b \in Backends, p \in Packages : PackageLeaves(b, p)) => IInv'
<1>1. ASSUME IInv, FileChanges
      PROVE  IInv'
  <2>1. /\ UNCHANGED <<tools, owners, installed, diverted, class, pathOK, pc, backend, owner,
                       result, err, exitCode>>
    BY <1>1 DEF FileChanges, HostChanges
  <2>2. DOMAIN dev' = Files /\ dev'[Queried] \in QueriedDeviations /\ dev'[Sibling] \in SiblingDeviations
    <3>1. Queried # Sibling
      BY DEF Queried, Sibling
    <3> QED
      BY <1>1, <3>1 DEF FileChanges, IInv, TypeOK, Files
  <2> QED
    BY <1>1, <2>1, <2>2 DEF IInv, TypeOK, ValidArg
<1>2. ASSUME IInv, NEW b \in Backends, NEW p \in Packages, PackageLeaves(b, p)
      PROVE  IInv'
  <2>1. /\ UNCHANGED <<tools, dev, diverted, class, pathOK, pc, backend, owner, result,
                       err, exitCode>>
        /\ owners' = [owners EXCEPT ![b] = owners[b] \ {p}]
        /\ \/ installed' = [installed EXCEPT ![b] = installed[b] \ {p}]
           \/ b = "dpkg" /\ installed' = installed
    BY <1>2 DEF PackageLeaves, HostChanges
  <2>2. /\ owners \in [Backends -> SUBSET Packages]
        /\ installed \in [Backends -> SUBSET Packages]
        /\ \A c \in Backends : owners[c] \subseteq installed[c]
        /\ installed["rpm"] = owners["rpm"]
    BY <1>2 DEF IInv, TypeOK
  <2>3. /\ owners' \in [Backends -> SUBSET Packages]
        /\ \A c \in Backends : owners'[c] \subseteq owners[c]
    BY <2>1, <2>2
  <2>4. /\ installed' \in [Backends -> SUBSET Packages]
        /\ \A c \in Backends : owners'[c] \subseteq installed'[c]
        /\ installed'["rpm"] = owners'["rpm"]
    <3>1. "rpm" \in Backends /\ "dpkg" \in Backends /\ "rpm" # "dpkg"
      BY DEF Backends
    <3> QED
      BY <2>1, <2>2, <2>3, <3>1
  <2>5. ValidArg(owner)' = ValidArg(owner)
    BY <2>1 DEF ValidArg
  <2>6. TypeOK'
    BY <1>2, <2>1, <2>3, <2>4 DEF IInv, TypeOK
  <2> QED
    BY <1>2, <2>1, <2>3, <2>4, <2>5, <2>6 DEF IInv
<1> QED
  BY <1>1, <1>2

LEMMA StutterKeeps == IInv /\ UNCHANGED vars => IInv'
BY DEF vars, host, IInv, TypeOK, ValidArg

\* The inductive invariant holds: among others, OwnerOf has given Verify the
\* path's only owner, or a name that Verify refuses.
THEOREM Invariance == Spec => []IInv
<1>1. ASSUME IInv, [Next]_vars
      PROVE  IInv'
  <2>1. CASE Next
    BY <1>1, <2>1, DetectKeeps, OwnerOfKeeps, VerifyKeeps, HostKeeps, StutterKeeps DEF Next
  <2> QED
    BY <1>1, <2>1, StutterKeeps
<1> QED
  BY <1>1, InitIInv, PTL DEF Spec

-----------------------------------------------------------------------------
(***************************************************************************)
(* The properties.                                                         *)
(***************************************************************************)

\* ErrPackageUnknown, from classifyOwnerErr or for an empty answer, is told
\* only of a path that no package owns, and an owner that Verify takes is the
\* only one: cut, killed and late answers of rpm -qf and dpkg -S included.
THEOREM OwnerNamed == Spec => OwnerIsTheOwner
<1>1. ASSUME IInv, [Next]_vars, OwnerReturns
      PROVE  /\ err' = {"package unknown"} => owners[backend] = {}
             /\ ValidArg(owner') => owner' = owners[backend]
  <2>1. OwnerOf
    BY <1>1 DEF OwnerReturns, Next, vars, Detect, Verify, FileChanges, PackageLeaves, HostChanges
  <2>2. owner = {} /\ err = {}
    BY <1>1 DEF OwnerReturns, IInv
  <2>3. ~ValidArg(owner)
    BY <2>2 DEF ValidArg
  <2>4. {} # {"package unknown"}
    OBVIOUS
  <2> QED
    BY <1>1, <2>1, <2>2, <2>3, <2>4, OwnerOfReturns
<1> QED
  BY <1>1, Invariance, PTL DEF OwnerIsTheOwner, Spec

LEMMA OnlyVerify ==
    ASSUME [Next]_vars, VerifyReturns
    PROVE  Verify
BY DEF VerifyReturns, Next, vars, Detect, OwnerOf, FileChanges, PackageLeaves, HostChanges

\* A clean VerifyResult without an error says that the file was as packaged
\* when rpm -V or debsums -s looked at it.
THEOREM CleanProves == Spec => CleanIsEvidence
<1>1. ASSUME IInv, [Next]_vars, VerifyReturns, err' = {}
      PROVE  IF backend = "rpm" THEN dev[Queried] = {}
             ELSE owner = owners["dpkg"] /\ class # "c" => dev[Queried] \cap {"5", "missing"} = {}
  <2>1. PICK p \in Packages : /\ ValidArg(owner) /\ owner = {p}
                              /\ <<>> \in VerifyLines(p)
    BY <1>1, OnlyVerify, VerifyReturnsWhat
  <2>2. p \in installed[backend] /\ Reported(p) = {}
    BY <2>1, VerifyLinesTell
  <2>3. backend \in Backends
    BY <1>1 DEF VerifyReturns, IInv, TypeOK
  <2>4. p \in owners[backend] => Queried \in FilesOf(p)
    BY DEF FilesOf
  <2>5. CASE backend = "rpm"
    <3>1. p \in owners[backend]
      BY <1>1, <2>2, <2>5 DEF IInv
    <3> QED
      BY <2>2, <2>4, <2>5, <3>1 DEF Reported, rpmReports
  <2>6. CASE backend = "dpkg"
    BY <2>1, <2>2, <2>4, <2>6 DEF Reported, debsumsReports, classOf
  <2> QED
    BY <2>3, <2>5, <2>6 DEF Backends
<1> QED
  BY <1>1, Invariance, PTL DEF CleanIsEvidence, Spec

\* After exit 0 or 1 the booleans of the VerifyResult are the deviations of
\* the queried path: those of its package's other files, of a package that
\* does not own it, or of a path that begins like it, are not among them.
THEOREM FlagsOwn == Spec => FlagsAreOwn
<1>1. ASSUME IInv, [Next]_vars,
             VerifyReturns /\ err' \in {{}, {"exit"}} /\ exitCode' \in {0, 1}
      PROVE  result'.flags =
               IF owner # owners[backend] THEN {}
               ELSE IF backend = "rpm" THEN (IF class = "d" THEN {} ELSE dev[Queried] \cap Surfaced)
               ELSE IF class = "c" THEN {} ELSE dev[Queried] \cap {"5"}
  <2>1. PICK p \in Packages : /\ ValidArg(owner) /\ owner = {p}
                              /\ \E lines \in VerifyLines(p) : result' = parseVerify(lines)
    BY <1>1, OnlyVerify, VerifyReturnsWhat
  <2>2. PICK lines \in VerifyLines(p) : result' = parseVerify(lines)
    BY <2>1
  <2>3. /\ backend \in Backends /\ dev[Queried] \in QueriedDeviations
        /\ class \in {"plain", "c", "d"}
        /\ owners[backend] \subseteq installed[backend]
        /\ owners[backend] \subseteq {p}
    BY <1>1, <2>1 DEF VerifyReturns, IInv, TypeOK
  <2>4. owner = owners[backend] <=> p \in installed[backend] /\ p \in owners[backend]
    BY <2>1, <2>3
  <2> QED
    BY <2>1, <2>2, <2>3, <2>4, FlagsOfWholeOutput
<1> QED
  BY <1>1, Invariance, PTL DEF FlagsAreOwn, Spec
=============================================================================
