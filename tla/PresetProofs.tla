---------------------------- MODULE PresetProofs ----------------------------
(***************************************************************************)
(* Proofs about preset/copyfail, for every number of files in modprobe.d:  *)
(* that the directory scan says what modprobe would find before or after   *)
(* the one change that interferes with it, that no check passes over a     *)
(* file that could not be read to its end, and that five passes mean a     *)
(* mitigated host.  All of it rests on what ParserProofs shows of the      *)
(* scanner loop of ParseConfReader: it reads a text as its logical lines.  *)
(***************************************************************************)
EXTENDS PresetChecks, ParserProofs

-----------------------------------------------------------------------------
(***************************************************************************)
(* The greatest of a set of positions.                                     *)
(***************************************************************************)

LEMMA TopIs ==
    ASSUME NEW n \in Nat, NEW S \in SUBSET (1..n), S # {}
    PROVE  Max(S) \in S /\ \A y \in S : Max(S) >= y
<1>1. S \in SUBSET (0..n)
  OBVIOUS
<1> QED
  BY <1>1, MaxIs

LEMMA TopOnly ==
    ASSUME NEW n \in Nat, NEW S \in SUBSET (1..n), NEW m \in S, \A y \in S : m >= y
    PROVE  Max(S) = m
<1>1. S \in SUBSET Nat
  OBVIOUS
<1> QED
  BY <1>1, MaxOnly

-----------------------------------------------------------------------------
(***************************************************************************)
(* The texts of modprobe.d.                                                *)
(***************************************************************************)

\* What is matched is all that the logical lines say,
LEMMA MatchedIsGood ==
    ASSUME NEW lines, NEW ds, LogicalLines(lines) \in Seq(Seq(Words)), ds \in Seq(Directives),
           Matches(ds, LogicalLines(lines))
    PROVE  /\ WellFormed(lines) /\ DOMAIN ds = DOMAIN GoodLines(lines)
           /\ \A i \in DOMAIN GoodLines(lines) : Says(ds[i], GoodLines(lines)[i])
<1> DEFINE ll == LogicalLines(lines)
<1>1. /\ DOMAIN ll = 1..Len(ll) /\ DOMAIN ds = 1..Len(ll)
      /\ \A i \in 1..Len(ll) : IsDirective(ll[i]) /\ Says(ds[i], ll[i])
  BY DEF Matches
<1> HIDE DEF ll
<1>2. WellFormed(lines) /\ GoodLines(lines) = ll
  BY <1>1 DEF WellFormed, GoodLines, ll
<1> QED
  BY <1>1, <1>2

\* and what a malformed directive has broken off, all before the first line
\* that is no directive.
LEMMA BrokenIsGood ==
    ASSUME NEW lines, NEW ds, LogicalLines(lines) \in Seq(Seq(Words)), ds \in Seq(Directives),
           Broken(ds, LogicalLines(lines))
    PROVE  /\ ~WellFormed(lines) /\ DOMAIN ds = DOMAIN GoodLines(lines)
           /\ \A i \in DOMAIN GoodLines(lines) : Says(ds[i], GoodLines(lines)[i])
<1> DEFINE ll == LogicalLines(lines)
           bad == {i \in DOMAIN ll : ~IsDirective(ll[i])}
<1>1. PICK k \in Nat : /\ k < Len(ll) /\ ~IsDirective(ll[k + 1]) /\ Len(ds) = k
                      /\ \A i \in 1..k : IsDirective(ll[i]) /\ Says(ds[i], ll[i])
  BY DEF Broken
<1> DEFINE good == SubSeq(ll, 1, k)
<1>2. DOMAIN ll = 1..Len(ll) /\ Len(ll) \in Nat /\ DOMAIN ds = 1..k
  BY <1>1
<1>3. ll \in Seq(Seq(Words))
  OBVIOUS
<1>4. ~WellFormed(lines) /\ GoodLines(lines) = IF bad = {} THEN ll ELSE SubSeq(ll, 1, Min(bad) - 1)
  <2>1. k + 1 \in 1..Len(ll)
    BY <1>1, <1>2
  <2> QED
    BY <1>1, <1>2, <2>1 DEF WellFormed, GoodLines
<1> HIDE DEF ll
<1>5. k + 1 \in bad /\ bad \in SUBSET Nat
  BY <1>1, <1>2
<1>6. \A i \in bad : k + 1 <= i
  BY <1>1, <1>2
<1> HIDE DEF bad
<1>7. Min(bad) = k + 1
  <2>1. Min(bad) \in bad /\ \A y \in bad : Min(bad) <= y
    BY <1>5, MinIs
  <2>2. Min(bad) \in Nat /\ Min(bad) <= k + 1 /\ k + 1 <= Min(bad)
    BY <1>5, <1>6, <2>1
  <2> QED
    BY <2>2
<1>8. GoodLines(lines) = good
  BY <1>4, <1>5, <1>7
<1>9. DOMAIN good = 1..k /\ \A i \in 1..k : good[i] = ll[i]
  BY <1>1, <1>2, <1>3
<1> QED
  BY <1>1, <1>2, <1>4, <1>8, <1>9

\* The scanner loop of ParseConfReader reads every text as its logical lines.
LEMMA ParserFaithful ==
    ASSUME NEW lines \in Texts \cup FewTexts
    PROVE  ReadAsWritten(lines)
<1> DEFINE r == ParseConfReader(lines)
           ll == LogicalLines(lines)
<1>1. IsText(lines, Words)
  <2> DEFINE R == [words : Seq(Words), cont : BOOLEAN]
  <2>1. \A w \in Seq(Words) : \A c \in BOOLEAN : Line(w, c) \in R
    BY DEF Line
  <2>2. /\ <<"install", Module, "/bin/false">> \in Seq(Words)
        /\ <<"install", Module, "/bin/true">> \in Seq(Words)
        /\ <<"blacklist", Module>> \in Seq(Words)
        /\ <<"install", Module>> \in Seq(Words)
        /\ <<"/bin/false">> \in Seq(Words)
        /\ <<>> \in Seq(Words)
    BY DEF Words
  <2> HIDE DEF R
  <2>3. /\ Blocks \in R /\ Overrides \in R /\ Blacklists \in R /\ Opens \in R
        /\ Closes \in R /\ Backslash \in R /\ Empty \in R
    BY <2>1, <2>2 DEF Blocks, Overrides, Blacklists, Opens, Closes, Backslash, Empty
  <2>4. Lines \subseteq R
    BY <2>3 DEF Lines
  <2>5. CASE lines \in Texts
    <3>1. PICK n \in 0..MaxLines : lines \in [1..n -> Lines]
      BY <2>5 DEF Texts
    <3>2. lines \in [1..n -> R] /\ n \in Nat
      BY <2>4, <3>1, BoundsAssumption
    <3>3. lines \in Seq(R)
      BY <3>2
    <3> QED
      BY <3>3 DEF IsText, R
  <2>6. CASE lines \in FewTexts
    <3>1. \/ lines = <<Blocks, Blacklists>> \/ lines = <<Overrides>>
          \/ lines = <<Blocks, Closes>>
      BY <2>6 DEF FewTexts
    <3>2. \A a \in R, b \in R : <<a, b>> \in Seq(R) /\ <<a>> \in Seq(R)
      OBVIOUS
    <3>3. lines \in Seq(R)
      BY <2>3, <3>1, <3>2
    <3> QED
      BY <3>3 DEF IsText, R
  <2> QED
    BY <2>5, <2>6
<1>2. DirectivesOver(Words) = Directives
  BY DEF DirectivesOver, Directives
<1>3. /\ r \in ScannerOver(Words) /\ ll \in Seq(Seq(Words))
      /\ IF r.malformed THEN Broken(r.directives, ll) ELSE Matches(r.directives, ll)
  BY <1>1, ParsedIs
<1>4. r.directives \in Seq(Directives) /\ r.malformed \in BOOLEAN
  <2> DEFINE D == DirectivesOver(Words)
  <2>1. r \in [pending : Seq(Words), pendingStart : Nat, lineNum : Nat,
               directives : Seq(D), malformed : BOOLEAN]
    BY <1>3 DEF ScannerOver
  <2> HIDE DEF D, r
  <2>2. r.directives \in Seq(D) /\ r.malformed \in BOOLEAN
    BY <2>1
  <2> QED
    BY <1>2, <2>2 DEF D
<1> HIDE DEF r, ll
<1> DEFINE ds == r.directives
           good == GoodLines(lines)
           said == DOMAIN ds = DOMAIN good /\ \A i \in DOMAIN good : Says(ds[i], good[i])
<1>5. ReadAsWritten(lines) <=> /\ r.malformed <=> ~WellFormed(lines)
                              /\ ds \in Seq(Directives) /\ said
  BY DEF ReadAsWritten, Says, r
<1>6. CASE r.malformed
  <2>1. Broken(ds, LogicalLines(lines)) /\ LogicalLines(lines) \in Seq(Seq(Words))
    BY <1>3, <1>6 DEF ll
  <2> HIDE DEF ds, good
  <2>2. ~WellFormed(lines) /\ said
    BY <1>4, <2>1, BrokenIsGood DEF ds, good
  <2> QED
    BY <1>4, <1>5, <1>6, <2>2 DEF ds
<1>7. CASE ~r.malformed
  <2>1. Matches(ds, LogicalLines(lines)) /\ LogicalLines(lines) \in Seq(Seq(Words))
    BY <1>3, <1>7 DEF ll
  <2> HIDE DEF ds, good
  <2>2. WellFormed(lines) /\ said
    BY <1>4, <2>1, MatchedIsGood DEF ds, good
  <2> QED
    BY <1>4, <1>5, <1>7, <2>2 DEF ds
<1> QED
  BY <1>6, <1>7

-----------------------------------------------------------------------------
(***************************************************************************)
(* Directives.                                                             *)
(***************************************************************************)

\* A whole text's directives install and blacklist what its logical lines do.
LEMMA DirectivesAsWritten ==
    ASSUME NEW lines, ReadAsWritten(lines), WellFormed(lines)
    PROVE  LET d == ParseConfReader(lines).directives
               l == LogicalLines(lines)
           IN  /\ Installs(d, Module) = DirectiveLines(l, "install", Module)
               /\ InstallTarget(d, Module) = InForce(l, Module)
               /\ IsBlacklisted(d, Module) <=> DirectiveLines(l, "blacklist", Module) # {}
<1> DEFINE d == ParseConfReader(lines).directives
           l == LogicalLines(lines)
<1>1. GoodLines(lines) = l
  BY DEF WellFormed, GoodLines
<1>2. /\ DOMAIN d = DOMAIN l
      /\ \A i \in DOMAIN l : /\ d[i].kind = l[i][1]
                             /\ d[i].module = l[i][2]
                             /\ d[i].args = SubSeq(l[i], 3, Len(l[i]))
  BY <1>1, Zenon DEF ReadAsWritten
<1>3. \A i \in DOMAIN l : IsDirective(l[i])
  BY DEF WellFormed
<1>7. Len(d) \in Nat /\ Installs(d, Module) \in SUBSET (1..Len(d))
  <2>1. d \in Seq(Directives)
    BY DEF ReadAsWritten
  <2> HIDE DEF d
  <2> QED
    BY <2>1 DEF Installs
<1> HIDE DEF d, l
<1>4. Installs(d, Module) = DirectiveLines(l, "install", Module)
  BY <1>2, <1>3 DEF Installs, DirectiveLines
<1>5. IsBlacklisted(d, Module) <=> DirectiveLines(l, "blacklist", Module) # {}
  BY <1>2, <1>3 DEF IsBlacklisted, DirectiveLines
<1>6. InstallTarget(d, Module) = InForce(l, Module)
  <2>1. CASE Installs(d, Module) = {}
    BY <1>4, <2>1 DEF InstallTarget, InForce
  <2>2. CASE Installs(d, Module) # {}
    <3> DEFINE m == Max(Installs(d, Module))
    <3>1. m \in Installs(d, Module)
      BY <1>7, <2>2, TopIs
    <3> QED
      BY <1>2, <1>4, <2>2, <3>1 DEF InstallTarget, InForce, Installs
  <2> QED
    BY <2>1, <2>2
<1> QED
  BY <1>4, <1>5, <1>6 DEF d, l

\* The last install directive of two lists is the second's, if it has one.
LEMMA LaterListWins ==
    ASSUME NEW s \in Seq(Directives), NEW t \in Seq(Directives)
    PROVE  /\ Installs(s \o t, Module) = {} <=>
                 Installs(s, Module) = {} /\ Installs(t, Module) = {}
           /\ Installs(t, Module) # {} =>
                 InstallTarget(s \o t, Module) = InstallTarget(t, Module)
           /\ Installs(t, Module) = {} =>
                 InstallTarget(s \o t, Module) = InstallTarget(s, Module)
<1> DEFINE A == Installs(s, Module)
           B == Installs(t, Module)
           C == Installs(s \o t, Module)
           n == Len(s)
           k == Len(t)
<1>1. /\ s \o t \in Seq(Directives) /\ Len(s \o t) = n + k
      /\ \A i \in 1..n : (s \o t)[i] = s[i]
      /\ \A i \in 1..k : (s \o t)[n + i] = t[i]
  OBVIOUS
<1>2. n \in Nat /\ k \in Nat
  OBVIOUS
<1>3. A \in SUBSET (1..n) /\ B \in SUBSET (1..k) /\ C \in SUBSET (1..(n + k))
  BY <1>1 DEF Installs
<1>4. \A i \in 1..n : i \in C <=> i \in A
  BY <1>1 DEF Installs
<1>5. \A i \in 1..k : n + i \in C <=> i \in B
  BY <1>1 DEF Installs
<1> HIDE DEF A, B, C, n, k
<1>6. \A i \in C : i \in 1..n \/ (i - n \in 1..k /\ n + (i - n) = i)
  BY <1>2, <1>3
<1>7. C = {} <=> A = {} /\ B = {}
  <2>1. ASSUME C # {} PROVE A # {} \/ B # {}
    <3>1. PICK i \in C : TRUE
      BY <2>1
    <3>2. CASE i \in 1..n
      BY <1>4, <3>2
    <3>3. CASE i - n \in 1..k /\ n + (i - n) = i
      BY <1>5, <3>1, <3>3
    <3> QED
      BY <1>6, <3>2, <3>3
  <2> QED
    BY <1>3, <1>4, <1>5, <2>1
<1>8. ASSUME B # {}
      PROVE  InstallTarget(s \o t, Module) = InstallTarget(t, Module)
  <2> DEFINE m == Max(B)
  <2>1. m \in B /\ \A y \in B : m >= y
    BY <1>2, <1>3, <1>8, TopIs
  <2> HIDE DEF m
  <2>2. m \in 1..k /\ n + m \in C
    BY <1>3, <1>5, <2>1
  <2>3. ASSUME NEW y \in C
        PROVE  n + m >= y
    <3>1. CASE y \in 1..n
      BY <1>2, <2>2, <3>1
    <3>2. CASE y - n \in 1..k /\ n + (y - n) = y
      <4>1. m >= y - n
        BY <1>5, <2>1, <3>2
      <4> QED
        BY <1>2, <1>3, <2>2, <3>2, <4>1
    <3> QED
      BY <1>6, <3>1, <3>2
  <2>4. Max(C) = n + m
    <3>1. n + k \in Nat
      BY <1>2
    <3> QED
      BY <1>3, <2>2, <2>3, <3>1, TopOnly
  <2>5. InstallTarget(t, Module) = t[m].args
    BY <1>8 DEF InstallTarget, m, B
  <2>6. InstallTarget(s \o t, Module) = (s \o t)[n + m].args
    BY <2>2, <2>4 DEF InstallTarget, C
  <2> QED
    BY <1>1, <2>2, <2>5, <2>6
<1>9. ASSUME B = {}
      PROVE  InstallTarget(s \o t, Module) = InstallTarget(s, Module)
  <2>1. C \subseteq A
    <3>1. ASSUME NEW i \in C PROVE i \in A
      BY <1>4, <1>5, <1>6, <1>9
    <3> QED
      BY <3>1
  <2>2. C = A
    BY <1>3, <1>4, <2>1
  <2>3. CASE A = {}
    BY <2>2, <2>3 DEF InstallTarget, A, C
  <2>4. CASE A # {}
    <3>1. Max(A) \in 1..n
      BY <1>2, <1>3, <2>4, TopIs
    <3>2. InstallTarget(s, Module) = s[Max(A)].args
      BY <2>4 DEF InstallTarget, A
    <3>3. InstallTarget(s \o t, Module) = (s \o t)[Max(A)].args
      BY <2>2, <2>4 DEF InstallTarget, C
    <3> QED
      BY <1>1, <3>1, <3>2, <3>3
  <2> QED
    BY <2>3, <2>4
<1> QED
  BY <1>7, <1>8, <1>9 DEF A, B, C
-----------------------------------------------------------------------------
(***************************************************************************)
(* The scan.                                                               *)
(***************************************************************************)

\* Nothing but a regular file has lines to install by.
LEMMA InstallingAre ==
    ASSUME NEW h
    PROVE  /\ NumFiles \in Nat
           /\ Installing(h) \in SUBSET (1..NumFiles)
           /\ \A rest : Seen(h, rest) \in SUBSET (1..NumFiles)
BY NumFilesAssumption DEF Installing, Seen, Files

\* Two hosts that agree on the files behind the scan have the same there.
LEMMA SeenAlike ==
    ASSUME NEW g, NEW h, g.dir = h.dir, NEW rest \in SUBSET Files, NEW list,
           \A f \in Files \ rest : g.files[f] = h.files[f],
           SeenAs(g, rest, list)
    PROVE  SeenAs(h, rest, list)
<1>1. \A f \in Passed(rest) : f \in Files \ rest
  <2>1. ASSUME NEW f \in Passed(rest), f \in rest
        PROVE  FALSE
    BY <2>1, NumFilesAssumption DEF Passed, Files
  <2> QED
    BY <2>1 DEF Passed
<1>2. Seen(g, rest) = Seen(h, rest)
  BY <1>1 DEF Seen, Installing, Reach, Logical
<1>3. ASSUME Seen(g, rest) # {}
      PROVE  Logical(g, Max(Seen(g, rest))) = Logical(h, Max(Seen(g, rest)))
  <2>1. Max(Seen(g, rest)) \in Seen(g, rest)
    BY <1>3, InstallingAre, TopIs
  <2> QED
    BY <1>1, <2>1 DEF Logical, Seen
<1> QED
  BY <1>1, <1>2, <1>3 DEF SeenAs

\* The file that the scan visits next may be taken for what it is now.
LEMMA NowOrBefore ==
    ASSUME NEW g \in Hosts, NEW h \in Hosts, OneChange(g, h),
           NEW rest \in SUBSET Files, NEW e \in rest, NEW list,
           SeenAs(g, rest, list) \/ SeenAs(h, rest, list)
    PROVE  \/ SeenAs(h, rest, list)
           \/ SeenAs(g, rest, list) /\ g.files[e] = h.files[e]
<1>1. CASE SeenAs(g, rest, list) /\ g.files[e] # h.files[e]
  <2>1. PICK f \in Files : \A x \in Files \ {f} : g.files[x] = h.files[x]
    BY <1>1 DEF OneChange
  <2>2. f = e
    BY <1>1, <2>1
  <2>3. \A x \in Files \ rest : g.files[x] = h.files[x]
    BY <2>1, <2>2
  <2>4. g.dir = h.dir
    BY DEF OneChange
  <2> QED
    BY <1>1, <2>3, <2>4, SeenAlike
<1> QED
  BY <1>1

\* A file read to its end, or one that is skipped, joins those behind.
LEMMA SeenGrows ==
    ASSUME NEW g, NEW rest \in SUBSET Files, rest # {}, NEW list \in Seq(Directives),
           SeenAs(g, rest, list), NEW more \in Seq(Directives),
           Min(rest) \in Installing(g) <=> Installs(more, Module) # {},
           Min(rest) \in Installing(g) =>
              InstallTarget(more, Module) = InForce(Logical(g, Min(rest)), Module)
    PROVE  SeenAs(g, rest \ {Min(rest)}, list \o more)
<1> DEFINE e == Min(rest)
           left == rest \ {e}
<1>1. e \in rest /\ \A t \in rest : e <= t
  <2>1. rest \in SUBSET Nat
    BY NumFilesAssumption DEF Files
  <2> QED
    BY <2>1, MinIs
<1>2. \A x \in Files : x \in Int
  BY NumFilesAssumption DEF Files
<1> HIDE DEF e
<1>3. e \in Passed(left) /\ Passed(rest) \subseteq Passed(left)
  BY <1>1, <1>2 DEF Passed
<1>4. \A x \in Passed(rest) : x < e
  BY <1>1 DEF Passed
<1>5. ASSUME NEW x \in Passed(left), x \notin Passed(rest), x # e
      PROVE  x \in Files \ (Passed(rest) \cup rest)
  <2>1. x \notin rest
    <3>1. x \notin left
      BY <1>2, <1>5 DEF Passed
    <3> QED
      BY <1>5, <3>1
  <2> QED
    BY <1>5, <2>1 DEF Passed
<1>6. \A f \in Files \ (Passed(rest) \cup rest) : f \notin Installing(g)
  BY DEF SeenAs, Installing, Reach
<1>7. Seen(g, left) = Seen(g, rest) \cup ({e} \cap Installing(g))
  BY <1>3, <1>5, <1>6 DEF Seen
<1>8. \A f \in Files \ (Passed(left) \cup left) : g.files[f].kind = "none"
  BY <1>3 DEF SeenAs
<1>9. Installs(list \o more, Module) = {} <=> Seen(g, left) = {}
  BY <1>7, LaterListWins DEF SeenAs, e
<1>10. ASSUME Seen(g, left) # {}
       PROVE  InstallTarget(list \o more, Module)
                = InForce(Logical(g, Max(Seen(g, left))), Module)
  <2>1. CASE e \in Installing(g)
    <3>1. e \in Seen(g, left)
      BY <1>7, <2>1
    <3>2. ASSUME NEW y \in Seen(g, left)
          PROVE  e >= y
      <4>1. y = e \/ y \in Passed(rest)
        BY <1>7 DEF Seen
      <4>2. y \in Int /\ e \in Int
        BY <1>1, <1>2 DEF Seen, Passed
      <4> QED
        BY <1>4, <4>1, <4>2
    <3>3. Max(Seen(g, left)) = e
      BY <3>1, <3>2, InstallingAre, TopOnly
    <3>4. InstallTarget(list \o more, Module) = InstallTarget(more, Module)
      BY <2>1, LaterListWins DEF e
    <3> QED
      BY <2>1, <3>3, <3>4 DEF e
  <2>2. CASE e \notin Installing(g)
    <3>1. Seen(g, left) = Seen(g, rest)
      BY <1>7, <2>2
    <3>2. InstallTarget(list \o more, Module) = InstallTarget(list, Module)
      BY <2>2, LaterListWins DEF e
    <3> QED
      BY <1>10, <3>1, <3>2 DEF SeenAs
  <2> QED
    BY <2>1, <2>2
<1> QED
  BY <1>8, <1>9, <1>10 DEF SeenAs, e
-----------------------------------------------------------------------------
(***************************************************************************)
(* The inductive invariant.                                                *)
(***************************************************************************)

\* A file has one of the texts, the empty one if it cannot be read.
LEMMA FileText ==
    ASSUME NEW h \in Hosts, NEW f \in Files
    PROVE  /\ h.files[f] \in File(Texts \cup FewTexts)
           /\ h.files[f].kind \in {"regular", "denied", "other"} \cup NoSuchFile
           /\ h.files[f].lines \in Texts \cup FewTexts
<1>1. h.files[f] \in File(Texts \cup FewTexts)
  BY DEF Hosts
<1>2. <<>> \in Texts
  <2>1. <<>> \in [1..0 -> Lines] /\ 0 \in 0..MaxLines
    BY BoundsAssumption
  <2> QED
    BY <2>1 DEF Texts
<1> QED
  BY <1>1, <1>2 DEF File, NoSuchFile

\* A regular file that parses is found as it is.
LEMMA TextRead ==
    ASSUME NEW h \in Hosts, NEW f \in Files, h.files[f].kind = "regular"
    PROVE  LET read == ParseConfReader(h.files[f].lines)
           IN  /\ read.directives \in Seq(Directives)
               /\ ~read.malformed => WellFormed(h.files[f].lines)
               /\ ~read.malformed /\ h.dir = "present" =>
                     /\ f \in Installing(h) <=> Installs(read.directives, Module) # {}
                     /\ InstallTarget(read.directives, Module) = InForce(Logical(h, f), Module)
<1>1. ReadAsWritten(h.files[f].lines)
  BY FileText, ParserFaithful
<1>2. /\ ParseConfReader(h.files[f].lines).directives \in Seq(Directives)
      /\ ~ParseConfReader(h.files[f].lines).malformed => WellFormed(h.files[f].lines)
  BY <1>1 DEF ReadAsWritten
<1>3. ASSUME ~ParseConfReader(h.files[f].lines).malformed, h.dir = "present"
      PROVE  LET d == ParseConfReader(h.files[f].lines).directives
             IN  /\ f \in Installing(h) <=> Installs(d, Module) # {}
                 /\ InstallTarget(d, Module) = InForce(Logical(h, f), Module)
  BY <1>1, <1>2, <1>3, DirectivesAsWritten DEF Installing, Reach, Logical
<1> QED
  BY <1>2, <1>3

LEMMA InitIInv == Init => IInv
<1> SUFFICES ASSUME Init PROVE IInv
  OBVIOUS
<1>1. host \in Hosts
  <2>1. CASE \E files \in [Files -> File(FewTexts)],
                table \in {"absent", "loaded", "malformed", "unreadable"} :
                host = [dir |-> "present", files |-> files, table |-> table]
    BY <2>1 DEF Hosts, File
  <2>2. CASE \E lines \in Texts :
                host = [dir   |-> "present",
                        files |-> [f \in Files |->
                                      IF f = Conf
                                      THEN [kind |-> "regular", lines |-> lines]
                                      ELSE NoFile],
                        table |-> "absent"]
    BY <2>2 DEF Hosts, File, NoFile, NoSuchFile
  <2>3. CASE \E dir \in {"missing", "denied"} :
                host = [dir |-> dir, files |-> [f \in Files |-> NoFile], table |-> "absent"]
    BY <2>3 DEF Hosts, File, NoFile, NoSuchFile
  <2> QED
    BY <2>1, <2>2, <2>3 DEF Init
<1>2. TypeOK
  BY <1>1, BoundsAssumption DEF Init, TypeOK
<1>3. ScanInv
  BY DEF Init, ScanInv, CheckNames
<1>4. HistoryInv
  BY DEF Init, HistoryInv, OneChange, CheckNames
<1> QED
  BY <1>2, <1>3, <1>4 DEF IInv

\* The invariant in a state where only the checks that look once have moved.
LEMMA ChecksKeep ==
    ASSUME IInv, NEW c \in CheckNames \ {"dependency_chain"}, NEW st \in {"pass", "fail", "error"},
           Finish(c, st), UNCHANGED scanVars,
           c = "conf_correct" /\ st = "pass" => ConfCorrectOf(host) = "pass",
           c = "not_loaded" /\ st = "pass" => host.table = "absent"
    PROVE  IInv'
<1>1. /\ UNCHANGED <<host, first, changes, todo, pc, found, errs>>
      /\ state' = [state EXCEPT ![c] = st]
      /\ state \in [CheckNames -> {"running", "pass", "fail", "error"}]
  BY DEF Finish, scanVars, IInv, TypeOK
<1>2. /\ state'["dependency_chain"] = state["dependency_chain"]
      /\ state'["conf_correct"] = "pass" =>
            state["conf_correct"] = "pass" \/ ConfCorrectOf(host) = "pass"
      /\ state'["not_loaded"] = "pass" => state["not_loaded"] = "pass" \/ host.table = "absent"
  BY <1>1 DEF CheckNames
<1>3. TypeOK'
  BY <1>1 DEF IInv, TypeOK
<1>4. ScanInv'
  BY <1>1, <1>2 DEF IInv, ScanInv, ChainVerdict, PartialVerdict
<1>5. HistoryInv'
  BY <1>1, <1>2 DEF IInv, HistoryInv
<1> QED
  BY <1>3, <1>4, <1>5 DEF IInv

LEMMA LookOnceKeeps == IInv /\ (ConfPresent \/ ConfCorrect \/ DryRun \/ NotLoaded) => IInv'
<1>1. ASSUME IInv, ConfPresent PROVE IInv'
  <2>1. PICK st \in {"pass", "fail", "error"} : Finish("conf_present", st)
    BY <1>1 DEF ConfPresent
  <2> QED
    BY <1>1, <2>1, ChecksKeep DEF ConfPresent, CheckNames
<1>2. ASSUME IInv, ConfCorrect PROVE IInv'
  <2>1. ConfCorrectOf(host) \in {"pass", "fail", "error"}
    BY DEF ConfCorrectOf
  <2>2. Finish("conf_correct", ConfCorrectOf(host)) /\ UNCHANGED scanVars
    BY <1>2 DEF ConfCorrect
  <2> QED
    BY <1>2, <2>1, <2>2, ChecksKeep DEF CheckNames
<1>3. ASSUME IInv, DryRun PROVE IInv'
  <2>1. PICK st \in {"pass", "fail", "error"} : Finish("dry_run", st)
    BY <1>3 DEF DryRun, DryRunModule
  <2> QED
    BY <1>3, <2>1, ChecksKeep DEF DryRun, CheckNames
<1>4. ASSUME IInv, NotLoaded PROVE IInv'
  <2>1. host.table \in {"absent", "loaded", "malformed", "unreadable"}
    BY <1>4 DEF IInv, TypeOK, Hosts
  <2>2. PICK st \in {"pass", "fail", "error"} : /\ Finish("not_loaded", st)
                                                /\ st = "pass" => host.table = "absent"
    BY <1>4, <2>1 DEF NotLoaded, ProcModules
  <2> QED
    BY <1>4, <2>2, ChecksKeep DEF NotLoaded, CheckNames
<1> QED
  BY <1>1, <1>2, <1>3, <1>4
\* The administrator's first change makes the host before it the first.
LEMMA ChangeKeeps == IInv /\ Change => IInv'
<1> SUFFICES ASSUME IInv, Change PROVE IInv'
  OBVIOUS
<1>1. /\ UNCHANGED <<first, state, todo, pc, found, errs>>
      /\ changes' = changes + 1
      /\ changes \in Nat /\ changes + 1 \in 0..MaxChanges
  <2>1. changes \in 0..MaxChanges /\ MaxChanges \in Nat
    BY BoundsAssumption DEF IInv, TypeOK
  <2>2. changes < MaxChanges /\ changes' = changes + 1
    BY DEF Change
  <2>3. changes \in Nat /\ changes + 1 \in 0..MaxChanges
    BY <2>1, <2>2
  <2> QED
    BY <2>2, <2>3 DEF Change, scanVars
<1>2. host' \in Hosts /\ host'.dir = host.dir /\ OneChange(host, host')
  <2>1. host \in Hosts
    BY DEF IInv, TypeOK
  <2>2. CASE \E f \in Files, new \in File(FewTexts) : host' = [host EXCEPT !.files[f] = new]
    <3>1. PICK f \in Files, new \in File(FewTexts) : host' = [host EXCEPT !.files[f] = new]
      BY <2>2
    <3>2. new \in File(Texts \cup FewTexts)
      BY <3>1 DEF File
    <3>3. /\ host'.files = [host.files EXCEPT ![f] = new]
          /\ host'.dir = host.dir /\ host'.table = host.table
          /\ host' = [dir |-> host.dir, files |-> host'.files, table |-> host.table]
      BY <2>1, <3>1 DEF Hosts
    <3>4. host'.files \in [Files -> File(Texts \cup FewTexts)]
      BY <2>1, <3>2, <3>3 DEF Hosts
    <3>5. \A e \in Files \ {f} : host.files[e] = host'.files[e]
      BY <2>1, <3>3 DEF Hosts
    <3> QED
      BY <2>1, <3>3, <3>4, <3>5 DEF Hosts, OneChange
  <2>3. CASE \E t \in {"absent", "loaded"} : host' = [host EXCEPT !.table = t]
    BY <2>1, <2>3 DEF Hosts, OneChange
  <2> QED
    BY <2>2, <2>3 DEF Change
<1>3. TypeOK'
  BY <1>1, <1>2 DEF IInv, TypeOK
<1>4. ScanInv'
  BY <1>1, <1>2 DEF IInv, ScanInv, ChainVerdict, PartialVerdict
<1>5. HistoryInv'
  <2>1. CASE changes = 0
    <3>1. host = first
      BY <2>1 DEF IInv, HistoryInv
    <3>2. pc # "readdir" /\ errs = {} => SeenAs(first, todo, found)
      BY <2>1, <3>1 DEF IInv, HistoryInv
    <3>3. state["conf_correct"] = "pass" => ConfCorrectOf(first) = "pass"
      BY <2>1, <3>1 DEF IInv, HistoryInv
    <3>4. state["not_loaded"] = "pass" => first.table = "absent"
      BY <2>1, <3>1 DEF IInv, HistoryInv
    <3>5. changes' = 1
      BY <1>1, <2>1
    <3> QED
      BY <1>1, <1>2, <3>1, <3>2, <3>3, <3>4, <3>5 DEF HistoryInv
  <2>2. CASE changes # 0
    <3>1. ~(changes' <= 1) /\ changes' # 0
      BY <1>1, <2>2
    <3> QED
      BY <3>1 DEF HistoryInv
  <2> QED
    BY <2>1, <2>2
<1> QED
  BY <1>3, <1>4, <1>5 DEF IInv

\* What a step of the scan leaves to show.
LEMMA ScanKeeps ==
    ASSUME IInv, UNCHANGED <<host, first, changes>>, TypeOK', ScanInv',
           state'["conf_correct"] = state["conf_correct"],
           state'["not_loaded"] = state["not_loaded"],
           changes <= 1 /\ pc' # "readdir" /\ errs' = {} =>
              SeenAs(first, todo', found') \/ SeenAs(host, todo', found'),
           changes = 0 /\ pc' # "readdir" /\ errs' = {} =>
              \A f \in Passed(todo') : host.files[f].kind = "regular"
                                          => WellFormed(host.files[f].lines)
    PROVE  IInv'
<1>1. HistoryInv'
  BY DEF IInv, HistoryInv
<1> QED
  BY <1>1 DEF IInv

LEMMA ReadDirKeeps == IInv /\ ReadDir => IInv'
<1> SUFFICES ASSUME IInv, ReadDir PROVE IInv'
  OBVIOUS
<1>1. /\ UNCHANGED <<host, first, changes, state, found, errs>>
      /\ pc = "readdir" /\ pc' = "look" /\ host.dir = "present"
      /\ todo' = {f \in Files : host.files[f].kind # "none"}
      /\ found = <<>> /\ errs = {}
  BY DEF ReadDir, Scan, IInv, ScanInv
<1>2. TypeOK'
  BY <1>1 DEF IInv, TypeOK
<1>3. ScanInv'
  BY <1>1 DEF IInv, ScanInv
<1>4. \A f \in Passed(todo') : host.files[f].kind = "none"
  <2>1. ASSUME NEW f \in Passed(todo'), f \in todo'
        PROVE  FALSE
    BY <2>1, NumFilesAssumption DEF Passed, Files
  <2> QED
    BY <1>1, <2>1 DEF Passed
<1>5. SeenAs(host, todo', found')
  <2>1. Installs(<<>>, Module) = {}
    BY DEF Installs
  <2>2. Seen(host, todo') = {}
    BY <1>1, <1>4 DEF Seen, Installing, Reach
  <2> QED
    BY <1>1, <2>1, <2>2 DEF SeenAs
<1> QED
  BY <1>1, <1>2, <1>3, <1>4, <1>5, ScanKeeps

LEMMA ReadDirFailsKeeps == IInv /\ ReadDirFails => IInv'
<1> SUFFICES ASSUME IInv, ReadDirFails PROVE IInv'
  OBVIOUS
<1>1. /\ UNCHANGED <<host, first, changes, todo, found>>
      /\ pc = "readdir" /\ pc' = "done"
      /\ errs' \in {{"not exist"}, {"denied"}}
      /\ state' \in {[state EXCEPT !["dependency_chain"] = "fail"],
                     [state EXCEPT !["dependency_chain"] = "error"]}
      /\ state \in [CheckNames -> {"running", "pass", "fail", "error"}]
  BY DEF ReadDirFails, Scan, IInv, TypeOK
<1>2. /\ state'["dependency_chain"] \in {"fail", "error"}
      /\ state'["conf_correct"] = state["conf_correct"]
      /\ state'["not_loaded"] = state["not_loaded"]
  BY <1>1 DEF CheckNames
<1>3. errs' # {} /\ errs' \subseteq {"not exist", "denied", "parse", "read"}
  BY <1>1
<1>4. TypeOK'
  BY <1>1, <1>3 DEF IInv, TypeOK
<1>5. ScanInv'
  BY <1>1, <1>2, <1>3 DEF ScanInv
<1> QED
  BY <1>1, <1>2, <1>3, <1>4, <1>5, ScanKeeps

\* The files behind the scan, one on.
LEMMA PassedGrows ==
    ASSUME NEW rest \in SUBSET Files, rest # {}, NEW f \in Passed(rest \ {Min(rest)})
    PROVE  f \in Passed(rest) \/ f = Min(rest) \/ f \in Files \ (Passed(rest) \cup rest)
<1>1. f \notin rest \ {Min(rest)}
  BY NumFilesAssumption DEF Passed, Files
<1> QED
  BY <1>1 DEF Passed

\* The scan is done with a file, which it has skipped or read to its end.
LEMMA EntryJoins ==
    ASSUME IInv, changes <= 1, todo # {}, errs = {},
           pc \in {"look", "read"}, NEW more \in Seq(Directives),
           \/ host.files[entry].kind = "other" /\ more = <<>>
           \/ /\ host.files[entry].kind = "regular"
              /\ ~ParseConfReader(host.files[entry].lines).malformed
              /\ more = ParseConfReader(host.files[entry].lines).directives
    PROVE  /\ \/ SeenAs(first, todo \ {entry}, found \o more)
              \/ SeenAs(host, todo \ {entry}, found \o more)
           /\ changes = 0 =>
                 \A f \in Passed(todo \ {entry}) :
                     host.files[f].kind = "regular" => WellFormed(host.files[f].lines)
<1>1. /\ host \in Hosts /\ first \in Hosts /\ todo \subseteq Files /\ found \in Seq(Directives)
      /\ OneChange(first, host) /\ host.dir = "present" /\ first.dir = "present"
      /\ changes = 0 => host = first
      /\ SeenAs(first, todo, found) \/ SeenAs(host, todo, found)
  BY DEF IInv, TypeOK, ScanInv, HistoryInv, OneChange
<1>2. entry \in todo /\ entry \in Files
  <2>1. todo \in SUBSET Nat
    BY <1>1, NumFilesAssumption DEF Files
  <2> QED
    BY <1>1, <2>1, MinIs DEF entry
<1>3. ASSUME NEW g \in {first, host}, SeenAs(g, todo, found),
             g.files[entry] = host.files[entry]
      PROVE  SeenAs(g, todo \ {entry}, found \o more)
  <2>1. g \in Hosts /\ g.dir = "present"
    BY <1>1, <1>3
  <2>2. CASE host.files[entry].kind = "other"
    <3>1. entry \notin Installing(g)
      BY <1>3, <2>1, <2>2 DEF Installing, Reach
    <3>2. Installs(more, Module) = {}
      BY <2>2 DEF Installs
    <3> QED
      BY <1>1, <1>3, <3>1, <3>2, SeenGrows DEF entry
  <2>3. CASE host.files[entry].kind = "regular"
    <3>1. /\ entry \in Installing(g) <=> Installs(more, Module) # {}
          /\ InstallTarget(more, Module) = InForce(Logical(g, entry), Module)
      BY <1>2, <1>3, <2>1, <2>3, TextRead
    <3> QED
      BY <1>1, <1>3, <3>1, SeenGrows DEF entry
  <2> QED
    BY <2>2, <2>3
<1>4. \/ SeenAs(first, todo \ {entry}, found \o more)
      \/ SeenAs(host, todo \ {entry}, found \o more)
  <2>1. \/ SeenAs(host, todo, found)
        \/ SeenAs(first, todo, found) /\ first.files[entry] = host.files[entry]
    BY <1>1, <1>2, NowOrBefore
  <2> QED
    BY <1>3, <2>1
<1>5. ASSUME changes = 0, NEW f \in Passed(todo \ {entry}), host.files[f].kind = "regular"
      PROVE  WellFormed(host.files[f].lines)
  <2>1. \A x \in Files \ (Passed(todo) \cup todo) : host.files[x].kind = "none"
    BY <1>1, <1>5 DEF SeenAs
  <2>2. f \in Passed(todo) \/ f = entry
    BY <1>1, <1>5, <2>1, PassedGrows DEF entry
  <2>3. CASE f \in Passed(todo)
    BY <1>5, <2>3 DEF IInv, HistoryInv
  <2>4. CASE f = entry
    BY <1>1, <1>2, <1>5, <2>4, TextRead
  <2> QED
    BY <2>2, <2>3, <2>4
<1> QED
  BY <1>4, <1>5

LEMMA LookKeeps == IInv /\ Look => IInv'
<1> SUFFICES ASSUME IInv, Look PROVE IInv'
  OBVIOUS
<1>1. /\ UNCHANGED <<host, first, changes, state, found>>
      /\ pc = "look" /\ todo # {} /\ host.dir = "present"
  BY DEF Look, Scan, IInv, ScanInv
<1>2. CASE host.files[entry].kind \in NoSuchFile
  <2>1. /\ pc' = "look" /\ todo' = todo \ {entry} /\ errs' = errs \cup {"not exist"}
    BY <1>2 DEF Look, Scan, NoSuchFile
  <2>2. TypeOK'
    BY <1>1, <2>1 DEF IInv, TypeOK
  <2>3. ScanInv'
    BY <1>1, <2>1 DEF IInv, ScanInv
  <2> QED
    BY <1>1, <2>1, <2>2, <2>3, ScanKeeps
<1>3. CASE host.files[entry].kind = "other"
  <2>1. /\ pc' = "look" /\ todo' = todo \ {entry} /\ errs' = errs
    BY <1>3 DEF Look, Scan, NoSuchFile
  <2>2. TypeOK'
    BY <1>1, <2>1 DEF IInv, TypeOK
  <2>3. ScanInv'
    BY <1>1, <2>1 DEF IInv, ScanInv
  <2>4. <<>> \in Seq(Directives) /\ found \o <<>> = found
    <3>1. found \in Seq(Directives)
      BY DEF IInv, TypeOK
    <3> QED
      BY <3>1
  <2>5. ASSUME errs = {}, changes <= 1
        PROVE  /\ SeenAs(first, todo', found') \/ SeenAs(host, todo', found')
               /\ changes = 0 =>
                     \A f \in Passed(todo') : host.files[f].kind = "regular"
                                                 => WellFormed(host.files[f].lines)
    <3> DEFINE more == <<>>
    <3>1. more \in Seq(Directives) /\ found \o more = found'
      BY <1>1, <2>4
    <3> QED
      BY <1>1, <1>3, <2>1, <2>5, <3>1, EntryJoins
  <2>6. changes = 0 => changes <= 1
    OBVIOUS
  <2> QED
    BY <1>1, <2>1, <2>2, <2>3, <2>5, <2>6, ScanKeeps
<1>4. CASE host.files[entry].kind \notin NoSuchFile \cup {"other"}
  <2>1. pc' = "read" /\ UNCHANGED <<todo, errs>>
    BY <1>4 DEF Look, Scan
  <2>2. TypeOK'
    BY <1>1, <2>1 DEF IInv, TypeOK
  <2>3. ScanInv'
    BY <1>1, <2>1 DEF IInv, ScanInv
  <2>4. HistoryInv'
    BY <1>1, <2>1 DEF IInv, HistoryInv
  <2> QED
    BY <2>2, <2>3, <2>4 DEF IInv
<1> QED
  BY <1>2, <1>3, <1>4

LEMMA ReadKeeps == IInv /\ Read => IInv'
<1> SUFFICES ASSUME IInv, Read PROVE IInv'
  OBVIOUS
<1>1. /\ UNCHANGED <<host, first, changes, state>>
      /\ pc = "read" /\ pc' = "look" /\ todo # {} /\ host.dir = "present"
      /\ todo' = todo \ {entry}
  BY DEF Read, Scan, IInv, ScanInv
<1>2. host \in Hosts /\ entry \in Files /\ found \in Seq(Directives)
  <2>1. todo \subseteq Files
    BY DEF IInv, TypeOK
  <2>2. todo \in SUBSET Nat
    BY <2>1, NumFilesAssumption DEF Files
  <2> QED
    BY <1>1, <2>1, <2>2, MinIs DEF entry, IInv, TypeOK
<1> DEFINE read == ParseConfReader(host.files[entry].lines)
<1>3. CASE host.files[entry].kind = "regular"
  <2>1. /\ found' = found \o read.directives
        /\ errs' = IF read.malformed THEN errs \cup {"parse"} ELSE errs
    BY <1>3 DEF Read
  <2>2. read.directives \in Seq(Directives)
    BY <1>2, <1>3, TextRead
  <2> HIDE DEF read
  <2>3. found' \in Seq(Directives)
    BY <1>2, <2>1, <2>2
  <2>4. TypeOK'
    BY <1>1, <2>1, <2>3 DEF IInv, TypeOK
  <2>5. ScanInv'
    BY <1>1, <2>1 DEF IInv, ScanInv
  <2>6. CASE read.malformed
    <3>1. errs' # {}
      BY <2>1, <2>6
    <3> QED
      BY <1>1, <2>4, <2>5, <3>1, ScanKeeps
  <2>7. CASE ~read.malformed
    <3>1. errs' = errs
      BY <2>1, <2>7
    <3>2. ASSUME errs = {}, changes <= 1
          PROVE  /\ SeenAs(first, todo', found') \/ SeenAs(host, todo', found')
                 /\ changes = 0 =>
                       \A f \in Passed(todo') : host.files[f].kind = "regular"
                                                   => WellFormed(host.files[f].lines)
      BY <1>1, <1>3, <2>1, <2>2, <2>7, <3>2, EntryJoins DEF read
    <3>3. changes = 0 => changes <= 1
      OBVIOUS
    <3> QED
      BY <1>1, <2>4, <2>5, <3>1, <3>2, <3>3, ScanKeeps
  <2> QED
    BY <2>6, <2>7
<1>4. CASE host.files[entry].kind # "regular"
  <2>1. host.files[entry].kind \in {"denied", "other"} \cup NoSuchFile
    BY <1>2, <1>4, FileText
  <2>2. found' = found /\ errs' # {} /\ errs' \subseteq errs \cup {"not exist", "denied", "read"}
    BY <1>4, <2>1 DEF Read
  <2>3. TypeOK'
    BY <1>1, <2>2 DEF IInv, TypeOK
  <2>4. ScanInv'
    BY <1>1, <2>2 DEF IInv, ScanInv
  <2> QED
    BY <1>1, <2>2, <2>3, <2>4, ScanKeeps
<1> QED
  BY <1>3, <1>4

LEMMA ScanDoneKeeps == IInv /\ ScanDone => IInv'
<1> SUFFICES ASSUME IInv, ScanDone PROVE IInv'
  OBVIOUS
<1>1. /\ UNCHANGED <<host, first, changes, todo, found, errs>>
      /\ pc = "look" /\ pc' = "done" /\ todo = {} /\ host.dir = "present"
      /\ state' = [state EXCEPT !["dependency_chain"] = ChainVerdict]
      /\ state \in [CheckNames -> {"running", "pass", "fail", "error"}]
  BY DEF ScanDone, Scan, IInv, ScanInv, TypeOK
<1>2. /\ ChainVerdict \in {"pass", "fail", "error"}
      /\ ChainVerdict = "pass" => errs = {}
      /\ ChainVerdict' = ChainVerdict
  BY <1>1 DEF ChainVerdict
<1>3. /\ state'["dependency_chain"] = ChainVerdict
      /\ state'["conf_correct"] = state["conf_correct"]
      /\ state'["not_loaded"] = state["not_loaded"]
      /\ state' \in [CheckNames -> {"running", "pass", "fail", "error"}]
  BY <1>1, <1>2 DEF CheckNames
<1>4. TypeOK'
  BY <1>1, <1>3 DEF IInv, TypeOK
<1>5. ScanInv'
  BY <1>1, <1>2, <1>3 DEF ScanInv
<1>6. HistoryInv'
  BY <1>1, <1>3 DEF IInv, HistoryInv
<1> QED
  BY <1>4, <1>5, <1>6 DEF IInv

LEMMA StutterKeeps == IInv /\ UNCHANGED vars => IInv'
BY DEF IInv, TypeOK, ScanInv, HistoryInv, ChainVerdict, vars

LEMMA StepKeeps == IInv /\ [Next]_vars => IInv'
<1> SUFFICES ASSUME IInv, [Next]_vars PROVE IInv'
  OBVIOUS
<1>1. CASE Change
  BY <1>1, ChangeKeeps
<1>2. CASE ConfPresent \/ ConfCorrect \/ DryRun \/ NotLoaded
  BY <1>2, LookOnceKeeps
<1>3. CASE ReadDir
  BY <1>3, ReadDirKeeps
<1>4. CASE ReadDirFails
  BY <1>4, ReadDirFailsKeeps
<1>5. CASE Look
  BY <1>5, LookKeeps
<1>6. CASE Read
  BY <1>6, ReadKeeps
<1>7. CASE ScanDone
  BY <1>7, ScanDoneKeeps
<1>8. CASE UNCHANGED vars
  BY <1>8, StutterKeeps
<1> QED
  BY <1>1, <1>2, <1>3, <1>4, <1>5, <1>6, <1>7, <1>8 DEF Next

\* While the checks of the preset run against a host that changes, what the
\* scan of ParseConfDir has collected is what modprobe would find in the
\* files behind it, before or after the one change (IInv).
THEOREM Invariance == Spec => []IInv
<1>1. IInv /\ [Next]_vars => IInv'
  BY StepKeeps
<1> QED
  BY InitIInv, <1>1, PTL DEF Spec

\* The scanner loop with its pending block reads every file of the host as
\* the logical lines of modprobe.d: the same directives up to the same first
\* malformed one (ParserReadsLogicalLines).
THEOREM FilesReadAsWritten == Spec => []ParserReadsLogicalLines
<1>1. IInv => ParserReadsLogicalLines
  BY FileText, ParserFaithful DEF IInv, TypeOK, ParserReadsLogicalLines
<1> QED
  BY Invariance, <1>1, PTL

-----------------------------------------------------------------------------
(***************************************************************************)
(* What the checks of the preset say.                                      *)
(***************************************************************************)

LEMMA AllBehind == Passed({}) = Files
BY DEF Passed

LEMMA NoTargetIsNone == NoTarget # requiredInstallTarget
<1>1. NoTarget[1] # requiredInstallTarget[1]
  BY DEF NoTarget, requiredInstallTarget
<1> QED
  BY <1>1

\* A scan of every file without an error says what modprobe would do.
LEMMA VerdictOf ==
    ASSUME NEW g, NEW list, SeenAs(g, {}, list)
    PROVE  InstallTarget(list, Module) = requiredInstallTarget <=> Blocked(g)
<1>1. Seen(g, {}) = Installing(g)
  BY AllBehind DEF Seen, Installing
<1>2. CASE Installing(g) = {}
  BY <1>1, <1>2, NoTargetIsNone DEF SeenAs, InstallTarget, Blocked
<1>3. CASE Installing(g) # {}
  BY <1>1, <1>3 DEF SeenAs, Blocked
<1> QED
  BY <1>2, <1>3

LEMMA InvLinearizable == IInv => ChainLinearizable
<1> SUFFICES ASSUME IInv, state["dependency_chain"] \in {"pass", "fail"}, errs = {}, changes <= 1
             PROVE  \/ (state["dependency_chain"] = "pass") <=> Blocked(first)
                    \/ (state["dependency_chain"] = "pass") <=> Blocked(host)
  BY DEF ChainLinearizable
<1>1. pc = "done" /\ todo = {} /\ state["dependency_chain"] = ChainVerdict
  BY DEF IInv, ScanInv
<1>2. state["dependency_chain"] = "pass" <=> InstallTarget(found, Module) = requiredInstallTarget
  BY <1>1 DEF ChainVerdict
<1>3. SeenAs(first, {}, found) \/ SeenAs(host, {}, found)
  BY <1>1 DEF IInv, HistoryInv
<1> QED
  BY <1>2, <1>3, VerdictOf

\* A scan that passes, or fails for what the files say, has the answer of
\* one that no change interferes with (ChainLinearizable).
THEOREM ChainInOnePiece == Spec => []ChainLinearizable
<1> QED
  BY Invariance, InvLinearizable, PTL

\* A blocklist file that passes has parsed, and says what it must.
LEMMA ConfRight ==
    ASSUME NEW g \in Hosts, ConfCorrectOf(g) = "pass"
    PROVE  /\ Reach(g, Conf) = "regular"
           /\ WellFormed(g.files[Conf].lines)
           /\ InForce(Logical(g, Conf), Module) = requiredInstallTarget
           /\ DirectiveLines(Logical(g, Conf), "blacklist", Module) # {}
           /\ Conf \in Installing(g)
<1>1. Conf \in Files
  BY NumFilesAssumption DEF Conf, Files
<1> DEFINE read == ParseConfReader(g.files[Conf].lines)
<1>2. /\ Reach(g, Conf) = "regular" /\ ~read.malformed
      /\ InstallTarget(read.directives, Module) = requiredInstallTarget
      /\ IsBlacklisted(read.directives, Module)
  BY DEF ConfCorrectOf
<1>3. g.dir = "present" /\ g.files[Conf].kind = "regular"
  BY <1>2 DEF Reach
<1>4. ReadAsWritten(g.files[Conf].lines) /\ WellFormed(g.files[Conf].lines)
  BY <1>1, <1>2, <1>3, FileText, TextRead, ParserFaithful
<1>5. /\ InForce(Logical(g, Conf), Module) = requiredInstallTarget
      /\ DirectiveLines(Logical(g, Conf), "blacklist", Module) # {}
  BY <1>2, <1>4, DirectivesAsWritten DEF Logical
<1>6. DirectiveLines(Logical(g, Conf), "install", Module) # {}
  BY <1>5, NoTargetIsNone DEF InForce
<1> QED
  BY <1>1, <1>2, <1>4, <1>5, <1>6 DEF Installing

LEMMA InvNoPass == IInv => NoPassOverErrors
<1> SUFFICES ASSUME IInv PROVE NoPassOverErrors
  OBVIOUS
<1>1. ASSUME state["dependency_chain"] = "pass"
      PROVE  /\ errs = {}
             /\ changes = 0 => \A f \in Files : host.files[f].kind = "regular"
                                                 => WellFormed(host.files[f].lines)
  <2>1. errs = {} /\ pc = "done" /\ todo = {}
    BY <1>1 DEF IInv, ScanInv
  <2> QED
    BY <2>1, AllBehind DEF IInv, HistoryInv
<1>2. ASSUME changes = 0, state["conf_correct"] = "pass"
      PROVE  WellFormed(host.files[Conf].lines)
  <2>1. changes <= 1
    BY <1>2
  <2>2. host = first /\ host \in Hosts
    BY <1>2 DEF IInv, HistoryInv, TypeOK
  <2>3. ConfCorrectOf(host) = "pass"
    BY <1>2, <2>1, <2>2 DEF IInv, HistoryInv
  <2> QED
    BY <2>2, <2>3, ConfRight
<1> QED
  BY <1>1, <1>2 DEF NoPassOverErrors

\* modprobe.conf_correct and modprobe.dependency_chain never pass on the
\* strength of a file that did not parse to its end (NoPassOverErrors).
THEOREM PassesAreWhole == Spec => []NoPassOverErrors
<1>1. IInv => NoPassOverErrors
  BY InvNoPass
<1> QED
  BY Invariance, <1>1, PTL

\* The first file of the directory overrides no other: a right one leaves
\* the module blocked if it was before.
LEMMA RightBlocks ==
    ASSUME NEW g, NEW h, g.dir = h.dir,
           \A e \in Files \ {Conf} : g.files[e] = h.files[e],
           Blocked(g), Conf \in Installing(h),
           InForce(Logical(h, Conf), Module) = requiredInstallTarget
    PROVE  Blocked(h)
<1> DEFINE m == Max(Installing(h))
<1>1. m \in Installing(h) /\ \A y \in Installing(h) : m >= y
  BY InstallingAre, TopIs
<1> HIDE DEF m
<1>2. CASE m = Conf
  BY <1>1, <1>2 DEF Blocked, m
<1>3. CASE m # Conf
  <2>1. m \in Files /\ \A y \in Files \ {Conf} : y \in Installing(g) <=> y \in Installing(h)
    BY <1>1 DEF Installing, Reach, Logical
  <2>2. m \in Installing(g)
    BY <1>1, <1>3, <2>1
  <2>3. ASSUME NEW y \in Installing(g)
        PROVE  m >= y
    <3>1. CASE y = Conf
      BY <1>1, <3>1
    <3>2. CASE y # Conf
      <4>1. y \in Files
        BY DEF Installing
      <4> QED
        BY <1>1, <2>1, <3>2, <4>1
    <3> QED
      BY <3>1, <3>2
  <2>4. Max(Installing(g)) = m
    BY <2>2, <2>3, InstallingAre, TopOnly
  <2>5. Logical(g, m) = Logical(h, m)
    BY <1>3, <2>1 DEF Logical
  <2> QED
    BY <1>1, <2>4, <2>5 DEF Blocked, m
<1> QED
  BY <1>2, <1>3

LEMMA InvMitigated == IInv => AllPassMeansMitigated
<1> SUFFICES ASSUME IInv, \A c \in CheckNames : state[c] = "pass", changes <= 1
             PROVE  Mitigated(first) \/ Mitigated(host)
  BY DEF AllPassMeansMitigated
<1>1. /\ host \in Hosts /\ first \in Hosts /\ OneChange(first, host)
      /\ state["conf_correct"] = "pass" /\ state["dependency_chain"] = "pass"
      /\ state["not_loaded"] = "pass"
  BY DEF IInv, TypeOK, HistoryInv, CheckNames
<1>2. ConfCorrectOf(first) = "pass" \/ ConfCorrectOf(host) = "pass"
  BY <1>1 DEF IInv, HistoryInv
<1>3. first.table = "absent" \/ host.table = "absent"
  BY <1>1 DEF IInv, HistoryInv
<1>4. Blocked(first) \/ Blocked(host)
  <2>1. errs = {}
    BY <1>1 DEF IInv, ScanInv
  <2> QED
    BY <1>1, <2>1, InvLinearizable DEF ChainLinearizable
<1>5. \A g \in {first, host} :
          ConfCorrectOf(g) = "pass" /\ Blocked(g) /\ g.table = "absent" => Mitigated(g)
  BY <1>1, ConfRight DEF Mitigated
<1>6. CASE first.files = host.files
  <2>1. ConfCorrectOf(first) = ConfCorrectOf(host)
    BY <1>1, <1>6 DEF OneChange, ConfCorrectOf, Reach
  <2>2. Blocked(first) <=> Blocked(host)
    BY <1>1, <1>6 DEF OneChange, Blocked, Installing, Reach, Logical
  <2> QED
    BY <1>2, <1>3, <1>4, <1>5, <2>1, <2>2
<1>7. CASE first.table = host.table /\ first.files # host.files
  <2>1. PICK f \in Files : \A e \in Files \ {f} : first.files[e] = host.files[e]
    BY <1>1, <1>7 DEF OneChange
  <2>2. first.dir = host.dir
    BY <1>1 DEF OneChange
  <2>3. CASE f # Conf
    <3>1. first.files[Conf] = host.files[Conf]
      BY <2>1, <2>3, NumFilesAssumption DEF Conf, Files
    <3>2. ConfCorrectOf(first) = ConfCorrectOf(host)
      BY <2>2, <3>1 DEF ConfCorrectOf, Reach
    <3> QED
      BY <1>2, <1>3, <1>4, <1>5, <1>7, <3>2
  <2>4. CASE f = Conf
    <3>1. ASSUME NEW g \in {first, host}, NEW h \in {first, host}, Blocked(g),
                 ConfCorrectOf(h) = "pass"
          PROVE  Blocked(h)
      <4>1. h \in Hosts /\ g.dir = h.dir /\ \A e \in Files \ {Conf} : g.files[e] = h.files[e]
        BY <1>1, <2>1, <2>2, <2>4
      <4>2. Conf \in Installing(h) /\ InForce(Logical(h, Conf), Module) = requiredInstallTarget
        BY <3>1, <4>1, ConfRight
      <4> QED
        BY <3>1, <4>1, <4>2, RightBlocks
    <3> QED
      BY <1>2, <1>3, <1>4, <1>5, <1>7, <3>1
  <2> QED
    BY <2>3, <2>4
<1> QED
  BY <1>1, <1>6, <1>7 DEF OneChange

\* Five passes, each of its own moment, mean a host that was mitigated before
\* the one change that interfered or is after it (AllPassMeansMitigated).
THEOREM FivePassesMitigate == Spec => []AllPassMeansMitigated
<1>1. IInv => AllPassMeansMitigated
  BY InvMitigated
<1> QED
  BY Invariance, <1>1, PTL
=============================================================================
