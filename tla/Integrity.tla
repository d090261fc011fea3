----------------------------- MODULE Integrity -----------------------------
(***************************************************************************)
(* internal/integrity, called as the specification orders it: Detect, then *)
(* OwnerOf, then Verify, over a host that is upgraded and tampered with    *)
(* between the calls.  The runner is its promise (RunAnswers); rpm, dpkg   *)
(* and debsums are external, modelled by the lines the parsers look for.   *)
(*                                                                         *)
(* A file deviates from its manifest by a set of attributes: the letters   *)
(* of rpm -V, "?" for one rpm cannot read, or "missing".                   *)
(***************************************************************************)
EXTENDS RunAnswers, SequencesExt

CONSTANTS
    Packages,    \* names a package database may give as the owner
    OddPackages  \* those that UntrustedArgRE does not admit ("~", "^")

ASSUME OddPackagesAssumption == OddPackages \subseteq Packages

\* No package has the name of a message.
ASSUME PackagesAssumption ==
    /\ IsFiniteSet(Packages)
    /\ Packages \cap {"unowned", "no such file", "diversion"} = {}

Backends == {"rpm", "dpkg"}
Tools == Backends \cup {"debsums"}
Queried == "su"
Sibling == "sulogin" \* the queried path is a prefix of this one
Files == {Queried, Sibling}

\* VerifyResult's booleans, by rpm's letters.
Surfaced == {"S", "M", "5", "U", "G", "T"}
QueriedDeviations == {{}, {"S", "5", "T"}, {"M"}, {"P"}, {"?"}, {"missing"}}
SiblingDeviations == {{}, {"5"}, {"missing"}}

VARIABLES
    tools,     \* installed binaries
    owners,    \* the packages of each database that own the queried path
    installed, \* the packages of each database that are installed
    diverted,  \* dpkg diverts the queried path
    class,     \* rpm's class of the queried file: plain, "c"onfig, "d"oc
    dev,       \* how each file deviates from the manifest
    pathOK,    \* the queried path passes exec.Validate
    pc,        \* the call the caller is at
    backend,   \* what Detect returned
    owner,     \* the words of the owner that OwnerOf returned
    result,    \* flags and unverified reasons of the VerifyResult
    err,       \* the sentinels of the last error
    exitCode   \* the exit status of the last command

host == <<tools, owners, installed, diverted, class, dev>>
vars == <<host, pathOK, pc, backend, owner, result, err, exitCode>>

TypeOK ==
    /\ tools \subseteq Tools
    /\ owners \in [Backends -> SUBSET Packages]
    /\ installed \in [Backends -> SUBSET Packages]
    /\ \A b \in Backends : owners[b] \subseteq installed[b]
    /\ diverted \in BOOLEAN /\ class \in {"plain", "c", "d"}
    /\ DOMAIN dev = Files
    /\ dev[Queried] \in QueriedDeviations /\ dev[Sibling] \in SiblingDeviations
    /\ pathOK \in BOOLEAN
    /\ pc \in {"detect", "owner", "verify", "done"}
    /\ backend \in Backends \cup {"none"}
    /\ owner \subseteq Packages \cup {"diversion"}
    /\ pc = "verify" => backend # "none" /\ owner # {} /\ err = {}
    /\ result.flags \subseteq Surfaced
    /\ result.reasons \subseteq {"config marker", "sibling", "diagnostic", "malformed"}
    /\ err = {} => exitCode \in {-1, 0}

NoResult == [flags |-> {}, reasons |-> {}]

Init ==
    /\ tools \in SUBSET Tools
    /\ \E b \in Backends : owners \in [Backends -> SUBSET Packages]
                           /\ \A c \in Backends \ {b} : owners[c] = {}
    /\ installed = owners
    /\ diverted \in BOOLEAN
    /\ class \in {"plain", "c", "d"}
    /\ dev = [f \in Files |-> {}]
    /\ pathOK \in BOOLEAN
    /\ pc = "detect" /\ backend = "none" /\ owner = {}
    /\ result = NoResult /\ err = {} /\ exitCode = -1

Done(e, code) == pc' = "done" /\ err' = e /\ exitCode' = code

-----------------------------------------------------------------------------
(***************************************************************************)
(* exec.Runner, by its promise.                                            *)
(***************************************************************************)
Contexts == {"none", "deadline", "canceled"}

\* What is left of some lines when the output or the child is cut short.
Beginnings(lines, Cut(_)) ==
    {SubSeq(lines, 1, k) : k \in 0..Len(lines)}
    \cup UNION {{Append(SubSeq(lines, 1, k - 1), l) : l \in Cut(lines[k])}
                : k \in 1..Len(lines)}

AnswersWith(errs, codes, lines) == [errs : errs, code : codes, lines : lines]

\* The answers to a command that prints lines, or a beginning of them, and
\* ends as end.
Answers(tool, lines, end, beginnings) ==
    IF tool \notin tools THEN AnswersWith({{"not found"}}, {-1}, {<<>>})
    ELSE UNION
      {AnswersWith(NoChildErrs(c) \ {{"denied"}, {"not found"}, {"invalid arg"}}, {-1}, {<<>>})
       \cup AnswersWith(ChildErrs(end, c, FALSE), {ExitCodeOf(end)}, {lines})
       \cup AnswersWith(ChildErrs(end, c, TRUE), {ExitCodeOf(end)}, beginnings)
       \cup AnswersWith(ChildErrs("killed", c, FALSE), {-1}, beginnings)
       : c \in Contexts}

-----------------------------------------------------------------------------
(***************************************************************************)
(* Detect.                                                                 *)
(***************************************************************************)
Detect ==
    /\ pc = "detect"
    /\ IF tools \cap Backends = {}
       THEN Done({"no package manager"}, -1) /\ UNCHANGED backend
       ELSE /\ backend' = IF "rpm" \in tools THEN "rpm" ELSE "dpkg"
            /\ pc' = "owner"
            /\ UNCHANGED <<err, exitCode>>
    /\ UNCHANGED <<host, pathOK, owner, result>>

-----------------------------------------------------------------------------
(***************************************************************************)
(* OwnerOf.  A line of rpm -qf or dpkg -S is the set of names on it, or a  *)
(* message.                                                                *)
(***************************************************************************)
CutMessage(l) == {{}}

\* rpm prints one line per owner, dpkg one line for all, after those of a
\* diversion.
OwnerLines ==
    IF backend = "rpm"
    THEN IF owners["rpm"] # {} THEN SetToSeq({{p} : p \in owners["rpm"]})
         ELSE IF "missing" \in dev[Queried] THEN <<{"no such file"}>>
         ELSE <<{"unowned"}>>
    ELSE IF diverted THEN <<{"diversion"}, owners["dpkg"]>>
         ELSE IF owners["dpkg"] = {} THEN <<{"unowned"}>>
         ELSE <<owners["dpkg"]>>

OwnerEnd == IF OwnerLines[1] \in {{"no such file"}, {"unowned"}} THEN "exit 1" ELSE "exit 0"

\* The marker counts next to an error only.
AnyError(a) == a.errs # {} \* Faulty: every failure means that there is no owner.
classifyOwnerErr(a) == a.errs # {} /\ {"unowned"} \in ToSet(a.lines)

runOwnerOf(a) == IF classifyOwnerErr(a) THEN {"package unknown"} ELSE a.errs

\* The first line that names anything.
parseDPKGOwner(lines) ==
    LET named == {i \in DOMAIN lines : lines[i] # {}}
    IN  IF named = {} THEN {} ELSE lines[Min(named)]

\* rpm's output is the owner, whole.
OwnerText(lines) == IF backend = "rpm" THEN UNION ToSet(lines) ELSE parseDPKGOwner(lines)

OwnerOf ==
    /\ pc = "owner"
    /\ \/ ~pathOK /\ Done({"invalid arg"}, -1) /\ UNCHANGED owner
       \/ /\ pathOK
          /\ \E a \in Answers(backend, OwnerLines, OwnerEnd,
                               Beginnings(OwnerLines, CutMessage)) :
                \/ /\ runOwnerOf(a) # {}
                   /\ Done(runOwnerOf(a), a.code) /\ UNCHANGED owner
                \/ /\ a.errs = {} /\ OwnerText(a.lines) = {}
                   /\ Done({"package unknown"}, a.code) /\ UNCHANGED owner
                \/ /\ a.errs = {} /\ OwnerText(a.lines) # {}
                   /\ owner' = OwnerText(a.lines)
                   /\ pc' = "verify"
                   /\ UNCHANGED <<err, exitCode>>
    /\ UNCHANGED <<host, pathOK, backend, result>>
-----------------------------------------------------------------------------
(***************************************************************************)
(* Verify.  A line is the attributes and the path it reports; prose is any *)
(* line of another shape.                                                  *)
(***************************************************************************)
Line(kind, flags, path) == [kind |-> kind, flags |-> flags, path |-> path]
Prose == Line("prose", {}, "none")

classOf(f) == IF f = Queried THEN class ELSE "plain"

\* The files of package p that are looked at.
FilesOf(p) == {Sibling} \cup (IF p \in owners[backend] THEN {Queried} ELSE {})

\* rpm -V has a line for each file that deviates, a missing one in prose;
\* debsums -s for each file that is missing or has another content, except
\* for configuration files.
rpmReports(f) == dev[f] # {}
rpmLine(f) == IF "missing" \in dev[f] THEN Prose ELSE Line(classOf(f), dev[f], f)
debsumsReports(f) == classOf(f) # "c" /\ dev[f] \cap {"5", "missing"} # {}
debsumsLine(f) == IF "missing" \in dev[f] THEN Prose ELSE Line("changed", {"5"}, f)

Reported(p) == {f \in FilesOf(p) : IF backend = "rpm" THEN rpmReports(f) ELSE debsumsReports(f)}
ReportLine(f) == IF backend = "rpm" THEN rpmLine(f) ELSE debsumsLine(f)

\* What Verify's command may print for package p: the files in any order.
VerifyLines(p) ==
    IF p \notin installed[backend] THEN {<<Prose>>}
    ELSE {[i \in DOMAIN s |-> ReportLine(s[i])] : s \in SetToSeqs(Reported(p))}

\* A line cut in its flags is prose, one cut in its path names another path;
\* one of debsums has lost the end that its path is found by.
CutVerifyLine(l) ==
    IF l.kind \in {"prose", "changed"} THEN {Prose, [Prose EXCEPT !.kind = l.kind]}
    ELSE {Prose, [l EXCEPT !.path = "s"]}
         \cup {[l EXCEPT !.path = Queried] : f \in {l.path} \cap {Sibling}}

\* splitRPMVerifyLine drops prose, and knows no class but "c": what follows
\* the flags of another is read as the path.
rpmParsed(lines) == {l \in ToSet(lines) : l.kind # "prose"}
AnyLine(l) == TRUE \* Faulty: a sibling's flags count, too.
rpmIsQueried(l) == l.path = Queried /\ l.kind \in {"plain", "c"}

\* Flags of the queried path, and a reason for everything else said.
parseRPMVerify(lines) ==
    LET own == {l \in rpmParsed(lines) : rpmIsQueried(l)}
    IN  [flags |-> Surfaced \cap UNION {l.flags : l \in own},
         reasons |-> {"config marker" : l \in {m \in own : m.kind = "c"}}
                     \cup {"sibling" : l \in rpmParsed(lines) \ own}]

parseDebsums(lines) ==
    LET changed == {l \in ToSet(lines) : l.kind = "changed"}
        whole == {l \in changed : l.path # "none"}
    IN  [flags |-> {"5" : l \in {m \in whole : m.path = Queried}},
         reasons |-> {"diagnostic" : l \in ToSet(lines) \ changed}
                     \cup {"malformed" : l \in changed \ whole}
                     \cup {"sibling" : l \in {m \in whole : m.path # Queried}}]

verifyTool == IF backend = "rpm" THEN "rpm" ELSE "debsums"
parseVerify(lines) == IF backend = "rpm" THEN parseRPMVerify(lines) ELSE parseDebsums(lines)

\* exec.Validate of the owner: one name, of admitted characters.
ValidArg(words) == \E p \in Packages \ OddPackages : words = {p}

\* Faulty: a non-zero exit, expected with every deviation, is no error.
ExitIsNoError(a) == a.errs \ {"exit"}
VerifyErr(a) == a.errs

\* What could be parsed is returned with the error, if any.
Verify ==
    /\ pc = "verify"
    /\ \/ /\ ~ValidArg(owner)
          /\ Done({"invalid arg"}, -1)
          /\ UNCHANGED result
       \/ \E p \in Packages :
            /\ ValidArg(owner) /\ owner = {p}
            /\ \E lines \in VerifyLines(p) :
               \E a \in Answers(verifyTool, lines,
                                IF lines = <<>> THEN "exit 0" ELSE "exit 1",
                                Beginnings(lines, CutVerifyLine)) :
                  /\ result' = parseVerify(a.lines)
                  /\ Done(VerifyErr(a), a.code)
    /\ UNCHANGED <<host, pathOK, backend, owner>>

-----------------------------------------------------------------------------
(***************************************************************************)
(* The host, between the calls.                                            *)
(***************************************************************************)
HostChanges ==
    /\ pc \in {"owner", "verify"}
    /\ UNCHANGED <<tools, diverted, class, pathOK, pc, backend, owner, result, err, exitCode>>

FileChanges ==
    /\ HostChanges
    /\ \/ \E d \in QueriedDeviations : dev' = [dev EXCEPT ![Queried] = d]
       \/ \E d \in SiblingDeviations : dev' = [dev EXCEPT ![Sibling] = d]
    /\ UNCHANGED <<owners, installed>>

\* A package is removed or upgraded: of rpm's, which a name tells from its
\* other versions, nothing stays; of dpkg's, the package may stay installed
\* without the path.
PackageLeaves(b, p) ==
    /\ HostChanges
    /\ p \in owners[b]
    /\ owners' = [owners EXCEPT ![b] = @ \ {p}]
    /\ \/ installed' = [installed EXCEPT ![b] = @ \ {p}]
       \/ b = "dpkg" /\ UNCHANGED installed
    /\ UNCHANGED dev

Next ==
    \/ Detect \/ OwnerOf \/ Verify
    \/ FileChanges
    \/ \E b \in Backends, p \in Packages : PackageLeaves(b, p)
    \/ pc = "done" /\ UNCHANGED vars

Spec == Init /\ [][Next]_vars

-----------------------------------------------------------------------------
(***************************************************************************)
(* Properties.                                                             *)
(***************************************************************************)
\* The inductive invariant: before OwnerOf answers there is neither owner nor
\* error, Verify runs for a backend that Detect found, a path keeps no owner
\* but the one that Verify takes, and rpm has no package installed that does
\* not own the path.
IInv ==
    /\ TypeOK
    /\ pc \in {"detect", "owner"} => owner = {} /\ err = {}
    /\ pc \in {"owner", "verify"} => backend \in tools
    /\ pc = "verify" /\ ValidArg(owner) => owners[backend] \subseteq owner
    /\ installed["rpm"] = owners["rpm"]

OwnerReturns == pc = "owner" /\ pc' # "owner"
VerifyReturns == pc = "verify" /\ pc' = "done"
Clean(r) == r.flags = {} /\ r.reasons = {}

\* ErrPackageUnknown is returned only for a path that no package of the
\* backend's database owns when OwnerOf looks; and an owner that Verify will
\* take is its only one there.
OwnerIsTheOwner ==
    [][OwnerReturns =>
        /\ err' = {"package unknown"} => owners[backend] = {}
        /\ ValidArg(owner') => owner' = owners[backend]]_vars

\* Clean next to no error is evidence about the moment Verify ran, whatever
\* was cut, killed, upgraded or removed: with rpm the file deviates in
\* nothing, not even in what has no flag; with debsums, if the package still
\* has the file and it is no configuration file, its content is the package's.
CleanIsEvidence ==
    [][VerifyReturns /\ err' = {} /\ Clean(result') =>
        IF backend = "rpm" THEN dev[Queried] = {}
        ELSE owner = owners["dpkg"] /\ class # "c"
             => dev[Queried] \cap {"5", "missing"} = {}]_vars

\* A whole answer, exit 0 or 1, flags exactly what the queried file deviates
\* in, of what the backend has a flag for: nothing of a sibling's, nothing
\* left out.
FlagsAreOwn ==
    [][VerifyReturns /\ err' \in {{}, {"exit"}} /\ exitCode' \in {0, 1} =>
        result'.flags =
            IF owner # owners[backend] THEN {}
            ELSE IF backend = "rpm" THEN (IF class = "d" THEN {} ELSE dev[Queried] \cap Surfaced)
            ELSE IF class = "c" THEN {} ELSE dev[Queried] \cap {"5"}]_vars
=============================================================================
