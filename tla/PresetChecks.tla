---------------------------- MODULE PresetChecks ----------------------------
(***************************************************************************)
(* preset/copyfail: the five required checks against a host that an        *)
(* administrator changes while they run.  Each check is a process; the     *)
(* directory scan of modprobe.dependency_chain takes a step per system     *)
(* call, the others look at the host once.                                 *)
(***************************************************************************)
EXTENDS Kernelmod

CONSTANTS
    NumFiles,   \* *.conf names in the directory, in alphabetical order
    MaxLines,   \* lines of the blocklist file, where every file is tried
    MaxChanges  \* changes made to the host while the checks run

ASSUME NumFilesAssumption == NumFiles \in Nat \ {0}
ASSUME BoundsAssumption == MaxLines \in Nat /\ MaxChanges \in Nat

Files == 1..NumFiles

\* --conf names the first file of the directory.
Conf == 1
Module == "algif_aead"
requiredInstallTarget == <<"/bin/false">>

\* Lines that state, override, split, continue, interrupt and break the two
\* directives of the blocklist file.
Line(words, cont) == [words |-> words, cont |-> cont]
Blocks == Line(<<"install", Module, "/bin/false">>, FALSE)
Overrides == Line(<<"install", Module, "/bin/true">>, FALSE)
Blacklists == Line(<<"blacklist", Module>>, FALSE)
Opens == Line(<<"install", Module>>, TRUE)
Closes == Line(<<"/bin/false">>, FALSE)
Backslash == Line(<<>>, TRUE)
Empty == Line(<<>>, FALSE)

Lines == {Blocks, Overrides, Blacklists, Opens, Closes, Backslash, Empty}

\* Every text of up to MaxLines lines, and the few that a host which changes
\* is made of: the right file, an override, and one that does not parse.
Texts == UNION {[1..n -> Lines] : n \in 0..MaxLines}
FewTexts == {<<Blocks, Blacklists>>, <<Overrides>>, <<Blocks, Closes>>}

\* A regular file (or a link to one), a file only its owner may read, a link
\* to nothing, a directory or a socket, or no file at all.
NoSuchFile == {"none", "dangling"}
File(texts) ==
    [kind : {"regular"}, lines : texts]
        \cup [kind : NoSuchFile \cup {"denied", "other"}, lines : {<<>>}]

VARIABLES
    host,    \* dir, its files, and the module in /proc/modules
    first,   \* the host when the checks were started
    changes, \* changes made to it since
    state,   \* the State of each check's Result, "running" before
    todo,    \* files of ReadDir's sorted list that the scan has still to visit
    pc,      \* where the scan is
    found,   \* directives the scan has collected
    errs     \* classes of the errors it has joined

vars == <<host, first, changes, state, todo, pc, found, errs>>
scanVars == <<todo, pc, found, errs>>

CheckNames == {"conf_present", "conf_correct", "dry_run", "dependency_chain",
               "not_loaded"}

Hosts == [dir   : {"present", "missing", "denied"},
          files : [Files -> File(Texts \cup FewTexts)],
          table : {"absent", "loaded", "malformed", "unreadable"}]

Words == {"install", "blacklist", Module, "/bin/false", "/bin/true"}
Directives == [kind : Words, module : Words, args : Seq(Words), line : Nat]

TypeOK ==
    /\ host \in Hosts /\ first \in Hosts
    /\ state \in [CheckNames -> {"running", "pass", "fail", "error"}]
    /\ changes \in 0..MaxChanges
    /\ todo \subseteq Files
    /\ found \in Seq(Directives)
    /\ pc \in {"readdir", "look", "read", "done"}
    /\ errs \subseteq {"not exist", "denied", "parse", "read"}

NoFile == [kind |-> "none", lines |-> <<>>]

\* The few texts in every combination; every text in a directory of its own.
Init ==
    /\ \/ \E files \in [Files -> File(FewTexts)],
             table \in {"absent", "loaded", "malformed", "unreadable"} :
             host = [dir |-> "present", files |-> files, table |-> table]
       \/ \E lines \in Texts :
             host = [dir   |-> "present",
                     files |-> [f \in Files |->
                                   IF f = Conf
                                   THEN [kind |-> "regular", lines |-> lines]
                                   ELSE NoFile],
                     table |-> "absent"]
       \/ \E dir \in {"missing", "denied"} :
             host = [dir |-> dir, files |-> [f \in Files |-> NoFile],
                     table |-> "absent"]
    /\ first = host
    /\ changes = 0
    /\ state = [c \in CheckNames |-> "running"]
    /\ todo = {} /\ pc = "readdir" /\ found = <<>> /\ errs = {}

-----------------------------------------------------------------------------
(***************************************************************************)
(* The administrator: replaces or removes a file, loads or unloads.  Bound: *)
(* a host with one of the many texts stays as it is.                       *)
(***************************************************************************)
Change ==
    /\ changes < MaxChanges
    /\ \A f \in Files : first.files[f] \in File(FewTexts)
    /\ changes' = changes + 1
    /\ \/ \E f \in Files, new \in File(FewTexts) :
              host' = [host EXCEPT !.files[f] = new]
       \/ \E t \in {"absent", "loaded"} : host' = [host EXCEPT !.table = t]
    /\ UNCHANGED <<first, state, scanVars>>

-----------------------------------------------------------------------------
(***************************************************************************)
(* The checks that look once.                                              *)
(***************************************************************************)
Finish(c, st) ==
    /\ state[c] = "running"
    /\ state' = [state EXCEPT ![c] = st]
    /\ UNCHANGED <<host, first, changes>>

\* What opening or stating a path in the directory meets.
Reach(h, f) == IF h.dir = "present" THEN h.files[f].kind
               ELSE IF h.dir = "missing" THEN "none" ELSE "closed"

\* modprobe.conf_present stats the path: no permission on the file is needed.
ConfPresent ==
    /\ Finish("conf_present",
              LET kind == Reach(host, Conf)
              IN  IF kind = "closed" THEN "error"
                  ELSE IF kind \in {"regular", "denied"} THEN "pass"
                  ELSE "fail")
    /\ UNCHANGED scanVars

\* Faulty: the blacklist directive is not asked for.
ConfCorrectInstallOnly(h) ==
    LET parsed == ParseConfReader(h.files[Conf].lines)
    IN  IF Reach(h, Conf) \in NoSuchFile THEN "fail"
        ELSE IF Reach(h, Conf) # "regular" \/ parsed.malformed THEN "error"
        ELSE IF InstallTarget(parsed.directives, Module) = requiredInstallTarget
        THEN "pass" ELSE "fail"

\* modprobe.conf_correct of one reading of the file.
ConfCorrectOf(h) ==
    LET kind   == Reach(h, Conf)
        parsed == ParseConfReader(h.files[Conf].lines)
    IN  IF kind \in NoSuchFile THEN "fail"
        ELSE IF kind # "regular" \/ parsed.malformed THEN "error"
        ELSE IF /\ InstallTarget(parsed.directives, Module) = requiredInstallTarget
                /\ IsBlacklisted(parsed.directives, Module)
        THEN "pass" ELSE "fail"

ConfCorrect == Finish("conf_correct", ConfCorrectOf(host)) /\ UNCHANGED scanVars

\* What modprobe finds in the directory: the last install line of the last
\* file that has one.
Logical(h, f) == LogicalLines(h.files[f].lines)
Installing(h) == {f \in Files : /\ Reach(h, f) = "regular"
                                /\ DirectiveLines(Logical(h, f), "install", Module) # {}}
Blocked(h) ==
    /\ Installing(h) # {}
    /\ InForce(Logical(h, Max(Installing(h))), Module) = requiredInstallTarget

\* DryRunModule: an error of the exec layer, or whether the first line that
\* modprobe prints is "install /bin/false".
DryRunModule(h) == {"error", IF Blocked(h) THEN "blocked" ELSE "open"}

DryRun ==
    /\ \E dry \in DryRunModule(host) :
           Finish("dry_run", CASE dry = "error"   -> "error"
                               [] dry = "blocked" -> "pass"
                               [] dry = "open"    -> "fail")
    /\ UNCHANGED scanVars

\* ParseProcModules and IsLoaded: a line that does not parse is an error,
\* wherever the module is listed.
ProcModules(h) == IF h.table \in {"malformed", "unreadable"} THEN "error" ELSE h.table

\* module.not_loaded of one reading of /proc/modules.
NotLoaded ==
    /\ Finish("not_loaded", CASE ProcModules(host) = "error"  -> "error"
                              [] ProcModules(host) = "loaded" -> "fail"
                              [] ProcModules(host) = "absent" -> "pass")
    /\ UNCHANGED scanVars

-----------------------------------------------------------------------------
(***************************************************************************)
(* modprobe.dependency_chain: ParseConfDir and its verdict.                *)
(***************************************************************************)
Scan(from, to) ==
    /\ pc = from
    /\ pc' = to
    /\ UNCHANGED <<host, first, changes>>

\* ReadDir: its list of names is all the scan will visit.
ReadDir ==
    /\ host.dir = "present"
    /\ Scan("readdir", "look")
    /\ todo' = {f \in Files : host.files[f].kind # "none"}
    /\ UNCHANGED <<state, found, errs>>

ReadDirFails ==
    /\ host.dir # "present"
    /\ Scan("readdir", "done")
    /\ errs' = {IF host.dir = "missing" THEN "not exist" ELSE "denied"}
    /\ state' = [state EXCEPT !["dependency_chain"] =
                     IF host.dir = "missing" THEN "fail" ELSE "error"]
    /\ UNCHANGED <<todo, found>>

entry == Min(todo)

\* entry.Info, and Stat of a link's target: a path that leads nowhere is an
\* error, anything but a regular file is skipped.
Look ==
    /\ todo # {}
    /\ LET kind == host.files[entry].kind
       IN  IF kind \in NoSuchFile \cup {"other"}
           THEN /\ Scan("look", "look")
                /\ todo' = todo \ {entry}
                /\ errs' = IF kind = "other" THEN errs ELSE errs \cup {"not exist"}
           ELSE Scan("look", "read") /\ UNCHANGED <<todo, errs>>
    /\ UNCHANGED <<state, found>>

\* ParseConfFile of one file: the prefix that parsed counts, errors are joined.
Read ==
    /\ Scan("read", "look")
    /\ todo' = todo \ {entry}
    /\ LET file   == host.files[entry]
           parsed == ParseConfReader(file.lines)
       IN  IF file.kind = "regular"
           THEN /\ found' = found \o parsed.directives
                /\ errs' = IF parsed.malformed THEN errs \cup {"parse"} ELSE errs
           ELSE /\ errs' = errs \cup {CASE file.kind \in NoSuchFile -> "not exist"
                                        [] file.kind = "denied"     -> "denied"
                                        [] file.kind = "other"      -> "read"}
                /\ UNCHANGED found
    /\ UNCHANGED state

\* Faulty: errors are only logged, the directives that parsed decide.
PartialVerdict ==
    IF InstallTarget(found, Module) = requiredInstallTarget THEN "pass" ELSE "fail"

\* Faulty: the branch for the other errors returns before it sets State.
VerdictUnset ==
    IF "not exist" \in errs THEN "fail"
    ELSE IF errs # {} THEN ""
    ELSE PartialVerdict

\* The verdict: errors.Is finds ErrNotExist in any of the joined errors.
ChainVerdict ==
    IF "not exist" \in errs THEN "fail"
    ELSE IF errs # {} THEN "error"
    ELSE IF InstallTarget(found, Module) = requiredInstallTarget THEN "pass"
    ELSE "fail"

ScanDone ==
    /\ todo = {}
    /\ Scan("look", "done")
    /\ state' = [state EXCEPT !["dependency_chain"] = ChainVerdict]
    /\ UNCHANGED <<todo, found, errs>>

AllDone == \A c \in CheckNames : state[c] # "running"

Next == \/ Change
        \/ ConfPresent \/ ConfCorrect \/ DryRun \/ NotLoaded
        \/ ReadDir \/ ReadDirFails \/ Look \/ Read \/ ScanDone
        \/ AllDone /\ UNCHANGED vars

Spec == Init /\ [][Next]_vars

-----------------------------------------------------------------------------
(***************************************************************************)
(* Safety.                                                                 *)
(***************************************************************************)

\* The inductive invariant.  With one change at most, the host is the first
\* but for one file or the module table; as long as the scan has met no
\* error, what it has found is what modprobe would find in the files behind
\* it on the host as it was or as it is, and a check that passed on one
\* reading passes on the host as it was or as it is.
OneChange(g, h) ==
    /\ g.dir = h.dir
    /\ \/ g.files = h.files
       \/ /\ g.table = h.table
          /\ \E f \in Files : \A e \in Files \ {f} : g.files[e] = h.files[e]

\* The files that the scan is past, with those that it has still to visit.
Passed(rest) == {f \in Files : \A t \in rest : f < t}
Seen(g, rest) == Installing(g) \cap Passed(rest)

\* What the scan has found is what modprobe finds in the files of host g
\* that it is past.
SeenAs(g, rest, list) ==
    /\ \A f \in Files \ (Passed(rest) \cup rest) : g.files[f].kind = "none"
    /\ Installs(list, Module) = {} <=> Seen(g, rest) = {}
    /\ Seen(g, rest) # {} =>
          InstallTarget(list, Module) = InForce(Logical(g, Max(Seen(g, rest))), Module)

ScanInv ==
    /\ pc = "readdir" => found = <<>> /\ errs = {}
    /\ pc \in {"look", "read"} => host.dir = "present"
    /\ pc = "read" => todo # {}
    /\ pc = "done" <=> state["dependency_chain"] # "running"
    /\ pc = "done" /\ errs = {} =>
          /\ host.dir = "present" /\ todo = {}
          /\ state["dependency_chain"] = ChainVerdict
    /\ state["dependency_chain"] = "pass" => errs = {}

HistoryInv ==
    /\ changes = 0 => host = first
    /\ changes <= 1 => OneChange(first, host)
    /\ changes <= 1 /\ pc # "readdir" /\ errs = {} =>
          SeenAs(first, todo, found) \/ SeenAs(host, todo, found)
    /\ changes = 0 /\ pc # "readdir" /\ errs = {} =>
          \A f \in Passed(todo) : host.files[f].kind = "regular" => WellFormed(host.files[f].lines)
    /\ changes <= 1 /\ state["conf_correct"] = "pass" =>
          ConfCorrectOf(first) = "pass" \/ ConfCorrectOf(host) = "pass"
    /\ changes <= 1 /\ state["not_loaded"] = "pass" =>
          first.table = "absent" \/ host.table = "absent"

IInv == TypeOK /\ ScanInv /\ HistoryInv

\* A text is read as its logical lines: the same directives, up to the same
\* first malformed one.
ReadAsWritten(lines) ==
    LET read == ParseConfReader(lines)
        good == GoodLines(lines)
    IN  /\ read.malformed <=> ~WellFormed(lines)
        /\ read.directives \in Seq(Directives)
        /\ DOMAIN read.directives = DOMAIN good
        /\ \A i \in DOMAIN good :
              /\ read.directives[i].kind = good[i][1]
              /\ read.directives[i].module = good[i][2]
              /\ read.directives[i].args = SubSeq(good[i], 3, Len(good[i]))

\* The scanner loop with its pending block reads every file so.
ParserReadsLogicalLines == \A f \in Files : ReadAsWritten(host.files[f].lines)

\* The mitigation, read off the host in one piece: the blocklist file is
\* there and right, no file overrides it, and the module is not loaded.
Mitigated(h) ==
    /\ Reach(h, Conf) = "regular"
    /\ InForce(Logical(h, Conf), Module) = requiredInstallTarget
    /\ DirectiveLines(Logical(h, Conf), "blacklist", Module) # {}
    /\ Blocked(h)
    /\ h.table = "absent"

\* Five passes mean a mitigated host.  The checks look at different times,
\* but with one change under way they never add up to a mitigation the host
\* had neither before it nor after.
AllPassMeansMitigated ==
    (\A c \in CheckNames : state[c] = "pass") /\ changes <= 1 =>
        Mitigated(first) \/ Mitigated(host)

\* A pass of the scan, or a fail for policy, is what a scan in one piece
\* would have found before or after the one change that interferes.
ChainLinearizable ==
    state["dependency_chain"] \in {"pass", "fail"} /\ errs = {} /\ changes <= 1 =>
        \/ (state["dependency_chain"] = "pass") <=> Blocked(first)
        \/ (state["dependency_chain"] = "pass") <=> Blocked(host)

\* Each of the two posture-critical answers is never given on the strength
\* of a file that could not be read to its end.
NoPassOverErrors ==
    /\ state["dependency_chain"] = "pass" =>
           /\ errs = {}
           /\ changes = 0 => \A f \in Files : host.files[f].kind = "regular"
                                               => WellFormed(host.files[f].lines)
    /\ changes = 0 /\ state["conf_correct"] = "pass" =>
           WellFormed(host.files[Conf].lines)

(***************************************************************************)
(* What a comment of the code says and the code does not do.               *)
(***************************************************************************)

\* "fs.ErrNotExist on the directory is a hard fail ... Any other error is a
\* probe failure (permission denied, broken symlink, ...)" (Run of
\* modprobe.dependency_chain): only a missing directory fails by an error.
BrokenSymlinkIsProbeFailure ==
    state["dependency_chain"] = "fail" /\ errs # {} => first.dir = "missing"
=============================================================================
