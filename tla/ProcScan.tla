------------------------------ MODULE ProcScan ------------------------------
(***************************************************************************)
(* procscan.Scan: the walk over /proc for processes that have an AF_ALG    *)
(* module mapped, while processes start, exit, reuse PIDs and change their *)
(* maps, and the context may be cancelled.                                 *)
(***************************************************************************)
EXTENDS Naturals, Sequences, FiniteSets

CONSTANTS
    NumPids,    \* /proc holds the PIDs 1..NumPids at most
    MaxChanges  \* bound on what the processes do during a scan

ASSUME BoundsAssumption == NumPids \in Nat /\ MaxChanges \in Nat

Pids == 1..NumPids

\* What a reading of a process's maps gives: a match, none, or EACCES.
Maps == {"algif", "clean", "denied"}

\* A process is told from the next one with its PID by its number.
NoProcess == [id |-> 0, maps |-> "none"]
Process == [id : 1..(NumPids + MaxChanges), maps : Maps]

Ascending(s) == \A i, j \in DOMAIN s : i < j => s[i] < s[j]

VARIABLES
    procs,   \* the process of each PID, or NoProcess
    changes, \* how often a process started, exited or changed its maps
    been,    \* the processes each PID has had since the scan began
    pc,      \* where Scan is
    pids,    \* the PIDs the scan has listed, a sequence
    opened,  \* the process whose maps are open, or NoProcess
    canceled,\* ctx is done
    result,  \* the ScanResult
    err      \* the error returned, or "nil"

vars == <<procs, changes, been, pc, pids, opened, canceled, result, err>>

NoResult == [ScannedPIDs |-> 0, UnreadablePIDs |-> <<>>, Candidates |-> <<>>]

Init ==
    /\ procs \in {f \in [Pids -> Process \cup {NoProcess}] :
                     \A p \in Pids : f[p].id \in {0, p}}
    /\ changes = 0
    /\ been = [p \in Pids |-> {procs[p]}]
    /\ pc = "begin" /\ pids = <<>> /\ opened = NoProcess
    /\ canceled \in BOOLEAN
    /\ result = NoResult /\ err = "nil"

-----------------------------------------------------------------------------
(***************************************************************************)
(* The host: a process exits, starts on a free PID, maps or unmaps.        *)
(***************************************************************************)
Change ==
    /\ changes < MaxChanges /\ pc # "done"
    /\ changes' = changes + 1
    /\ \E p \in Pids :
          /\ \/ procs[p] # NoProcess /\ procs' = [procs EXCEPT ![p] = NoProcess]
             \/ /\ procs[p] = NoProcess
                /\ \E m \in Maps : procs' = [procs EXCEPT ![p] =
                                       [id |-> NumPids + changes', maps |-> m]]
             \/ /\ procs[p].maps \in {"algif", "clean"}
                /\ \E m \in {"algif", "clean"} :
                      procs' = [procs EXCEPT ![p].maps = m]
          /\ been' = [been EXCEPT ![p] = @ \cup {procs'[p]}]
    /\ UNCHANGED <<pc, pids, opened, canceled, result, err>>

Cancel == /\ ~canceled /\ pc # "done"
          /\ canceled' = TRUE
          /\ UNCHANGED <<procs, changes, been, pc, pids, opened, result, err>>

-----------------------------------------------------------------------------
(***************************************************************************)
(* The scan.                                                               *)
(***************************************************************************)
Go(from, to) == /\ pc = from /\ pc' = to
                /\ UNCHANGED <<procs, changes, canceled>>

\* The preconditions of Scan and scanWithRoot, and a ReadDir that fails.
Refuse ==
    /\ Go("begin", "done")
    /\ err' \in {"ErrNotRoot", "ErrProcMissing", "read dir"}
    /\ UNCHANGED <<been, pids, opened, result>>

\* ReadDir, pidFromName and sort.Ints: the PIDs of now, ascending.
List ==
    /\ Go("begin", "visit")
    /\ \E n \in 0..NumPids : \E s \in [1..n -> Pids] :
          /\ Ascending(s)
          /\ {s[i] : i \in 1..n} = {p \in Pids : procs[p] # NoProcess}
          /\ pids' = s
    /\ been' = [p \in Pids |-> {procs[p]}]
    /\ UNCHANGED <<opened, result, err>>

pid == pids[result.ScannedPIDs]

\* Faulty: the PID is counted before the context is looked at.
VisitCountsFirst ==
    /\ result.ScannedPIDs < Len(pids)
    /\ Go("visit", IF canceled THEN "done" ELSE "open")
    /\ err' = IF canceled THEN "canceled" ELSE err
    /\ result' = [result EXCEPT !.ScannedPIDs = @ + 1]
    /\ UNCHANGED <<been, pids, opened>>

\* The head of the loop: ctx.Err() between two PIDs.
Visit ==
    /\ result.ScannedPIDs < Len(pids)
    /\ ~canceled
    /\ Go("visit", "open")
    /\ result' = [result EXCEPT !.ScannedPIDs = @ + 1]
    /\ UNCHANGED <<been, pids, opened, err>>

VisitCanceled ==
    /\ result.ScannedPIDs < Len(pids)
    /\ canceled
    /\ Go("visit", "done")
    /\ err' = "canceled"
    /\ UNCHANGED <<been, pids, opened, result>>

Unreadable == result' = [result EXCEPT !.UnreadablePIDs = Append(@, pid)]

\* Faulty: a process that may not be read is skipped like one that exited.
OpenMapsSkipsDenied ==
    /\ \/ /\ Go("open", "visit")
          /\ procs[pid].maps \in {"none", "denied"}
          /\ UNCHANGED opened
       \/ /\ Go("open", "read")
          /\ procs[pid].maps \in {"algif", "clean"}
          /\ opened' = procs[pid]
    /\ UNCHANGED <<been, pids, result, err>>

\* os.ReadFile(maps), its open: ENOENT is an exit, EACCES is recorded.
OpenMaps ==
    /\ \/ /\ Go("open", "visit")
          /\ procs[pid] = NoProcess
          /\ UNCHANGED <<opened, result>>
       \/ /\ Go("open", "visit")
          /\ procs[pid].maps = "denied"
          /\ Unreadable /\ UNCHANGED opened
       \/ /\ Go("open", "read")
          /\ procs[pid].maps \in {"algif", "clean"}
          /\ opened' = procs[pid] /\ UNCHANGED result
    /\ UNCHANGED <<been, pids, err>>

\* Its read, and findAFAlgMatch.  A process that exited since the open gives
\* ESRCH, which like every other error is recorded as unreadable.
ReadMaps ==
    /\ \/ Go("read", "visit") /\ Unreadable
       \/ /\ Go("read", IF procs[pid].maps = "algif" THEN "comm" ELSE "visit")
          /\ procs[pid].id = opened.id
          /\ UNCHANGED result
    /\ UNCHANGED <<been, pids, opened, err>>

Flag(comm) == result' = [result EXCEPT !.Candidates =
                            Append(@, [PID |-> pid, Comm |-> comm])]

\* Faulty: a comm that cannot be read keeps the value of the last candidate.
ReadCommKeepsLast ==
    /\ Go("comm", "visit")
    /\ Flag(IF procs[pid] # NoProcess \/ result.Candidates = <<>> THEN procs[pid].id
            ELSE result.Candidates[Len(result.Candidates)].Comm)
    /\ UNCHANGED <<been, pids, opened, err>>

\* readComm reads the path anew: of the process that has the PID by then, or
\* nothing.
ReadComm ==
    /\ Go("comm", "visit")
    /\ Flag(procs[pid].id)
    /\ UNCHANGED <<been, pids, opened, err>>

Return ==
    /\ result.ScannedPIDs = Len(pids)
    /\ Go("visit", "done")
    /\ UNCHANGED <<been, pids, opened, result, err>>

Next == \/ Change \/ Cancel
        \/ Refuse \/ List \/ Visit \/ VisitCanceled
        \/ OpenMaps \/ ReadMaps \/ ReadComm \/ Return
        \/ pc = "done" /\ UNCHANGED vars

Spec == Init /\ [][Next]_vars

-----------------------------------------------------------------------------
(***************************************************************************)
(* Safety.                                                                 *)
(***************************************************************************)
Flagged == {result.Candidates[i].PID : i \in DOMAIN result.Candidates}
Recorded == {result.UnreadablePIDs[i] : i \in DOMAIN result.UnreadablePIDs}
Busy == pc \in {"open", "read", "comm"}
Finished == {pids[i] : i \in 1..result.ScannedPIDs} \ (IF Busy THEN {pid} ELSE {})

\* Silence is evidence: a scanned PID that is in neither list was, at some
\* moment of the scan, without a process or with one that maps no AF_ALG
\* module.  A user that runs from the listing to the end is never missed.
SilenceIsEvidence ==
    \A p \in Finished \ (Flagged \cup Recorded) :
        \E process \in been[p] : process.maps \in {"none", "clean"}

\* A candidate's PID had the module mapped during the scan; its comm is
\* empty or that of a process which had the PID during the scan, not
\* necessarily of the one that matched.
CandidatesAreReal ==
    \A i \in DOMAIN result.Candidates :
        LET c == result.Candidates[i]
        IN  /\ \E process \in been[c.PID] : process.maps = "algif"
            /\ c.Comm # 0 => \E process \in been[c.PID] : process.id = c.Comm

\* The report is of a prefix of the listed PIDs, the whole list if no error
\* is returned and a proper part of it if the scan was cancelled; the lists
\* are in order, with no PID twice or in both.
ReportIsPrefix ==
    /\ result.ScannedPIDs <= Len(pids)
    /\ Flagged \cup Recorded \subseteq Finished
    /\ Flagged \cap Recorded = {}
    /\ Ascending([i \in DOMAIN result.Candidates |-> result.Candidates[i].PID])
    /\ Ascending(result.UnreadablePIDs)
    /\ pc = "done" => /\ err = "nil" => result.ScannedPIDs = Len(pids)
                      /\ err = "canceled" => result.ScannedPIDs < Len(pids)

(***************************************************************************)
(* The inductive invariant that these rest on.                             *)
(***************************************************************************)
Candidate == [PID : Pids, Comm : 0..(NumPids + MaxChanges)]

TypeOK ==
    /\ procs \in [Pids -> Process \cup {NoProcess}]
    /\ changes \in 0..MaxChanges
    /\ been \in [Pids -> SUBSET (Process \cup {NoProcess})]
    /\ pc \in {"begin", "visit", "open", "read", "comm", "done"}
    /\ pids \in Seq(Pids)
    /\ opened \in Process \cup {NoProcess}
    /\ canceled \in BOOLEAN
    /\ result \in [ScannedPIDs : Nat, UnreadablePIDs : Seq(Pids),
                   Candidates : Seq(Candidate)]
    /\ err \in {"nil", "canceled", "ErrNotRoot", "ErrProcMissing", "read dir"}

\* Nobody has the number of a process that is yet to start.
Numbered ==
    /\ opened.id <= NumPids + changes
    /\ \A p \in Pids : procs[p].id <= NumPids + changes /\ procs[p] \in been[p]

\* What has been established of the PID in hand.
InHand ==
    /\ Ascending(pids)
    /\ Busy => result.ScannedPIDs # 0
    /\ pc = "begin" => result = NoResult /\ pids = <<>>
    /\ pc # "done" => err = "nil"
    /\ pc = "read" => /\ opened # NoProcess
                      /\ procs[pid].id = opened.id => procs[pid].maps \in {"algif", "clean"}
    /\ pc = "comm" => \E process \in been[pid] : process.maps = "algif"

\* Whatever the host does under it, the scan's report so far is sound and the
\* PID in hand is the only one that is unaccounted for.
IInv == TypeOK /\ Numbered /\ InHand
        /\ SilenceIsEvidence /\ CandidatesAreReal /\ ReportIsPrefix
=============================================================================
