--------------------------- MODULE ProcScanProofs ---------------------------
(***************************************************************************)
(* ProcScan's invariants hold for any number of PIDs and of changes.       *)
(***************************************************************************)
EXTENDS ProcScan, SequenceTheorems, TLAPS

AnyProcess == Process \cup {NoProcess}

(***************************************************************************)
(* The lists of the report.                                                *)
(***************************************************************************)

\* A list has room for one more at its end.
LEMMA AppendedProperties ==
    ASSUME NEW S, NEW s \in Seq(S), NEW x \in S
    PROVE  /\ Append(s, x) \in Seq(S)
           /\ DOMAIN Append(s, x) = DOMAIN s \cup {Len(s) + 1}
           /\ Append(s, x)[Len(s) + 1] = x
           /\ \A i \in DOMAIN s : Append(s, x)[i] = s[i]
<1>1. Len(s) \in Nat /\ DOMAIN s = 1..Len(s)
  BY LenProperties
<1>2. Append(s, x) \in Seq(S) /\ Len(Append(s, x)) = Len(s) + 1
  OBVIOUS
<1>3. DOMAIN Append(s, x) = 1..(Len(s) + 1)
  BY <1>2, LenProperties
<1>4. DOMAIN Append(s, x) = DOMAIN s \cup {Len(s) + 1}
  BY <1>1, <1>3
<1>5. QED
  BY <1>1, <1>2, <1>4

\* A list in order stays so when what is added is larger than all it has.
LEMMA AppendAscending ==
    ASSUME NEW s \in Seq(Pids), NEW x \in Pids, Ascending(s),
           \A i \in DOMAIN s : s[i] < x
    PROVE  Ascending(Append(s, x))
<1>1. /\ DOMAIN Append(s, x) = DOMAIN s \cup {Len(s) + 1}
      /\ Append(s, x)[Len(s) + 1] = x
      /\ \A i \in DOMAIN s : Append(s, x)[i] = s[i]
  BY AppendedProperties
<1>2. Len(s) \in Nat /\ DOMAIN s = 1..Len(s)
  BY LenProperties
<1>3. SUFFICES ASSUME NEW i \in DOMAIN s \cup {Len(s) + 1},
                      NEW j \in DOMAIN s \cup {Len(s) + 1}, i < j
               PROVE  Append(s, x)[i] < Append(s, x)[j]
  BY <1>1 DEF Ascending
<1>4. i \in DOMAIN s
  BY <1>2, <1>3
<1>5. CASE j \in DOMAIN s
  BY <1>1, <1>3, <1>4, <1>5 DEF Ascending
<1>6. CASE j = Len(s) + 1
  BY <1>1, <1>4, <1>6
<1>7. QED
  BY <1>5, <1>6

(***************************************************************************)
(* The walk.                                                               *)
(***************************************************************************)

\* The PID in hand is larger than those before it, which are the ones the scan
\* is done with.
LEMMA Walked ==
    ASSUME TypeOK, InHand, ReportIsPrefix
    PROVE  /\ Busy => /\ pid \in Pids
                      /\ Finished = {pids[i] : i \in 1..(result.ScannedPIDs - 1)}
                      /\ \A p \in Finished : p < pid
                      /\ {pids[i] : i \in 1..result.ScannedPIDs} = Finished \cup {pid}
           /\ ~Busy => Finished = {pids[i] : i \in 1..result.ScannedPIDs}
           /\ Finished \subseteq Pids
<1> DEFINE k == result.ScannedPIDs
<1>1. k \in Nat /\ k <= Len(pids) /\ Len(pids) \in Nat /\ DOMAIN pids = 1..Len(pids)
      /\ \A i \in 1..Len(pids) : pids[i] \in Pids
  BY LenProperties, ElementOfSeq DEF TypeOK, ReportIsPrefix
<1>2. Pids \subseteq Int
  BY DEF Pids
<1>3. CASE ~Busy
  BY <1>1, <1>3 DEF Finished
<1>4. CASE Busy
  <2>1. k \in 1..Len(pids) /\ pid = pids[k]
    BY <1>1, <1>4 DEF InHand, pid
  <2>2. ASSUME NEW i \in 1..(k - 1) PROVE i \in 1..Len(pids) /\ pids[i] < pids[k]
    <3>1. i \in 1..Len(pids) /\ i < k
      BY <1>1, <2>1
    <3>2. \A x, y \in 1..Len(pids) : x < y => pids[x] < pids[y]
      BY <1>1 DEF InHand, Ascending
    <3>3. QED
      BY <2>1, <3>1, <3>2
  <2>3. ASSUME NEW i \in 1..(k - 1) PROVE pids[i] # pids[k]
    <3>1. pids[i] < pids[k] /\ pids[i] \in Int /\ pids[k] \in Int
      BY <1>1, <1>2, <2>1, <2>2
    <3>2. QED
      BY <3>1
  <2>4. 1..k = 1..(k - 1) \cup {k}
    BY <1>1, <2>1
  <2> HIDE DEF k
  <2>5. {pids[i] : i \in 1..k} = {pids[i] : i \in 1..(k - 1)} \cup {pids[k]}
    BY <2>4
  <2>6. Finished = {pids[i] : i \in 1..(k - 1)}
    BY <1>4, <2>1, <2>3, <2>5 DEF Finished, k
  <2>7. QED
    BY <1>1, <1>4, <2>1, <2>2, <2>5, <2>6 DEF k
<1>5. QED
  BY <1>3, <1>4

(***************************************************************************)
(* The invariant.                                                          *)
(***************************************************************************)

\* Nothing is listed, and every PID has had the process it has.
LEMMA InitInvariant == Init => IInv
<1> SUFFICES ASSUME Init PROVE IInv
  OBVIOUS
<1>1. TypeOK
  <2>1. <<>> \in Seq(Pids) /\ <<>> \in Seq(Candidate)
    BY EmptySeq
  <2>2. NoResult \in [ScannedPIDs : Nat, UnreadablePIDs : Seq(Pids),
                      Candidates : Seq(Candidate)]
    BY <2>1 DEF NoResult
  <2>3. been \in [Pids -> SUBSET (Process \cup {NoProcess})]
    BY DEF Init
  <2>4. opened \in Process \cup {NoProcess} /\ changes \in 0..MaxChanges
    BY BoundsAssumption DEF Init
  <2>5. QED
    BY <2>1, <2>2, <2>3, <2>4 DEF Init, TypeOK
<1>2. Numbered
  <2>1. \A p \in Pids : procs[p].id \in {0, p} /\ p <= NumPids /\ p \in Nat
    BY BoundsAssumption DEF Init, Pids
  <2>2. \A p \in Pids : procs[p].id <= NumPids + 0
    BY <2>1, BoundsAssumption
  <2>3. NoProcess.id = 0
    BY DEF NoProcess
  <2>4. QED
    BY <2>2, <2>3, BoundsAssumption DEF Init, Numbered
<1>3. result.ScannedPIDs = 0 /\ result.UnreadablePIDs = <<>> /\ result.Candidates = <<>>
  BY DEF Init, NoResult
<1>4. Len(<<>>) = 0 /\ DOMAIN <<>> = {}
  OBVIOUS
<1>5. InHand
  BY <1>4 DEF Init, InHand, Busy, Ascending
<1>6. Flagged = {} /\ Recorded = {} /\ Finished = {}
  <2>1. 1..0 = {}
    OBVIOUS
  <2>2. Flagged = {} /\ Recorded = {}
    BY <1>3, <1>4 DEF Flagged, Recorded
  <2>3. QED
    BY <1>3, <2>1, <2>2 DEF Finished
<1>7. SilenceIsEvidence /\ CandidatesAreReal
  BY <1>3, <1>4, <1>6 DEF SilenceIsEvidence, CandidatesAreReal
<1>8. ReportIsPrefix
  BY <1>3, <1>4, <1>6 DEF Init, ReportIsPrefix, Ascending
<1>9. QED
  BY <1>1, <1>2, <1>5, <1>7, <1>8 DEF IInv

\* A process exits, starts or changes its maps.  A new one has a new number, so
\* the one whose maps are open is never taken for it.
LEMMA ChangeInvariant == ASSUME IInv, Change PROVE IInv'
<1>0. TypeOK /\ Numbered /\ InHand
  BY DEF IInv
<1>1. /\ UNCHANGED <<pc, pids, opened, canceled, result, err>>
      /\ changes \in Nat /\ changes < MaxChanges /\ changes' = changes + 1
  <2>1. changes \in 0..MaxChanges
    BY <1>0 DEF TypeOK
  <2>2. QED
    BY <2>1, BoundsAssumption DEF Change
<1>2. PICK p \in Pids :
          /\ \/ procs[p] # NoProcess /\ procs' = [procs EXCEPT ![p] = NoProcess]
             \/ /\ procs[p] = NoProcess
                /\ \E m \in Maps : procs' = [procs EXCEPT ![p] =
                                       [id |-> NumPids + changes', maps |-> m]]
             \/ /\ procs[p].maps \in {"algif", "clean"}
                /\ \E m \in {"algif", "clean"} :
                      procs' = [procs EXCEPT ![p].maps = m]
          /\ been' = [been EXCEPT ![p] = @ \cup {procs'[p]}]
  BY DEF Change
<1>3. PICK new \in Process \cup {NoProcess} :
          /\ procs' = [procs EXCEPT ![p] = new]
          /\ new.id <= NumPids + changes'
          /\ \/ new = NoProcess
             \/ new.id = NumPids + changes'
             \/ new.maps \in {"algif", "clean"}
  <2>1. CASE procs' = [procs EXCEPT ![p] = NoProcess]
    <3>1. NoProcess.id <= NumPids + changes'
      BY <1>1, BoundsAssumption DEF NoProcess
    <3>2. QED
      BY <2>1, <3>1
  <2>2. ASSUME NEW m \in Maps,
               procs' = [procs EXCEPT ![p] = [id |-> NumPids + changes', maps |-> m]]
        PROVE  \E new \in Process \cup {NoProcess} :
                  /\ procs' = [procs EXCEPT ![p] = new]
                  /\ new.id <= NumPids + changes'
                  /\ new.id = NumPids + changes'
    <3>1. NumPids + changes' \in 1..(NumPids + MaxChanges)
      BY <1>1, BoundsAssumption
    <3>2. [id |-> NumPids + changes', maps |-> m] \in Process
      BY <3>1 DEF Process
    <3>3. QED
      <4> DEFINE new == [id |-> NumPids + changes', maps |-> m]
      <4>1. new.id = NumPids + changes' /\ NumPids + changes' \in Int
        BY <3>1
      <4>2. new.id <= NumPids + changes'
        BY <4>1
      <4> HIDE DEF new
      <4>3. new \in Process /\ procs' = [procs EXCEPT ![p] = new]
        BY <2>2, <3>2 DEF new
      <4>4. QED
        BY <4>1, <4>2, <4>3
  <2>3. ASSUME procs[p].maps \in {"algif", "clean"}, NEW m \in {"algif", "clean"},
               procs' = [procs EXCEPT ![p].maps = m]
        PROVE  \E new \in Process \cup {NoProcess} :
                  /\ procs' = [procs EXCEPT ![p] = new]
                  /\ new.id <= NumPids + changes'
                  /\ new.maps \in {"algif", "clean"}
    <3>1. procs[p] \in Process
      <4>1. procs[p] \in Process \cup {NoProcess}
        BY <1>0 DEF TypeOK
      <4>2. NoProcess.maps = "none"
        BY DEF NoProcess
      <4>3. QED
        BY <2>3, <4>1, <4>2
    <3>2. [id |-> procs[p].id, maps |-> m] \in Process
      BY <2>3, <3>1 DEF Process, Maps
    <3>3. procs' = [procs EXCEPT ![p] = [id |-> procs[p].id, maps |-> m]]
      <4>1. [procs[p] EXCEPT !.maps = m] = [id |-> procs[p].id, maps |-> m]
        BY <3>1 DEF Process
      <4>2. QED
        BY <2>3, <4>1
    <3>4. procs[p].id <= NumPids + changes'
      <4>1. procs[p].id \in Nat /\ procs[p].id <= NumPids + changes
        BY <1>0, <3>1 DEF Numbered, Process
      <4>2. QED
        BY <1>1, <4>1, BoundsAssumption
    <3>5. QED
      BY <2>3, <3>2, <3>3, <3>4
  <2>4. CASE procs[p].maps \in {"algif", "clean"}
             /\ \E m \in {"algif", "clean"} : procs' = [procs EXCEPT ![p].maps = m]
    <3>1. PICK m \in {"algif", "clean"} : procs' = [procs EXCEPT ![p].maps = m]
      BY <2>4
    <3>2. QED
      BY <2>3, <2>4, <3>1
  <2>5. CASE \E m \in Maps :
                procs' = [procs EXCEPT ![p] = [id |-> NumPids + changes', maps |-> m]]
    BY <2>2, <2>5
  <2>6. QED
    BY <1>2, <2>1, <2>4, <2>5
<1>4. \A q \in Pids : /\ procs'[q] = IF q = p THEN new ELSE procs[q]
                      /\ been'[q] = IF q = p THEN been[q] \cup {new} ELSE been[q]
  BY <1>0, <1>2, <1>3 DEF TypeOK
<1>5. TypeOK'
  <2>1. procs' \in [Pids -> Process \cup {NoProcess}]
    BY <1>0, <1>3 DEF TypeOK
  <2>2. been' \in [Pids -> SUBSET (Process \cup {NoProcess})]
    BY <1>0, <1>2, <1>3 DEF TypeOK
  <2>3. changes' \in 0..MaxChanges
    BY <1>1, BoundsAssumption
  <2>4. QED
    BY <1>0, <1>1, <2>1, <2>2, <2>3 DEF TypeOK
<1>6. Numbered'
  <2>1. \A q \in Pids : procs[q].id \in Nat /\ procs[q].id <= NumPids + changes
    <3>1. \A x \in Process \cup {NoProcess} : x.id \in Nat
      BY BoundsAssumption DEF Process, NoProcess
    <3>2. QED
      BY <1>0, <3>1 DEF TypeOK, Numbered
  <2>2. opened.id \in Nat /\ opened.id <= NumPids + changes
    <3>1. opened.id \in Nat
      <4>1. opened \in Process \cup {NoProcess}
        BY <1>0 DEF TypeOK
      <4>2. QED
        BY <4>1, BoundsAssumption DEF Process, NoProcess
    <3>2. QED
      BY <1>0, <3>1 DEF Numbered
  <2>3. opened'.id <= NumPids + changes'
    BY <1>1, <2>2, BoundsAssumption
  <2>4. \A q \in Pids : procs'[q].id <= NumPids + changes'
    BY <1>1, <1>3, <1>4, <2>1, BoundsAssumption
  <2>5. \A q \in Pids : procs'[q] \in been'[q]
    BY <1>0, <1>4 DEF Numbered
  <2>6. QED
    BY <2>3, <2>4, <2>5 DEF Numbered
<1>7. \A q \in Pids : been[q] \subseteq been'[q]
  BY <1>4
<1>8. Busy => pid \in Pids
  BY <1>0, Walked DEF IInv
<1>9. InHand'
  <2>1. ASSUME pc = "read", procs'[pid].id = opened.id
        PROVE  procs'[pid].maps \in {"algif", "clean"}
    <3>1. opened # NoProcess /\ opened \in Process /\ opened.id <= NumPids + changes
          /\ (procs[pid].id = opened.id => procs[pid].maps \in {"algif", "clean"})
      BY <1>0, <2>1 DEF InHand, TypeOK, Numbered
    <3>2. opened.id \in 1..(NumPids + MaxChanges)
      BY <3>1 DEF Process
    <3>3. pid \in Pids
      BY <1>8, <2>1 DEF Busy
    <3>4. opened.id # NumPids + changes' /\ opened.id # 0
      BY <1>1, <3>1, <3>2, BoundsAssumption
    <3>5. CASE pid = p
      <4>1. new.id = opened.id
        BY <1>4, <2>1, <3>3, <3>5
      <4>2. new # NoProcess
        BY <3>4, <4>1 DEF NoProcess
      <4>3. QED
        BY <1>3, <1>4, <3>3, <3>4, <3>5, <4>1, <4>2
    <3>6. CASE pid # p
      BY <1>4, <2>1, <3>1, <3>3, <3>6
    <3>7. QED
      BY <3>5, <3>6
  <2>2. pid' = pid
    BY <1>1 DEF pid
  <2>3. pc = "comm" => \E process \in been'[pid] : process.maps = "algif"
    BY <1>0, <1>7, <1>8 DEF InHand, Busy
  <2>4. QED
    BY <1>0, <1>1, <2>1, <2>2, <2>3 DEF InHand, Busy
<1>10. Flagged' = Flagged /\ Recorded' = Recorded /\ Finished' = Finished
  BY <1>1 DEF Flagged, Recorded, Finished, Busy, pid
<1>11. SilenceIsEvidence'
  <2>1. Finished \subseteq Pids
    BY <1>0, Walked DEF IInv
  <2>2. QED
    BY <1>7, <1>10, <2>1 DEF IInv, SilenceIsEvidence
<1>12. CandidatesAreReal'
  <2>1. \A i \in DOMAIN result.Candidates : result.Candidates[i].PID \in Pids
    <3>1. result.Candidates \in Seq(Candidate)
      BY <1>0 DEF TypeOK
    <3>2. \A i \in DOMAIN result.Candidates : result.Candidates[i] \in Candidate
      BY <3>1, LenProperties, ElementOfSeq
    <3>3. QED
      BY <3>2 DEF Candidate
  <2>2. QED
    BY <1>1, <1>7, <2>1 DEF IInv, CandidatesAreReal
<1>13. ReportIsPrefix'
  BY <1>1, <1>10 DEF IInv, ReportIsPrefix
<1>14. QED
  BY <1>5, <1>6, <1>9, <1>11, <1>12, <1>13 DEF IInv

\* The loop is done with the PID in hand: it goes to one of the lists, or there
\* was a moment when it had no process or one that maps no AF_ALG module.
LEMMA Accounted ==
    ASSUME IInv, Busy, pc' = "visit",
           UNCHANGED <<procs, changes, been, pids, opened, canceled, err>>,
           \/ /\ result' = result
              /\ \E process \in been[pid] : process.maps \in {"none", "clean"}
           \/ Unreadable
           \/ \E comm \in 0..(NumPids + MaxChanges) :
                 /\ Flag(comm)
                 /\ \E process \in been[pid] : process.maps = "algif"
                 /\ comm # 0 => \E process \in been[pid] : process.id = comm
    PROVE  IInv'
<1>0. /\ TypeOK /\ Numbered /\ InHand
      /\ SilenceIsEvidence /\ CandidatesAreReal /\ ReportIsPrefix
  BY DEF IInv
<1>1. /\ pid \in Pids /\ \A p \in Finished : p < pid
      /\ {pids[i] : i \in 1..result.ScannedPIDs} = Finished \cup {pid}
      /\ Finished \subseteq Pids
  BY <1>0, Walked
<1>2. pid \notin Finished
  <2>1. pid \in Int
    BY <1>1 DEF Pids
  <2>2. ~(pid < pid)
    BY <2>1
  <2>3. QED
    BY <1>1, <2>2
<1>3. /\ result \in [ScannedPIDs : Nat, UnreadablePIDs : Seq(Pids),
                     Candidates : Seq(Candidate)]
      /\ result.UnreadablePIDs \in Seq(Pids) /\ result.Candidates \in Seq(Candidate)
      /\ result.ScannedPIDs \in Nat
  BY <1>0 DEF TypeOK
<1>4. SUFFICES /\ result' \in [ScannedPIDs : Nat, UnreadablePIDs : Seq(Pids),
                               Candidates : Seq(Candidate)]
               /\ result'.ScannedPIDs = result.ScannedPIDs
               /\ SilenceIsEvidence' /\ CandidatesAreReal'
               /\ Flagged' \cup Recorded' \subseteq Finished'
               /\ Flagged' \cap Recorded' = {}
               /\ Ascending([i \in DOMAIN result'.Candidates |-> result'.Candidates[i].PID])
               /\ Ascending(result'.UnreadablePIDs)
  <2>1. TypeOK'
    BY <1>0, <1>4 DEF TypeOK
  <2>2. Numbered'
    BY <1>0 DEF Numbered
  <2>3. InHand'
    BY <1>0 DEF InHand, Busy
  <2>4. ReportIsPrefix'
    BY <1>0, <1>4 DEF ReportIsPrefix
  <2>5. QED
    BY <1>4, <2>1, <2>2, <2>3, <2>4 DEF IInv
<1>5. ASSUME result'.ScannedPIDs = result.ScannedPIDs
      PROVE  Finished' = Finished \cup {pid}
  <2>1. Finished' = {pids[i] : i \in 1..result.ScannedPIDs}
    BY <1>5 DEF Finished, Busy
  <2>2. QED
    BY <1>1, <2>1
<1>6. CASE result' = result
           /\ \E process \in been[pid] : process.maps \in {"none", "clean"}
  <2>1. Flagged' = Flagged /\ Recorded' = Recorded /\ Finished' = Finished \cup {pid}
    BY <1>5, <1>6 DEF Flagged, Recorded
  <2>2. SilenceIsEvidence'
    BY <1>0, <1>6, <2>1 DEF SilenceIsEvidence
  <2>3. CandidatesAreReal'
    BY <1>0, <1>6 DEF CandidatesAreReal
  <2>4. QED
    BY <1>0, <1>3, <1>6, <2>1, <2>2, <2>3 DEF ReportIsPrefix
<1>7. CASE Unreadable
  <2> DEFINE old == result.UnreadablePIDs
             new == Append(old, pid)
  <2>1. /\ result'.ScannedPIDs = result.ScannedPIDs
        /\ result'.Candidates = result.Candidates
        /\ result'.UnreadablePIDs = new
        /\ new \in Seq(Pids)
        /\ result' \in [ScannedPIDs : Nat, UnreadablePIDs : Seq(Pids),
                        Candidates : Seq(Candidate)]
    BY <1>1, <1>3, <1>7, AppendedProperties DEF Unreadable
  <2>2. /\ DOMAIN new = DOMAIN old \cup {Len(old) + 1} /\ new[Len(old) + 1] = pid
        /\ \A i \in DOMAIN old : new[i] = old[i]
    BY <1>1, <1>3, AppendedProperties
  <2> HIDE DEF new
  <2>3. Flagged' = Flagged /\ Recorded' = Recorded \cup {pid}
        /\ Finished' = Finished \cup {pid}
    BY <1>5, <2>1, <2>2 DEF Flagged, Recorded
  <2>4. \A i \in DOMAIN old : old[i] < pid
    BY <1>0, <1>1 DEF ReportIsPrefix, Recorded
  <2>5. Ascending(new)
    BY <1>0, <1>1, <1>3, <2>4, AppendAscending DEF ReportIsPrefix, new
  <2>6. SilenceIsEvidence'
    BY <1>0, <2>3 DEF SilenceIsEvidence
  <2>7. CandidatesAreReal'
    BY <1>0, <2>1 DEF CandidatesAreReal
  <2>8. Flagged' \cup Recorded' \subseteq Finished' /\ Flagged' \cap Recorded' = {}
    BY <1>0, <1>2, <2>3 DEF ReportIsPrefix
  <2>9. QED
    BY <1>0, <2>1, <2>5, <2>6, <2>7, <2>8 DEF ReportIsPrefix
<1>8. ASSUME NEW comm \in 0..(NumPids + MaxChanges), Flag(comm),
             \E process \in been[pid] : process.maps = "algif",
             comm # 0 => \E process \in been[pid] : process.id = comm
      PROVE  /\ result' \in [ScannedPIDs : Nat, UnreadablePIDs : Seq(Pids),
                             Candidates : Seq(Candidate)]
             /\ result'.ScannedPIDs = result.ScannedPIDs
             /\ SilenceIsEvidence' /\ CandidatesAreReal'
             /\ Flagged' \cup Recorded' \subseteq Finished'
             /\ Flagged' \cap Recorded' = {}
             /\ Ascending([i \in DOMAIN result'.Candidates |-> result'.Candidates[i].PID])
             /\ Ascending(result'.UnreadablePIDs)
  <2> DEFINE old == result.Candidates
             c == [PID |-> pid, Comm |-> comm]
             new == Append(old, c)
             oldPids == [i \in DOMAIN old |-> old[i].PID]
             newPids == [i \in DOMAIN new |-> new[i].PID]
  <2>1. c \in Candidate /\ c.PID = pid /\ c.Comm = comm
    BY <1>1 DEF Candidate
  <2> HIDE DEF c
  <2>2. /\ result'.ScannedPIDs = result.ScannedPIDs
        /\ result'.UnreadablePIDs = result.UnreadablePIDs
        /\ result'.Candidates = new
        /\ result' \in [ScannedPIDs : Nat, UnreadablePIDs : Seq(Pids),
                        Candidates : Seq(Candidate)]
    <3>1. new \in Seq(Candidate)
      BY <1>3, <2>1, AppendedProperties
    <3>2. result' = [result EXCEPT !.Candidates = new]
      BY <1>8 DEF Flag, c
    <3> HIDE DEF new
    <3>3. QED
      BY <1>3, <3>1, <3>2
  <2>3. /\ DOMAIN new = DOMAIN old \cup {Len(old) + 1} /\ new[Len(old) + 1] = c
        /\ \A i \in DOMAIN old : new[i] = old[i]
    BY <1>3, <2>1, AppendedProperties
  <2>4. DOMAIN old = 1..Len(old) /\ Len(old) \in Nat
        /\ \A i \in DOMAIN old : old[i] \in Candidate
    BY <1>3, LenProperties, ElementOfSeq
  <2> HIDE DEF new
  <2>5. Flagged' = Flagged \cup {pid} /\ Recorded' = Recorded
        /\ Finished' = Finished \cup {pid}
    BY <1>5, <2>1, <2>2, <2>3 DEF Flagged, Recorded
  <2>6. \A i \in DOMAIN old : old[i].PID < pid
    BY <1>0, <1>1 DEF ReportIsPrefix, Flagged
  <2>7. Ascending(newPids)
    <3>1. \A i, j \in DOMAIN old : i < j => old[i].PID < old[j].PID
      BY <1>0 DEF ReportIsPrefix, Ascending
    <3>2. \A i, j \in DOMAIN new : i < j =>
              i \in DOMAIN old /\ (j \in DOMAIN old \/ j = Len(old) + 1)
      BY <2>3, <2>4
    <3>3. \A i, j \in DOMAIN new : i < j => new[i].PID < new[j].PID
      BY <2>1, <2>3, <2>6, <3>1, <3>2
    <3>4. QED
      BY <3>3 DEF Ascending
  <2>8. SilenceIsEvidence'
    BY <1>0, <2>5 DEF SilenceIsEvidence
  <2>9. CandidatesAreReal'
    <3>1. \A i \in DOMAIN old :
             /\ \E process \in been[old[i].PID] : process.maps = "algif"
             /\ old[i].Comm # 0 => \E process \in been[old[i].PID] : process.id = old[i].Comm
      BY <1>0 DEF CandidatesAreReal
    <3>2. \A i \in DOMAIN new :
             /\ \E process \in been[new[i].PID] : process.maps = "algif"
             /\ new[i].Comm # 0 => \E process \in been[new[i].PID] : process.id = new[i].Comm
      BY <1>8, <2>1, <2>3, <3>1
    <3>3. QED
      BY <2>2, <3>2 DEF CandidatesAreReal
  <2>10. Flagged' \cup Recorded' \subseteq Finished' /\ Flagged' \cap Recorded' = {}
    BY <1>0, <1>2, <2>5 DEF ReportIsPrefix
  <2>11. QED
    BY <1>0, <2>2, <2>7, <2>8, <2>9, <2>10 DEF ReportIsPrefix
<1>9. QED
  BY <1>6, <1>7, <1>8

\* ReadDir: the list is the live PIDs in order, and the record of who had
\* which PID begins.
LEMMA ListInvariant == ASSUME IInv, List PROVE IInv'
<1>0. TypeOK /\ Numbered /\ InHand
  BY DEF IInv
<1>1. /\ UNCHANGED <<procs, changes, canceled, opened, result, err>>
      /\ pc = "begin" /\ pc' = "visit"
      /\ been' = [p \in Pids |-> {procs[p]}]
  BY DEF List, Go
<1>2. pids' \in Seq(Pids) /\ Len(pids') \in Nat /\ Ascending(pids')
  <2>1. PICK n \in 0..NumPids : pids' \in [1..n -> Pids] /\ Ascending(pids')
    BY DEF List
  <2>2. n \in Nat
    BY <2>1, BoundsAssumption
  <2>3. pids' \in Seq(Pids)
    BY <2>1, <2>2, SeqDef
  <2>4. QED
    BY <2>1, <2>3, LenProperties
<1>3. result = NoResult
  BY <1>0, <1>1 DEF InHand
<1>4. TypeOK'
  <2>1. been' \in [Pids -> SUBSET (Process \cup {NoProcess})]
    BY <1>0, <1>1 DEF TypeOK
  <2>2. QED
    BY <1>0, <1>1, <1>2, <2>1 DEF TypeOK
<1>5. Numbered'
  BY <1>0, <1>1 DEF Numbered
<1>6. InHand'
  BY <1>0, <1>1, <1>2 DEF InHand, Busy
<1>7. /\ result'.ScannedPIDs = 0 /\ result'.UnreadablePIDs = <<>>
      /\ result'.Candidates = <<>> /\ DOMAIN <<>> = {}
  BY <1>1, <1>3 DEF NoResult
<1>8. Flagged' = {} /\ Recorded' = {} /\ Finished' = {}
  <2>1. 1..0 = {}
    OBVIOUS
  <2>2. Flagged' = {} /\ Recorded' = {}
    BY <1>7 DEF Flagged, Recorded
  <2>3. QED
    BY <1>1, <1>7, <2>1, <2>2 DEF Finished, Busy
<1>9. SilenceIsEvidence' /\ CandidatesAreReal'
  BY <1>7, <1>8 DEF SilenceIsEvidence, CandidatesAreReal
<1>10. ReportIsPrefix'
  BY <1>1, <1>2, <1>7, <1>8 DEF ReportIsPrefix, Ascending
<1>11. QED
  BY <1>4, <1>5, <1>6, <1>9, <1>10 DEF IInv

\* The next PID is taken in hand, and those before it stay accounted for.
LEMMA VisitInvariant == ASSUME IInv, Visit PROVE IInv'
<1> DEFINE k == result.ScannedPIDs
<1>0. /\ TypeOK /\ Numbered /\ InHand
      /\ SilenceIsEvidence /\ CandidatesAreReal /\ ReportIsPrefix
  BY DEF IInv
<1>1. /\ UNCHANGED <<procs, changes, canceled, been, pids, opened, err>>
      /\ pc = "visit" /\ pc' = "open" /\ k < Len(pids)
      /\ result' = [result EXCEPT !.ScannedPIDs = k + 1]
  BY DEF Visit, Go
<1>2. /\ result \in [ScannedPIDs : Nat, UnreadablePIDs : Seq(Pids),
                     Candidates : Seq(Candidate)]
      /\ k \in Nat /\ Len(pids) \in Nat
  BY <1>0, LenProperties DEF TypeOK
<1>3. /\ result' \in [ScannedPIDs : Nat, UnreadablePIDs : Seq(Pids),
                      Candidates : Seq(Candidate)]
      /\ result'.ScannedPIDs = k + 1
      /\ result'.UnreadablePIDs = result.UnreadablePIDs
      /\ result'.Candidates = result.Candidates
  BY <1>1, <1>2
<1>4. TypeOK'
  BY <1>0, <1>1, <1>3 DEF TypeOK
<1>5. Numbered'
  BY <1>0, <1>1 DEF Numbered
<1>6. InHand'
  BY <1>0, <1>1, <1>2, <1>3 DEF InHand, Busy
<1>7. Flagged' = Flagged /\ Recorded' = Recorded
  BY <1>3 DEF Flagged, Recorded
<1>8. Finished' = Finished
  <2>1. Finished = {pids[i] : i \in 1..k}
    BY <1>1 DEF Finished, Busy
  <2>2. Finished' = {pids[i] : i \in 1..(k + 1)} \ {pids[k + 1]}
    BY <1>1, <1>3 DEF Finished, Busy, pid
  <2>3. 1..(k + 1) = 1..k \cup {k + 1}
    BY <1>2
  <2>4. ASSUME NEW i \in 1..k PROVE pids[i] # pids[k + 1]
    <3>1. i \in 1..Len(pids) /\ k + 1 \in 1..Len(pids) /\ i < k + 1
      BY <1>1, <1>2
    <3>2. DOMAIN pids = 1..Len(pids) /\ \A j \in 1..Len(pids) : pids[j] \in Pids
      BY <1>0, LenProperties, ElementOfSeq DEF TypeOK
    <3>3. pids[i] < pids[k + 1]
      BY <1>0, <3>1, <3>2 DEF InHand, Ascending
    <3>4. pids[i] \in Int /\ pids[k + 1] \in Int
      BY <3>1, <3>2 DEF Pids
    <3>5. QED
      BY <3>3, <3>4
  <2> HIDE DEF k
  <2>5. QED
    BY <2>1, <2>2, <2>3, <2>4
<1>9. SilenceIsEvidence'
  BY <1>0, <1>1, <1>7, <1>8 DEF SilenceIsEvidence
<1>10. CandidatesAreReal'
  BY <1>0, <1>1, <1>3 DEF CandidatesAreReal
<1>11. ReportIsPrefix'
  <2>1. k + 1 <= Len(pids)
    BY <1>1, <1>2
  <2>2. QED
    BY <1>0, <1>1, <1>3, <1>7, <1>8, <2>1 DEF ReportIsPrefix
<1>12. QED
  BY <1>4, <1>5, <1>6, <1>9, <1>10, <1>11 DEF IInv

\* The steps that end the scan, and a cancellation.
LEMMA EndInvariant ==
    ASSUME IInv, Refuse \/ VisitCanceled \/ Return \/ Cancel PROVE IInv'
<1>0. /\ TypeOK /\ Numbered /\ InHand
      /\ SilenceIsEvidence /\ CandidatesAreReal /\ ReportIsPrefix
  BY DEF IInv
<1>1. /\ UNCHANGED <<procs, changes, been, pids, opened, result>>
      /\ canceled' \in BOOLEAN
  BY <1>0 DEF Refuse, VisitCanceled, Return, Cancel, Go, TypeOK
<1>2. \/ pc' = pc /\ err' = err
      \/ pc \in {"begin", "visit"} /\ pc' = "done"
         /\ err' \in {"nil", "canceled", "ErrNotRoot", "ErrProcMissing", "read dir"}
         /\ (err' = "nil" => result.ScannedPIDs = Len(pids))
         /\ (err' = "canceled" => result.ScannedPIDs < Len(pids))
  <2>1. CASE Refuse
    BY <2>1 DEF Refuse, Go
  <2>2. CASE VisitCanceled
    BY <2>2 DEF VisitCanceled, Go
  <2>3. CASE Return
    BY <1>0, <2>3 DEF Return, Go, InHand
  <2>4. CASE Cancel
    BY <2>4 DEF Cancel
  <2>5. QED
    BY <2>1, <2>2, <2>3, <2>4
<1>3. TypeOK'
  BY <1>0, <1>1, <1>2 DEF TypeOK
<1>4. Numbered'
  BY <1>0, <1>1 DEF Numbered
<1>5. InHand'
  BY <1>0, <1>1, <1>2 DEF InHand, Busy, pid
<1>6. Flagged' = Flagged /\ Recorded' = Recorded /\ Finished' = Finished
  BY <1>1, <1>2 DEF Flagged, Recorded, Finished, Busy, pid
<1>7. SilenceIsEvidence' /\ CandidatesAreReal'
  BY <1>0, <1>1, <1>6 DEF SilenceIsEvidence, CandidatesAreReal
<1>8. ReportIsPrefix'
  BY <1>0, <1>1, <1>2, <1>6 DEF ReportIsPrefix
<1>9. QED
  BY <1>3, <1>4, <1>5, <1>7, <1>8 DEF IInv

\* A step that keeps the PID in hand and the report as it is.
LEMMA OnwardInvariant ==
    ASSUME IInv, Busy, pc' \in {"read", "comm"},
           UNCHANGED <<procs, changes, been, pids, canceled, err, result>>,
           opened' \in Process \cup {NoProcess}, opened'.id <= NumPids + changes,
           pc' = "read" => /\ opened' # NoProcess
                           /\ procs[pid].id = opened'.id =>
                                  procs[pid].maps \in {"algif", "clean"},
           pc' = "comm" => \E process \in been[pid] : process.maps = "algif"
    PROVE  IInv'
<1>0. /\ TypeOK /\ Numbered /\ InHand
      /\ SilenceIsEvidence /\ CandidatesAreReal /\ ReportIsPrefix
  BY DEF IInv
<1>1. TypeOK'
  BY <1>0 DEF TypeOK
<1>2. Numbered'
  BY <1>0 DEF Numbered
<1>3. Busy' /\ pid' = pid
  BY DEF Busy, pid
<1>4. InHand'
  <2>1. pc \notin {"begin", "done"} /\ pc' \notin {"begin", "done"}
    BY DEF Busy
  <2>2. Ascending(pids') /\ result'.ScannedPIDs # 0 /\ err' = "nil"
    BY <1>0, <2>1 DEF InHand
  <2>3. pc' = "read" =>
            /\ opened' # NoProcess
            /\ procs'[pid'].id = opened'.id => procs'[pid'].maps \in {"algif", "clean"}
    BY <1>3
  <2>4. pc' = "comm" => \E process \in been'[pid'] : process.maps = "algif"
    BY <1>3
  <2>5. QED
    BY <2>1, <2>2, <2>3, <2>4 DEF InHand
<1>5. Flagged' = Flagged /\ Recorded' = Recorded /\ Finished' = Finished
  BY <1>3 DEF Flagged, Recorded, Finished
<1>6. SilenceIsEvidence' /\ CandidatesAreReal'
  BY <1>0, <1>5 DEF SilenceIsEvidence, CandidatesAreReal
<1>7. ReportIsPrefix'
  BY <1>0, <1>5 DEF ReportIsPrefix
<1>8. QED
  BY <1>1, <1>2, <1>4, <1>6, <1>7 DEF IInv

\* The reads of one process's files.
LEMMA ReadInvariant == ASSUME IInv, OpenMaps \/ ReadMaps \/ ReadComm PROVE IInv'
<1>0. TypeOK /\ Numbered /\ InHand
  BY DEF IInv
<1>1. Busy /\ UNCHANGED <<procs, changes, been, pids, canceled, err>>
  BY DEF OpenMaps, ReadMaps, ReadComm, Go, Busy
<1>2. pid \in Pids
  BY <1>1, Walked DEF IInv
<1>3. procs[pid] \in Process \cup {NoProcess} /\ procs[pid] \in been[pid]
      /\ procs[pid].id <= NumPids + changes
  BY <1>0, <1>2 DEF TypeOK, Numbered
<1>4. NoProcess.maps = "none" /\ NoProcess.id = 0
      /\ \A x \in Process : x.maps \in Maps /\ x.id \in 1..(NumPids + MaxChanges)
  BY DEF NoProcess, Process
<1>5. CASE OpenMaps
  <2>1. CASE Go("open", "visit") /\ procs[pid] = NoProcess /\ UNCHANGED <<opened, result>>
    <3>1. \E process \in been[pid] : process.maps \in {"none", "clean"}
      BY <1>3, <1>4, <2>1
    <3>2. QED
      BY <1>1, <2>1, <3>1, Accounted DEF Go
  <2>2. CASE Go("open", "visit") /\ Unreadable /\ UNCHANGED opened
    BY <1>1, <2>2, Accounted DEF Go
  <2>3. CASE /\ Go("open", "read") /\ procs[pid].maps \in {"algif", "clean"}
             /\ opened' = procs[pid] /\ UNCHANGED result
    BY <1>1, <1>3, <1>4, <2>3, OnwardInvariant DEF Go
  <2>4. QED
    BY <1>5, <2>1, <2>2, <2>3 DEF OpenMaps
<1>6. CASE ReadMaps
  <2>1. CASE Go("read", "visit") /\ Unreadable
    BY <1>1, <1>6, <2>1, Accounted DEF Go, ReadMaps
  <2>2. CASE /\ Go("read", IF procs[pid].maps = "algif" THEN "comm" ELSE "visit")
             /\ procs[pid].id = opened.id
             /\ UNCHANGED result
    <3>1. procs[pid].maps \in {"algif", "clean"} /\ UNCHANGED opened
          /\ opened \in Process \cup {NoProcess} /\ opened.id <= NumPids + changes
      BY <1>0, <1>6, <2>2 DEF InHand, ReadMaps, Go, TypeOK, Numbered
    <3>2. CASE procs[pid].maps = "algif"
      BY <1>1, <1>3, <2>2, <3>1, <3>2, OnwardInvariant DEF Go
    <3>3. CASE procs[pid].maps = "clean"
      <4>1. pc' = "visit" /\ \E process \in been[pid] : process.maps \in {"none", "clean"}
        BY <1>3, <2>2, <3>3 DEF Go
      <4>2. QED
        BY <1>1, <2>2, <3>1, <4>1, Accounted
    <3>4. QED
      BY <3>1, <3>2, <3>3
  <2>3. QED
    BY <1>6, <2>1, <2>2 DEF ReadMaps
<1>7. CASE ReadComm
  <2>1. pc = "comm" /\ pc' = "visit" /\ Flag(procs[pid].id) /\ UNCHANGED opened
    BY <1>7 DEF ReadComm, Go
  <2>2. procs[pid].id \in 0..(NumPids + MaxChanges)
    BY <1>3, <1>4, BoundsAssumption
  <2>3. \E process \in been[pid] : process.maps = "algif"
    BY <1>0, <2>1 DEF InHand
  <2>4. \E process \in been[pid] : process.id = procs[pid].id
    BY <1>3
  <2>5. QED
    BY <1>1, <2>1, <2>2, <2>3, <2>4, Accounted
<1>8. QED
  BY <1>5, <1>6, <1>7

\* No step of the host or of the scan breaks the invariant.
LEMMA Invariance == Spec => []IInv
<1>1. Init => IInv
  BY InitInvariant
<1>2. IInv /\ [Next]_vars => IInv'
  <2> SUFFICES ASSUME IInv, [Next]_vars PROVE IInv'
    OBVIOUS
  <2>1. CASE UNCHANGED vars
    <3>1. UNCHANGED <<procs, changes, been, pc, pids, opened, canceled, result, err>>
      BY <2>1 DEF vars
    <3>2. TypeOK' /\ Numbered' /\ InHand'
      BY <3>1 DEF IInv, TypeOK, Numbered, InHand, Busy, pid
    <3>3. Flagged' = Flagged /\ Recorded' = Recorded /\ Finished' = Finished
      BY <3>1 DEF Flagged, Recorded, Finished, Busy, pid
    <3>4. SilenceIsEvidence' /\ CandidatesAreReal'
      BY <3>1, <3>3 DEF IInv, SilenceIsEvidence, CandidatesAreReal
    <3>5. ReportIsPrefix'
      BY <3>1, <3>3 DEF IInv, ReportIsPrefix
    <3>6. QED
      BY <3>2, <3>4, <3>5 DEF IInv
  <2>2. QED
    BY <2>1, ChangeInvariant, ListInvariant, VisitInvariant, EndInvariant,
       ReadInvariant DEF Next
<1>3. QED
  BY <1>1, <1>2, PTL DEF Spec

\* A process that has an AF_ALG module mapped from the listing to the end of
\* the scan is a candidate or recorded as unreadable, whatever runs beside it.
THEOREM SilenceJustified == Spec => []SilenceIsEvidence
BY Invariance, PTL DEF IInv

\* Every candidate's PID had the module mapped during the scan.
THEOREM CandidatesJustified == Spec => []CandidatesAreReal
BY Invariance, PTL DEF IInv

\* The report is in order, without repetition, and covers a prefix of the
\* list: all of it if Scan returns nil, and less if it was cancelled.
THEOREM PrefixReported == Spec => []ReportIsPrefix
BY Invariance, PTL DEF IInv
=============================================================================
