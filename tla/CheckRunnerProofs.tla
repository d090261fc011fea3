------------------------- MODULE CheckRunnerProofs -------------------------
(***************************************************************************)
(* Theorems about CheckRunner, for every number of checks, concurrency and *)
(* severity assignment: the inductive invariant, and what follows from it. *)
(***************************************************************************)
EXTENDS CheckRunner, FiniteSetTheorems, TLAPS

USE MaxChecksAssumption, ConcurrencyAssumption, RunStatesAssumption

-----------------------------------------------------------------------------
(***************************************************************************)
(* Counting.                                                               *)
(***************************************************************************)

\* A set of slice positions is finite and no larger than the slice.
LEMMA PositionsFinite ==
    ASSUME NEW n \in Nat, NEW S \in SUBSET (1..n)
    PROVE  /\ IsFiniteSet(S)
           /\ Cardinality(S) \in Nat
           /\ Cardinality(S) <= n
<1>1. IsFiniteSet(1..n) /\ Cardinality(1..n) = n
  BY FS_Interval, 1 \in Int, n \in Int
<1>2. IsFiniteSet(S) /\ Cardinality(S) <= Cardinality(1..n)
  BY <1>1, FS_Subset
<1>3. Cardinality(S) \in Nat
  BY <1>2, FS_CardinalityType
<1>4. QED
  BY <1>1, <1>2, <1>3

\* The tally of any slice of Results is a Summary.
LEMMA SummaryType ==
    ASSUME NEW n \in Nat, NEW R, NEW f \in [1..n -> R]
    PROVE  NewSummary(f) \in Summary
<1>1. Len(f) \in Nat
  <2>1. f \in Seq(R)
    OBVIOUS
  <2>2. QED
    BY <2>1
<1>2. \A st : /\ InState(f, st) \in SUBSET (1..n)
              /\ RequiredIn(f, st) \in SUBSET (1..n)
  BY DEF InState, RequiredIn
<1>3. \A st : /\ Cardinality(InState(f, st)) \in Nat
              /\ Cardinality(RequiredIn(f, st)) \in Nat
  BY <1>2, PositionsFinite
<1>4. QED
  BY <1>1, <1>3 DEF NewSummary, Summary

-----------------------------------------------------------------------------
(***************************************************************************)
(* The inductive invariant.                                                *)
(***************************************************************************)


\* A position is a proper id and has a proper severity.
LEMMA PositionType ==
    ASSUME TypeOK, NEW i \in Checks
    PROVE  /\ i \in 0..MaxChecks /\ i # 0
           /\ SeverityOf(i) \in Severities /\ SeverityOf(i) # Blank
<1>1. i \in 0..MaxChecks /\ i # 0
  BY DEF TypeOK, Checks
<1>2. SeverityOf(i) \in Severities
  BY DEF SeverityOf, Severities
<1>3. SeverityOf(i) # Blank
  BY DEF SeverityOf, Blank
<1>4. QED
  BY <1>1, <1>2, <1>3

\* The results the model writes are Results.
LEMMA ResultTypes ==
    ASSUME TypeOK
    PROVE  /\ NoResult \in Results
           /\ \A i \in Checks :
                 /\ newCancelledResult(i) \in Results
                 /\ [id |-> i, severity |-> SeverityOf(i), state |-> "skip",
                     err |-> Blank] \in Results
                 /\ [id |-> i, severity |-> SeverityOf(i), state |-> "error",
                     err |-> "panic"] \in Results
<1>1. 0 \in 0..MaxChecks
  OBVIOUS
<1>2. \A i \in Checks : i \in 0..MaxChecks /\ SeverityOf(i) \in Severities
  BY PositionType
<1>3. {"skip", "error"} \subseteq States
  BY DEF States
<1>4. {Blank, "panic", "parent context canceled", "context canceled"}
          \subseteq Errs
  BY DEF Errs
<1>5. QED
  BY <1>1, <1>2, <1>3, <1>4 DEF NoResult, newCancelledResult, Results, Result

\* What RunReturns produces: the check's own Result with its identity filled.
LEMMA ReturnedResult ==
    ASSUME TypeOK, NEW i \in Checks, NEW st \in RunStates, NEW id \in {0, i},
           NEW sev \in {Blank, SeverityOf(i)},
           NEW err \in {Blank, "from check"}
    PROVE  /\ FillIdentity(i, [id |-> id, severity |-> sev, state |-> st,
                               err |-> err])
                = [id |-> i, severity |-> SeverityOf(i), state |-> st,
                   err |-> err]
           /\ [id |-> i, severity |-> SeverityOf(i), state |-> st,
               err |-> err] \in Results
<1>1. i \in 0..MaxChecks /\ i # 0
  BY PositionType
<1>2. SeverityOf(i) \in Severities /\ SeverityOf(i) # Blank
  BY PositionType
<1>3. FillIdentity(i, [id |-> id, severity |-> sev, state |-> st, err |-> err])
        = [id |-> i, severity |-> SeverityOf(i), state |-> st, err |-> err]
  <2> DEFINE r == [id |-> id, severity |-> sev, state |-> st, err |-> err]
  <2>1. r.id \in {0, i} /\ r.severity \in {Blank, SeverityOf(i)}
    OBVIOUS
  <2>2. (IF r.id = 0 THEN i ELSE r.id) = i
    BY <2>1
  <2>3. (IF r.severity = Blank THEN SeverityOf(i) ELSE r.severity)
          = SeverityOf(i)
    BY <2>1
  <2>4. QED
    BY <2>2, <2>3 DEF FillIdentity
<1>4. [id |-> i, severity |-> SeverityOf(i), state |-> st, err |-> err]
        \in Results
  BY <1>1, <1>2 DEF Results, Result, Errs
<1>5. QED
  BY <1>3, <1>4

\* What one worker's move does to the number of workers at some positions.
LEMMA WorkerMoves ==
    ASSUME TypeOK, NEW i \in Checks, NEW pc, NEW S, total' = total,
           worker' = [worker EXCEPT ![i] = pc]
    PROVE  LET a == Cardinality(WorkersAt(S))
               b == Cardinality(WorkersAt(S)')
           IN  /\ a \in 0..total /\ b \in 0..total
               /\ (worker[i] \in S <=> pc \in S) => b = a
               /\ worker[i] \notin S /\ pc \in S => b = a + 1
               /\ worker[i] \in S /\ pc \notin S => b = a - 1
<1> DEFINE A == WorkersAt(S)
           B == WorkersAt(S)'
<1>1. total \in Nat /\ i \in 1..total /\ worker \in [1..total -> WorkerPC]
  BY DEF TypeOK, Checks
<1>2. \A k \in 1..total : worker'[k] = IF k = i THEN pc ELSE worker[k]
  BY <1>1
<1>3. /\ A \in SUBSET (1..total) /\ B \in SUBSET (1..total)
      /\ \A k \in 1..total : (k \in A <=> worker[k] \in S)
                            /\ (k \in B <=> worker'[k] \in S)
  BY <1>1 DEF WorkersAt, Checks
<1>4. /\ IsFiniteSet(A) /\ Cardinality(A) \in 0..total
      /\ IsFiniteSet(B) /\ Cardinality(B) \in 0..total
  BY <1>1, <1>3, PositionsFinite
<1> HIDE DEF A, B
<1>5. CASE worker[i] \in S <=> pc \in S
  <2>1. B = A
    BY <1>1, <1>2, <1>3, <1>5
  <2>2. QED
    BY <1>4, <1>5, <2>1 DEF A, B
<1>6. CASE worker[i] \notin S /\ pc \in S
  <2>1. B = A \cup {i} /\ i \notin A
    BY <1>1, <1>2, <1>3, <1>6
  <2>2. Cardinality(A \cup {i}) = IF i \in A THEN Cardinality(A)
                                  ELSE Cardinality(A) + 1
    BY <1>4, FS_AddElement
  <2>3. QED
    BY <1>4, <1>6, <2>1, <2>2 DEF A, B
<1>7. CASE worker[i] \in S /\ pc \notin S
  <2>1. B = A \ {i} /\ i \in A
    BY <1>1, <1>2, <1>3, <1>7
  <2>2. Cardinality(A \ {i}) = IF i \in A THEN Cardinality(A) - 1
                                ELSE Cardinality(A)
    BY <1>4, FS_RemoveElement
  <2>3. QED
    BY <1>4, <1>7, <2>1, <2>2 DEF A, B
<1>8. QED
  BY <1>5, <1>6, <1>7

-----------------------------------------------------------------------------
(***************************************************************************)
(* Each part of the invariant survives a step that leaves what it is about *)
(* alone.                                                                  *)
(***************************************************************************)

LEMMA FrameAccounting ==
    Accounting /\ UNCHANGED <<total, worker, sem, wg>> => Accounting'
BY DEF Accounting, WorkersAt, Checks

LEMMA FrameDispatch ==
    /\ DispatchProgress
    /\ UNCHANGED <<total, worker, next, dpc>>
    /\ ctxDone => ctxDone'
    => DispatchProgress'
BY DEF DispatchProgress, WorkersAt, Checks

LEMMA FrameMain ==
    /\ MainProgress
    /\ UNCHANGED <<total, dpc, main, frozen>>
    /\ ctxDone => ctxDone'
    => MainProgress'
BY DEF MainProgress

LEMMA FrameProduced ==
    Produced /\ UNCHANGED <<total, worker, out>> => Produced'
<1>1. SUFFICES ASSUME Produced, UNCHANGED <<total, worker, out>>,
                      NEW i \in Checks'
               PROVE  ProducedOK(i)'
  BY DEF Produced
<1>2. ProducedOK(i)
  BY <1>1 DEF Produced, Checks
<1>3. QED
  BY <1>1, <1>2 DEF ProducedOK

LEMMA FrameSlots ==
    /\ Slots
    /\ UNCHANGED <<total, worker, out, results, completed, frozen>>
    /\ ctxDone => ctxDone'
    => Slots'
<1> SUFFICES ASSUME Slots, ctxDone => ctxDone',
                    UNCHANGED <<total, worker, out, results, completed, frozen>>,
                    NEW i \in Checks
             PROVE  SlotOK(i)'
  BY DEF Slots, Checks
<1>1. SlotOK(i)
  BY DEF Slots
<1>2. QED
  BY <1>1 DEF SlotOK, OwnSlot, BackfilledSlot

LEMMA FrameSummary ==
    SummaryMatchesResults /\ UNCHANGED <<main, results, summary>>
        => SummaryMatchesResults'
BY DEF SummaryMatchesResults

\* Before Run has started nothing is owed, written or produced.
LEMMA Initially == Init => IInv
<1> SUFFICES ASSUME Init PROVE IInv
  OBVIOUS
<1>1. TypeOK
  <2>1. summary \in Summary
    <3>1. <<>> \in [1..0 -> {}]
      OBVIOUS
    <3>2. QED
      BY <3>1, SummaryType DEF Init, NoSummary
  <2>2. NoResult \in Results
    BY DEF NoResult, Results, Result, Errs
  <2>3. stubborn \subseteq Checks
    BY DEF Init
  <2>4. /\ next \in 1..(total + 1)
        /\ sem \in 0..Concurrency
        /\ wg \in 0..total
    BY DEF Init
  <2>5. worker \in [Checks -> WorkerPC]
    BY DEF Init, WorkerPC
  <2>6. main \in MainPC /\ dpc \in DispatcherPC
    BY DEF Init, MainPC, DispatcherPC
  <2>7. QED
    BY <2>1, <2>2, <2>3, <2>4, <2>5, <2>6 DEF Init, TypeOK
<1>2. Accounting
  <2>1. WorkersAt(HoldsToken) = {} /\ WorkersAt(InWaitGroup) = {}
    BY DEF Init, WorkersAt, HoldsToken, InWaitGroup, Started, Executing
  <2>2. QED
    BY <2>1, FS_EmptySet DEF Init, Accounting
<1>3. DispatchProgress
  BY DEF Init, DispatchProgress, Checks
<1>4. MainProgress
  BY DEF Init, MainProgress
<1>5. Produced
  BY DEF Init, Produced, ProducedOK
<1>6. Slots
  BY DEF Init, Slots, SlotOK, Ended
<1>7. SummaryMatchesResults
  BY DEF Init, SummaryMatchesResults
<1>8. QED
  BY <1>1, <1>2, <1>3, <1>4, <1>5, <1>6, <1>7 DEF IInv


\* The caller's goroutine.
LEMMA MainKeepsInv == IInv /\ MainNext => IInv'
<1> SUFFICES ASSUME IInv, MainNext PROVE IInv'
  OBVIOUS
<1> USE DEF callVars, dispVars, chanVars, workVars, stateVars
<1>0. /\ TypeOK /\ Accounting /\ DispatchProgress /\ MainProgress
      /\ Produced /\ Slots /\ SummaryMatchesResults
  BY DEF IInv
<1>1. CASE RunNothing
  <2>1. summary' \in Summary
    <3>1. results \in [1..total -> Results] /\ total \in Nat
      BY <1>0 DEF TypeOK, Checks
    <3>2. QED
      BY <1>1, <3>1, SummaryType DEF RunNothing
  <2>2. TypeOK'
    BY <1>0, <1>1, <2>1 DEF RunNothing, TypeOK, Checks, MainPC
  <2>3. MainProgress'
    BY <1>0, <1>1 DEF RunNothing, MainProgress
  <2>4. SummaryMatchesResults'
    BY <1>1 DEF RunNothing, SummaryMatchesResults, NewSummary, InState, RequiredIn
  <2>5. QED
    BY <1>0, <1>1, <2>2, <2>3, <2>4, FrameAccounting, FrameDispatch,
       FrameProduced, FrameSlots DEF RunNothing, IInv
<1>2. CASE StartRun
  <2>1. TypeOK'
    BY <1>0, <1>2 DEF StartRun, TypeOK, Checks, MainPC, DispatcherPC
  <2>2. DispatchProgress'
    <3>1. dpc = "none" /\ next = 1 /\ total >= 1
      BY <1>0, <1>2 DEF StartRun, DispatchProgress, MainProgress, TypeOK
    <3>2. QED
      BY <1>0, <1>2, <3>1 DEF StartRun, DispatchProgress, WorkersAt, Checks
  <2>3. MainProgress'
    BY <1>0, <1>2 DEF StartRun, MainProgress, TypeOK
  <2>4. SummaryMatchesResults'
    BY <1>2 DEF StartRun, SummaryMatchesResults
  <2>5. QED
    BY <1>0, <1>2, <2>1, <2>2, <2>3, <2>4, FrameAccounting, FrameProduced,
       FrameSlots DEF StartRun, IInv
<1>3. CASE StopWaiting
  <2>1. TypeOK'
    BY <1>0, <1>3 DEF StopWaiting, TypeOK, Checks, MainPC
  <2>2. MainProgress'
    BY <1>0, <1>3 DEF StopWaiting, WorkersFinished, MainProgress
  <2>3. SummaryMatchesResults'
    BY <1>3 DEF StopWaiting, SummaryMatchesResults
  <2>4. QED
    BY <1>0, <1>3, <2>1, <2>2, <2>3, FrameAccounting, FrameDispatch,
       FrameProduced, FrameSlots DEF StopWaiting, IInv
<1>4. CASE FreezeAndBackfill
  <2> USE DEF FreezeAndBackfill, Freeze
  <2>1. TypeOK'
    <3>1. \A i \in Checks : newCancelledResult(i) \in Results
      BY <1>0, ResultTypes
    <3>2. results' \in [Checks -> Results]
      BY <1>0, <1>4, <3>1 DEF TypeOK
    <3>3. QED
      BY <1>0, <1>4, <3>2 DEF TypeOK, Checks, MainPC
  <2>2. MainProgress'
    BY <1>0, <1>4 DEF MainProgress, TypeOK
  <2>3. \/ ctxDone
        \/ \A i \in Checks : worker[i] \notin InWaitGroup \cup {"none"}
    <3>1. ctxDone \/ dpc = "closed"
      BY <1>0, <1>4 DEF MainProgress, TypeOK
    <3>2. dpc = "closed" => \A i \in Checks : worker[i] \notin InWaitGroup
      BY <1>0 DEF DispatchProgress, WorkersAt
    <3>3. dpc = "closed" /\ ~ctxDone => \A i \in Checks : worker[i] # "none"
      BY <1>0 DEF DispatchProgress, TypeOK, Checks
    <3>4. QED
      BY <3>1, <3>2, <3>3
  <2>4. Slots'
    <3> SUFFICES ASSUME NEW i \in Checks
                 PROVE  SlotOK(i)'
      BY <1>4 DEF Slots, Checks
    <3>1. SlotOK(i)
      BY <1>0 DEF Slots
    <3>2. CASE completed[i]
      BY <1>4, <3>1, <3>2 DEF SlotOK, OwnSlot, BackfilledSlot
    <3>3. CASE ~completed[i] /\ ctxDone
      BY <1>4, <3>1, <3>3 DEF SlotOK, OwnSlot, BackfilledSlot, newCancelledResult
    <3>4. CASE ~completed[i] /\ ~ctxDone
      BY <1>0, <1>4, <2>3, <3>1, <3>4 DEF SlotOK, OwnSlot, BackfilledSlot,
         newCancelledResult, TypeOK, WorkerPC, Ended
    <3>5. QED
      BY <3>1, <3>2, <3>3, <3>4 DEF TypeOK
  <2>5. SummaryMatchesResults'
    BY <1>4 DEF SummaryMatchesResults
  <2>6. QED
    BY <1>0, <1>4, <2>1, <2>2, <2>4, <2>5, FrameAccounting, FrameDispatch,
       FrameProduced DEF IInv
<1>5. CASE Summarise
  <2>1. summary' \in Summary
    <3>1. results \in [1..total -> Results] /\ total \in Nat
      BY <1>0 DEF TypeOK, Checks
    <3>2. QED
      BY <1>5, <3>1, SummaryType DEF Summarise
  <2>2. TypeOK'
    BY <1>0, <1>5, <2>1 DEF Summarise, TypeOK, Checks, MainPC
  <2>3. MainProgress'
    BY <1>0, <1>5 DEF Summarise, MainProgress
  <2>4. SummaryMatchesResults'
    BY <1>5 DEF Summarise, SummaryMatchesResults, NewSummary, InState, RequiredIn
  <2>5. QED
    BY <1>0, <1>5, <2>2, <2>3, <2>4, FrameAccounting, FrameDispatch,
       FrameProduced, FrameSlots DEF Summarise, IInv
<1>6. CASE LogRunnerCompleted
  <2>1. TypeOK'
    BY <1>0, <1>6 DEF LogRunnerCompleted, TypeOK, Checks, MainPC
  <2>2. MainProgress'
    BY <1>0, <1>6 DEF LogRunnerCompleted, MainProgress
  <2>3. SummaryMatchesResults'
    BY <1>0, <1>6 DEF LogRunnerCompleted, SummaryMatchesResults, NewSummary,
       InState, RequiredIn
  <2>4. QED
    BY <1>0, <1>6, <2>1, <2>2, <2>3, FrameAccounting, FrameDispatch,
       FrameProduced, FrameSlots DEF LogRunnerCompleted, IInv
<1>7. QED
  BY <1>1, <1>2, <1>3, <1>4, <1>5, <1>6 DEF MainNext

\* The dispatcher's goroutine.
LEMMA DispatcherKeepsInv == IInv /\ DispatcherNext => IInv'
<1> SUFFICES ASSUME IInv, DispatcherNext PROVE IInv'
  OBVIOUS
<1> USE DEF callVars, mainVars, dispVars, chanVars, workVars, stateVars
<1>0. /\ TypeOK /\ Accounting /\ DispatchProgress /\ MainProgress
      /\ Produced /\ Slots /\ SummaryMatchesResults
  BY DEF IInv
<1>1. CASE Dispatch
  <2> USE DEF Dispatch, SpawnWorker
  <2>1. /\ next \in Checks /\ next < total + 1 /\ worker[next] = "none"
        /\ total > 0 /\ total \in Nat /\ next \in Nat
    BY <1>0, <1>1 DEF DispatchProgress, TypeOK, Checks
  <2>2. /\ Cardinality(WorkersAt(HoldsToken)')
             = Cardinality(WorkersAt(HoldsToken)) + 1
        /\ Cardinality(WorkersAt(InWaitGroup)')
             = Cardinality(WorkersAt(InWaitGroup)) + 1
        /\ Cardinality(WorkersAt(InWaitGroup)') \in 0..total
    <3>1. "none" \notin InWaitGroup /\ "none" \notin HoldsToken
      BY DEF InWaitGroup, HoldsToken, Started, Executing
    <3>2. "spawned" \in InWaitGroup /\ "spawned" \in HoldsToken
      BY DEF InWaitGroup, HoldsToken
    <3>3. QED
      BY <1>0, <1>1, <2>1, <3>1, <3>2, WorkerMoves
  <2>3. Accounting'
    BY <1>0, <1>1, <2>2 DEF Accounting
  <2>4. worker' \in [Checks -> WorkerPC]
    BY <1>0, <1>1 DEF TypeOK, WorkerPC, InWaitGroup, HoldsToken
  <2>5. TypeOK'
    <3>1. wg' \in 0..total
      BY <1>0, <2>2, <2>3 DEF Accounting
    <3>2. sem' \in 0..Concurrency /\ next' \in 1..(total + 1)
      BY <1>0, <1>1, <2>1 DEF TypeOK
    <3>3. QED
      BY <1>0, <1>1, <2>4, <3>1, <3>2 DEF TypeOK, Checks, DispatcherPC
  <2>6. DispatchProgress'
    <3>1. \A i \in Checks : worker'[i] = "none" <=> i >= next'
      BY <1>0, <1>1, <2>1 DEF DispatchProgress, TypeOK, Checks
    <3>2. dpc' \in {"loop", "wait"} /\ (dpc' = "loop" => next' <= total)
                                  /\ (dpc' = "wait" => next' = total + 1)
      BY <1>1, <2>1
    <3>3. QED
      BY <1>1, <3>1, <3>2 DEF DispatchProgress, Checks
  <2>7. MainProgress'
    BY <1>0, <1>1, <2>1 DEF MainProgress
  <2>8. Produced'
    <3> SUFFICES ASSUME NEW i \in Checks
                 PROVE  ProducedOK(i)'
      BY <1>1 DEF Produced, Checks
    <3>1. ProducedOK(i)
      BY <1>0 DEF Produced
    <3>2. worker'[i] = IF i = next THEN "spawned" ELSE worker[i]
      BY <1>0, <1>1 DEF TypeOK
    <3>3. CASE i = next
      <4>1. worker[i] = "none" /\ worker'[i] = "spawned" /\ out' = out
        BY <1>1, <2>1, <3>2, <3>3
      <4>2. QED
        BY <3>1, <4>1 DEF ProducedOK
    <3>4. CASE i # next
      BY <1>1, <3>1, <3>2, <3>4 DEF ProducedOK
    <3>5. QED
      BY <3>3, <3>4
  <2>9. Slots'
    <3> SUFFICES ASSUME NEW i \in Checks
                 PROVE  SlotOK(i)'
      BY <1>1 DEF Slots, Checks
    <3>1. SlotOK(i)
      BY <1>0 DEF Slots
    <3>2. worker'[i] = IF i = next THEN "spawned" ELSE worker[i]
      BY <1>0, <1>1 DEF TypeOK
    <3>3. CASE i = next
      <4>1. /\ worker[i] = "none" /\ worker'[i] = "spawned"
            /\ UNCHANGED <<ctxDone, out, results, completed, frozen>>
        BY <1>1, <2>1, <3>2, <3>3
      <4>2. QED
        BY <3>1, <4>1 DEF SlotOK, OwnSlot, BackfilledSlot, Ended
    <3>4. CASE i # next
      BY <1>1, <3>1, <3>2, <3>4 DEF SlotOK, OwnSlot, BackfilledSlot
    <3>5. QED
      BY <3>3, <3>4
  <2>10. QED
    BY <1>0, <1>1, <2>3, <2>5, <2>6, <2>7, <2>8, <2>9, FrameSummary DEF IInv
<1>2. CASE StopDispatching
  <2>1. TypeOK'
    BY <1>0, <1>2 DEF StopDispatching, TypeOK, Checks, DispatcherPC
  <2>2. DispatchProgress'
    BY <1>0, <1>2 DEF StopDispatching, DispatchProgress, WorkersAt, Checks
  <2>3. MainProgress'
    BY <1>0, <1>2 DEF StopDispatching, MainProgress
  <2>4. QED
    BY <1>0, <1>2, <2>1, <2>2, <2>3, FrameAccounting, FrameProduced,
       FrameSlots, FrameSummary DEF StopDispatching, IInv
<1>3. CASE CloseDone
  <2>1. TypeOK'
    BY <1>0, <1>3 DEF CloseDone, TypeOK, Checks, DispatcherPC
  <2>2. WorkersAt(InWaitGroup) = {}
    <3>1. WorkersAt(InWaitGroup) \in SUBSET (1..total) /\ total \in Nat
      BY <1>0 DEF WorkersAt, Checks, TypeOK
    <3>2. IsFiniteSet(WorkersAt(InWaitGroup))
      BY <3>1, PositionsFinite
    <3>3. QED
      BY <1>0, <1>3, <3>2, FS_EmptySet DEF CloseDone, Accounting
  <2>3. DispatchProgress'
    BY <1>0, <1>3, <2>2 DEF CloseDone, DispatchProgress, WorkersAt, Checks
  <2>4. MainProgress'
    BY <1>0, <1>3 DEF CloseDone, MainProgress
  <2>5. QED
    BY <1>0, <1>3, <2>1, <2>3, <2>4, FrameAccounting, FrameProduced,
       FrameSlots, FrameSummary DEF CloseDone, IInv
<1>4. QED
  BY <1>1, <1>2, <1>3 DEF DispatcherNext

\* A worker moves on: what that means for it, the others and the dispatcher.
LEMMA StepMoves ==
    ASSUME TypeOK, DispatchProgress, NEW i \in Checks, NEW from, NEW to,
           from \subseteq InWaitGroup, to \in InWaitGroup \cup {"gone"},
           Step(i, from, to)
    PROVE  /\ worker' \in [Checks -> WorkerPC]
           /\ worker[i] \in from /\ worker'[i] = to
           /\ \A k \in Checks \ {i} : worker'[k] = worker[k]
           /\ DispatchProgress'
<1> USE DEF Step, mainVars, callVars, dispVars
<1>1. to \in WorkerPC /\ to # "none" /\ worker[i] # "none"
  BY DEF Step, WorkerPC, InWaitGroup, HoldsToken, Started, Executing
<1>2. worker' \in [Checks -> WorkerPC]
  BY <1>1 DEF TypeOK
<1>3. /\ worker[i] \in from /\ worker'[i] = to
      /\ \A k \in Checks \ {i} : worker'[k] = worker[k]
  BY DEF TypeOK
<1>4. dpc # "closed"
  BY DEF DispatchProgress, WorkersAt
<1>5. \A k \in Checks : worker'[k] = "none" <=> worker[k] = "none"
  BY <1>1, <1>3
<1>6. DispatchProgress'
  BY <1>4, <1>5 DEF DispatchProgress, Checks
<1>7. QED
  BY <1>2, <1>3, <1>6

\* Before the deferred calls a worker's moves change neither count.
LEMMA StepAccounts ==
    ASSUME TypeOK, Accounting, NEW i \in Checks, NEW from, NEW to,
           from \subseteq HoldsToken, to \in HoldsToken,
           Step(i, from, to), UNCHANGED chanVars
    PROVE  Accounting'
<1>1. /\ worker[i] \in HoldsToken /\ worker[i] \in InWaitGroup
      /\ to \in HoldsToken /\ to \in InWaitGroup
  BY DEF Step, InWaitGroup
<1>2. worker' = [worker EXCEPT ![i] = to] /\ total' = total
  BY DEF Step, mainVars, callVars
<1>3. /\ Cardinality(WorkersAt(HoldsToken)')
           = Cardinality(WorkersAt(HoldsToken))
      /\ Cardinality(WorkersAt(InWaitGroup)')
           = Cardinality(WorkersAt(InWaitGroup))
  BY <1>1, <1>2, WorkerMoves
<1>4. QED
  BY <1>3 DEF Accounting, chanVars

\* A step that is about check i alone leaves the other slots in order.
LEMMA LocalStep ==
    ASSUME Produced, Slots, NEW i \in Checks,
           UNCHANGED <<total, frozen, ctxDone>>,
           \A k \in Checks \ {i} : /\ worker'[k] = worker[k]
                                   /\ out'[k] = out[k]
                                   /\ results'[k] = results[k]
                                   /\ completed'[k] = completed[k],
           ProducedOK(i)', SlotOK(i)'
    PROVE  Produced' /\ Slots'
<1>1. ASSUME NEW k \in Checks, k # i
      PROVE  ProducedOK(k)' /\ SlotOK(k)'
  <2>1. ProducedOK(k) /\ SlotOK(k)
    BY DEF Produced, Slots
  <2>2. /\ worker'[k] = worker[k] /\ out'[k] = out[k]
        /\ results'[k] = results[k] /\ completed'[k] = completed[k]
    BY <1>1
  <2>3. ProducedOK(k)'
    BY <2>1, <2>2 DEF ProducedOK
  <2>4. SlotOK(k)'
    BY <2>1, <2>2 DEF SlotOK, OwnSlot, BackfilledSlot
  <2>5. QED
    BY <2>3, <2>4
<1>2. Checks' = Checks
  BY DEF Checks
<1>3. QED
  BY <1>1, <1>2 DEF Produced, Slots

\* The goroutine is scheduled.
LEMMA StartCheckKeepsInv ==
    ASSUME IInv, NEW i \in Checks, StartCheck(i)
    PROVE  IInv'
<1> USE DEF callVars, mainVars, dispVars, chanVars, workVars, stateVars
<1>0. /\ TypeOK /\ Accounting /\ DispatchProgress /\ MainProgress
      /\ Produced /\ Slots /\ SummaryMatchesResults
  BY DEF IInv
<1>1. Step(i, {"spawned"}, "applicable") /\ UNCHANGED chanVars
  BY DEF StartCheck
<1>2. /\ {"spawned"} \subseteq HoldsToken /\ "applicable" \in HoldsToken
      /\ {"spawned"} \subseteq InWaitGroup /\ "applicable" \in InWaitGroup
  BY DEF HoldsToken, InWaitGroup, Started, Executing
<1>3. /\ worker' \in [Checks -> WorkerPC]
      /\ worker[i] \in {"spawned"} /\ worker'[i] = "applicable"
      /\ \A k \in Checks \ {i} : worker'[k] = worker[k]
      /\ DispatchProgress'
  BY <1>0, <1>1, <1>2, StepMoves
<1>4. Accounting'
  BY <1>0, <1>1, <1>2, StepAccounts
<1>5. UNCHANGED <<total, ctxDone, main, dpc, summary, results, completed, frozen>>
  BY <1>1 DEF StartCheck, Step
<1>6. UNCHANGED out
  BY DEF StartCheck
<1>7. TypeOK'
  BY <1>0, <1>1, <1>3, <1>6 DEF StartCheck, Step, TypeOK, Checks
<1>8. ProducedOK(i)' /\ SlotOK(i)'
  <2>1. ProducedOK(i) /\ SlotOK(i)
    BY <1>0 DEF Produced, Slots
  <2>2. QED
    BY <1>3, <1>5, <1>6, <2>1 DEF ProducedOK, SlotOK, OwnSlot, BackfilledSlot,
       Executing, Ended
<1>9. Produced' /\ Slots'
  BY <1>0, <1>3, <1>5, <1>6, <1>8, LocalStep DEF TypeOK
<1>10. QED
  BY <1>0, <1>3, <1>4, <1>5, <1>7, <1>9, FrameMain, FrameSummary DEF IInv

\* Applicable says yes.
LEMMA ApplicableTrueKeepsInv ==
    ASSUME IInv, NEW i \in Checks, ApplicableTrue(i)
    PROVE  IInv'
<1> USE DEF callVars, mainVars, dispVars, chanVars, workVars, stateVars
<1>0. /\ TypeOK /\ Accounting /\ DispatchProgress /\ MainProgress
      /\ Produced /\ Slots /\ SummaryMatchesResults
  BY DEF IInv
<1>1. Step(i, {"applicable"}, "run") /\ UNCHANGED chanVars
  BY DEF ApplicableTrue
<1>2. /\ {"applicable"} \subseteq HoldsToken /\ "run" \in HoldsToken
      /\ {"applicable"} \subseteq InWaitGroup /\ "run" \in InWaitGroup
  BY DEF HoldsToken, InWaitGroup, Started, Executing
<1>3. /\ worker' \in [Checks -> WorkerPC]
      /\ worker[i] \in {"applicable"} /\ worker'[i] = "run"
      /\ \A k \in Checks \ {i} : worker'[k] = worker[k]
      /\ DispatchProgress'
  BY <1>0, <1>1, <1>2, StepMoves
<1>4. Accounting'
  BY <1>0, <1>1, <1>2, StepAccounts
<1>5. UNCHANGED <<total, ctxDone, main, dpc, summary, results, completed, frozen>>
  BY <1>1 DEF ApplicableTrue, Step
<1>6. UNCHANGED out
  BY DEF ApplicableTrue
<1>7. TypeOK'
  BY <1>0, <1>1, <1>3, <1>6 DEF ApplicableTrue, Step, TypeOK, Checks
<1>8. ProducedOK(i)' /\ SlotOK(i)'
  <2>1. ProducedOK(i) /\ SlotOK(i)
    BY <1>0 DEF Produced, Slots
  <2>2. QED
    BY <1>3, <1>5, <1>6, <2>1 DEF ProducedOK, SlotOK, OwnSlot, BackfilledSlot,
       Executing, Ended
<1>9. Produced' /\ Slots'
  BY <1>0, <1>3, <1>5, <1>6, <1>8, LocalStep DEF TypeOK
<1>10. QED
  BY <1>0, <1>3, <1>4, <1>5, <1>7, <1>9, FrameMain, FrameSummary DEF IInv

\* Applicable says no.
LEMMA ApplicableFalseKeepsInv ==
    ASSUME IInv, NEW i \in Checks, ApplicableFalse(i)
    PROVE  IInv'
<1> USE DEF callVars, mainVars, dispVars, chanVars, workVars, stateVars
<1>0. /\ TypeOK /\ Accounting /\ DispatchProgress /\ MainProgress
      /\ Produced /\ Slots /\ SummaryMatchesResults
  BY DEF IInv
<1>1. Step(i, {"applicable"}, "record") /\ UNCHANGED chanVars
  BY DEF ApplicableFalse, Produce
<1>2. /\ {"applicable"} \subseteq HoldsToken /\ "record" \in HoldsToken
      /\ {"applicable"} \subseteq InWaitGroup /\ "record" \in InWaitGroup
  BY DEF HoldsToken, InWaitGroup, Started, Executing
<1>3. /\ worker' \in [Checks -> WorkerPC]
      /\ worker[i] \in {"applicable"} /\ worker'[i] = "record"
      /\ \A k \in Checks \ {i} : worker'[k] = worker[k]
      /\ DispatchProgress'
  BY <1>0, <1>1, <1>2, StepMoves
<1>4. Accounting'
  BY <1>0, <1>1, <1>2, StepAccounts
<1>5. UNCHANGED <<total, ctxDone, main, dpc, summary, results, completed, frozen>>
  BY <1>1 DEF ApplicableFalse, Produce, Step
<1>6. PICK res \in Results :
        /\ out' = [out EXCEPT ![i] = res]
        /\ expired' = [expired EXCEPT ![i] = FALSE]
        /\ res.id = i /\ res.severity = SeverityOf(i)
        /\ res.state \in RunStates \cup {"skip", "error"}
        /\ res.err \in {Blank, "from check", "panic"}
        /\ res # NoResult
  <2>1. i # 0 /\ i \in 0..MaxChecks
    BY <1>0, PositionType
  <2>2. QED
    BY <1>0, <2>1, ResultTypes DEF ApplicableFalse, Produce, NoResult
<1>7. TypeOK'
  BY <1>0, <1>1, <1>3, <1>5, <1>6 DEF Step, TypeOK, Checks
<1>8. ProducedOK(i)' /\ SlotOK(i)'
  <2>1. SlotOK(i) /\ out[i] = NoResult /\ out'[i] = res
    BY <1>0, <1>3, <1>6 DEF Slots, Produced, ProducedOK, TypeOK, Executing
  <2>2. ProducedOK(i)'
    BY <1>3, <1>6, <2>1 DEF ProducedOK, Executing
  <2>3. SlotOK(i)'
    <3>1. worker[i] \notin Ended \cup {"log"} /\ worker'[i] = "record"
      BY <1>3 DEF Executing, Ended
    <3>2. /\ completed[i] => frozen /\ BackfilledSlot(i)
          /\ ~completed[i] => ~frozen /\ results[i] = NoResult
      <4>1. ~OwnSlot(i)
        BY <2>1 DEF OwnSlot
      <4>2. QED
        BY <2>1, <3>1, <4>1 DEF SlotOK
    <3>3. BackfilledSlot(i) => BackfilledSlot(i)'
      BY <1>5, <3>1 DEF BackfilledSlot
    <3>4. QED
      BY <1>5, <3>1, <3>2, <3>3 DEF SlotOK, Ended
  <2>4. QED
    BY <2>2, <2>3
<1>9. Produced' /\ Slots'
  BY <1>0, <1>3, <1>5, <1>6, <1>8, LocalStep DEF TypeOK
<1>10. QED
  BY <1>0, <1>3, <1>4, <1>5, <1>7, <1>9, FrameMain, FrameSummary DEF IInv

\* The check panics.
LEMMA CheckPanicsKeepsInv ==
    ASSUME IInv, NEW i \in Checks, CheckPanics(i)
    PROVE  IInv'
<1> USE DEF callVars, mainVars, dispVars, chanVars, workVars, stateVars
<1>0. /\ TypeOK /\ Accounting /\ DispatchProgress /\ MainProgress
      /\ Produced /\ Slots /\ SummaryMatchesResults
  BY DEF IInv
<1>1. Step(i, Executing, "record") /\ UNCHANGED chanVars
  BY DEF CheckPanics, Produce
<1>2. /\ Executing \subseteq HoldsToken /\ "record" \in HoldsToken
      /\ Executing \subseteq InWaitGroup /\ "record" \in InWaitGroup
  BY DEF HoldsToken, InWaitGroup, Started, Executing
<1>3. /\ worker' \in [Checks -> WorkerPC]
      /\ worker[i] \in Executing /\ worker'[i] = "record"
      /\ \A k \in Checks \ {i} : worker'[k] = worker[k]
      /\ DispatchProgress'
  BY <1>0, <1>1, <1>2, StepMoves
<1>4. Accounting'
  BY <1>0, <1>1, <1>2, StepAccounts
<1>5. UNCHANGED <<total, ctxDone, main, dpc, summary, results, completed, frozen>>
  BY <1>1 DEF CheckPanics, Produce, Step
<1>6. PICK res \in Results :
        /\ out' = [out EXCEPT ![i] = res]
        /\ expired' = [expired EXCEPT ![i] = FALSE]
        /\ res.id = i /\ res.severity = SeverityOf(i)
        /\ res.state \in RunStates \cup {"skip", "error"}
        /\ res.err \in {Blank, "from check", "panic"}
        /\ res # NoResult
  <2>1. i # 0 /\ i \in 0..MaxChecks
    BY <1>0, PositionType
  <2>2. QED
    BY <1>0, <2>1, ResultTypes DEF CheckPanics, Produce, NoResult
<1>7. TypeOK'
  BY <1>0, <1>1, <1>3, <1>5, <1>6 DEF Step, TypeOK, Checks
<1>8. ProducedOK(i)' /\ SlotOK(i)'
  <2>1. SlotOK(i) /\ out[i] = NoResult /\ out'[i] = res
    BY <1>0, <1>3, <1>6 DEF Slots, Produced, ProducedOK, TypeOK, Executing
  <2>2. ProducedOK(i)'
    BY <1>3, <1>6, <2>1 DEF ProducedOK, Executing
  <2>3. SlotOK(i)'
    <3>1. worker[i] \notin Ended \cup {"log"} /\ worker'[i] = "record"
      BY <1>3 DEF Executing, Ended
    <3>2. /\ completed[i] => frozen /\ BackfilledSlot(i)
          /\ ~completed[i] => ~frozen /\ results[i] = NoResult
      <4>1. ~OwnSlot(i)
        BY <2>1 DEF OwnSlot
      <4>2. QED
        BY <2>1, <3>1, <4>1 DEF SlotOK
    <3>3. BackfilledSlot(i) => BackfilledSlot(i)'
      BY <1>5, <3>1 DEF BackfilledSlot
    <3>4. QED
      BY <1>5, <3>1, <3>2, <3>3 DEF SlotOK, Ended
  <2>4. QED
    BY <2>2, <2>3
<1>9. Produced' /\ Slots'
  BY <1>0, <1>3, <1>5, <1>6, <1>8, LocalStep DEF TypeOK
<1>10. QED
  BY <1>0, <1>3, <1>4, <1>5, <1>7, <1>9, FrameMain, FrameSummary DEF IInv

\* Run returns.
LEMMA RunReturnsKeepsInv ==
    ASSUME IInv, NEW i \in Checks, RunReturns(i)
    PROVE  IInv'
<1> USE DEF callVars, mainVars, dispVars, chanVars, workVars, stateVars
<1>0. /\ TypeOK /\ Accounting /\ DispatchProgress /\ MainProgress
      /\ Produced /\ Slots /\ SummaryMatchesResults
  BY DEF IInv
<1>1. Step(i, {"run"}, "record") /\ UNCHANGED chanVars
  BY DEF RunReturns, Produce
<1>2. /\ {"run"} \subseteq HoldsToken /\ "record" \in HoldsToken
      /\ {"run"} \subseteq InWaitGroup /\ "record" \in InWaitGroup
  BY DEF HoldsToken, InWaitGroup, Started, Executing
<1>3. /\ worker' \in [Checks -> WorkerPC]
      /\ worker[i] \in {"run"} /\ worker'[i] = "record"
      /\ \A k \in Checks \ {i} : worker'[k] = worker[k]
      /\ DispatchProgress'
  BY <1>0, <1>1, <1>2, StepMoves
<1>4. Accounting'
  BY <1>0, <1>1, <1>2, StepAccounts
<1>5. UNCHANGED <<total, ctxDone, main, dpc, summary, results, completed, frozen>>
  BY <1>1 DEF RunReturns, Produce, Step
<1>6. PICK res \in Results :
        /\ out' = [out EXCEPT ![i] = res]
        /\ expired' = [expired EXCEPT ![i] = FALSE]
        /\ res.id = i /\ res.severity = SeverityOf(i)
        /\ res.state \in RunStates \cup {"skip", "error"}
        /\ res.err \in {Blank, "from check", "panic"}
        /\ res # NoResult
  <2>1. i # 0 /\ i \in 0..MaxChecks
    BY <1>0, PositionType
  <2>2. PICK st \in RunStates, id \in {0, i}, sev \in {Blank, SeverityOf(i)} :
           Produce(i, FillIdentity(i,
              [id |-> id, severity |-> sev, state |-> st,
               err |-> IF st = "error" THEN "from check" ELSE Blank]))
    BY DEF RunReturns
  <2> DEFINE e == IF st = "error" THEN "from check" ELSE Blank
             r == [id |-> i, severity |-> SeverityOf(i), state |-> st, err |-> e]
  <2>3. e \in {Blank, "from check"}
    OBVIOUS
  <2>4. Produce(i, FillIdentity(i, [id |-> id, severity |-> sev,
                                    state |-> st, err |-> e]))
    BY <2>2
  <2> HIDE DEF e
  <2>5. TypeOK
    BY <1>0
  <2>6. /\ FillIdentity(i, [id |-> id, severity |-> sev,
                            state |-> st, err |-> e]) = r
        /\ r \in Results
    BY <2>3, <2>5, ReturnedResult
  <2>7. Produce(i, r) /\ r \in Results
    BY <2>4, <2>6
  <2>8. QED
    BY <2>1, <2>3, <2>7 DEF Produce, NoResult
<1>7. TypeOK'
  BY <1>0, <1>1, <1>3, <1>5, <1>6 DEF Step, TypeOK, Checks
<1>8. ProducedOK(i)' /\ SlotOK(i)'
  <2>1. SlotOK(i) /\ out[i] = NoResult /\ out'[i] = res
    BY <1>0, <1>3, <1>6 DEF Slots, Produced, ProducedOK, TypeOK, Executing
  <2>2. ProducedOK(i)'
    BY <1>3, <1>6, <2>1 DEF ProducedOK, Executing
  <2>3. SlotOK(i)'
    <3>1. worker[i] \notin Ended \cup {"log"} /\ worker'[i] = "record"
      BY <1>3 DEF Executing, Ended
    <3>2. /\ completed[i] => frozen /\ BackfilledSlot(i)
          /\ ~completed[i] => ~frozen /\ results[i] = NoResult
      <4>1. ~OwnSlot(i)
        BY <2>1 DEF OwnSlot
      <4>2. QED
        BY <2>1, <3>1, <4>1 DEF SlotOK
    <3>3. BackfilledSlot(i) => BackfilledSlot(i)'
      BY <1>5, <3>1 DEF BackfilledSlot
    <3>4. QED
      BY <1>5, <3>1, <3>2, <3>3 DEF SlotOK, Ended
  <2>4. QED
    BY <2>2, <2>3
<1>9. Produced' /\ Slots'
  BY <1>0, <1>3, <1>5, <1>6, <1>8, LocalStep DEF TypeOK
<1>10. QED
  BY <1>0, <1>3, <1>4, <1>5, <1>7, <1>9, FrameMain, FrameSummary DEF IInv

\* The "check completed" line.
LEMMA LogCheckCompletedKeepsInv ==
    ASSUME IInv, NEW i \in Checks, LogCheckCompleted(i)
    PROVE  IInv'
<1> USE DEF callVars, mainVars, dispVars, chanVars, workVars, stateVars
<1>0. /\ TypeOK /\ Accounting /\ DispatchProgress /\ MainProgress
      /\ Produced /\ Slots /\ SummaryMatchesResults
  BY DEF IInv
<1>1. Step(i, {"log"}, "release") /\ UNCHANGED chanVars
  BY DEF LogCheckCompleted
<1>2. /\ {"log"} \subseteq HoldsToken /\ "release" \in HoldsToken
      /\ {"log"} \subseteq InWaitGroup /\ "release" \in InWaitGroup
  BY DEF HoldsToken, InWaitGroup, Started, Executing
<1>3. /\ worker' \in [Checks -> WorkerPC]
      /\ worker[i] \in {"log"} /\ worker'[i] = "release"
      /\ \A k \in Checks \ {i} : worker'[k] = worker[k]
      /\ DispatchProgress'
  BY <1>0, <1>1, <1>2, StepMoves
<1>4. Accounting'
  BY <1>0, <1>1, <1>2, StepAccounts
<1>5. UNCHANGED <<total, ctxDone, main, dpc, summary, results, completed, frozen>>
  BY <1>1 DEF LogCheckCompleted, Step
<1>6. UNCHANGED out
  BY DEF LogCheckCompleted
<1>7. TypeOK'
  BY <1>0, <1>1, <1>3, <1>6 DEF LogCheckCompleted, Step, TypeOK, Checks
<1>8. ProducedOK(i)' /\ SlotOK(i)'
  <2>1. ProducedOK(i) /\ SlotOK(i)
    BY <1>0 DEF Produced, Slots
  <2>2. QED
    BY <1>3, <1>5, <1>6, <2>1 DEF ProducedOK, SlotOK, OwnSlot, BackfilledSlot,
       Executing, Ended
<1>9. Produced' /\ Slots'
  BY <1>0, <1>3, <1>5, <1>6, <1>8, LocalStep DEF TypeOK
<1>10. QED
  BY <1>0, <1>3, <1>4, <1>5, <1>7, <1>9, FrameMain, FrameSummary DEF IInv

\* The check ends its goroutine.
LEMMA CheckExitsKeepsInv ==
    ASSUME IInv, NEW i \in Checks, CheckExits(i)
    PROVE  IInv'
<1> USE DEF callVars, mainVars, dispVars, chanVars, workVars, stateVars
<1>0. /\ TypeOK /\ Accounting /\ DispatchProgress /\ MainProgress
      /\ Produced /\ Slots /\ SummaryMatchesResults
  BY DEF IInv
<1>1. Step(i, Executing, "release") /\ UNCHANGED chanVars
  BY DEF CheckExits, Produce
<1>2. /\ Executing \subseteq HoldsToken /\ "release" \in HoldsToken
      /\ Executing \subseteq InWaitGroup /\ "release" \in InWaitGroup
  BY DEF HoldsToken, InWaitGroup, Started, Executing
<1>3. /\ worker' \in [Checks -> WorkerPC]
      /\ worker[i] \in Executing /\ worker'[i] = "release"
      /\ \A k \in Checks \ {i} : worker'[k] = worker[k]
      /\ DispatchProgress'
  BY <1>0, <1>1, <1>2, StepMoves
<1>4. Accounting'
  BY <1>0, <1>1, <1>2, StepAccounts
<1>5. UNCHANGED <<total, ctxDone, main, dpc, summary, results, completed, frozen>>
  BY <1>1 DEF CheckExits, Produce, Step
<1>6. out' = [out EXCEPT ![i] = NoResult]
  BY DEF CheckExits, Produce
<1>7. TypeOK'
  BY <1>0, <1>1, <1>3, <1>5, <1>6, ResultTypes DEF CheckExits, Produce, TypeOK,
     Checks, Step
<1>8. ProducedOK(i)' /\ SlotOK(i)'
  <2>1. SlotOK(i) /\ out[i] = NoResult /\ out'[i] = NoResult
    BY <1>0, <1>3, <1>6 DEF Slots, Produced, ProducedOK, TypeOK, Executing
  <2>2. ProducedOK(i)'
    BY <1>3, <2>1 DEF ProducedOK
  <2>3. SlotOK(i)'
    BY <1>3, <1>5, <2>1 DEF SlotOK, OwnSlot, BackfilledSlot, Executing, Ended
  <2>4. QED
    BY <2>2, <2>3
<1>9. Produced' /\ Slots'
  BY <1>0, <1>3, <1>5, <1>6, <1>8, LocalStep DEF TypeOK
<1>10. QED
  BY <1>0, <1>3, <1>4, <1>5, <1>7, <1>9, FrameMain, FrameSummary DEF IInv

\* The critical section of runOne.
LEMMA RecordKeepsInv ==
    ASSUME IInv, NEW i \in Checks, Record(i)
    PROVE  IInv'
<1> USE DEF callVars, mainVars, dispVars, chanVars, workVars, stateVars
<1>0. /\ TypeOK /\ Accounting /\ DispatchProgress /\ MainProgress
      /\ Produced /\ Slots /\ SummaryMatchesResults
  BY DEF IInv
<1> DEFINE to == IF frozen THEN "release" ELSE "log"
<1>1. Step(i, {"record"}, to) /\ WriteSlot(i, ~frozen /\ ~completed[i])
  BY DEF Record
<1>2. /\ {"record"} \subseteq HoldsToken /\ to \in HoldsToken
      /\ {"record"} \subseteq InWaitGroup /\ to \in InWaitGroup
  BY DEF HoldsToken, InWaitGroup, Started
<1>3. /\ worker' \in [Checks -> WorkerPC]
      /\ worker[i] = "record" /\ worker'[i] = to
      /\ \A k \in Checks \ {i} : worker'[k] = worker[k]
      /\ DispatchProgress'
  BY <1>0, <1>1, <1>2, StepMoves
<1>4. Accounting'
  BY <1>0, <1>1, <1>2, StepAccounts DEF WriteSlot
<1>5. UNCHANGED <<total, ctxDone, main, dpc, summary, frozen, out, expired>>
  BY <1>1 DEF Step, WriteSlot
<1>6. /\ results' = IF ~frozen /\ ~completed[i]
                    THEN [results EXCEPT ![i] = out[i]] ELSE results
      /\ completed' = IF ~frozen /\ ~completed[i]
                      THEN [completed EXCEPT ![i] = TRUE] ELSE completed
  BY <1>1 DEF WriteSlot
<1>7. TypeOK'
  <2>1. results' \in [Checks -> Results] /\ completed' \in [Checks -> BOOLEAN]
    BY <1>0, <1>6 DEF TypeOK
  <2>2. QED
    BY <1>0, <1>1, <1>3, <1>5, <2>1 DEF TypeOK, Checks, Step, WriteSlot
<1>8. ProducedOK(i)' /\ SlotOK(i)'
  <2>1. SlotOK(i) /\ ProducedOK(i) /\ out[i] # NoResult
    BY <1>0, <1>3 DEF Slots, Produced, ProducedOK
  <2>2. ProducedOK(i)'
    BY <1>3, <1>5, <2>1 DEF ProducedOK, Executing
  <2>3. CASE frozen
    BY <1>3, <1>5, <1>6, <2>1, <2>3, <2>2 DEF SlotOK, OwnSlot, BackfilledSlot,
       Ended
  <2>4. CASE ~frozen
    <3>1. ~completed[i]
      BY <1>3, <2>1, <2>4 DEF SlotOK, Ended
    <3>2. results'[i] = out[i] /\ completed'[i] /\ worker'[i] = "log"
      BY <1>0, <1>3, <1>6, <2>4, <3>1 DEF TypeOK
    <3>3. SlotOK(i)'
      BY <1>5, <2>1, <2>4, <3>2 DEF SlotOK, OwnSlot, Ended
    <3>4. QED
      BY <2>2, <3>3
  <2>5. QED
    BY <2>3, <2>4
<1>9. Produced' /\ Slots'
  <2>1. \A k \in Checks \ {i} : /\ results'[k] = results[k]
                               /\ completed'[k] = completed[k]
    BY <1>0, <1>6 DEF TypeOK
  <2>2. QED
    BY <1>0, <1>3, <1>5, <1>8, <2>1, LocalStep
<1>10. SummaryMatchesResults'
  <2>1. CASE frozen
    BY <1>0, <1>5, <1>6, <2>1, FrameSummary
  <2>2. CASE ~frozen
    <3>1. main \notin {"log", "returned"}
      BY <1>0, <2>2 DEF MainProgress, TypeOK, Checks
    <3>2. QED
      BY <1>5, <3>1 DEF SummaryMatchesResults
  <2>3. QED
    BY <2>1, <2>2
<1>11. QED
  BY <1>0, <1>3, <1>4, <1>5, <1>7, <1>9, <1>10, FrameMain DEF IInv

\* The token goes back.
LEMMA ReleaseTokenKeepsInv ==
    ASSUME IInv, NEW i \in Checks, ReleaseToken(i)
    PROVE  IInv'
<1> USE DEF callVars, mainVars, dispVars, chanVars, workVars, stateVars
<1>0. /\ TypeOK /\ Accounting /\ DispatchProgress /\ MainProgress
      /\ Produced /\ Slots /\ SummaryMatchesResults
  BY DEF IInv
<1>1. /\ Step(i, {"release"}, "wgDone") /\ sem' = sem - 1
      /\ UNCHANGED <<wg, expired, out, results, completed, frozen>>
  BY DEF ReleaseToken
<1>2. {"release"} \subseteq InWaitGroup /\ "wgDone" \in InWaitGroup \cup {"gone"}
  BY DEF InWaitGroup, HoldsToken
<1>3. /\ worker' \in [Checks -> WorkerPC]
      /\ worker[i] = "release" /\ worker'[i] = "wgDone"
      /\ \A k \in Checks \ {i} : worker'[k] = worker[k]
      /\ DispatchProgress'
  BY <1>0, <1>1, <1>2, StepMoves
<1>4. UNCHANGED <<total, ctxDone, main, dpc, summary>>
  BY <1>1 DEF Step
<1>5. Accounting' /\ sem' \in 0..Concurrency /\ wg' \in 0..total
  <2>1. /\ worker[i] \in HoldsToken /\ "wgDone" \notin HoldsToken
        /\ worker[i] \in InWaitGroup /\ "wgDone" \in InWaitGroup
    BY <1>3 DEF HoldsToken, InWaitGroup, Started, Executing
  <2>2. /\ worker' = [worker EXCEPT ![i] = "wgDone"]
        /\ TypeOK /\ total' = total
    BY <1>0, <1>1, <1>4 DEF Step
  <2>3. /\ Cardinality(WorkersAt(HoldsToken)') \in 0..total
        /\ Cardinality(WorkersAt(HoldsToken)')
             = Cardinality(WorkersAt(HoldsToken)) - 1
    BY <2>1, <2>2, WorkerMoves
  <2>4. /\ Cardinality(WorkersAt(InWaitGroup)') \in 0..total
        /\ Cardinality(WorkersAt(InWaitGroup)')
             = Cardinality(WorkersAt(InWaitGroup))
    BY <2>1, <2>2, WorkerMoves
  <2>5. Accounting'
    BY <1>0, <1>1, <2>3, <2>4 DEF Accounting
  <2>6. QED
    BY <1>0, <1>1, <2>3, <2>4, <2>5 DEF Accounting, TypeOK
<1>7. TypeOK'
  BY <1>0, <1>1, <1>3, <1>4, <1>5 DEF TypeOK, Checks, Step
<1>8. ProducedOK(i)' /\ SlotOK(i)'
  <2>1. ProducedOK(i) /\ SlotOK(i)
    BY <1>0 DEF Produced, Slots
  <2>2. QED
    BY <1>1, <1>3, <1>4, <2>1 DEF ProducedOK, SlotOK, OwnSlot, BackfilledSlot,
       Executing, Ended
<1>9. Produced' /\ Slots'
  BY <1>0, <1>1, <1>3, <1>4, <1>8, LocalStep
<1>10. QED
  BY <1>0, <1>1, <1>3, <1>4, <1>5, <1>7, <1>9, FrameMain, FrameSummary DEF IInv

\* The worker is counted out.
LEMMA WorkerDoneKeepsInv ==
    ASSUME IInv, NEW i \in Checks, WorkerDone(i)
    PROVE  IInv'
<1> USE DEF callVars, mainVars, dispVars, chanVars, workVars, stateVars
<1>0. /\ TypeOK /\ Accounting /\ DispatchProgress /\ MainProgress
      /\ Produced /\ Slots /\ SummaryMatchesResults
  BY DEF IInv
<1>1. /\ Step(i, {"wgDone"}, "gone") /\ wg' = wg - 1
      /\ UNCHANGED <<sem, expired, out, results, completed, frozen>>
  BY DEF WorkerDone
<1>2. {"wgDone"} \subseteq InWaitGroup /\ "gone" \in InWaitGroup \cup {"gone"}
  BY DEF InWaitGroup, HoldsToken
<1>3. /\ worker' \in [Checks -> WorkerPC]
      /\ worker[i] = "wgDone" /\ worker'[i] = "gone"
      /\ \A k \in Checks \ {i} : worker'[k] = worker[k]
      /\ DispatchProgress'
  BY <1>0, <1>1, <1>2, StepMoves
<1>4. UNCHANGED <<total, ctxDone, main, dpc, summary>>
  BY <1>1 DEF Step
<1>5. Accounting' /\ sem' \in 0..Concurrency /\ wg' \in 0..total
  <2>1. /\ worker[i] \notin HoldsToken /\ "gone" \notin HoldsToken
        /\ worker[i] \in InWaitGroup /\ "gone" \notin InWaitGroup
    BY <1>3 DEF HoldsToken, InWaitGroup, Started, Executing
  <2>2. worker' = [worker EXCEPT ![i] = "gone"]
    BY <1>1 DEF Step
  <2>3. /\ Cardinality(WorkersAt(HoldsToken)') \in 0..total
        /\ Cardinality(WorkersAt(HoldsToken)')
             = Cardinality(WorkersAt(HoldsToken))
    BY <1>0, <1>3, <1>4, <2>1, <2>2, WorkerMoves
  <2>4. /\ Cardinality(WorkersAt(InWaitGroup)') \in 0..total
        /\ Cardinality(WorkersAt(InWaitGroup)')
             = Cardinality(WorkersAt(InWaitGroup)) - 1
    BY <1>0, <1>3, <1>4, <2>1, <2>2, WorkerMoves DEF TypeOK
  <2>5. Accounting'
    BY <1>0, <1>1, <2>3, <2>4 DEF Accounting
  <2>6. QED
    BY <1>0, <1>1, <2>3, <2>4, <2>5 DEF Accounting, TypeOK
<1>7. TypeOK'
  BY <1>0, <1>1, <1>3, <1>4, <1>5 DEF TypeOK, Checks, Step
<1>8. ProducedOK(i)' /\ SlotOK(i)'
  <2>1. ProducedOK(i) /\ SlotOK(i)
    BY <1>0 DEF Produced, Slots
  <2>2. QED
    BY <1>1, <1>3, <1>4, <2>1 DEF ProducedOK, SlotOK, OwnSlot, BackfilledSlot,
       Executing, Ended
<1>9. Produced' /\ Slots'
  BY <1>0, <1>1, <1>3, <1>4, <1>8, LocalStep
<1>10. QED
  BY <1>0, <1>1, <1>3, <1>4, <1>5, <1>7, <1>9, FrameMain, FrameSummary DEF IInv

\* The environment, and a step that changes nothing.
LEMMA EnvironmentKeepsInv ==
    ASSUME IInv, CancelParent \/ (\E i \in Checks : Expire(i)) \/ UNCHANGED vars
    PROVE  IInv'
<1> USE DEF callVars, mainVars, dispVars, chanVars, workVars, stateVars
<1>0. /\ TypeOK /\ Accounting /\ DispatchProgress /\ MainProgress
      /\ Produced /\ Slots /\ SummaryMatchesResults
  BY DEF IInv
<1>1. CASE CancelParent
  <2>1. TypeOK'
    BY <1>0, <1>1 DEF CancelParent, TypeOK, Checks
  <2>2. QED
    BY <1>0, <1>1, <2>1, FrameAccounting, FrameDispatch, FrameMain,
       FrameProduced, FrameSlots, FrameSummary DEF CancelParent, IInv
<1>2. CASE \E i \in Checks : Expire(i)
  <2>1. PICK i \in Checks : Expire(i)
    BY <1>2
  <2>2. TypeOK'
    BY <1>0, <2>1 DEF Expire, TypeOK, Checks
  <2>3. QED
    BY <1>0, <2>1, <2>2, FrameAccounting, FrameDispatch, FrameMain,
       FrameProduced, FrameSlots, FrameSummary DEF Expire, IInv
<1>3. CASE UNCHANGED vars
  <2>1. TypeOK'
    BY <1>0, <1>3 DEF vars, TypeOK, Checks
  <2>2. QED
    BY <1>0, <1>3, <2>1, FrameAccounting, FrameDispatch, FrameMain,
       FrameProduced, FrameSlots, FrameSummary DEF vars, IInv
<1>4. QED
  BY <1>1, <1>2, <1>3

\* Every step of the Runner keeps the invariant.
LEMMA Inductive == IInv /\ [Next]_vars => IInv'
<1> SUFFICES ASSUME IInv, [Next]_vars PROVE IInv'
  OBVIOUS
<1>1. CASE MainNext
  BY <1>1, MainKeepsInv
<1>2. CASE DispatcherNext
  BY <1>2, DispatcherKeepsInv
<1>3. ASSUME NEW i \in Checks, CheckEnds(i) PROVE IInv'
  BY <1>3, ApplicableTrueKeepsInv, ApplicableFalseKeepsInv,
     RunReturnsKeepsInv, CheckPanicsKeepsInv, CheckExitsKeepsInv DEF CheckEnds
<1>4. ASSUME NEW i \in Checks, RunOneNext(i) PROVE IInv'
  BY <1>4, StartCheckKeepsInv, RecordKeepsInv, LogCheckCompletedKeepsInv,
     ReleaseTokenKeepsInv, WorkerDoneKeepsInv DEF RunOneNext
<1>5. ASSUME NEW i \in Checks, Expire(i) PROVE IInv'
  BY <1>5, EnvironmentKeepsInv
<1>6. CASE CancelParent
  BY <1>6, EnvironmentKeepsInv
<1>7. CASE UNCHANGED vars
  BY <1>7, EnvironmentKeepsInv
<1>8. QED
  BY <1>1, <1>2, <1>3, <1>4, <1>5, <1>6, <1>7 DEF Next

-----------------------------------------------------------------------------
(***************************************************************************)
(* The theorems.                                                           *)
(***************************************************************************)

\* Every reachable state of every run satisfies the inductive invariant.
THEOREM Invariance == Spec => []IInv
<1>1. Init => IInv
  BY Initially
<1>2. IInv /\ [Next]_vars => IInv'
  BY Inductive
<1>3. QED
  BY <1>1, <1>2, PTL DEF Spec

\* Types, among them the channel and WaitGroup counts: the semaphore never
\* holds more than Concurrency tokens and neither count goes below zero.
THEOREM TypeCorrect == Spec => []TypeOK
<1>1. IInv => TypeOK
  BY DEF IInv
<1>2. QED
  BY <1>1, Invariance, PTL

\* No schedule runs more than Concurrency checks at once.
THEOREM ConcurrencyBounded == Spec => []BoundedConcurrency
<1>1. ASSUME IInv PROVE BoundedConcurrency
  <2>1. TypeOK /\ Accounting
    BY <1>1 DEF IInv
  <2>2. WorkersAt(HoldsToken) \in SUBSET (1..total) /\ total \in Nat
    BY <2>1 DEF WorkersAt, Checks, TypeOK
  <2>3. IsFiniteSet(WorkersAt(HoldsToken))
    BY <2>2, PositionsFinite
  <2>4. WorkersAt(Started) \in SUBSET WorkersAt(HoldsToken)
    BY DEF WorkersAt, HoldsToken
  <2>5. /\ Cardinality(WorkersAt(Started)) <= Cardinality(WorkersAt(HoldsToken))
        /\ IsFiniteSet(WorkersAt(Started))
    BY <2>3, <2>4, FS_Subset
  <2>6. Cardinality(WorkersAt(Started)) \in Nat
    BY <2>5, FS_CardinalityType
  <2>7. QED
    BY <2>1, <2>5, <2>6 DEF BoundedConcurrency, Accounting, TypeOK
<1>2. QED
  BY <1>1, Invariance, PTL

\* Checks start in input order up to the concurrency, strictly so for one.
THEOREM OrderKept == Spec => []InputOrder
<1>1. ASSUME IInv PROVE InputOrder
  <2>0. TypeOK /\ Accounting /\ DispatchProgress
    BY <1>1 DEF IInv
  <2> SUFFICES ASSUME NEW j \in WorkersAt(Started)
               PROVE  Cardinality({i \in 1..(j - 1) :
                          worker[i] \in HoldsToken \cup {"none"}}) < Concurrency
    BY DEF InputOrder
  <2> DEFINE H == WorkersAt(HoldsToken)
             E == {i \in 1..(j - 1) : worker[i] \in HoldsToken \cup {"none"}}
  <2>1. /\ total \in Nat /\ next \in Nat /\ j \in 1..total /\ j \in Nat
        /\ worker[j] \in HoldsToken /\ worker[j] # "none"
    BY <2>0 DEF WorkersAt, Checks, TypeOK, HoldsToken, Started, Executing
  <2>2. ~(j >= next)
    BY <2>0, <2>1 DEF DispatchProgress, Checks
  <2>3. \A i \in 1..(j - 1) : i \in Checks /\ worker[i] # "none"
    BY <2>0, <2>1, <2>2 DEF DispatchProgress, Checks
  <2>4. E \in SUBSET (H \ {j}) /\ j \in H
    BY <2>1, <2>3 DEF WorkersAt, Checks
  <2>5. IsFiniteSet(H) /\ Cardinality(H) \in Nat
    <3>1. H \in SUBSET (1..total)
      BY DEF WorkersAt, Checks
    <3>2. QED
      BY <2>1, <3>1, PositionsFinite
  <2> HIDE DEF H, E
  <2>6. IsFiniteSet(H \ {j}) /\ Cardinality(H \ {j})
                             = IF j \in H THEN Cardinality(H) - 1
                               ELSE Cardinality(H)
    BY <2>5, FS_RemoveElement
  <2>7. IsFiniteSet(E) /\ Cardinality(E) <= Cardinality(H \ {j})
    BY <2>4, <2>6, FS_Subset
  <2>8. Cardinality(E) \in Nat
    BY <2>7, FS_CardinalityType
  <2>9. Cardinality(H) <= Concurrency
    BY <2>0 DEF Accounting, TypeOK, H
  <2>10. QED
    BY <2>4, <2>5, <2>6, <2>7, <2>8, <2>9 DEF E
<1>2. QED
  BY <1>1, Invariance, PTL

\* The Report Run returns has a result of its own check at every position.
THEOREM ReportComplete == Spec => []CompleteReport
<1>1. ASSUME IInv PROVE CompleteReport
  <2> SUFFICES ASSUME main = "returned", NEW i \in Checks
               PROVE  /\ results[i].id = i
                      /\ results[i].severity = SeverityOf(i)
                      /\ results[i].state \in RunStates \cup {"skip", "error"}
    BY DEF CompleteReport
  <2>1. frozen
    BY <1>1 DEF IInv, MainProgress, TypeOK, Checks
  <2>2. SlotOK(i) /\ ProducedOK(i)
    BY <1>1 DEF IInv, Slots, Produced
  <2>3. CASE OwnSlot(i)
    BY <2>2, <2>3 DEF OwnSlot, ProducedOK
  <2>4. CASE BackfilledSlot(i)
    <3>1. PICK e : results[i] = [id |-> i, severity |-> SeverityOf(i),
                                 state |-> "error", err |-> e]
      BY <2>4, Zenon DEF BackfilledSlot
    <3>2. QED
      BY <3>1
  <2>5. QED
    BY <2>1, <2>2, <2>3, <2>4 DEF SlotOK
<1>2. QED
  BY <1>1, Invariance, PTL

\* The Summary Run returns is the tally of the Results it returns.
THEOREM SummaryCorrect == Spec => []SummaryMatchesResults
<1>1. IInv => SummaryMatchesResults
  BY DEF IInv
<1>2. QED
  BY <1>1, Invariance, PTL

\* Without a cancellation only a check that ended its goroutine is abandoned.
THEOREM AbandonmentHonest == Spec => []AbandonedOnlyWhenCanceled
<1>1. ASSUME IInv PROVE AbandonedOnlyWhenCanceled
  <2> SUFFICES ASSUME NEW i \in Checks, results[i].err = "context canceled"
               PROVE  worker[i] \in Ended /\ out[i] = NoResult
    BY DEF AbandonedOnlyWhenCanceled
  <2>1. SlotOK(i) /\ ProducedOK(i)
    BY <1>1 DEF IInv, Slots, Produced
  <2>2. ~OwnSlot(i)
    BY <2>1 DEF OwnSlot, ProducedOK, Blank
  <2>3. results[i] # NoResult
    <3>1. NoResult.err = Blank
      BY DEF NoResult
    <3>2. Blank # "context canceled"
      BY DEF Blank
    <3>3. QED
      BY <3>1, <3>2, Zenon
  <2>4. QED
    BY <2>1, <2>2, <2>3 DEF SlotOK, BackfilledSlot
<1>2. QED
  BY <1>1, Invariance, PTL

\* Run leaves no goroutine behind unless it was cancelled.
THEOREM LeakFree == Spec => []NoLeakWithoutCancel
<1>1. ASSUME IInv PROVE NoLeakWithoutCancel
  <2> SUFFICES ASSUME main \notin {"start", "select"}, ~ctxDone
               PROVE  /\ dpc \in {"none", "closed"}
                      /\ WorkersAt(InWaitGroup) = {}
    BY DEF NoLeakWithoutCancel
  <2>1. TypeOK /\ MainProgress /\ DispatchProgress
    BY <1>1 DEF IInv
  <2>2. CASE total = 0
    <3>1. Checks = {}
      BY <2>2 DEF Checks
    <3>2. QED
      BY <2>1, <2>2, <3>1 DEF MainProgress, WorkersAt
  <2>3. CASE total # 0
    BY <2>1, <2>3 DEF MainProgress, DispatchProgress, TypeOK
  <2>4. QED
    BY <2>2, <2>3
<1>2. QED
  BY <1>1, Invariance, PTL

\* What the log says of a check is what the Report says of it.
THEOREM LogFaithful == Spec => []LogMatchesReport
<1>1. ASSUME IInv PROVE LogMatchesReport
  BY <1>1 DEF IInv, Slots, SlotOK, OwnSlot, LogMatchesReport
<1>2. QED
  BY <1>1, Invariance, PTL

\* The only steps that write the slice: a worker's critical section, and
\* main's.
LEMMA SliceWriters ==
    ASSUME [Next]_vars
    PROVE  \/ UNCHANGED <<total, results, completed>>
           \/ FreezeAndBackfill
           \/ \E i \in Checks : Record(i)
<1> USE DEF callVars, mainVars, dispVars, chanVars, workVars, stateVars
<1>1. CASE MainNext
  BY <1>1 DEF MainNext, RunNothing, StartRun, StopWaiting, Summarise,
     LogRunnerCompleted
<1>2. CASE DispatcherNext
  BY <1>2 DEF DispatcherNext, Dispatch, SpawnWorker, StopDispatching, CloseDone
<1>3. ASSUME NEW i \in Checks, CheckEnds(i)
      PROVE  UNCHANGED <<total, results, completed>>
  BY <1>3 DEF CheckEnds, ApplicableTrue, ApplicableFalse, RunReturns,
     CheckPanics, CheckExits, Produce, Step
<1>4. ASSUME NEW i \in Checks, RunOneNext(i)
      PROVE  UNCHANGED <<total, results, completed>> \/ Record(i)
  BY <1>4 DEF RunOneNext, StartCheck, LogCheckCompleted, ReleaseToken,
     WorkerDone, Step
<1>5. ASSUME NEW i \in Checks, Expire(i)
      PROVE  UNCHANGED <<total, results, completed>>
  BY <1>5 DEF Expire
<1>6. CASE CancelParent \/ UNCHANGED vars
  BY <1>6 DEF CancelParent, vars
<1>7. QED
  BY <1>1, <1>2, <1>3, <1>4, <1>5, <1>6 DEF Next

\* A slot of the Report is written once.
THEOREM SlotSettledOnce == Spec => SettledOnce
<1> DEFINE Kept ==
             \A i \in Checks : completed[i] => /\ completed'[i]
                                               /\ results'[i] = results[i]
<1>1. ASSUME IInv, [Next]_vars PROVE [Kept]_vars
  <2>1. TypeOK
    BY <1>1 DEF IInv
  <2>2. CASE UNCHANGED <<total, results, completed>>
    BY <2>2
  <2>3. CASE FreezeAndBackfill
    BY <2>1, <2>3 DEF FreezeAndBackfill, Freeze, TypeOK
  <2>4. ASSUME NEW i \in Checks, Record(i) PROVE Kept
    BY <2>1, <2>4 DEF Record, WriteSlot, TypeOK
  <2>5. QED
    BY <1>1, <2>2, <2>3, <2>4, SliceWriters
<1>2. QED
  BY <1>1, Invariance, PTL DEF Spec, SettledOnce

-----------------------------------------------------------------------------
(***************************************************************************)
(* Refinement: every behaviour of CheckRunner is, slot by slot, one of     *)
(* RunReport; the goroutines, the tokens and the mutex only implement the  *)
(* sealed slice.                                                           *)
(***************************************************************************)

\* RunReport reads the definitions of ReportSummary as CheckRunner does.
LEMMA SameSummary ==
    /\ Report!Blank = Blank
    /\ NoResult = Report!Empty
    /\ \A r : Report!NewSummary(r) = NewSummary(r)
    /\ Report!NoSummary = NoSummary
<1>1. Report!Blank = Blank
  BY DEF Report!Blank, Blank
<1>2. \A r : Report!NewSummary(r) = NewSummary(r)
  <2>1. \A r, st : Report!InState(r, st) = InState(r, st)
    BY DEF Report!InState, InState
  <2>2. \A r, st : Report!RequiredIn(r, st) = RequiredIn(r, st)
    BY <2>1 DEF Report!RequiredIn, RequiredIn
  <2>3. \A S : Report!Cardinality(S) = Cardinality(S)
    BY Zenon DEF Report!Cardinality, Cardinality
  <2>4. QED
    BY <2>1, <2>2, <2>3, Zenon DEF Report!NewSummary, NewSummary
<1>3. QED
  BY <1>1, <1>2 DEF NoResult, Report!Empty, Report!NoSummary, NoSummary

\* The initial states are initial states of RunReport.
LEMMA InitRefines == Init => Report!Init
<1> SUFFICES ASSUME Init PROVE Report!Init
  OBVIOUS
<1>1. Lost = {} /\ Phase = "open"
  BY DEF Init, Lost, Ended, Phase, Checks
<1>2. QED
  BY <1>1, SameSummary DEF Init, Report!Init, Checks, Report!Checks

\* A step that moves no slot, no published phase and loses no check stutters.
LEMMA Stutters ==
    ASSUME UNCHANGED <<total, ctxDone, results, summary, main>>,
           Lost' = Lost
    PROVE  UNCHANGED Report!vars
BY DEF Report!vars, Phase

\* Main's steps.
LEMMA MainRefines == IInv /\ MainNext => [Report!Next]_(Report!vars)
<1> SUFFICES ASSUME IInv, MainNext PROVE [Report!Next]_(Report!vars)
  OBVIOUS
<1> USE DEF callVars, mainVars, dispVars, chanVars, workVars, stateVars
<1>0. TypeOK /\ MainProgress /\ DispatchProgress /\ Slots
  BY DEF IInv
<1>1. CASE RunNothing
  <2>1. Report!Publish
    BY <1>1, SameSummary DEF RunNothing, Report!Publish, Phase, Lost, Checks
  <2>2. QED
    BY <2>1 DEF Report!Next
<1>2. CASE StartRun
  BY <1>2 DEF StartRun, Report!vars, Phase, Lost, Checks
<1>3. CASE StopWaiting
  BY <1>3 DEF StopWaiting, Report!vars, Phase, Lost, Checks
<1>4. CASE FreezeAndBackfill
  <2>1. main = "freeze" /\ ~frozen /\ total > 0 /\ Checks = Report!Checks
    BY <1>0, <1>4 DEF FreezeAndBackfill, Freeze, MainProgress, TypeOK,
       Report!Checks, Checks
  <2>2. UNCHANGED <<total, ctxDone, summary>> /\ Lost' = Lost
    BY <1>4 DEF FreezeAndBackfill, Freeze, Lost, Checks
  <2>3. Phase = "open" /\ Phase' = "sealed"
    BY <1>4, <2>1 DEF FreezeAndBackfill, Freeze, Phase
  <2>4. \A i \in Checks : completed[i] <=> results[i] # NoResult
    BY <1>0, <2>1 DEF Slots, SlotOK, OwnSlot
  <2>5. ctxDone \/ \A i \in Checks : results[i] # NoResult \/ i \in Lost
    <3>1. CASE dpc = "closed"
      <4>1. ctxDone \/ \A i \in Checks : worker[i] \in Ended
        <5>1. next = total + 1 \/ ctxDone
          BY <1>0, <3>1 DEF DispatchProgress
        <5>2. ASSUME next = total + 1, NEW i \in Checks
              PROVE  worker[i] \in Ended
          <6>1. worker[i] \in WorkerPC /\ i < next /\ i \in Nat /\ next \in Nat
            BY <1>0, <5>2 DEF TypeOK, Checks
          <6>2. worker[i] # "none"
            BY <1>0, <6>1 DEF DispatchProgress
          <6>3. worker[i] \notin InWaitGroup
            BY <1>0, <3>1 DEF DispatchProgress, WorkersAt
          <6> QED
            BY <6>1, <6>2, <6>3 DEF WorkerPC, Ended
        <5>3. QED
          BY <5>1, <5>2
      <4>2. QED
        BY <1>0, <2>1, <2>4, <4>1 DEF Slots, SlotOK, Lost
    <3>2. QED
      BY <1>0, <2>1, <3>1 DEF MainProgress
  <2>6. \A i \in Checks : newCancelledResult(i) = Report!Abandoned(i)
    BY DEF newCancelledResult, Report!Abandoned, SeverityOf, Report!SeverityOf
  <2>7. NoResult = Report!Empty
    BY SameSummary
  <2>8. results' = [i \in Report!Checks |->
                      IF results[i] = Report!Empty THEN Report!Abandoned(i)
                      ELSE results[i]]
    BY <1>4, <2>1, <2>4, <2>6, <2>7 DEF FreezeAndBackfill, Freeze
  <2>9. Report!Seal
    BY <2>1, <2>2, <2>3, <2>5, <2>7, <2>8 DEF Report!Seal
  <2>10. QED
    BY <2>9 DEF Report!Next
<1>5. CASE Summarise
  <2>1. Report!Publish
    BY <1>5, SameSummary DEF Summarise, Report!Publish, Phase, Lost, Checks
  <2>2. QED
    BY <2>1 DEF Report!Next
<1>6. CASE LogRunnerCompleted
  BY <1>6 DEF LogRunnerCompleted, Report!vars, Phase, Lost, Checks
<1>7. QED
  BY <1>1, <1>2, <1>3, <1>4, <1>5, <1>6 DEF MainNext

\* The dispatcher moves nothing the Report shows.
LEMMA DispatcherRefines == IInv /\ DispatcherNext => UNCHANGED Report!vars
<1> SUFFICES ASSUME IInv, DispatcherNext PROVE UNCHANGED Report!vars
  OBVIOUS
<1> USE DEF callVars, mainVars, dispVars, chanVars, workVars, stateVars
<1>0. TypeOK /\ DispatchProgress
  BY DEF IInv
<1>1. UNCHANGED <<total, ctxDone, results, summary, main, out>>
  BY DEF DispatcherNext, Dispatch, SpawnWorker, StopDispatching, CloseDone
<1>2. CASE Dispatch
  <2>1. next \in Checks /\ worker[next] = "none"
    BY <1>0, <1>2 DEF Dispatch, SpawnWorker, DispatchProgress, TypeOK, Checks
  <2>2. worker' = [worker EXCEPT ![next] = "spawned"]
    BY <1>2 DEF Dispatch, SpawnWorker
  <2>3. \A i \in Checks : worker'[i] \in Ended <=> worker[i] \in Ended
    BY <1>0, <2>1, <2>2 DEF TypeOK, Ended
  <2>4. Lost' = Lost
    BY <1>1, <2>3 DEF Lost, Checks
  <2>5. QED
    BY <1>1, <2>4, Stutters
<1>3. CASE StopDispatching \/ CloseDone
  <2>1. Lost' = Lost
    BY <1>1, <1>3 DEF StopDispatching, CloseDone, Lost, Checks
  <2>2. QED
    BY <1>1, <2>1, Stutters
<1>4. QED
  BY <1>2, <1>3 DEF DispatcherNext

\* A worker that goes on, with or without a result, is not lost.
LEMMA WorkerStutters ==
    ASSUME TypeOK, NEW i \in Checks,
           UNCHANGED <<total, ctxDone, results, summary, main>>,
           \A k \in Checks \ {i} : /\ worker'[k] = worker[k]
                                   /\ out'[k] = out[k],
           i \in Lost <=> worker'[i] \in Ended /\ out'[i] = NoResult
    PROVE  UNCHANGED Report!vars
<1>1. Lost' = Lost
  BY DEF Lost, Checks
<1>2. QED
  BY <1>1, Stutters

\* A worker's steps.
LEMMA WorkerRefines ==
    ASSUME IInv, NEW i \in Checks, CheckEnds(i) \/ RunOneNext(i)
    PROVE  [Report!Next]_(Report!vars)
<1> USE DEF callVars, mainVars, dispVars, chanVars, workVars, stateVars
<1>0. TypeOK /\ MainProgress /\ ProducedOK(i) /\ SlotOK(i)
  BY DEF IInv, Produced, Slots
<1>1. CASE \/ ApplicableTrue(i) \/ ApplicableFalse(i) \/ StartCheck(i)
           \/ RunReturns(i) \/ CheckPanics(i)
  <2>1. worker[i] \notin Ended /\ worker'[i] \notin Ended
    BY <1>0, <1>1 DEF ApplicableTrue, ApplicableFalse, StartCheck, RunReturns,
       CheckPanics, Step, TypeOK, Executing, Ended
  <2>2. /\ UNCHANGED <<total, ctxDone, results, summary, main>>
        /\ \A k \in Checks \ {i} : worker'[k] = worker[k]
    BY <1>0, <1>1 DEF ApplicableTrue, ApplicableFalse, StartCheck, RunReturns,
       CheckPanics, Step, Produce, TypeOK
  <2>3. \A k \in Checks \ {i} : out'[k] = out[k]
    BY <1>0, <1>1 DEF ApplicableTrue, ApplicableFalse, StartCheck, RunReturns,
       CheckPanics, Produce, TypeOK
  <2>4. i \in Lost <=> worker'[i] \in Ended /\ out'[i] = NoResult
    BY <2>1 DEF Lost
  <2>5. QED
    BY <1>0, <2>2, <2>3, <2>4, WorkerStutters
<1>2. CASE LogCheckCompleted(i) \/ ReleaseToken(i) \/ WorkerDone(i)
  <2>1. /\ UNCHANGED <<total, ctxDone, results, summary, main, out>>
        /\ \A k \in Checks \ {i} : worker'[k] = worker[k]
    BY <1>0, <1>2 DEF LogCheckCompleted, ReleaseToken, WorkerDone, Step, TypeOK
  <2>2. /\ worker[i] \in Ended \/ out[i] # NoResult
        /\ worker'[i] \in Ended
    BY <1>0, <1>2 DEF LogCheckCompleted, ReleaseToken, WorkerDone, Step,
       TypeOK, ProducedOK, Ended
  <2>3. i \in Lost <=> worker'[i] \in Ended /\ out'[i] = NoResult
    BY <2>1, <2>2 DEF Lost
  <2>4. QED
    BY <1>0, <2>1, <2>3, WorkerStutters
<1>3. CASE CheckExits(i)
  <2>1. worker[i] \in Executing /\ worker'[i] = "release" /\ out'[i] = NoResult
    BY <1>0, <1>3 DEF CheckExits, Step, Produce, TypeOK
  <2>2. /\ UNCHANGED <<total, ctxDone, results, summary, main>>
        /\ \A k \in Checks \ {i} : worker'[k] = worker[k] /\ out'[k] = out[k]
    BY <1>0, <1>3 DEF CheckExits, Step, Produce, TypeOK
  <2>3. Lost' = Lost \cup {i} /\ i \notin Lost
    BY <2>1, <2>2 DEF Lost, Ended, Executing, Checks
  <2>4. results[i] \notin Report!OwnResults(i)
    <3>1. CASE completed[i]
      <4>1. ~OwnSlot(i)
        BY <1>0, <2>1 DEF ProducedOK, OwnSlot
      <4>2. BackfilledSlot(i)
        BY <1>0, <3>1, <4>1 DEF SlotOK
      <4>3. results[i].err \in {"parent context canceled", "context canceled"}
        BY <4>2 DEF BackfilledSlot
      <4>4. QED
        BY <4>3, SameSummary DEF Report!OwnResults, Blank
    <3>2. CASE ~completed[i]
      <4>1. results[i].id = 0 /\ i # 0
        BY <1>0, <3>2, PositionType DEF SlotOK, NoResult
      <4>2. QED
        BY <4>1 DEF Report!OwnResults
    <3>3. QED
      BY <3>1, <3>2
  <2>5. Report!Lose(i)
    BY <2>2, <2>3, <2>4 DEF Report!Lose, Phase
  <2>6. QED
    BY <2>5 DEF Report!Next, Report!Checks, Checks
<1>4. CASE Record(i) /\ frozen
  <2>1. /\ UNCHANGED <<total, ctxDone, results, summary, main, out>>
        /\ \A k \in Checks \ {i} : worker'[k] = worker[k]
        /\ worker[i] = "record"
    BY <1>0, <1>4 DEF Record, WriteSlot, Step, TypeOK
  <2>2. i \in Lost <=> worker'[i] \in Ended /\ out'[i] = NoResult
    BY <1>0, <2>1 DEF Lost, ProducedOK, Ended
  <2>3. QED
    BY <1>0, <2>1, <2>2, WorkerStutters
<1>5. CASE Record(i) /\ ~frozen
  <2>1. worker[i] = "record" /\ ~completed[i] /\ results[i] = NoResult
    BY <1>0, <1>5 DEF Record, Step, SlotOK, Ended
  <2>2. /\ UNCHANGED <<total, ctxDone, summary, main, out>>
        /\ worker'[i] = "log"
        /\ \A k \in Checks \ {i} : worker'[k] = worker[k]
        /\ results' = [results EXCEPT ![i] = out[i]]
    BY <1>0, <1>5, <2>1 DEF Record, WriteSlot, Step, TypeOK
  <2>3. Lost' = Lost /\ i \notin Lost
    BY <2>1, <2>2 DEF Lost, Ended, Checks
  <2>4. Phase = "open" /\ Phase' = Phase
    BY <1>0, <1>5, <2>2 DEF MainProgress, Phase, TypeOK, Checks
  <2>5. out[i] \in Report!OwnResults(i)
    <3>1. out[i] \in Results /\ out[i] # NoResult
      BY <1>0, <2>1 DEF TypeOK, ProducedOK
    <3>2. SeverityOf(i) = Report!SeverityOf(i)
      BY DEF SeverityOf, Report!SeverityOf
    <3>3. QED
      BY <1>0, <3>1, <3>2, SameSummary
         DEF ProducedOK, Results, Result, Report!OwnResults
  <2>6. results[i] = Report!Empty
    BY <2>1, SameSummary
  <2>7. Report!Settle(i)
    BY <2>2, <2>3, <2>4, <2>5, <2>6 DEF Report!Settle
  <2>8. QED
    BY <2>7 DEF Report!Next, Report!Checks, Checks
<1>6. QED
  BY <1>1, <1>2, <1>3, <1>4, <1>5 DEF CheckEnds, RunOneNext

\* Every step of the Runner is one of RunReport or changes nothing it shows.
LEMMA NextRefines == IInv /\ [Next]_vars => [Report!Next]_(Report!vars)
<1> SUFFICES ASSUME IInv, [Next]_vars PROVE [Report!Next]_(Report!vars)
  OBVIOUS
<1> USE DEF callVars, mainVars, dispVars, chanVars, workVars, stateVars
<1>1. CASE MainNext
  BY <1>1, MainRefines
<1>2. CASE DispatcherNext
  BY <1>2, DispatcherRefines
<1>3. ASSUME NEW i \in Checks, CheckEnds(i) \/ RunOneNext(i)
      PROVE  [Report!Next]_(Report!vars)
  BY <1>3, WorkerRefines
<1>4. ASSUME NEW i \in Checks, Expire(i) PROVE UNCHANGED Report!vars
  BY <1>4 DEF Expire, Report!vars, Lost, Phase, Checks
<1>5. CASE CancelParent
  <2>1. Report!Cancel
    BY <1>5 DEF CancelParent, Report!Cancel, Lost, Phase, Checks
  <2>2. QED
    BY <2>1 DEF Report!Next
<1>6. CASE UNCHANGED vars
  BY <1>6 DEF vars, Report!vars, Lost, Phase, Checks
<1>7. QED
  BY <1>1, <1>2, <1>3, <1>4, <1>5, <1>6 DEF Next

\* Runner.Run keeps the promise RunReport states.
THEOREM Refinement == Spec => ImplementsRunReport
<1>1. Init => Report!Init
  BY InitRefines
<1>2. IInv /\ [Next]_vars => [Report!Next]_(Report!vars)
  BY NextRefines
<1>3. QED
  BY <1>1, <1>2, Invariance, PTL DEF Spec, ImplementsRunReport, Report!Spec
=============================================================================
