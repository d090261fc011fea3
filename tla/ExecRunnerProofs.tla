-------------------------- MODULE ExecRunnerProofs --------------------------
(***************************************************************************)
(* One call of osRunner.Run, for any cap, any output and any interleaving: *)
(* the inductive invariant of ExecRunner, and that ExecRunner implements   *)
(* RunContract.                                                            *)
(***************************************************************************)
EXTENDS ExecRunner, TLAPS

USE MaxOutputAssumption, MaxWrittenAssumption

-----------------------------------------------------------------------------
(***************************************************************************)
(* The invariant.                                                          *)
(***************************************************************************)

\* The call begins with no child and empty buffers.
LEMMA InitInvariant == Init => IInv
BY DEF Init, IInv, TypeOK, Buffered, Childless, Reaped, Drained, PipesClosed,
       Ended, Streams

\* The caller's steps up to the start of the child.
LEMMA BeforeChild ==
    ASSUME IInv, Resolve \/ Validate \/ StartFails \/ Start PROVE IInv'
<1> USE DEF ctlVars, ioVars, resVars
<1>0. TypeOK /\ Buffered /\ Childless /\ Reaped /\ Drained
  BY DEF IInv
<1>1. pc \in {"resolve", "validate", "start"} /\ proc = "none" /\ UNCHANGED <<ioVars, ctxErr, desc>>
  BY <1>0 DEF Resolve, Validate, StartFails, Start, Reaped
<1>2. /\ pc' \in {"validate", "start", "wait", "classify", "returned"}
      /\ errs' \in {errs, {"denied"}, {"not found"}, {"invalid arg"}}
      /\ exitCode' = exitCode
  BY DEF Resolve, Validate, StartFails, Start, Fail
<1>3. \/ pc' = "wait" /\ proc' = "running" /\ watch' = "watching" /\ runErr' = runErr
      \/ /\ pc' # "wait" /\ proc' = "none" /\ watch' = watch
         /\ pc' \in {"validate", "start"} => runErr' = runErr
         /\ pc' = "classify" => runErr' = "start" \/ (runErr' = "context" /\ ctxErr # "none")
         /\ runErr' \in {runErr, "start", "context"}
  BY <1>1 DEF Resolve, Validate, StartFails, Start, Fail
<1>4. TypeOK'
  <2>1. pc' \in {"resolve", "validate", "start", "wait", "watcher", "copiers",
                 "classify", "returned"}
    BY <1>2
  <2>2. errs' \subseteq Sentinels
    BY <1>0, <1>2 DEF TypeOK, Sentinels
  <2>3. /\ proc' \in {"none", "running"} \cup Ended
        /\ watch' \in {"none", "watching", "fired", "late", "stopped"}
        /\ runErr' \in {"none", "start", "exit", "context"}
    BY <1>0, <1>3 DEF TypeOK
  <2>4. QED
    BY <1>0, <1>1, <1>2, <2>1, <2>2, <2>3 DEF TypeOK
<1>5. Buffered' 
  BY <1>0, <1>1 DEF Buffered
<1>6. Childless' /\ Reaped' /\ (watch' = "fired" => ctxErr' # "none")
  BY <1>0, <1>1, <1>2, <1>3 DEF Childless, Reaped, Ended, ExitCode
<1>7. Drained'
  <2>1. copied = written
    BY <1>0, <1>1 DEF TypeOK, Buffered, Childless, Streams
  <2>2. QED
    BY <2>1, <1>0, <1>1, <1>2, <1>3 DEF Drained, PipesClosed, Childless
<1>8. QED
  BY <1>4, <1>5, <1>6, <1>7 DEF IInv

\* The caller's steps in c.Wait, and the return.
LEMMA AfterChild ==
    ASSUME IInv, Reap \/ JoinWatcher \/ JoinCopiers \/ Classify PROVE IInv'
<1> USE DEF ctlVars, ioVars, resVars
<1>0. TypeOK /\ Buffered /\ Childless /\ Reaped /\ Drained /\ (watch = "fired" => ctxErr # "none")
  BY DEF IInv
<1>1. UNCHANGED <<ioVars, ctxErr, proc, desc>>
  BY DEF Reap, JoinWatcher, JoinCopiers, Classify
<1>2. Buffered'
  BY <1>0, <1>1 DEF Buffered
<1>3. CASE Reap
  <2>1. TypeOK'
    BY <1>0, <1>1, <1>3 DEF Reap, TypeOK, Ended, ExitCode
  <2>2. Childless' /\ Reaped' /\ Drained' /\ (watch' = "fired" => ctxErr' # "none")
    BY <1>0, <1>1, <1>3 DEF Reap, Childless, Reaped, Drained, Ended, ExitCode
  <2>3. QED
    BY <1>2, <2>1, <2>2 DEF IInv
<1>4. CASE JoinWatcher
  <2>1. TypeOK'
    BY <1>0, <1>1, <1>4 DEF JoinWatcher, TypeOK, Ended
  <2>2. Childless' /\ Reaped' /\ Drained' /\ (watch' = "fired" => ctxErr' # "none")
    BY <1>0, <1>1, <1>4 DEF JoinWatcher, Childless, Reaped, Drained, Ended, ExitCode
  <2>3. QED
    BY <1>2, <2>1, <2>2 DEF IInv
<1>5. CASE JoinCopiers
  <2>1. TypeOK'
    <3>1. pc' = "classify" /\ UNCHANGED <<resVars, watch>>
      BY <1>5 DEF JoinCopiers
    <3>2. QED
      BY <1>0, <1>1, <3>1 DEF TypeOK
  <2>2. proc # "none"
    BY <1>0, <1>5 DEF JoinCopiers, Childless
  <2>3. Childless' /\ Reaped' /\ (watch' = "fired" => ctxErr' # "none")
    BY <1>0, <1>1, <1>5, <2>2 DEF JoinCopiers, Childless, Reaped, ExitCode
  <2>4. Drained'
    BY <1>1, <1>5 DEF JoinCopiers, Drained, PipesClosed
  <2>5. QED
    BY <1>2, <2>1, <2>3, <2>4 DEF IInv
<1>6. CASE Classify
  <2>1. errs' \subseteq Sentinels
    <3>1. runErr \in {"none", "start", "exit", "context"}
      BY <1>0 DEF TypeOK
    <3>2. QED
      BY <1>6, <3>1 DEF Classify, Classification, Sentinels
  <2>2. TypeOK'
    <3>1. pc' = "returned" /\ UNCHANGED <<runErr, exitCode, watch>>
      BY <1>6 DEF Classify
    <3>2. QED
      BY <1>0, <1>1, <2>1, <3>1 DEF TypeOK
  <2>3. Childless' /\ Reaped' /\ Drained' /\ (watch' = "fired" => ctxErr' # "none")
    BY <1>0, <1>1, <1>6
       DEF Classify, Childless, Reaped, Drained, PipesClosed, Ended, ExitCode
  <2>4. QED
    BY <1>2, <2>2, <2>3 DEF IInv
<1>7. QED
  BY <1>3, <1>4, <1>5, <1>6

\* The watcher's only step: it kills a running child.
LEMMA WatchInvariant == ASSUME IInv, Watch PROVE IInv'
<1> USE DEF ctlVars, ioVars, resVars
<1>0. TypeOK /\ Buffered /\ Childless /\ Reaped /\ Drained
  BY DEF IInv
<1>1. TypeOK'
  BY <1>0 DEF Watch, TypeOK, Ended
<1>2. Buffered'
  BY <1>0 DEF Watch, Buffered
<1>3. Childless' /\ Reaped' /\ Drained' /\ (watch' = "fired" => ctxErr' # "none")
  BY <1>0 DEF Watch, Childless, Reaped, Drained, PipesClosed, Ended, ExitCode
<1>4. QED
  BY <1>1, <1>2, <1>3 DEF IInv

\* A chunk of any size leaves the buffer the prefix it should be.
LEMMA CopyInvariant == ASSUME IInv, NEW s \in Streams, Copy(s) PROVE IInv'
<1> USE DEF ctlVars, ioVars, resVars
<1>0. TypeOK /\ Buffered /\ Childless /\ Reaped /\ Drained /\ (watch = "fired" => ctxErr # "none")
  BY DEF IInv
<1>1. PICK k \in 1..(written[s] - copied[s]) :
         /\ copied' = [copied EXCEPT ![s] = @ + k]
         /\ Write(s, k)
         /\ UNCHANGED <<pc, ctlVars, proc, desc, written, resVars>>
  BY DEF Copy
<1>2. /\ written[s] \in 0..MaxWritten /\ copied[s] \in 0..MaxWritten
      /\ kept[s] \in 0..MaxOutput /\ truncated[s] \in BOOLEAN
      /\ k \in Nat \ {0}
      /\ copied[s] + k \in 0..MaxWritten /\ copied[s] + k <= written[s]
  BY <1>0, <1>1 DEF TypeOK
<1>3. /\ kept'[s] = IF copied[s] + k > MaxOutput THEN MaxOutput ELSE copied[s] + k
      /\ truncated'[s] <=> copied[s] + k > MaxOutput
      /\ truncated'[s] \in BOOLEAN
      /\ copied'[s] = copied[s] + k
  <2>1. /\ kept[s] = (IF copied[s] > MaxOutput THEN MaxOutput ELSE copied[s])
        /\ truncated[s] <=> copied[s] > MaxOutput
    BY <1>0 DEF Buffered
  <2>2. kept'[s] = IF truncated[s] THEN kept[s]
                   ELSE IF k > MaxOutput - kept[s] THEN MaxOutput ELSE kept[s] + k
    BY <1>0, <1>1 DEF Write, TypeOK
  <2>3. truncated'[s] = (truncated[s] \/ k > MaxOutput - kept[s])
    BY <1>0, <1>1 DEF Write, TypeOK
  <2>4. truncated'[s] <=> copied[s] + k > MaxOutput
    <3>1. CASE copied[s] > MaxOutput
      BY <1>2, <2>1, <2>3, <3>1
    <3>2. CASE ~(copied[s] > MaxOutput)
      <4>1. truncated[s] = FALSE /\ kept[s] = copied[s]
        BY <1>2, <2>1, <3>2
      <4>2. truncated'[s] = (k > MaxOutput - copied[s])
        BY <2>3, <4>1
      <4>3. k > MaxOutput - copied[s] <=> copied[s] + k > MaxOutput
        BY <1>2
      <4>4. QED
        BY <4>2, <4>3
    <3>3. QED
      BY <3>1, <3>2
  <2>5. kept'[s] = IF copied[s] + k > MaxOutput THEN MaxOutput ELSE copied[s] + k
    <3>1. CASE copied[s] > MaxOutput
      BY <1>2, <2>1, <2>2, <3>1
    <3>2. CASE ~(copied[s] > MaxOutput)
      BY <1>2, <2>1, <2>2, <3>2
    <3>3. QED
      BY <3>1, <3>2
  <2>6. truncated'[s] \in BOOLEAN
    BY <1>2, <2>3
  <2>7. QED
    BY <1>0, <1>1, <2>4, <2>5, <2>6 DEF TypeOK
<1>4. \A t \in Streams \ {s} : /\ kept'[t] = kept[t] /\ truncated'[t] = truncated[t]
                               /\ copied'[t] = copied[t]
  BY <1>0, <1>1 DEF Write, TypeOK
<1>5. TypeOK'
  <2>1. copied' \in [Streams -> 0..MaxWritten]
    BY <1>0, <1>1, <1>2 DEF TypeOK
  <2>2. kept' \in [Streams -> 0..MaxOutput]
    BY <1>0, <1>1, <1>2 DEF TypeOK, Write
  <2>3. truncated' \in [Streams -> BOOLEAN]
    BY <1>0, <1>1, <1>2 DEF TypeOK, Write
  <2>4. QED
    BY <1>0, <1>1, <2>1, <2>2, <2>3 DEF TypeOK
<1>6. Buffered'
  BY <1>0, <1>1, <1>2, <1>3, <1>4 DEF Buffered
<1>7. Childless' /\ Reaped' /\ (watch' = "fired" => ctxErr' # "none")
  BY <1>0, <1>1 DEF Childless, Reaped, ExitCode
<1>8. Drained'
  BY <1>0, <1>1, <1>2 DEF Drained, PipesClosed
<1>9. QED
  BY <1>5, <1>6, <1>7, <1>8 DEF IInv

\* The child, its descendant, the timer and the parent context.
LEMMA EnvironmentInvariant ==
    ASSUME IInv,
           \/ \E s \in Streams : ChildWrites(s)
           \/ ChildForks \/ ChildExits \/ DescendantExits
           \/ TimerFires \/ ParentCanceled \/ ParentExpires
    PROVE  IInv'
<1> USE DEF ctlVars, ioVars, resVars
<1>0. TypeOK /\ Buffered /\ Childless /\ Reaped /\ Drained /\ (watch = "fired" => ctxErr # "none")
  BY DEF IInv
<1>1. ASSUME NEW s \in Streams, ChildWrites(s) PROVE IInv'
  <2>1. PICK n \in (written[s] + 1)..MaxWritten : written' = [written EXCEPT ![s] = n]
    BY <1>1 DEF ChildWrites
  <2>2. ~PipesClosed /\ proc # "none"
        /\ UNCHANGED <<pc, ctlVars, proc, desc, copied, kept, truncated, resVars>>
    BY <1>1 DEF ChildWrites
  <2>3. TypeOK'
    BY <1>0, <2>1, <2>2 DEF TypeOK
  <2>4. Buffered'
    BY <1>0, <2>1, <2>2 DEF Buffered, TypeOK
  <2>5. Childless' /\ Reaped' /\ Drained' /\ (watch' = "fired" => ctxErr' # "none")
    BY <1>0, <2>2 DEF Childless, Reaped, Drained, ExitCode
  <2>6. QED
    BY <2>3, <2>4, <2>5 DEF IInv
<1>2. CASE ChildForks \/ ChildExits \/ DescendantExits
  <2>1. TypeOK'
    BY <1>0, <1>2 DEF ChildForks, ChildExits, DescendantExits, TypeOK
  <2>2. Buffered'
    BY <1>0, <1>2 DEF ChildForks, ChildExits, DescendantExits, Buffered
  <2>3. Childless' /\ (watch' = "fired" => ctxErr' # "none")
    BY <1>0, <1>2 DEF ChildForks, ChildExits, DescendantExits, Childless, Ended
  <2>4. Reaped'
    <3>1. CASE ChildExits
      BY <1>0, <3>1 DEF ChildExits, Reaped, Ended
    <3>2. CASE ChildForks \/ DescendantExits
      BY <1>0, <3>2 DEF ChildForks, DescendantExits, Reaped, ExitCode
    <3>3. QED
      BY <1>2, <3>1, <3>2
  <2>5. Drained'
    <3>1. CASE ChildExits \/ ChildForks
      BY <1>0, <3>1 DEF ChildExits, ChildForks, Drained, PipesClosed
    <3>2. CASE DescendantExits
      BY <1>0, <3>2 DEF DescendantExits, Drained, PipesClosed
    <3>3. QED
      BY <1>2, <3>1, <3>2
  <2>6. QED
    BY <2>1, <2>2, <2>3, <2>4, <2>5 DEF IInv
<1>3. CASE TimerFires \/ ParentCanceled \/ ParentExpires
  <2>1. ctxErr = "none" /\ ctxErr' \in {"deadline", "canceled"}
        /\ UNCHANGED <<pc, watch, proc, desc, ioVars, resVars>>
    BY <1>3 DEF TimerFires, ParentCanceled, ParentExpires, ContextEnds
  <2>2. TypeOK'
    BY <1>0, <2>1 DEF TypeOK
  <2>3. QED
    BY <1>0, <2>1, <2>2 DEF IInv, Buffered, Childless, Reaped, Drained, PipesClosed, ExitCode
<1>4. QED
  BY <1>1, <1>2, <1>3

\* No step leaves the invariant: buffers are prefixes, an error of c.Run is the
\* child's or the context's, and c.Run returns with the pipes drained.
THEOREM Invariance == Spec => []IInv
<1>1. Init => IInv
  BY InitInvariant
<1>2. IInv /\ [Next]_vars => IInv'
  <2> SUFFICES ASSUME IInv, [Next]_vars PROVE IInv'
    OBVIOUS
  <2>1. CASE Caller
    BY <2>1, BeforeChild, AfterChild DEF Caller
  <2>2. CASE Watch
    BY <2>2, WatchInvariant
  <2>3. ASSUME NEW s \in Streams, Copy(s) PROVE IInv'
    BY <2>3, CopyInvariant
  <2>4. CASE UNCHANGED vars
    <3>1. TypeOK' <=> TypeOK
      BY <2>4 DEF vars, ctlVars, ioVars, resVars, TypeOK
    <3>2. (Buffered' <=> Buffered) /\ (Childless' <=> Childless)
      BY <2>4 DEF vars, ctlVars, ioVars, resVars, Buffered, Childless
    <3>3. (Reaped' <=> Reaped) /\ (Drained' <=> Drained) /\ watch' = watch /\ ctxErr' = ctxErr
      BY <2>4 DEF vars, ctlVars, ioVars, resVars, Reaped, Drained, PipesClosed, ExitCode
    <3>4. QED
      BY <3>1, <3>2, <3>3 DEF IInv
  <2>5. QED
    BY <2>1, <2>2, <2>3, <2>4, EnvironmentInvariant DEF Next
<1>3. QED
  BY <1>1, <1>2, PTL DEF Spec

-----------------------------------------------------------------------------
(***************************************************************************)
(* The refinement.                                                         *)
(***************************************************************************)

\* Run tells its caller nothing before it returns.
LEMMA NoAnswerYet == pc # "returned" => Outcome = Contract!Pending
BY DEF Outcome, Contract!Pending, Streams, Contract!Streams

\* What a caller sees of the buffers once they are drained is what the promise
\* makes of the bytes written.
LEMMA DrainedBuffers ==
    ASSUME TypeOK, Buffered, copied = written
    PROVE  /\ kept = [s \in Contract!Streams |->
                        IF Contract!Over(s) THEN MaxOutput ELSE written[s]]
           /\ truncated = [s \in Contract!Streams |-> Contract!Over(s)]
           /\ AnyTruncated <=> \E s \in Contract!Streams : Contract!Over(s)
<1>1. Streams = Contract!Streams
  BY DEF Streams, Contract!Streams
<1>2. ASSUME NEW s \in Streams
      PROVE  /\ kept[s] = (IF Contract!Over(s) THEN MaxOutput ELSE written[s])
             /\ truncated[s] = Contract!Over(s)
  <2>1. truncated[s] \in BOOLEAN
    BY DEF TypeOK
  <2>2. kept[s] = (IF written[s] > MaxOutput THEN MaxOutput ELSE written[s])
    BY DEF Buffered
  <2>3. truncated[s] <=> written[s] > MaxOutput
    BY DEF Buffered
  <2>4. QED
    BY <2>1, <2>2, <2>3 DEF Contract!Over
<1>3. kept = [s \in Streams |-> kept[s]] /\ truncated = [s \in Streams |-> truncated[s]]
  BY DEF TypeOK
<1>4. AnyTruncated <=> \E s \in Streams : Contract!Over(s)
  BY <1>2 DEF AnyTruncated
<1>5. QED
  BY <1>1, <1>2, <1>3, <1>4

\* The step that returns is the answer of the promise.
LEMMA Returning ==
    ASSUME IInv, pc # "returned", pc' = "returned", proc # "running", copied = written,
           UNCHANGED <<ctxErr, proc, ioVars>>,
           exitCode' = Contract!ExitCodeOf(proc),
           errs' \in IF proc = "none" THEN Contract!NoChildErrs(ctxErr)
                     ELSE Contract!ChildErrs(proc, ctxErr, AnyTruncated)
    PROVE  Contract!Answer
<1>1. TypeOK /\ Buffered
  BY DEF IInv
<1>2. Outcome = Contract!Pending
  BY NoAnswerYet
<1>3. kept' = kept /\ truncated' = truncated /\ written' = written
  BY DEF ioVars
<1>4. Outcome' = [errs |-> errs', exitCode |-> Contract!ExitCodeOf(proc),
                  kept |-> kept, truncated |-> truncated]
  BY <1>3 DEF Outcome
<1>5. Outcome' = [errs |-> errs', exitCode |-> Contract!ExitCodeOf(proc),
                  kept |-> [s \in Contract!Streams |->
                               IF Contract!Over(s) THEN MaxOutput ELSE written[s]],
                  truncated |-> [s \in Contract!Streams |-> Contract!Over(s)]]
  BY <1>1, <1>4, DrainedBuffers
<1>6. AnyTruncated <=> \E s \in Contract!Streams : Contract!Over(s)
  BY <1>1, DrainedBuffers
<1>7. Contract!ChildErrs(proc, ctxErr, AnyTruncated)
        = Contract!ChildErrs(proc, ctxErr, \E s \in Contract!Streams : Contract!Over(s))
  BY <1>6 DEF Contract!ChildErrs
<1>8. errs' \in IF proc = "none" THEN Contract!NoChildErrs(ctxErr)
                ELSE Contract!ChildErrs(proc, ctxErr,
                                        \E s \in Contract!Streams : Contract!Over(s))
  BY <1>7
<1>9. QED
  BY <1>2, <1>3, <1>5, <1>8 DEF Contract!Answer

\* A step that shows nothing of itself.
LEMMA Hidden ==
    ASSUME UNCHANGED <<ctxErr, proc, written>>,
           \/ pc # "returned" /\ pc' # "returned"
           \/ UNCHANGED <<pc, errs, exitCode, kept, truncated>>
    PROVE  UNCHANGED Contract!vars
BY DEF Contract!vars, Outcome

\* What the copier of a stream nobody wrote to has read.
LEMMA NoneWritten ==
    ASSUME NEW a \in 0..MaxWritten, NEW b, b = 0, a <= b PROVE a = b
BY MaxWrittenAssumption

\* The goroutine in runProcess: it starts the child, answers, or shows nothing.
LEMMA CallerRefines == IInv /\ Caller => [Contract!Next]_(Contract!vars)
<1> SUFFICES ASSUME IInv, Caller PROVE [Contract!Next]_(Contract!vars)
  OBVIOUS
<1> USE DEF ctlVars, resVars
<1>0. TypeOK /\ Buffered /\ Childless /\ Reaped /\ Drained
  BY DEF IInv
<1>1. ASSUME NEW e \in {"denied", "not found", "invalid arg"},
             pc \in {"resolve", "validate"}, Fail(e),
             UNCHANGED <<ctlVars, proc, desc, ioVars>>
      PROVE  Contract!Answer
  <2>1. proc = "none" /\ exitCode = -1
    BY <1>0, <1>1 DEF Reaped, Childless
  <2>2. copied = written
    <3>1. copied \in [Streams -> 0..MaxWritten] /\ written \in [Streams -> 0..MaxWritten]
      BY <1>0 DEF TypeOK
    <3>2. \A s \in Streams : written[s] = 0 /\ copied[s] <= written[s]
      BY <1>0, <2>1 DEF Buffered, Childless
    <3>3. ASSUME NEW s \in Streams PROVE copied[s] = written[s]
      <4>1. copied[s] \in 0..MaxWritten
        BY <3>1
      <4>2. written[s] = 0 /\ copied[s] <= written[s]
        BY <3>2
      <4>3. QED
        BY <4>1, <4>2, NoneWritten
    <3>4. copied = [s \in Streams |-> copied[s]] /\ written = [s \in Streams |-> written[s]]
      BY <3>1
    <3>5. [s \in Streams |-> copied[s]] = [s \in Streams |-> written[s]]
      BY <3>3
    <3>6. QED
      BY <3>4, <3>5, Zenon
  <2>3. Contract!ExitCodeOf(proc) = -1
    BY <2>1 DEF Contract!ExitCodeOf
  <2>4. {e} \in Contract!NoChildErrs(ctxErr)
    BY <1>1 DEF Contract!NoChildErrs
  <2>5. QED
    BY <1>1, <2>1, <2>2, <2>3, <2>4, Returning DEF Fail
<1>2. CASE Resolve \/ Validate
  <2>1. CASE pc' = "returned"
    BY <1>1, <1>2, <2>1 DEF Resolve, Validate, Contract!Next
  <2>2. CASE pc' # "returned"
    BY <1>2, <2>2, Hidden DEF Resolve, Validate, ioVars
  <2>3. QED
    BY <2>1, <2>2
<1>3. CASE StartFails \/ Reap \/ JoinWatcher \/ JoinCopiers
  BY <1>3, Hidden DEF StartFails, Reap, JoinWatcher, JoinCopiers, ioVars
<1>4. CASE Start
  <2>1. Outcome = Contract!Pending /\ Outcome' = Outcome
    BY <1>4, NoAnswerYet DEF Start, Outcome
  <2>2. Contract!ChildStarts
    BY <1>0, <1>4, <2>1 DEF Start, Reaped, ioVars, Contract!ChildStarts
  <2>3. QED
    BY <2>2 DEF Contract!Next
<1>5. CASE Classify
  <2>1. proc # "running" /\ copied = written
    BY <1>0, <1>5 DEF Classify, Drained, PipesClosed
  <2>2. exitCode' = Contract!ExitCodeOf(proc)
    BY <1>0, <1>5 DEF Classify, Childless, Reaped, ExitCode, Contract!ExitCodeOf
  <2>3. CASE proc = "none"
    <3>1. ~AnyTruncated
      BY <1>0, <2>1, <2>3 DEF AnyTruncated, Buffered, Childless
    <3>2. runErr = "start" \/ (runErr = "context" /\ ctxErr # "none")
      BY <1>0, <1>5, <2>3 DEF Childless, Classify
    <3>3. ctxErr \in {"none", "deadline", "canceled"}
      BY <1>0 DEF TypeOK
    <3>4. errs' \in Contract!NoChildErrs(ctxErr)
      BY <1>5, <3>1, <3>2, <3>3 DEF Classify, Classification, Contract!NoChildErrs
    <3>5. QED
      BY <1>5, <2>1, <2>2, <2>3, <3>4, Returning DEF Classify, Contract!Next
  <2>4. CASE proc # "none"
    <3>1. /\ proc \in Ended
          /\ proc # "exit 0" => runErr = "exit"
          /\ proc = "exit 0" => runErr = "none" \/ (runErr = "context" /\ ctxErr # "none")
      BY <1>0, <1>5, <2>4 DEF Reaped, Classify
    <3>2. ctxErr \in {"none", "deadline", "canceled"}
      BY <1>0 DEF TypeOK
    <3>3. errs' = Classification
      BY <1>5 DEF Classify
    <3>4. Classification \in Contract!ChildErrs(proc, ctxErr, AnyTruncated)
      BY <3>1, <3>2 DEF Classification, Contract!ChildErrs
    <3>5. QED
      BY <1>5, <2>1, <2>2, <2>4, <3>3, <3>4, Returning DEF Classify, Contract!Next
  <2>5. QED
    BY <2>3, <2>4
<1>6. QED
  BY <1>2, <1>3, <1>4, <1>5 DEF Caller

\* Everyone else: the child ends or writes, the context ends, or nothing shows.
LEMMA OthersRefine ==
    ASSUME IInv,
           \/ Watch
           \/ \E s \in Streams : Copy(s) \/ ChildWrites(s)
           \/ ChildForks \/ ChildExits \/ DescendantExits
           \/ TimerFires \/ ParentCanceled \/ ParentExpires
    PROVE  [Contract!Next]_(Contract!vars)
<1> USE DEF ctlVars, resVars, ioVars
<1>0. TypeOK /\ Buffered /\ Childless /\ Reaped /\ Drained
  BY DEF IInv
<1>1. CASE UNCHANGED <<pc, errs, exitCode, kept, truncated, ctxErr, written>> /\ proc = "running"
           /\ proc' \in Ended
  <2>1. Outcome' = Outcome
    BY <1>1 DEF Outcome
  <2>2. Contract!ChildEnds
    BY <1>1, <2>1 DEF Contract!ChildEnds, Contract!Ends, Ended
  <2>3. QED
    BY <2>2 DEF Contract!Next
<1>2. CASE Watch
  BY <1>1, <1>2, Hidden DEF Watch, Ended
<1>3. CASE ChildExits
  BY <1>1, <1>3 DEF ChildExits
<1>4. CASE ChildForks \/ DescendantExits
  BY <1>4, Hidden DEF ChildForks, DescendantExits
<1>5. ASSUME NEW s \in Streams, Copy(s) PROVE UNCHANGED Contract!vars
  <2>1. copied[s] # written[s]
    BY <1>0, <1>5 DEF Copy, TypeOK
  <2>2. pc # "returned"
    BY <1>0, <2>1 DEF Drained
  <2>3. QED
    BY <1>5, <2>2, Hidden DEF Copy
<1>6. ASSUME NEW s \in Streams, ChildWrites(s) PROVE Contract!Output
  <2>1. pc # "returned" /\ proc # "none"
    BY <1>0, <1>6 DEF ChildWrites, Drained
  <2>2. Outcome = Contract!Pending /\ Outcome' = Outcome
    BY <1>6, <2>1, NoAnswerYet DEF ChildWrites, Outcome
  <2>3. QED
    BY <1>6, <2>1, <2>2 DEF ChildWrites, Contract!Output, Streams, Contract!Streams
<1>7. CASE TimerFires \/ ParentCanceled \/ ParentExpires
  <2>1. ctxErr = "none" /\ ctxErr' \in {"deadline", "canceled"}
        /\ UNCHANGED <<pc, watch, proc, desc, ioVars, resVars>>
    BY <1>7 DEF TimerFires, ParentCanceled, ParentExpires, ContextEnds
  <2>2. Outcome' = Outcome
    BY <2>1 DEF Outcome
  <2>3. Contract!ContextEnds
    BY <2>1, <2>2 DEF Contract!ContextEnds
  <2>4. QED
    BY <2>3 DEF Contract!Next
<1>8. QED
  BY <1>2, <1>3, <1>4, <1>5, <1>6, <1>7 DEF Contract!Next

\* osRunner.Run keeps the promise RunContract states: whatever its goroutines,
\* the child and the clock do, each step starts or ends the child, lets it
\* write, ends the context, answers, or shows nothing.
THEOREM Refinement == Spec => ImplementsContract
<1>1. Init => Contract!Init
  <2> SUFFICES ASSUME Init PROVE Contract!Init
    OBVIOUS
  <2>1. Outcome = Contract!Pending
    BY NoAnswerYet DEF Init
  <2>2. QED
    BY <2>1 DEF Init, Contract!Init, Streams, Contract!Streams
<1>2. IInv /\ [Next]_vars => [Contract!Next]_(Contract!vars)
  <2> SUFFICES ASSUME IInv, [Next]_vars PROVE [Contract!Next]_(Contract!vars)
    OBVIOUS
  <2>1. CASE Caller
    BY <2>1, CallerRefines
  <2>2. CASE UNCHANGED vars
    BY <2>2, Hidden DEF vars, ctlVars, ioVars, resVars
  <2>3. QED
    BY <2>1, <2>2, OthersRefine DEF Next
<1>3. QED
  BY <1>1, <1>2, Invariance, PTL DEF Spec, ImplementsContract, Contract!Spec
=============================================================================
