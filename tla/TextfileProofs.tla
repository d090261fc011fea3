--------------------------- MODULE TextfileProofs ---------------------------
(***************************************************************************)
(* TextfileAtomic's invariants hold for any number of callers, suffixes    *)
(* and blocks.                                                             *)
(***************************************************************************)
EXTENDS TextfileAtomic, SequenceTheorems, TLAPS

(***************************************************************************)
(* Prefixes of one writer's report.                                        *)
(***************************************************************************)

\* A prefix has the length it is named for.
LEMMA FilledProperties ==
    ASSUME NEW w \in Writers, NEW n \in Nat
    PROVE  /\ Filled(w, n) \in Seq(Writers)
           /\ Len(Filled(w, n)) = n
           /\ \A i \in 1..n : Filled(w, n)[i] = w
<1>1. Filled(w, n) \in [1..n -> Writers]
  BY DEF Filled
<1>2. Filled(w, n) \in Seq(Writers)
  BY <1>1, SeqDef
<1>3. Len(Filled(w, n)) = n
  BY <1>1, <1>2, LenProperties
<1>4. QED
  BY <1>2, <1>3 DEF Filled

\* Writing the next block makes the prefix one longer.
LEMMA RenderedBlock ==
    ASSUME NEW w \in Writers, NEW n \in Nat, NEW blocks, blocks = Filled(w, n)
    PROVE  [i \in 1..(IF Len(blocks) < n + 1 THEN n + 1 ELSE Len(blocks)) |->
               IF i = n + 1 THEN w ELSE blocks[i]] = Filled(w, n + 1)
<1>1. Len(blocks) = n /\ \A i \in 1..n : blocks[i] = w
  BY FilledProperties
<1>2. 1..(IF Len(blocks) < n + 1 THEN n + 1 ELSE Len(blocks)) = 1..(n + 1)
  BY <1>1
<1>3. \A i \in 1..(n + 1) : (IF i = n + 1 THEN w ELSE blocks[i]) = w
  BY <1>1
<1>4. QED
  BY <1>2, <1>3 DEF Filled

\* Losing the end of a file leaves a shorter prefix.
LEMMA KeptPrefix ==
    ASSUME NEW w \in Writers, NEW n \in Nat, NEW k \in 0..n
    PROVE  SubSeq(Filled(w, n), 1, k) = Filled(w, k)
<1>1. \A i \in 1..k : Filled(w, n)[i] = w
  BY FilledProperties
<1>2. /\ SubSeq(Filled(w, n), 1, k) \in Seq(Writers)
      /\ Len(SubSeq(Filled(w, n), 1, k)) = k
      /\ \A i \in 1..k : SubSeq(Filled(w, n), 1, k)[i] = w
  BY <1>1, SubSeqProperties
<1>3. /\ Filled(w, k) \in Seq(Writers)
      /\ Len(Filled(w, k)) = k
      /\ \A i \in 1..k : Filled(w, k)[i] = w
  BY FilledProperties
<1>4. QED
  BY <1>2, <1>3, SeqEqual

\* Reading one more block of a prefix gives a prefix.
LEMMA ReadBlock ==
    ASSUME NEW w \in Writers, NEW n \in Nat
    PROVE  Append(Filled(w, n), w) = Filled(w, n + 1)
<1>1. Filled(w, n) \in Seq(Writers) /\ Len(Filled(w, n)) = n
      /\ \A i \in 1..n : Filled(w, n)[i] = w
  BY FilledProperties
<1>2. /\ Append(Filled(w, n), w) \in Seq(Writers)
      /\ Len(Append(Filled(w, n), w)) = n + 1
      /\ \A i \in 1..(n + 1) : Append(Filled(w, n), w)[i] = w
  BY <1>1
<1>3. /\ Filled(w, n + 1) \in Seq(Writers)
      /\ Len(Filled(w, n + 1)) = n + 1
      /\ \A i \in 1..(n + 1) : Filled(w, n + 1)[i] = w
  BY FilledProperties
<1>4. QED
  BY <1>2, <1>3, SeqEqual

(***************************************************************************)
(* The invariant.                                                          *)
(***************************************************************************)

\* Nobody has begun.
LEMMA InitInvariant == Init => IInv
<1> SUFFICES ASSUME Init PROVE IInv
  OBVIOUS
<1>1. \A w \in Writers : data[w] = <<>> /\ Len(data[w]) = 0
  BY EmptySeq DEF Init
<1>2. \A w \in Writers : Filled(w, 0) = <<>>
  <2>1. \A w \in Writers : Filled(w, 0) \in Seq(Writers) /\ Len(Filled(w, 0)) = 0
    BY FilledProperties
  <2>2. QED
    BY <2>1, EmptySeq
<1>3. TypeOK
  <2>1. <<>> \in Seq(Writers)
    BY EmptySeq
  <2>2. QED
    BY <2>1, BlocksAssumption DEF Init, TypeOK, Ended
<1>4. OwnTemp /\ Named /\ Published /\ Reading
  BY DEF Init, OwnTemp, Named, Published, Reading, HasTemp, Ended
<1>5. Stored
  <2>1. \A w \in Writers : Len(data[w]) \in synced[w]..Blocks
    BY <1>1, BlocksAssumption DEF Init
  <2>2. \A w \in Writers : data[w] = Filled(w, Len(data[w]))
    BY <1>1, <1>2
  <2>3. \A w \in Writers : pc[w] = "suffix" /\ next[w] = 1
    BY DEF Init
  <2>4. QED
    BY <1>1, <2>1, <2>2, <2>3 DEF Stored
<1>6. QED
  BY <1>3, <1>4, <1>5 DEF IInv

\* The steps that only move a writer: a failure, a close, a kill.
LEMMA MoveInvariant ==
    ASSUME IInv, NEW w \in Writers,
           EarlyFailure(w) \/ Fails(w) \/ Close(w) \/ RenameFails(w) \/ Killed(w)
    PROVE  IInv'
<1> USE DEF readerVars
<1>0. TypeOK /\ OwnTemp /\ Named /\ Stored /\ Published /\ Reading
  BY DEF IInv
<1>1. UNCHANGED <<suffix, tmp, next, data, synced, temp, final, renamed, littered,
                  readerVars, up>>
  BY DEF EarlyFailure, Fails, Close, RenameFails, Killed
<1>2. PICK to \in {"failed", "remove", "rename", "killed"} :
          /\ pc' = [pc EXCEPT ![w] = to]
          /\ pc[w] \notin Ended
          /\ to = "failed" => pc[w] \in {"suffix", "open"}
          /\ to = "remove" => pc[w] \in HasTemp
          /\ to = "rename" => pc[w] = "close"
  BY DEF EarlyFailure, Fails, Close, RenameFails, Killed, At, Ended, HasTemp
<1>3. \A v \in Writers : pc'[v] = IF v = w THEN to ELSE pc[v]
  BY <1>0, <1>2 DEF TypeOK
<1>4. TypeOK'
  <2>1. pc' \in [Writers -> {"suffix", "open", "render", "sync", "close", "rename",
                             "remove"} \cup Ended]
    BY <1>0, <1>2 DEF TypeOK, Ended
  <2>2. QED
    BY <1>0, <1>1, <2>1 DEF TypeOK
<1>5. OwnTemp'
  BY <1>0, <1>1, <1>2, <1>3 DEF OwnTemp, HasTemp, Ended
<1>6. Named'
  BY <1>0, <1>1, <1>2, <1>3 DEF TypeOK, Named, HasTemp, Ended
<1>7. Stored'
  BY <1>0, <1>1, <1>2, <1>3 DEF Stored
<1>8. Published' /\ Reading'
  BY <1>0, <1>1, <1>2, <1>3 DEF Published, Reading, Ended
<1>9. QED
  BY <1>4, <1>5, <1>6, <1>7, <1>8 DEF IInv

\* A suffix is drawn, and the name it makes opened if it is free.
LEMMA OpenInvariant ==
    ASSUME IInv, NEW w \in Writers, RandSuffix(w) \/ Open(w) PROVE IInv'
<1> USE DEF readerVars
<1>0. TypeOK /\ OwnTemp /\ Named /\ Stored /\ Published /\ Reading
  BY DEF IInv
<1>1. CASE RandSuffix(w)
  <2>1. PICK s \in Suffixes : suffix' = [suffix EXCEPT ![w] = s]
    BY <1>1 DEF RandSuffix
  <2>2. /\ UNCHANGED <<tmp, next, data, synced, temp, final, renamed, littered,
                       readerVars, up>>
        /\ pc[w] = "suffix" /\ pc' = [pc EXCEPT ![w] = "open"]
    BY <1>1 DEF RandSuffix, At
  <2>3. \A v \in Writers : /\ pc'[v] = IF v = w THEN "open" ELSE pc[v]
                           /\ suffix'[v] = IF v = w THEN s ELSE suffix[v]
    BY <1>0, <2>1, <2>2 DEF TypeOK
  <2>4. TypeOK'
    <3>1. pc' \in [Writers -> {"suffix", "open", "render", "sync", "close", "rename",
                               "remove"} \cup Ended]
          /\ suffix' \in [Writers -> Suffixes \cup {None}]
      BY <1>0, <2>1, <2>2 DEF TypeOK
    <3>2. QED
      BY <1>0, <2>2, <3>1 DEF TypeOK
  <2>5. OwnTemp'
    BY <1>0, <2>2, <2>3 DEF OwnTemp, HasTemp, Ended
  <2>6. Named'
    BY <1>0, <2>2, <2>3 DEF TypeOK, Named, HasTemp
  <2>7. Stored'
    BY <1>0, <2>2, <2>3 DEF Stored
  <2>8. Published' /\ Reading'
    BY <1>0, <2>2, <2>3 DEF Published, Reading
  <2>9. QED
    BY <2>4, <2>5, <2>6, <2>7, <2>8 DEF IInv
<1>2. CASE Open(w)
  <2>1. /\ UNCHANGED <<suffix, next, data, synced, final, renamed, littered, readerVars, up>>
        /\ pc[w] = "open" /\ pc' = [pc EXCEPT ![w] = "render"]
        /\ temp[suffix[w]] = None
        /\ tmp' = [tmp EXCEPT ![w] = w]
        /\ temp' = [temp EXCEPT ![suffix[w]] = w]
    BY <1>2 DEF Open, At
  <2>2. suffix[w] \in Suffixes
    BY <1>0, <2>1 DEF OwnTemp, Ended
  <2>3. \A v \in Writers : /\ pc'[v] = IF v = w THEN "render" ELSE pc[v]
                           /\ tmp'[v] = IF v = w THEN w ELSE tmp[v]
    BY <1>0, <2>1 DEF TypeOK
  <2>4. \A s \in Suffixes : temp'[s] = IF s = suffix[w] THEN w ELSE temp[s]
    BY <1>0, <2>1 DEF TypeOK
  <2>5. TypeOK'
    <3>1. pc' \in [Writers -> {"suffix", "open", "render", "sync", "close", "rename",
                               "remove"} \cup Ended]
          /\ tmp' \in [Writers -> Writers \cup {None}]
          /\ temp' \in [Suffixes -> Writers \cup {None}]
      BY <1>0, <2>1 DEF TypeOK
    <3>2. QED
      BY <1>0, <2>1, <3>1 DEF TypeOK
  <2>6. OwnTemp'
    <3>1. ASSUME NEW v \in Writers, v # w, pc[v] \in HasTemp
          PROVE  suffix[v] # suffix[w] /\ suffix[v] \in Suffixes
      BY <1>0, <2>1, <3>1, NoneAssumption DEF OwnTemp, HasTemp, Ended
    <3>2. QED
      BY <1>0, <2>1, <2>2, <2>3, <2>4, <3>1 DEF OwnTemp, HasTemp, Ended
  <2>7. Named'
    BY <1>0, <2>1, <2>3, <2>4 DEF TypeOK, Named, HasTemp
  <2>8. Stored'
    BY <1>0, <2>1, <2>3 DEF Stored
  <2>9. Published' /\ Reading'
    BY <1>0, <2>1, <2>3 DEF Published, Reading
  <2>10. QED
    BY <2>5, <2>6, <2>7, <2>8, <2>9 DEF IInv
<1>3. QED
  BY <1>1, <1>2

\* A block goes to the end of the writer's own file.
LEMMA RenderInvariant == ASSUME IInv, NEW w \in Writers, Render(w) PROVE IInv'
<1> USE DEF readerVars
<1> DEFINE n == next[w] - 1
           to == IF next[w] = Blocks THEN "sync" ELSE "render"
<1>0. TypeOK /\ OwnTemp /\ Named /\ Stored /\ Published /\ Reading
  BY DEF IInv
<1>1. /\ UNCHANGED <<suffix, tmp, synced, temp, final, renamed, littered, readerVars, up>>
      /\ up /\ pc[w] = "render" /\ pc' = [pc EXCEPT ![w] = to]
      /\ next[w] <= Blocks /\ next' = [next EXCEPT ![w] = @ + 1]
  BY DEF Render, At
<1>2. tmp[w] = w
  BY <1>0, <1>1 DEF OwnTemp, HasTemp
<1>3. n \in Nat /\ next[w] = n + 1 /\ n < Blocks
  BY <1>0, <1>1, BlocksAssumption DEF TypeOK
<1>4. data[w] = Filled(w, n)
  BY <1>0, <1>1 DEF Stored
<1>5. data' = [data EXCEPT ![w] = Filled(w, n + 1)]
  <2>1. data' = [data EXCEPT ![w] =
                    [i \in 1..(IF Len(data[w]) < n + 1 THEN n + 1 ELSE Len(data[w])) |->
                        IF i = n + 1 THEN w ELSE data[w][i]]]
    BY <1>2, <1>3 DEF Render
  <2>2. QED
    BY <1>3, <1>4, <2>1, RenderedBlock
<1>6. /\ \A v \in Writers : pc'[v] = IF v = w THEN to ELSE pc[v]
      /\ \A v \in Writers : next'[v] = IF v = w THEN n + 2 ELSE next[v]
      /\ \A v \in Writers : data'[v] = IF v = w THEN Filled(w, n + 1) ELSE data[v]
  <2>1. \A v \in Writers : pc'[v] = IF v = w THEN to ELSE pc[v]
    BY <1>0, <1>1 DEF TypeOK
  <2>2. next' = [next EXCEPT ![w] = n + 2]
    <3>1. next[w] + 1 = n + 2
      BY <1>0, BlocksAssumption DEF TypeOK
    <3>2. QED
      BY <1>1, <3>1
  <2>3. \A v \in Writers : next'[v] = IF v = w THEN n + 2 ELSE next[v]
    BY <1>0, <2>2 DEF TypeOK
  <2>4. \A v \in Writers : data'[v] = IF v = w THEN Filled(w, n + 1) ELSE data[v]
    BY <1>0, <1>5 DEF TypeOK
  <2>5. QED
    BY <2>1, <2>3, <2>4
<1>7. Filled(w, n + 1) \in Seq(Writers) /\ Len(Filled(w, n + 1)) = n + 1
  <2>1. n + 1 \in Nat
    BY <1>0, BlocksAssumption DEF TypeOK
  <2>2. QED
    BY <2>1, FilledProperties
<1>8. TypeOK'
  <2>1. pc' \in [Writers -> {"suffix", "open", "render", "sync", "close", "rename",
                             "remove"} \cup Ended]
    BY <1>0, <1>1 DEF TypeOK
  <2>2. next' \in [Writers -> 1..(Blocks + 1)]
    BY <1>0, <1>1, <1>3, BlocksAssumption DEF TypeOK
  <2>3. data' \in [Writers -> Seq(Writers)]
    BY <1>0, <1>5, <1>7 DEF TypeOK
  <2>4. QED
    BY <1>0, <1>1, <2>1, <2>2, <2>3 DEF TypeOK
<1>9. OwnTemp' /\ Named'
  BY <1>0, <1>1, <1>6 DEF TypeOK, OwnTemp, Named, HasTemp, Ended
<1>10. Stored'
  <2>1. ASSUME NEW v \in Writers, v # w
        PROVE  /\ UNCHANGED <<pc[v], next[v], data[v], synced[v], up>>
               /\ Len(data[v]) \in synced[v]..Blocks
               /\ data[v] = Filled(v, Len(data[v]))
               /\ up => Len(data[v]) = next[v] - 1
               /\ pc[v] \in {"suffix", "open"} => next[v] = 1
               /\ pc[v] = "sync" => next[v] = Blocks + 1
               /\ pc[v] \in {"close", "rename", "ok"} => synced[v] = Blocks
    BY <1>0, <1>1, <1>6, <2>1 DEF Stored
  <2>2. Len(data'[w]) = n + 1 /\ data'[w] = Filled(w, n + 1) /\ next'[w] = n + 2
    BY <1>6, <1>7
  <2>3. synced[w] \in 0..Blocks /\ synced[w] <= n
    BY <1>0, <1>1 DEF TypeOK, Stored
  <2>4. pc'[w] \in {"sync", "render"} /\ (pc'[w] = "sync" => n + 1 = Blocks)
    BY <1>3, <1>6
  <2>5. QED
    <3>1. Len(data'[w]) \in synced'[w]..Blocks /\ Len(data'[w]) = next'[w] - 1
      BY <1>1, <1>3, <2>2, <2>3, BlocksAssumption
    <3>2. pc'[w] = "sync" => next'[w] = Blocks + 1
      BY <1>3, <2>2, <2>4
    <3>3. QED
      BY <2>1, <2>2, <2>4, <3>1, <3>2 DEF Stored
<1>11. Published' /\ Reading'
  BY <1>0, <1>1, <1>6 DEF Published, Reading
<1>12. QED
  BY <1>8, <1>9, <1>10, <1>11 DEF IInv

\* The fsync covers the whole report, for every block of it was written.
LEMMA SyncInvariant == ASSUME IInv, NEW w \in Writers, Sync(w) PROVE IInv'
<1> USE DEF readerVars
<1>0. TypeOK /\ OwnTemp /\ Named /\ Stored /\ Published /\ Reading
  BY DEF IInv
<1>1. /\ UNCHANGED <<suffix, tmp, next, data, temp, final, renamed, littered,
                     readerVars, up>>
      /\ up /\ pc[w] = "sync" /\ pc' = [pc EXCEPT ![w] = "close"]
      /\ synced' = [synced EXCEPT ![tmp[w]] = Len(data[tmp[w]])]
  BY DEF Sync, At
<1>2. tmp[w] = w
  BY <1>0, <1>1 DEF OwnTemp, HasTemp
<1>3. Len(data[w]) = Blocks
  BY <1>0, <1>1, BlocksAssumption DEF Stored
<1>4. synced' = [synced EXCEPT ![w] = Blocks]
  BY <1>1, <1>2, <1>3
<1>5. \A v \in Writers : /\ pc'[v] = IF v = w THEN "close" ELSE pc[v]
                         /\ synced'[v] = IF v = w THEN Blocks ELSE synced[v]
  BY <1>0, <1>1, <1>4 DEF TypeOK
<1>6. TypeOK'
  <2>1. pc' \in [Writers -> {"suffix", "open", "render", "sync", "close", "rename",
                             "remove"} \cup Ended]
    BY <1>0, <1>1 DEF TypeOK
  <2>2. synced' \in [Writers -> 0..Blocks]
    BY <1>0, <1>4, BlocksAssumption DEF TypeOK
  <2>3. QED
    BY <1>0, <1>1, <2>1, <2>2 DEF TypeOK
<1>7. OwnTemp' /\ Named'
  BY <1>0, <1>1, <1>5 DEF TypeOK, OwnTemp, Named, HasTemp, Ended
<1>8. Stored'
  BY <1>0, <1>1, <1>3, <1>5, BlocksAssumption DEF Stored
<1>9. Published' /\ Reading'
  BY <1>0, <1>1, <1>5 DEF Published, Reading
<1>10. QED
  BY <1>6, <1>7, <1>8, <1>9 DEF IInv

\* The temp name becomes the final one, of a file that is synced.
LEMMA RenameInvariant == ASSUME IInv, NEW w \in Writers, Rename(w) PROVE IInv'
<1> USE DEF readerVars
<1>0. TypeOK /\ OwnTemp /\ Named /\ Stored /\ Published /\ Reading
  BY DEF IInv
<1>1. /\ UNCHANGED <<suffix, tmp, next, data, synced, littered, readerVars, up>>
      /\ up /\ pc[w] = "rename" /\ pc' = [pc EXCEPT ![w] = "ok"]
      /\ temp' = [temp EXCEPT ![suffix[w]] = None]
  BY DEF Rename, At
<1>2. suffix[w] \in Suffixes /\ temp[suffix[w]] = w
  BY <1>0, <1>1 DEF OwnTemp, HasTemp, Ended
<1>3. final' = w /\ renamed' = renamed \cup {w}
  BY <1>2 DEF Rename
<1>4. \A v \in Writers : pc'[v] = IF v = w THEN "ok" ELSE pc[v]
  BY <1>0, <1>1 DEF TypeOK
<1>5. \A s \in Suffixes : temp'[s] = IF s = suffix[w] THEN None ELSE temp[s]
  BY <1>0, <1>1 DEF TypeOK
<1>6. TypeOK'
  <2>1. pc' \in [Writers -> {"suffix", "open", "render", "sync", "close", "rename",
                             "remove"} \cup Ended]
        /\ temp' \in [Suffixes -> Writers \cup {None}]
    BY <1>0, <1>1 DEF TypeOK, Ended
  <2>2. QED
    BY <1>0, <1>1, <1>3, <2>1 DEF TypeOK
<1>7. OwnTemp'
  <2>1. ASSUME NEW v \in Writers, v # w, pc[v] \in HasTemp
        PROVE  suffix[v] # suffix[w] /\ suffix[v] \in Suffixes
    BY <1>0, <1>2, <2>1 DEF OwnTemp, HasTemp, Ended
  <2>2. QED
    BY <1>0, <1>1, <1>4, <1>5, <2>1 DEF OwnTemp, HasTemp, Ended
<1>8. Named'
  <2>1. ASSUME NEW s \in Suffixes, s # suffix[w], temp[s] # None
        PROVE  temp[s] \in Writers /\ temp[s] # w
    BY <1>0, <2>1 DEF TypeOK, Named
  <2>2. QED
    BY <1>0, <1>1, <1>4, <1>5, <2>1 DEF Named
<1>9. Stored'
  BY <1>0, <1>1, <1>4 DEF Stored
<1>10. Published'
  BY <1>0, <1>3, <1>4 DEF Published
<1>11. Reading'
  BY <1>0, <1>1, <1>3 DEF Reading
<1>12. QED
  BY <1>6, <1>7, <1>8, <1>9, <1>10, <1>11 DEF IInv

\* An error path removes the temp name, or fails to and says so nowhere.
LEMMA RemoveInvariant == ASSUME IInv, NEW w \in Writers, Remove(w) PROVE IInv'
<1> USE DEF readerVars
<1>0. TypeOK /\ OwnTemp /\ Named /\ Stored /\ Published /\ Reading
  BY DEF IInv
<1>1. /\ UNCHANGED <<suffix, tmp, next, data, synced, final, renamed, readerVars, up>>
      /\ up /\ pc[w] = "remove" /\ pc' = [pc EXCEPT ![w] = "failed"]
      /\ \/ temp' = [temp EXCEPT ![suffix[w]] = None] /\ littered' = littered
         \/ littered' = littered \cup {suffix[w]} /\ temp' = temp
  BY DEF Remove, At
<1>2. suffix[w] \in Suffixes /\ temp[suffix[w]] = w
  BY <1>0, <1>1 DEF OwnTemp, HasTemp, Ended
<1>3. \A v \in Writers : pc'[v] = IF v = w THEN "failed" ELSE pc[v]
  BY <1>0, <1>1 DEF TypeOK
<1>4. \A s \in Suffixes : s # suffix[w] => temp'[s] = temp[s]
  BY <1>0, <1>1 DEF TypeOK
<1>5. littered \subseteq littered' /\ (temp'[suffix[w]] = None \/ suffix[w] \in littered')
  BY <1>0, <1>1, <1>2 DEF TypeOK
<1>6. TypeOK'
  <2>1. pc' \in [Writers -> {"suffix", "open", "render", "sync", "close", "rename",
                             "remove"} \cup Ended]
    BY <1>0, <1>1 DEF TypeOK, Ended
  <2>2. temp' \in [Suffixes -> Writers \cup {None}] /\ littered' \subseteq Suffixes
    BY <1>0, <1>1, <1>2 DEF TypeOK
  <2>3. QED
    BY <1>0, <1>1, <2>1, <2>2 DEF TypeOK
<1>7. OwnTemp'
  <2>1. ASSUME NEW v \in Writers, v # w, pc[v] \in HasTemp
        PROVE  suffix[v] # suffix[w] /\ suffix[v] \in Suffixes
    BY <1>0, <1>2, <2>1 DEF OwnTemp, HasTemp, Ended
  <2>2. QED
    BY <1>0, <1>1, <1>3, <1>4, <2>1 DEF OwnTemp, HasTemp, Ended
<1>8. Named'
  <2>1. ASSUME NEW s \in Suffixes, s # suffix[w], temp[s] # None
        PROVE  temp[s] \in Writers /\ temp[s] # w
    BY <1>0, <2>1 DEF TypeOK, Named
  <2>2. temp'[suffix[w]] \in {None, w}
    BY <1>0, <1>1, <1>2 DEF TypeOK
  <2>3. QED
    BY <1>0, <1>1, <1>3, <1>4, <1>5, <2>1, <2>2 DEF Named
<1>9. Stored'
  BY <1>0, <1>1, <1>3 DEF Stored
<1>10. Published' /\ Reading'
  BY <1>0, <1>1, <1>3 DEF Published, Reading
<1>11. QED
  BY <1>6, <1>7, <1>8, <1>9, <1>10 DEF IInv

\* The collector opens a published file and reads on in it.
LEMMA CollectInvariant == ASSUME IInv, Collect PROVE IInv'
<1>0. TypeOK /\ OwnTemp /\ Named /\ Stored /\ Published /\ Reading
  BY DEF IInv
<1>1. UNCHANGED <<pc, suffix, tmp, next, data, synced, temp, final, renamed,
                  littered, up>> /\ up
  BY DEF Collect
<1>2. OwnTemp' /\ Named' /\ Stored' /\ Published'
  BY <1>0, <1>1 DEF OwnTemp, Named, Stored, Published
<1>3. SUFFICES Reading' /\ reader' \in Writers \cup {None} /\ seen' \in Seq(Writers)
  BY <1>0, <1>1, <1>2 DEF IInv, TypeOK
<1>4. <<>> \in Seq(Writers) /\ Len(<<>>) = 0
  BY EmptySeq
<1>5. CASE reader = None /\ final # None /\ reader' = final /\ seen' = <<>>
  <2>1. final \in Writers /\ final \in renamed
    BY <1>0, <1>5 DEF TypeOK, Published
  <2>2. Filled(final, 0) = <<>>
    BY <2>1, FilledProperties, EmptySeq
  <2>3. QED
    BY <1>1, <1>4, <1>5, <2>1, <2>2, BlocksAssumption DEF Reading
<1>6. CASE /\ reader # None /\ Len(seen) < Len(data[reader])
           /\ seen' = Append(seen, data[reader][Len(seen) + 1])
           /\ UNCHANGED reader
  <2> DEFINE k == Len(seen)
             n == Len(data[reader])
  <2>1. reader \in Writers /\ reader \in renamed /\ seen = Filled(reader, k)
        /\ data[reader] = Filled(reader, n) /\ n <= Blocks /\ k < n
    BY <1>0, <1>6 DEF TypeOK, Reading, Stored
  <2>2. k \in Nat /\ n \in Nat
    BY <1>0, <2>1, LenProperties DEF TypeOK
  <2> HIDE DEF k, n
  <2>3. data[reader][k + 1] = reader
    BY <2>1, <2>2, FilledProperties
  <2>4. seen' = Filled(reader, k + 1)
    BY <1>6, <2>1, <2>2, <2>3, ReadBlock DEF k
  <2>5. Len(seen') = k + 1 /\ seen' \in Seq(Writers)
    BY <2>1, <2>2, <2>4, FilledProperties
  <2>6. k + 1 <= Blocks
    BY <2>1, <2>2, BlocksAssumption
  <2>7. QED
    BY <1>1, <1>6, <2>1, <2>4, <2>5, <2>6 DEF Reading
<1>7. CASE reader' = None /\ seen' = <<>>
  BY <1>4, <1>7 DEF Reading
<1>8. QED
  BY <1>5, <1>6, <1>7 DEF Collect

\* What was synced survives a loss of power.
LEMMA PowerLossInvariant == ASSUME IInv, PowerLoss PROVE IInv'
<1>0. TypeOK /\ OwnTemp /\ Named /\ Stored /\ Published /\ Reading
  BY DEF IInv
<1>1. /\ UNCHANGED <<pc, suffix, tmp, next, synced, temp, renamed, littered>>
      /\ up' = FALSE /\ final' \in renamed \cup {None} /\ reader' = None /\ seen' = <<>>
  BY DEF PowerLoss
<1>2. PICK kept \in [Writers -> 0..Blocks] :
          /\ \A f \in Writers : kept[f] \in synced[f]..Len(data[f])
          /\ data' = [f \in Writers |-> SubSeq(data[f], 1, kept[f])]
  BY DEF PowerLoss
<1>3. ASSUME NEW f \in Writers
      PROVE  data'[f] = Filled(f, kept[f]) /\ data'[f] \in Seq(Writers)
             /\ Len(data'[f]) = kept[f] /\ kept[f] \in synced[f]..Blocks
  <2> DEFINE n == Len(data[f])
  <2>1. data[f] = Filled(f, n) /\ n \in synced[f]..Blocks /\ synced[f] \in 0..Blocks
    BY <1>0 DEF Stored, TypeOK
  <2>2. n \in Nat /\ kept[f] \in 0..n /\ kept[f] \in Nat
    BY <1>2, <2>1, BlocksAssumption
  <2> HIDE DEF n
  <2>3. data'[f] = Filled(f, kept[f])
    BY <1>2, <2>1, <2>2, KeptPrefix
  <2>4. kept[f] \in synced[f]..Blocks
    BY <1>2, <2>1, <2>2, BlocksAssumption
  <2>5. QED
    BY <2>2, <2>3, <2>4, FilledProperties
<1>4. TypeOK'
  <2>1. data' \in [Writers -> Seq(Writers)]
    BY <1>2, <1>3
  <2>2. final' \in Writers \cup {None}
    BY <1>0, <1>1 DEF TypeOK
  <2>3. seen' \in Seq(Writers)
    BY <1>1, EmptySeq
  <2>4. QED
    BY <1>0, <1>1, <2>1, <2>2, <2>3 DEF TypeOK
<1>5. OwnTemp' /\ Named' /\ Published' /\ Reading'
  BY <1>0, <1>1 DEF OwnTemp, Named, Published, Reading
<1>6. Stored'
  BY <1>0, <1>1, <1>3 DEF Stored
<1>7. QED
  BY <1>4, <1>5, <1>6 DEF IInv

\* No step of a caller, the collector or the machine mixes up two callers'
\* names and files, publishes one that is not whole, or cuts what was synced.
THEOREM Invariance == Spec => []IInv
<1>1. Init => IInv
  BY InitInvariant
<1>2. IInv /\ [Next]_vars => IInv'
  <2> SUFFICES ASSUME IInv, [Next]_vars PROVE IInv'
    OBVIOUS
  <2>1. CASE UNCHANGED vars
    <3>1. UNCHANGED <<pc, suffix, tmp, next, data, synced, temp, final, renamed,
                      littered, reader, seen, up>>
      BY <2>1 DEF vars, readerVars
    <3>2. TypeOK' /\ OwnTemp' /\ Named'
      BY <3>1 DEF IInv, TypeOK, OwnTemp, Named
    <3>3. Stored' /\ Published' /\ Reading'
      BY <3>1 DEF IInv, Stored, Published, Reading
    <3>4. QED
      BY <3>2, <3>3 DEF IInv
  <2>2. ASSUME NEW w \in Writers,
               \/ RandSuffix(w) \/ EarlyFailure(w) \/ Open(w)
               \/ Render(w) \/ Sync(w) \/ Fails(w) \/ Close(w)
               \/ Rename(w) \/ RenameFails(w) \/ Remove(w)
               \/ Killed(w)
        PROVE  IInv'
    BY <2>2, MoveInvariant, OpenInvariant, RenderInvariant, SyncInvariant,
       RenameInvariant, RemoveInvariant
  <2>3. QED
    BY <2>1, <2>2, CollectInvariant, PowerLossInvariant DEF Next
<1>3. QED
  BY <1>1, <1>2, PTL DEF Spec

\* A collector that reads a file to its end has one caller's whole report.
THEOREM ReadersSeeWhole == Spec => []ReaderSeesWhole
<1>1. IInv => ReaderSeesWhole
  <2> SUFFICES ASSUME IInv, reader # None, Len(seen) >= Len(data[reader])
               PROVE  Whole(seen)
    BY DEF ReaderSeesWhole
  <2>1. /\ up /\ reader \in Writers /\ reader \in renamed /\ pc[reader] = "ok"
        /\ seen = Filled(reader, Len(seen)) /\ Len(seen) <= Blocks
    BY DEF IInv, TypeOK, Reading, Published
  <2>2. synced[reader] = Blocks /\ Len(data[reader]) \in Blocks..Blocks
    BY <2>1 DEF IInv, Stored
  <2>3. Len(seen) \in Nat
    BY LenProperties DEF IInv, TypeOK
  <2>4. Len(seen) = Blocks
    BY <2>1, <2>2, <2>3, BlocksAssumption
  <2>5. QED
    BY <2>1, <2>4 DEF Whole
<1>2. QED
  BY <1>1, Invariance, PTL

\* After a loss of power the published name leads to a whole report or none.
THEOREM PowerLossKeepsWhole == Spec => []WholeAfterPowerLoss
<1>1. IInv => WholeAfterPowerLoss
  <2> SUFFICES ASSUME IInv, final # None PROVE Whole(data[final])
    BY DEF WholeAfterPowerLoss
  <2>1. final \in Writers /\ pc[final] = "ok"
    BY DEF IInv, TypeOK, Published
  <2>2. synced[final] = Blocks /\ Len(data[final]) \in Blocks..Blocks
        /\ data[final] = Filled(final, Len(data[final]))
    BY <2>1 DEF IInv, Stored
  <2>3. Len(data[final]) = Blocks
    BY <2>2, BlocksAssumption
  <2>4. QED
    BY <2>1, <2>2, <2>3 DEF Whole
<1>2. QED
  BY <1>1, Invariance, PTL

\* nil is returned for published reports only, and an error for others only.
THEOREM OutcomeTrue == Spec => []OutcomeMatchesPublication
<1>1. IInv => OutcomeMatchesPublication
  BY DEF IInv, Published, OutcomeMatchesPublication
<1>2. QED
  BY <1>1, Invariance, PTL

\* A call that returned left a temp file only where os.Remove failed.
THEOREM DebrisFree == Spec => []NoDebris
<1>1. IInv => NoDebris
  BY DEF IInv, Named, NoDebris, HasTemp
<1>2. QED
  BY <1>1, Invariance, PTL
=============================================================================
