--------------------------- MODULE TextfileAtomic ---------------------------
(***************************************************************************)
(* render.WriteTextfileAtomic: processes publish their report as one file  *)
(* of a node_exporter textfile directory, while a collector reads it, any  *)
(* call may fail, a process may be killed and the machine may lose power.  *)
(***************************************************************************)
EXTENDS Naturals, Sequences, FiniteSets

CONSTANTS
    Writers,  \* calls of WriteTextfileAtomic, each a process of its own
    Suffixes, \* values randSuffix returns: equal ones are possible
    Blocks,   \* blocks of a rendered report
    None

ASSUME BlocksAssumption == Blocks \in Nat \ {0}
ASSUME NoneAssumption == None \notin Writers

VARIABLES
    pc,      \* where each writer is; "ok", "failed" and "killed" are final
    suffix,  \* its temp file's suffix
    tmp,     \* the file its descriptor is open on, named by its creator
    next,    \* the block it writes next
    data,    \* the blocks of each file, each with its writer
    synced,  \* how many blocks of it are on disk
    temp,    \* directory entries of the temp names: a file or None
    final,   \* the directory entry baseName.prom
    renamed, \* every file that entry has named
    littered,\* temp names os.Remove failed to remove
    reader,  \* the file the collector reads, or None
    seen,    \* what it has read of it
    up       \* the machine runs

vars == <<pc, suffix, tmp, next, data, synced, temp, final, renamed, littered,
          reader, seen, up>>
readerVars == <<reader, seen>>

Ended == {"ok", "failed", "killed"}

TypeOK ==
    /\ pc \in [Writers -> {"suffix", "open", "render", "sync", "close", "rename",
                           "remove"} \cup Ended]
    /\ suffix \in [Writers -> Suffixes \cup {None}]
    /\ tmp \in [Writers -> Writers \cup {None}]
    /\ next \in [Writers -> 1..(Blocks + 1)]
    /\ data \in [Writers -> Seq(Writers)]
    /\ synced \in [Writers -> 0..Blocks]
    /\ temp \in [Suffixes -> Writers \cup {None}]
    /\ final \in Writers \cup {None} /\ renamed \subseteq Writers
    /\ littered \subseteq Suffixes
    /\ reader \in Writers \cup {None} /\ seen \in Seq(Writers)
    /\ up \in BOOLEAN

Init ==
    /\ pc = [w \in Writers |-> "suffix"]
    /\ suffix = [w \in Writers |-> None]
    /\ tmp = [w \in Writers |-> None]
    /\ next = [w \in Writers |-> 1]
    /\ data = [w \in Writers |-> <<>>]
    /\ synced = [w \in Writers |-> 0]
    /\ temp = [s \in Suffixes |-> None]
    /\ final = None /\ renamed = {} /\ littered = {}
    /\ reader = None /\ seen = <<>>
    /\ up = TRUE

At(w, from, to) == up /\ pc[w] = from /\ pc' = [pc EXCEPT ![w] = to]

RandSuffix(w) ==
    /\ At(w, "suffix", "open")
    /\ \E s \in Suffixes : suffix' = [suffix EXCEPT ![w] = s]
    /\ UNCHANGED <<tmp, next, data, synced, temp, final, renamed, littered,
                   readerVars, up>>

\* crypto/rand fails, or the open does: nothing was created.
EarlyFailure(w) ==
    /\ \E from \in {"suffix", "open"} : At(w, from, "failed")
    /\ UNCHANGED <<suffix, tmp, next, data, synced, temp, final, renamed, littered,
                   readerVars, up>>

\* Faulty: O_CREATE without O_EXCL opens the file that has the name.
OpenShared(w) ==
    /\ At(w, "open", "render")
    /\ tmp' = [tmp EXCEPT ![w] = IF temp[suffix[w]] = None THEN w ELSE temp[suffix[w]]]
    /\ temp' = [temp EXCEPT ![suffix[w]] = tmp'[w]]
    /\ UNCHANGED <<suffix, next, data, synced, final, renamed, littered, readerVars, up>>

\* O_CREATE|O_EXCL: a name that is taken is an error.
Open(w) ==
    /\ At(w, "open", "render")
    /\ temp[suffix[w]] = None
    /\ tmp' = [tmp EXCEPT ![w] = w]
    /\ temp' = [temp EXCEPT ![suffix[w]] = w]
    /\ UNCHANGED <<suffix, next, data, synced, final, renamed, littered, readerVars, up>>

\* Faulty: the last block is written twice.
RenderOnceMore(w) ==
    /\ At(w, "render", IF next[w] > Blocks THEN "sync" ELSE "render")
    /\ next' = [next EXCEPT ![w] = @ + 1]
    /\ data' = [data EXCEPT ![tmp[w]] = Append(@, w)]
    /\ UNCHANGED <<suffix, tmp, synced, temp, final, renamed, littered, readerVars, up>>

\* RenderPrometheus writes a block at the descriptor's offset.
Render(w) ==
    /\ next[w] <= Blocks
    /\ At(w, "render", IF next[w] = Blocks THEN "sync" ELSE "render")
    /\ next' = [next EXCEPT ![w] = @ + 1]
    /\ data' = [data EXCEPT ![tmp[w]] =
                   [i \in 1..(IF Len(@) < next[w] THEN next[w] ELSE Len(@)) |->
                       IF i = next[w] THEN w ELSE @[i]]]
    /\ UNCHANGED <<suffix, tmp, synced, temp, final, renamed, littered, readerVars, up>>

\* Faulty: the file is renamed with its blocks still in the page cache.
SyncSkipped(w) ==
    /\ At(w, "sync", "close")
    /\ UNCHANGED <<suffix, tmp, next, data, synced, temp, final, renamed, littered,
                   readerVars, up>>

Sync(w) ==
    /\ At(w, "sync", "close")
    /\ synced' = [synced EXCEPT ![tmp[w]] = Len(data[tmp[w]])]
    /\ UNCHANGED <<suffix, tmp, next, data, temp, final, renamed, littered,
                   readerVars, up>>

\* A write or the fsync fails: closeAndRemove.  A close fails: os.Remove.
Fails(w) ==
    /\ \/ At(w, "render", "remove")
       \/ At(w, "sync", "remove")
       \/ At(w, "close", "remove")
    /\ UNCHANGED <<suffix, tmp, next, data, synced, temp, final, renamed, littered,
                   readerVars, up>>

Close(w) ==
    /\ At(w, "close", "rename")
    /\ UNCHANGED <<suffix, tmp, next, data, synced, temp, final, renamed, littered,
                   readerVars, up>>

\* Faulty: the error of os.Rename is dropped.
RenameFailsUnnoticed(w) ==
    /\ At(w, "rename", "ok")
    /\ UNCHANGED <<suffix, tmp, next, data, synced, temp, final, renamed, littered,
                   readerVars, up>>

RenameFails(w) ==
    /\ At(w, "rename", "remove")
    /\ UNCHANGED <<suffix, tmp, next, data, synced, temp, final, renamed, littered,
                   readerVars, up>>

\* os.Rename replaces the entry in one step.
Rename(w) ==
    /\ At(w, "rename", "ok")
    /\ temp[suffix[w]] # None
    /\ final' = temp[suffix[w]]
    /\ renamed' = renamed \cup {final'}
    /\ temp' = [temp EXCEPT ![suffix[w]] = None]
    /\ UNCHANGED <<suffix, tmp, next, data, synced, littered, readerVars, up>>

\* Faulty: the error paths leave the temp file.
RemoveForgotten(w) ==
    /\ At(w, "remove", "failed")
    /\ UNCHANGED <<suffix, tmp, next, data, synced, temp, final, renamed, littered,
                   readerVars, up>>

\* os.Remove, its error swallowed.
Remove(w) ==
    /\ At(w, "remove", "failed")
    /\ \/ /\ temp' = [temp EXCEPT ![suffix[w]] = None]
          /\ UNCHANGED littered
       \/ /\ littered' = littered \cup {suffix[w]}
          /\ UNCHANGED temp
    /\ UNCHANGED <<suffix, tmp, next, data, synced, final, renamed, readerVars, up>>

-----------------------------------------------------------------------------
(***************************************************************************)
(* The collector, a kill of one process, a loss of power.                  *)
(***************************************************************************)
Collect ==
    /\ up
    /\ \/ /\ reader = None /\ final # None
          /\ reader' = final /\ seen' = <<>>
       \/ /\ reader # None /\ Len(seen) < Len(data[reader])
          /\ seen' = Append(seen, data[reader][Len(seen) + 1])
          /\ UNCHANGED reader
       \/ /\ reader # None /\ Len(seen) >= Len(data[reader])
          /\ reader' = None /\ seen' = <<>>
    /\ UNCHANGED <<pc, suffix, tmp, next, data, synced, temp, final, renamed,
                   littered, up>>

Killed(w) ==
    /\ pc[w] \notin Ended
    /\ up
    /\ pc' = [pc EXCEPT ![w] = "killed"]
    /\ UNCHANGED <<suffix, tmp, next, data, synced, temp, final, renamed, littered,
                   readerVars, up>>

\* What was synced is kept, any prefix of the rest; the rename was never
\* synced, so the entry may be as it was before any of them.
PowerLoss ==
    /\ up
    /\ up' = FALSE
    /\ \E kept \in [Writers -> 0..Blocks] :
          /\ \A f \in Writers : kept[f] \in synced[f]..Len(data[f])
          /\ data' = [f \in Writers |-> SubSeq(data[f], 1, kept[f])]
    /\ final' \in renamed \cup {None}
    /\ reader' = None /\ seen' = <<>>
    /\ UNCHANGED <<pc, suffix, tmp, next, synced, temp, renamed, littered>>

AllEnded == ~up \/ \A w \in Writers : pc[w] \in Ended

Next ==
    \/ \E w \in Writers : \/ RandSuffix(w) \/ EarlyFailure(w) \/ Open(w)
                          \/ Render(w) \/ Sync(w) \/ Fails(w) \/ Close(w)
                          \/ Rename(w) \/ RenameFails(w) \/ Remove(w)
                          \/ Killed(w)
    \/ Collect \/ PowerLoss
    \/ AllEnded /\ UNCHANGED vars

Spec == Init /\ [][Next]_vars

-----------------------------------------------------------------------------
(***************************************************************************)
(* Safety.                                                                 *)
(***************************************************************************)

\* The first n blocks of w's report, and nothing of anyone else's.
Filled(w, n) == [i \in 1..n |-> w]

\* One writer's complete report.
Whole(blocks) == \E w \in Writers : blocks = Filled(w, Blocks)

\* "a node_exporter textfile collector never reads a partially-written
\* file": a read that reached the end has a whole report, whoever renamed
\* what in the meantime.
ReaderSeesWhole ==
    reader # None /\ Len(seen) >= Len(data[reader]) => Whole(seen)

\* What the name leads to after a loss of power is a whole report too.
WholeAfterPowerLoss == ~up /\ final # None => Whole(data[final])

\* nil is returned for a report that was published as the caller wrote it,
\* and an error for one no reader can have seen.
OutcomeMatchesPublication ==
    \A w \in Writers :
        /\ pc[w] = "ok" => w \in renamed
        /\ pc[w] = "failed" => w \notin renamed

\* "a failed run does not leave debris behind": a temp file belongs to a call
\* that still runs, was killed, or could not remove it.
NoDebris ==
    \A s \in Suffixes : temp[s] # None =>
        \/ s \in littered
        \/ pc[temp[s]] \notin {"ok", "failed"}

(***************************************************************************)
(* The inductive invariant that these rest on.                             *)
(***************************************************************************)

HasTemp == {"render", "sync", "close", "rename", "remove"}

\* O_EXCL makes a temp name its creator's alone, from the open to the rename
\* or the removal.
OwnTemp ==
    \A w \in Writers :
        /\ pc[w] # "suffix" => pc[w] \in Ended \/ suffix[w] \in Suffixes
        /\ pc[w] \in HasTemp => tmp[w] = w /\ temp[suffix[w]] = w

Named ==
    \A s \in Suffixes : temp[s] # None =>
        /\ suffix[temp[s]] = s
        /\ \/ pc[temp[s]] \in HasTemp \cup {"killed"}
           \/ pc[temp[s]] = "failed" /\ s \in littered

\* A file is a prefix of its creator's report that holds what was synced, and
\* the whole of it once it is synced, as it is when it gets its final name.
Stored ==
    \A w \in Writers :
        /\ Len(data[w]) \in synced[w]..Blocks
        /\ data[w] = Filled(w, Len(data[w]))
        /\ up => Len(data[w]) = next[w] - 1
        /\ pc[w] \in {"suffix", "open"} => next[w] = 1
        /\ pc[w] = "sync" => next[w] = Blocks + 1
        /\ pc[w] \in {"close", "rename", "ok"} => synced[w] = Blocks

Published ==
    /\ \A w \in Writers : w \in renamed <=> pc[w] = "ok"
    /\ final # None => final \in renamed

\* The collector holds a prefix of a published file.
Reading ==
    reader # None =>
        /\ up /\ reader \in renamed
        /\ Len(seen) <= Blocks
        /\ seen = Filled(reader, Len(seen))

\* Whoever shares a suffix, fails, is killed or reads, each temp name, file and
\* published name belongs to the one call that made it.
IInv == TypeOK /\ OwnTemp /\ Named /\ Stored /\ Published /\ Reading
=============================================================================
