-------------------------- MODULE ArtifactPromotion --------------------------
(***************************************************************************)
(* promoteStageFile and promoteStageDirectory (src/server/infrastructure/  *)
(* artifacts/stage-workspace.ts): one validated artifact of an agent's     *)
(* workspace is moved to its destination.  The candidate is written and    *)
(* synced beside the destination, the value there is renamed out of the    *)
(* way, the candidate renamed in, and every rename is followed by a sync   *)
(* of the directories.  A failure is rolled back.                          *)
(*                                                                         *)
(* Any file operation may fail, the run may be cancelled at any time, and  *)
(* the process may be killed or the machine lose power between any two     *)
(* operations.  Two operations on the directory reach the disk in order,   *)
(* and no earlier than the sync that follows them need they reach it.      *)
(***************************************************************************)

\* What a name may hold: nothing ("absent"), the value before ("old"), something
\* that is no regular file or directory ("irregular"), the candidate written but
\* not synced ("fresh"), the candidate ("new"), or what a loss of power leaves of
\* an unsynced file ("torn").
VARIABLES
    kind,       \* which of the two functions runs: file, directory
    original,   \* what is at the destination before: absent, old, irregular
    step,       \* the await the promotion stands at
    dest,       \* what is at the destination
    temp,       \* what is at .<name>.<uuid>.tmp
    prev,       \* what is at .<name>.<uuid>.tmp.previous
    onDisk,     \* the <<dest, temp, prev>> a loss of power may leave behind
    signal,     \* signal.aborted
    published,  \* candidate_published
    moved,      \* previous_moved
    unrolled,   \* rollback_errors.length > 0
    outcome     \* none, ok, skipped, failed, unrolled, cleanup_failed

flags == <<signal, published, moved, unrolled, outcome>>
promotionVars == <<kind, original, step, dest, temp, prev, onDisk, flags>>

PromotionInit ==
    /\ kind \in {"file", "directory"}
    /\ original \in {"absent", "old", "irregular"}
    /\ step = "read"
    /\ dest = original
    /\ temp = "absent"
    /\ prev = "absent"
    /\ onDisk = {<<original, "absent", "absent">>}
    /\ signal = FALSE
    /\ published = FALSE
    /\ moved = FALSE
    /\ unrolled = FALSE
    /\ outcome = "none"

-----------------------------------------------------------------------------
(* The file system: external *)

\* The directory now holds d, t, p, which the disk may or may not know of.
Visible(d, t, p) ==
    /\ dest' = d /\ temp' = t /\ prev' = p
    /\ onDisk' = onDisk \cup {<<d, t, p>>}

\* syncDirectoryChain and syncDirectory
Synced ==
    /\ onDisk' = {<<dest, temp, prev>>}
    /\ UNCHANGED <<dest, temp, prev>>

Unmoved == UNCHANGED <<dest, temp, prev, onDisk>>

-----------------------------------------------------------------------------
Goto(label) == step' = label /\ UNCHANGED <<kind, original>>

\* An exception inside the try block.
Throw == Goto("unpublish") /\ Unmoved /\ UNCHANGED flags

End(result) ==
    /\ Goto("done")
    /\ outcome' = result
    /\ UNCHANGED <<signal, published, moved, unrolled>>

\* The checks and the read of the candidate, up to the creation of the parent
\* directory: nothing to roll back.  A directory may be optional.
ReadCandidate ==
    /\ step = "read"
    /\ \/ ~signal /\ Goto("write") /\ Unmoved /\ UNCHANGED flags
       \/ End("failed") /\ Unmoved
       \/ kind = "directory" /\ ~signal /\ End("skipped") /\ Unmoved

\* Bun.write or writeRegularDirectory
WriteTemporary ==
    /\ step = "write"
    /\ Visible(dest, "fresh", prev)
    /\ \E label \in {"syncTemporary", "unpublish"} : Goto(label)
    /\ UNCHANGED flags

\* Mutant of SyncTemporary: the candidate is renamed in without a sync.
SyncTemporarySkipped ==
    /\ step = "syncTemporary"
    /\ Goto("inspect") /\ Unmoved /\ UNCHANGED flags

\* syncRegularFile or syncDirectoryTree: from then on a loss of power finds the
\* whole candidate wherever it finds the temporary name.
SyncTemporary ==
    /\ step = "syncTemporary"
    /\ \/ /\ Goto("inspect")
          /\ temp' = "new"
          /\ onDisk' = {<<n[1], IF n[2] = "fresh" THEN "new" ELSE n[2], n[3]>> : n \in onDisk}
          /\ UNCHANGED <<dest, prev, flags>>
       \/ Throw

\* lstatIfPresent(destination)
Inspect ==
    /\ step = "inspect"
    /\ \/ /\ ~signal /\ dest # "irregular"
          /\ Goto(IF dest = "absent" THEN "publish" ELSE "moveOld")
          /\ Unmoved /\ UNCHANGED flags
       \/ Throw

\* Mutant of MoveOld: the old value is removed instead of kept aside.
MoveOldRemoves ==
    /\ step = "moveOld"
    /\ \/ /\ Goto("syncOld")
          /\ Visible("absent", temp, prev)
          /\ UNCHANGED flags
       \/ Throw

MoveOld ==
    /\ step = "moveOld"
    /\ \/ /\ Goto("syncOld")
          /\ Visible("absent", temp, dest)
          /\ moved' = TRUE
          /\ UNCHANGED <<signal, published, unrolled, outcome>>
       \/ Throw

SyncOld ==
    /\ step = "syncOld"
    /\ \/ Goto("publish") /\ Synced /\ UNCHANGED flags
       \/ Throw

\* The last look at the signal and the rename it guards are one step.
Publish ==
    /\ step = "publish"
    /\ \/ /\ ~signal
          /\ Goto("syncNew")
          /\ Visible(temp, "absent", prev)
          /\ published' = TRUE
          /\ UNCHANGED <<signal, moved, unrolled, outcome>>
       \/ Throw

\* Mutant of SyncNew: the sync of the directories is best effort.
SyncNewBestEffort ==
    /\ step = "syncNew"
    /\ Goto(IF moved THEN "dropOld" ELSE "cleanup") /\ UNCHANGED flags
    /\ Synced \/ Unmoved

SyncNew ==
    /\ step = "syncNew"
    /\ \/ Goto(IF moved THEN "dropOld" ELSE "cleanup") /\ Synced /\ UNCHANGED flags
       \/ Throw

\* The removal of the value kept aside is best effort, and so is its sync.
DropOld ==
    /\ step = "dropOld"
    /\ Goto("syncDrop")
    /\ Visible(dest, temp, "absent") \/ Unmoved
    /\ moved' = FALSE
    /\ UNCHANGED <<signal, published, unrolled, outcome>>

SyncDrop ==
    /\ step = "syncDrop"
    /\ Goto("cleanup")
    /\ Synced \/ Unmoved
    /\ UNCHANGED flags

-----------------------------------------------------------------------------
(* The catch block: each part of the rollback that fails is remembered. *)

RollbackFails(label) ==
    /\ Goto(label) /\ Unmoved
    /\ unrolled' = TRUE
    /\ UNCHANGED <<signal, published, moved, outcome>>

Unpublish ==
    /\ step = "unpublish"
    /\ \/ ~published /\ Goto("restore") /\ Unmoved /\ UNCHANGED flags
       \/ /\ published
          /\ Goto("restore")
          /\ Visible("absent", dest, prev)
          /\ published' = FALSE
          /\ UNCHANGED <<signal, moved, unrolled, outcome>>
       \/ published /\ RollbackFails("restore")

\* Mutant of RestoreOld: only a published candidate is rolled back.
RestoreOldForgets ==
    /\ step = "restore"
    /\ Goto("syncRollback") /\ Unmoved /\ UNCHANGED flags

\* A file replaces a candidate that could not be taken back; a directory cannot.
RestoreOld ==
    /\ step = "restore"
    /\ \/ ~moved /\ Goto("syncRollback") /\ Unmoved /\ UNCHANGED flags
       \/ /\ moved
          /\ kind = "file" \/ dest = "absent"
          /\ Goto("syncRollback")
          /\ Visible(prev, temp, "absent")
          /\ moved' = FALSE
          /\ UNCHANGED <<signal, published, unrolled, outcome>>
       \/ moved /\ RollbackFails("syncRollback")

SyncRollback ==
    /\ step = "syncRollback"
    /\ \/ Goto("rethrow") /\ Synced /\ UNCHANGED flags
       \/ RollbackFails("rethrow")

\* The finally block: rm(temporary) may fail only if there is something to remove,
\* and its exception takes the place of the one thrown before it.
Finally(result) ==
    \/ Visible(dest, "absent", prev) /\ End(result)
    \/ temp # "absent" /\ Unmoved /\ End("cleanup_failed")

Cleanup == step = "cleanup" /\ Finally("ok")

Rethrow == step = "rethrow" /\ Finally(IF unrolled THEN "unrolled" ELSE "failed")

-----------------------------------------------------------------------------
AbortPromotion ==
    /\ ~signal /\ step \notin {"done", "lost"}
    /\ signal' = TRUE
    /\ UNCHANGED <<kind, original, step, dest, temp, prev, onDisk, published, moved,
                   unrolled, outcome>>

\* The server is killed: the files stay as they are, and nothing at startup looks
\* for the hidden names.
Killed ==
    /\ step \notin {"done", "lost"}
    /\ Goto("lost") /\ Unmoved /\ UNCHANGED flags

\* Power is lost, during the promotion or some time after it.
PowerLoss ==
    /\ step # "lost"
    /\ Goto("lost")
    /\ \E n \in onDisk :
          /\ dest' = IF n[1] = "fresh" THEN "torn" ELSE n[1]
          /\ temp' = IF n[2] = "fresh" THEN "torn" ELSE n[2]
          /\ prev' = n[3]
    /\ onDisk' = {<<dest', temp', prev'>>}
    /\ UNCHANGED flags

Promotion ==
    \/ ReadCandidate \/ WriteTemporary \/ SyncTemporary \/ Inspect \/ MoveOld \/ SyncOld
    \/ Publish \/ SyncNew \/ DropOld \/ SyncDrop \/ Cleanup
    \/ Unpublish \/ RestoreOld \/ SyncRollback \/ Rethrow

PromotionNext == Promotion \/ AbortPromotion \/ Killed \/ PowerLoss

PromotionSpec == PromotionInit /\ [][PromotionNext]_promotionVars

-----------------------------------------------------------------------------
\* Nobody ever reads part of a candidate at the destination, not even after a loss
\* of power at any point: the bytes are synced before the name points to them
\* (stage-workspace.ts:545-546, 558, 639-640, 657).
NeverTorn == dest \notin {"fresh", "torn"}

\* A promotion that succeeds survives a loss of power (stage-workspace.ts:558-560, 657-659).
SuccessIsDurable == outcome = "ok" => \A n \in onDisk : n[1] = "new"

\* A promotion that fails without saying that the rollback was incomplete has left
\* what was there before, also after a loss of power: the caller may go on with the
\* old value (stage-workspace.ts:567-597, 669-699).
FailureKeepsOriginal == outcome = "failed" => \A n \in onDisk : n[1] = original

\* Whatever fails or crashes, a value that was at the destination is not lost
\* before the candidate has taken its place for good: one of the two names has it.
OldNotLost ==
    original = "old" =>
        \A n \in onDisk \cup {<<dest, temp, prev>>} : n[1] \in {"old", "new"} \/ n[3] = "old"

\* A promotion is safe whatever step fails and whenever the process or the machine
\* stops: the destination is never torn, success is durable, a failure that was
\* rolled back changed nothing, and the old value outlives every other end.
PromotionIsSafe ==
    NeverTorn /\ SuccessIsDurable /\ FailureKeepsOriginal /\ OldNotLost

==============================================================================
