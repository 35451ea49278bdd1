------------------------------- MODULE AiwScan -------------------------------
(***************************************************************************)
(* The scanner of internal/aiworkspace (scan.go): it reports the files of  *)
(* the folders it is given, rewrites chosen ones in place after copying    *)
(* the original to a blob, and restores them from the blob.  One mutex is  *)
(* held by a whole optimizeFiles and by a whole restore, so the steps of   *)
(* one operation interleave only with the user's editor, with scans (which *)
(* take no lock) and with a crash.                                         *)
(*                                                                         *)
(* A content is the pair of the user's revision and the number of          *)
(* optimizer passes over it; what an optimizer returns is a choice.        *)
(***************************************************************************)
EXTENDS Naturals, Sequences, FiniteSets

LOCAL INSTANCE SequencesExt

CONSTANTS
    Files,          \* paths
    Unsupported,    \* the ones whose extension typeGroup does not know
    Ignored,        \* the ones in a folder WalkDir skips or larger than maxFileBytes
    None,
    MaxEdits,       \* bound on the revisions the user writes of one file
    MaxPasses,      \* bound on optimizer passes over one revision
    MaxFaults,      \* bound on failed writes and crashes
    MaxOps          \* bound on commands

VARIABLES
    content,    \* the files
    blob,       \* scan-backups/blobs
    manifest,   \* scan-backups/manifest.json: the paths that have an entry
    report,     \* the files of the last scan, [path, optimizable, hasBackup]
    op,         \* the operation that holds the mutex
    restoring,  \* restoreAll's list, restored one lock at a time
    faults,     \* failed writes and crashes so far
    ops,        \* commands so far
    replaced,   \* history: what the last rewrite of a file replaced, until it is restored
    doubt       \* history: files a failed write, a crash or an edit in between disturbed

stores == <<content, blob, manifest>>
history == <<replaced, doubt>>
vars == <<stores, report, op, restoring, faults, ops, history>>

Contents == [rev : 0..MaxEdits, passes : 0..MaxPasses]

TypeOK ==
    /\ content \in [Files -> Contents] /\ blob \in [Files -> Contents \cup {None}]
    /\ manifest \subseteq Files /\ restoring \subseteq Files /\ doubt \subseteq Files
    /\ replaced \in [Files -> Contents \cup {None}]
    /\ faults \in 0..MaxFaults /\ ops \in 0..MaxOps

\* newScanner over a project that has no backups yet.
Init ==
    /\ content = [p \in Files |-> [rev |-> 0, passes |-> 0]]
    /\ blob = [p \in Files |-> None] /\ manifest = {}
    /\ report = {} /\ op = None /\ restoring = {} /\ faults = 0 /\ ops = 0
    /\ replaced = [p \in Files |-> None] /\ doubt = {}

-----------------------------------------------------------------------------
(* What the optimizer of the file's type returns. *)

\* typeGroup, optimizerForType
Supported(p) == p \notin Unsupported

\* optimizeContent: an error, an empty result, nothing saved, or a leaner text.
Outcomes(c) == {"failed", "empty", "no_savings"} \cup (IF c.passes < MaxPasses THEN {"lean"} ELSE {})

Lean(c) == [c EXCEPT !.passes = @ + 1]

-----------------------------------------------------------------------------
(* scan: a dry run, without the mutex. *)

Walked(p) == Supported(p) /\ p \notin Ignored

\* A root that is too broad or no folder contributes nothing; the type filter
\* leaves any subset of the rest.
Scan ==
    /\ ops < MaxOps /\ ops' = ops + 1
    /\ \E S \in SUBSET {p \in Files : Walked(p)} :
          report' = {[path |-> p, hasBackup |-> p \in manifest] : p \in S}
    /\ UNCHANGED <<stores, op, restoring, faults, history>>

-----------------------------------------------------------------------------
(* optimizeFiles. *)

\* An optimizeFiles with its remaining paths and the manifest as it is going to be.
Optimize(todo, man, stage, data) ==
    [kind |-> "optimize", todo |-> todo, man |-> man, stage |-> stage, data |-> data]

\* The mutex is taken and the manifest read once for all the paths: the console
\* sends files of its report, another client may send any path.
OptimizeBegin ==
    /\ op = None /\ ops < MaxOps /\ ops' = ops + 1
    /\ \E S \in SUBSET ({r.path : r \in report} \cup Unsupported) \ {{}} :
          op' = Optimize(SetToSeq(S), manifest, "read", None)
    /\ UNCHANGED <<stores, report, restoring, faults, history>>

At(stage) == op # None /\ op.kind = "optimize" /\ op.stage = stage

Current == Head(op.todo)

NextFile(o) == Optimize(Tail(o.todo), o.man, "read", None)

\* The file is read and optimized; an unsupported type, an unreadable file, an
\* optimizer error, an empty result and no_savings leave it as it is.
ReadFile ==
    /\ At("read") /\ op.todo # <<>>
    /\ \E o \in IF Supported(Current) THEN Outcomes(content[Current]) ELSE {"failed"} :
          op' = IF o = "lean" THEN Optimize(op.todo, op.man, "backup", content[Current])
                ELSE NextFile(op)
    /\ UNCHANGED <<stores, report, restoring, faults, ops, history>>

Noted(o) == Optimize(Tail(o.todo), o.man \cup {Head(o.todo)}, "read", None)

\* The file is rewritten first and the backup taken from what is then on disk.
BackupLater ==
    /\ At("backup")
    /\ content' = [content EXCEPT ![Current] = Lean(op.data)]
    /\ replaced' = [replaced EXCEPT ![Current] = op.data]
    /\ blob' = [blob EXCEPT ![Current] = content'[Current]]
    /\ op' = Noted(op)
    /\ UNCHANGED <<manifest, report, restoring, faults, ops, doubt>>

\* The original goes to the blob before the file is touched.
Backup ==
    /\ At("backup")
    /\ blob' = [blob EXCEPT ![Current] = op.data]
    /\ op' = Optimize(op.todo, op.man, "write", op.data)
    /\ UNCHANGED <<content, manifest, report, restoring, faults, ops, history>>

\* The blob cannot be written: the file is left as it is.
BackupFails ==
    /\ At("backup") /\ faults < MaxFaults
    /\ faults' = faults + 1 /\ op' = NextFile(op)
    /\ UNCHANGED <<stores, report, restoring, ops, history>>

\* The file is rewritten and noted in the manifest read at the beginning.  An
\* edit since the file was read is overwritten.
Rewrite ==
    /\ At("write")
    /\ content' = [content EXCEPT ![Current] = Lean(op.data)]
    /\ replaced' = [replaced EXCEPT ![Current] = content[Current]]
    /\ doubt' = IF content[Current] # op.data THEN doubt \cup {Current} ELSE doubt \ {Current}
    /\ op' = Noted(op)
    /\ UNCHANGED <<blob, manifest, report, restoring, faults, ops>>

\* The file cannot be opened for writing; its blob was replaced all the same.
RewriteFails ==
    /\ At("write") /\ faults < MaxFaults
    /\ faults' = faults + 1 /\ op' = NextFile(op) /\ doubt' = doubt \cup {Current}
    /\ UNCHANGED <<stores, report, restoring, ops, replaced>>

\* After the last path the manifest is saved and the mutex released.
OptimizeEnd ==
    /\ At("read") /\ op.todo = <<>>
    /\ manifest' = op.man /\ op' = None
    /\ UNCHANGED <<content, blob, report, restoring, faults, ops, history>>

-----------------------------------------------------------------------------
(* restore, restoreAll. *)

\* The entry's blob is copied back over the file.
RestoreBegin(p) ==
    /\ op = None /\ p \in manifest /\ blob[p] # None
    /\ content' = [content EXCEPT ![p] = blob[p]]
    /\ op' = [kind |-> "restore", path |-> p, stage |-> "drop"]
    /\ UNCHANGED <<blob, manifest, report, faults>>

\* The blob is removed.
RestoreDrop ==
    /\ op # None /\ op.kind = "restore" /\ op.stage = "drop"
    /\ blob' = [blob EXCEPT ![op.path] = None]
    /\ op' = [op EXCEPT !.stage = "save"]
    /\ replaced' = [replaced EXCEPT ![op.path] = None]
    /\ UNCHANGED <<content, manifest, report, restoring, faults, ops, doubt>>

\* The manifest is saved without the entry.
RestoreEnd ==
    /\ op # None /\ op.kind = "restore" /\ op.stage = "save"
    /\ manifest' = manifest \ {op.path} /\ op' = None /\ doubt' = doubt \ {op.path}
    /\ UNCHANGED <<content, blob, report, restoring, faults, ops, replaced>>

Restore ==
    /\ ops < MaxOps /\ ops' = ops + 1
    /\ \E p \in Files : RestoreBegin(p)
    /\ UNCHANGED <<restoring, history>>

\* backups(): the list is read under the lock, each entry restored under its own.
RestoreAll ==
    /\ op = None /\ restoring = {} /\ ops < MaxOps /\ ops' = ops + 1
    /\ restoring' = manifest
    /\ UNCHANGED <<stores, report, op, faults, history>>

RestoreNext ==
    /\ op = None
    /\ \E p \in restoring :
          /\ restoring' = restoring \ {p}
          /\ \/ RestoreBegin(p)
             \/ /\ p \notin manifest \/ blob[p] = None     \* an error is not counted
                /\ UNCHANGED <<stores, report, op, faults>>
    /\ UNCHANGED <<ops, history>>

-----------------------------------------------------------------------------
(* The environment. *)

\* The user saves a new revision.
Edit(p) ==
    /\ content[p].rev < MaxEdits
    /\ content' = [content EXCEPT ![p] = [rev |-> @.rev + 1, passes |-> 0]]
    /\ UNCHANGED <<blob, manifest, report, op, restoring, faults, ops, history>>

\* What a dying operation leaves in doubt: every path it rewrote but did not
\* enter into the manifest on disk, and the one it was at.
Interrupted ==
    IF op = None THEN {}
    ELSE IF op.kind = "restore" THEN {op.path}
    ELSE (op.man \ manifest) \cup (IF op.stage = "write" THEN {Current} ELSE {})

Crash ==
    /\ faults < MaxFaults /\ faults' = faults + 1
    /\ doubt' = doubt \cup Interrupted
    /\ op' = None /\ restoring' = {} /\ report' = {}
    /\ UNCHANGED <<stores, ops, replaced>>

Next ==
    \/ Scan \/ OptimizeBegin \/ ReadFile \/ Backup \/ BackupFails \/ Rewrite \/ RewriteFails
    \/ OptimizeEnd \/ Restore \/ RestoreDrop \/ RestoreEnd \/ RestoreAll \/ RestoreNext \/ Crash
    \/ \E p \in Files : Edit(p)

Spec == Init /\ [][Next]_vars

-----------------------------------------------------------------------------
(* Properties. *)

\* While no operation is under way, a rewritten file has an entry in the
\* manifest and its blob is exactly what the last rewrite replaced, so that
\* restore undoes it (optimizeFiles: "Back up the original FIRST"), and no entry
\* is left without its blob ("backup missing").  The exceptions are a failed
\* write, a crash in the middle and an edit between the read and the write.
Reversible ==
    op = None => \A p \in Files \ doubt :
                    /\ replaced[p] # None => p \in manifest /\ blob[p] = replaced[p]
                    /\ p \in manifest => blob[p] # None

\* Every rewrite can be undone by restore ("any change is reversible via
\* Restore"), a crash or a failed write in between or not.
AlwaysReversible ==
    op = None => \A p \in Files : replaced[p] # None => p \in manifest /\ blob[p] = replaced[p]
=============================================================================
