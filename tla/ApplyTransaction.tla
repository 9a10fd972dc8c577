-------------------------- MODULE ApplyTransaction --------------------------
(***************************************************************************)
(* The change-apply transaction of crates/sandbox-guard-core/src/          *)
(* change_apply.rs: Guard copies the accepted changes of an export bundle  *)
(* into the host source tree, one path at a time, and rolls back on error. *)
(*                                                                         *)
(* Paths are numbered in the order validate_manifest sorts them.  A path   *)
(* owns three directory entries: its own name (leaf), its UUID-named       *)
(* rollback slot (backup) and its UUID-named transaction file (temp).      *)
(* Every system call of the code that changes an entry, or whose answer    *)
(* the code later relies on, is a step of its own; between two steps the   *)
(* host user's other programs may act, an I/O error may strike, or the     *)
(* Guard process may be killed.                                            *)
(***************************************************************************)
EXTENDS Integers, Sequences

CONSTANTS
    N,          \* number of validated changes
    Dirs,       \* directories below the source root
    Chain,      \* Chain[p]: the parent directories of path p, outermost first
    MaxHostOps  \* bound on the host's interfering operations

Path == 1..N

Kinds == {"added", "modified", "deleted"}

\* "base" is content and metadata that match the audit's IncludedFile record,
\* "new" matches the ChangeRecord, "part" is a half-written transaction file
\* and "host" anything else.
Data == {"none", "base", "new", "part", "host"}

\* FileIdentity and content of a directory entry.  Inode 0 is the staged
\* original, 1 the file Guard prepares, 2 and above are made by the host.
File   == [id : Int, data : Data]
Absent == [id |-> -1, data |-> "none"]
Orig   == [id |-> 0, data |-> "base"]
Repl   == [id |-> 1, data |-> "new"]

ASSUME NAssumption     == N \in Nat
ASSUME ChainAssumption == Chain \in [Path -> Seq(Dirs)]
ASSUME BoundAssumption == MaxHostOps \in Nat

VARIABLES
    kind,       \* ChangeRecord.kind of each path
    allow,      \* ApplyAuthorization.allow_deletions
    leaf, backup, temp,
    export,     \* content of files/<path> in the export bundle
    dirs,       \* existing directories
    clutter,    \* directories holding a host file that is no change path
    created,    \* the Vec of CreatedDirectory
    pushed,     \* paths with an AppliedAction
    installed,  \* paths whose AppliedAction has installed = Some(..)
    orig,       \* FileIdentity saved by open_matching_source
    pc, cur,    \* control state and the path it is at
    errs,       \* rollback's error list is not empty
    outcome,    \* the Result of apply_exported_changes
    hops,       \* host operations so far
    touched,    \* paths the host acted on (history)
    raced,      \* paths the host acted on in an unchecked window (history)
    lost        \* paths where Guard destroyed host content (history)

tree  == <<leaf, backup, temp>>
dirvs == <<dirs, clutter, created>>
acts  == <<pushed, installed>>
ctl   == <<pc, cur, orig, errs, outcome>>
hist  == <<hops, touched, raced, lost>>
fixed == <<kind, allow>>
vars  == <<kind, allow, leaf, backup, temp, export, dirs, clutter, created,
           pushed, installed, orig, pc, cur, errs, outcome,
           hops, touched, raced, lost>>

Outcomes == {"none", "refused", "applied", "cleanup_failed",
             "rolled_back", "rollback_incomplete"}

Steps == {"start", "check", "open", "match", "create", "copy", "move",
          "verify", "install", "sync", "cleanup", "cleanup_sync",
          "undo", "undo_unlink", "undo_restore", "undo_sync", "rmdir",
          "done", "crashed"}

-----------------------------------------------------------------------------

ParentsOf(p) == {Chain[p][i] : i \in DOMAIN Chain[p]}

\* The file staging saw at a path; an added path had none.
Before(p) == IF kind[p] = "added" THEN Absent ELSE Orig

Init ==
    /\ kind \in [Path -> Kinds]
    /\ allow \in BOOLEAN
    /\ leaf = [p \in Path |-> Before(p)]
    /\ backup = [p \in Path |-> Absent]
    /\ temp = [p \in Path |-> Absent]
    /\ export = [p \in Path |-> IF kind[p] = "deleted" THEN "none" ELSE "new"]
    \* A staged file's parents exist; parents of an added path may not.
    /\ dirs \in SUBSET Dirs
    /\ \A p \in Path : kind[p] # "added" => ParentsOf(p) \subseteq dirs
    /\ \A p \in Path : \A i, j \in DOMAIN Chain[p] :
          i < j /\ Chain[p][j] \in dirs => Chain[p][i] \in dirs
    /\ clutter = {}
    /\ created = <<>>
    /\ pushed = {} /\ installed = {}
    /\ orig = -1 /\ pc = "start" /\ cur = 1
    /\ errs = FALSE /\ outcome = "none"
    /\ hops = 0 /\ touched = {} /\ raced = {} /\ lost = {}

-----------------------------------------------------------------------------
(* Control helpers.                                                        *)

Goto(label) ==
    /\ pc' = label
    /\ UNCHANGED <<cur, orig, errs, outcome>>

\* Return before the first mutation.
Finish(result) ==
    /\ pc' = "done" /\ outcome' = result
    /\ UNCHANGED <<cur, orig, errs>>

\* The apply closure returned Err: rollback walks the actions backwards.
Fail ==
    /\ pc' = "undo"
    /\ UNCHANGED <<cur, orig, errs, outcome>>

\* After the last mutation of a change: the next change, or cleanup.
NextChange ==
    /\ IF cur < N THEN pc' = "open" /\ cur' = cur + 1
                  ELSE pc' = "cleanup" /\ cur' = 1
    /\ UNCHANGED <<orig, errs, outcome>>

\* `let _ = unlinkat(temp)`: the error, if any, is ignored.
DropTemp(p) == temp' \in {temp, [temp EXCEPT ![p] = Absent]}

-----------------------------------------------------------------------------
(* Validation and the conflict check before the first host mutation.       *)

\* Deletions need the typed authorization.
Authorized == allow \/ \A p \in Path : kind[p] # "deleted"

\* validate_manifest, the deletion authorization, the empty change list, and
\* the source and export root checks, any of which may refuse.
Start ==
    /\ pc = "start"
    /\ \/ Finish("refused")
       \/ Authorized /\ N = 0 /\ Finish("applied")
       \/ Authorized /\ N > 0 /\ Goto("check")
    /\ UNCHANGED <<fixed, tree, export, dirvs, acts, hist>>

\* ensure_source_absent, open_matching_source and verify_export_file.
NoConflict(p) ==
    /\ IF kind[p] = "added" THEN leaf[p] = Absent ELSE leaf[p].data = "base"
    /\ kind[p] # "deleted" => export[p] = "new"

Precheck ==
    /\ pc = "check"
    /\ \/ /\ NoConflict(cur)
          /\ IF cur < N THEN pc' = "check" /\ cur' = cur + 1
                        ELSE pc' = "open" /\ cur' = 1
          /\ UNCHANGED <<orig, errs, outcome>>
       \/ Finish("refused")
    /\ UNCHANGED <<fixed, tree, export, dirvs, acts, hist>>

-----------------------------------------------------------------------------
(* The apply closure.                                                      *)

Missing(p) == {i \in DOMAIN Chain[p] : Chain[p][i] \notin dirs}

\* open_parent: open each parent in turn, creating the missing ones of an
\* added path; mkdirat finding the directory already there is not an error.
OpenParent ==
    /\ pc = "open"
    /\ \/ /\ Missing(cur) = {}
          /\ Goto("match")
          /\ UNCHANGED <<dirs, created>>
       \/ /\ kind[cur] = "added"
          /\ \E i \in Missing(cur) :
                /\ \A j \in Missing(cur) : i <= j
                /\ dirs' = dirs \cup {Chain[cur][i]}
                /\ created' = Append(created, Chain[cur][i])
          /\ UNCHANGED ctl
       \/ Fail /\ UNCHANGED <<dirs, created>>
    /\ UNCHANGED <<fixed, tree, export, clutter, acts, hist>>

\* ensure_leaf_absent, or open_matching_source which saves the identity.
Match ==
    /\ pc = "match"
    /\ \/ /\ kind[cur] = "added" /\ leaf[cur] = Absent
          /\ Goto("create")
       \/ /\ kind[cur] # "added" /\ leaf[cur].data = "base"
          /\ orig' = leaf[cur].id
          /\ pc' = IF kind[cur] = "modified" THEN "create" ELSE "move"
          /\ UNCHANGED <<cur, errs, outcome>>
       \/ Fail
    /\ UNCHANGED <<fixed, tree, export, dirvs, acts, hist>>

\* create_temp_file
CreateTemp ==
    /\ pc = "create"
    /\ \/ /\ temp' = [temp EXCEPT ![cur] = [id |-> 1, data |-> "part"]]
          /\ Goto("copy")
       \/ Fail /\ UNCHANGED temp
    /\ UNCHANGED <<fixed, leaf, backup, export, dirvs, acts, hist>>

\* Mutant: the copy is not hashed against the reviewed record.
CopyTempUnhashed ==
    /\ pc = "copy"
    /\ temp' = [temp EXCEPT ![cur] = [id |-> 1, data |-> export[cur]]]
    /\ Goto(IF kind[cur] = "added" THEN "install" ELSE "move")
    /\ UNCHANGED <<fixed, leaf, backup, export, dirvs, acts, hist>>

\* prepare_export_file: copy, re-hash against the record, chmod and sync.
CopyTemp ==
    /\ pc = "copy"
    /\ \/ /\ export[cur] = "new"
          /\ temp' = [temp EXCEPT ![cur] = [id |-> 1, data |-> export[cur]]]
          /\ Goto(IF kind[cur] = "added" THEN "install" ELSE "move")
       \/ Fail /\ DropTemp(cur)
    /\ UNCHANGED <<fixed, leaf, backup, export, dirvs, acts, hist>>

\* renameat_with(leaf, backup, NOREPLACE), then the action is recorded.
MoveToBackup ==
    /\ pc = "move"
    /\ \/ /\ leaf[cur] # Absent
          /\ backup' = [backup EXCEPT ![cur] = leaf[cur]]
          /\ leaf' = [leaf EXCEPT ![cur] = Absent]
          /\ pushed' = pushed \cup {cur}
          /\ Goto("verify")
          /\ UNCHANGED temp
       \/ /\ Fail /\ DropTemp(cur)
          /\ UNCHANGED <<leaf, backup, pushed>>
    /\ UNCHANGED <<fixed, export, dirvs, installed, hist>>

\* Mutant: the moved file is not compared with the matched one.
VerifyBackupTrusting ==
    /\ pc = "verify"
    /\ Goto(IF kind[cur] = "modified" THEN "install" ELSE "sync")
    /\ UNCHANGED <<fixed, tree, export, dirvs, acts, hist>>

\* verify_rollback_source: what was moved must be what was matched.
VerifyBackup ==
    /\ pc = "verify"
    /\ \/ /\ backup[cur].id = orig /\ backup[cur].data = "base"
          /\ Goto(IF kind[cur] = "modified" THEN "install" ELSE "sync")
          /\ UNCHANGED temp
       \/ Fail /\ DropTemp(cur)
    /\ UNCHANGED <<fixed, leaf, backup, export, dirvs, acts, hist>>

\* Mutant: a plain rename, which replaces a file that appeared meanwhile.
InstallReplacing ==
    /\ pc = "install"
    /\ leaf' = [leaf EXCEPT ![cur] = temp[cur]]
    /\ temp' = [temp EXCEPT ![cur] = Absent]
    /\ pushed' = pushed \cup {cur}
    /\ installed' = installed \cup {cur}
    /\ Goto("sync")
    /\ UNCHANGED <<fixed, backup, export, dirvs, hist>>

\* renameat_with(temp, leaf, NOREPLACE), then the action has an identity.
Install ==
    /\ pc = "install"
    /\ \/ /\ leaf[cur] = Absent
          /\ leaf' = [leaf EXCEPT ![cur] = temp[cur]]
          /\ temp' = [temp EXCEPT ![cur] = Absent]
          /\ pushed' = pushed \cup {cur}
          /\ installed' = installed \cup {cur}
          /\ Goto("sync")
       \/ /\ Fail /\ DropTemp(cur)
          /\ UNCHANGED <<leaf, acts>>
    /\ UNCHANGED <<fixed, backup, export, dirvs, hist>>

\* Mutant: the rollback file goes as soon as its own change is in place.
SyncParentEager ==
    /\ pc = "sync"
    /\ backup' = [backup EXCEPT ![cur] = Absent]
    /\ NextChange \/ Fail
    /\ UNCHANGED <<fixed, leaf, temp, export, dirvs, acts, hist>>

\* sync_action_parent
SyncParent ==
    /\ pc = "sync"
    /\ NextChange \/ Fail
    /\ UNCHANGED <<fixed, tree, export, dirvs, acts, hist>>

-----------------------------------------------------------------------------
(* Every change is in place: remove the rollback files.                    *)

\* Mutant: the last rollback file is forgotten.
NextCleanupShort ==
    IF cur < N - 1
        THEN pc' = "cleanup" /\ cur' = cur + 1 /\ UNCHANGED outcome
        ELSE pc' = "done" /\ outcome' = "applied" /\ UNCHANGED cur

NextCleanup ==
    IF cur < N THEN pc' = "cleanup" /\ cur' = cur + 1 /\ UNCHANGED outcome
               ELSE pc' = "done" /\ outcome' = "applied" /\ UNCHANGED cur

\* Bookkeeping: does unlinking this entry destroy content the host wrote?
Loses(f) == f.data = "host" \/ (f.id > 1 /\ f.data # "base")

Cleanup ==
    /\ pc = "cleanup"
    /\ \/ /\ kind[cur] = "added"
          /\ NextCleanup
          /\ UNCHANGED <<backup, lost, orig, errs>>
       \/ /\ kind[cur] # "added"
          /\ backup' = [backup EXCEPT ![cur] = Absent]
          /\ lost' = IF Loses(backup[cur]) THEN lost \cup {cur} ELSE lost
          /\ Goto("cleanup_sync")
       \/ /\ kind[cur] # "added"
          /\ Finish("cleanup_failed")
          /\ UNCHANGED <<backup, lost>>
    /\ UNCHANGED <<fixed, leaf, temp, export, dirvs, acts, hops, touched,
                   raced>>

CleanupSync ==
    /\ pc = "cleanup_sync"
    /\ \/ NextCleanup /\ UNCHANGED <<orig, errs>>
       \/ Finish("cleanup_failed")
    /\ UNCHANGED <<fixed, tree, export, dirvs, acts, hist>>

-----------------------------------------------------------------------------
(* rollback: the recorded actions in reverse, then the created directories.*)

\* On to the action recorded before this one, or to the directories.
UndoNext ==
    IF cur > 1 THEN pc' = "undo" /\ cur' = cur - 1
               ELSE pc' = "rmdir" /\ UNCHANGED cur

\* Mutant: the action is skipped but the error is not kept.
UndoErrorSilent == UndoNext /\ UNCHANGED <<errs, orig, outcome>>

\* Mutant: the failing action is tried again instead of skipped.
UndoErrorRetry ==
    /\ pc' = "undo" /\ errs' = TRUE
    /\ UNCHANGED <<cur, orig, outcome>>

\* `errors.push(..); continue`
UndoError == UndoNext /\ errs' = TRUE /\ UNCHANGED <<orig, outcome>>

\* Skip a path without an action; otherwise compare the identity at the leaf
\* with the one Guard installed.
Undo ==
    /\ pc = "undo"
    /\ \/ /\ cur \notin pushed
          /\ UndoNext
          /\ UNCHANGED <<orig, errs, outcome>>
       \/ /\ cur \in pushed \ installed
          /\ Goto("undo_restore")
       \/ /\ cur \in installed
          /\ \/ leaf[cur].id = 1 /\ Goto("undo_unlink")
             \/ leaf[cur] = Absent /\ Goto("undo_restore")
             \/ UndoError
    /\ UNCHANGED <<fixed, tree, export, dirvs, acts, hist>>

\* unlinkat removes whatever carries the name by now.
UndoUnlink ==
    /\ pc = "undo_unlink"
    /\ \/ /\ leaf[cur] # Absent
          /\ leaf' = [leaf EXCEPT ![cur] = Absent]
          /\ lost' = IF Loses(leaf[cur]) THEN lost \cup {cur} ELSE lost
          /\ Goto("undo_restore")
       \/ /\ UndoError
          /\ UNCHANGED <<leaf, lost>>
    /\ UNCHANGED <<fixed, backup, temp, export, dirvs, acts, hops, touched,
                   raced>>

\* renameat_with(backup, leaf, NOREPLACE) for actions that have a backup.
UndoRestore ==
    /\ pc = "undo_restore"
    /\ \/ /\ kind[cur] = "added"
          /\ Goto("undo_sync")
          /\ UNCHANGED <<leaf, backup>>
       \/ /\ kind[cur] # "added"
          /\ leaf[cur] = Absent /\ backup[cur] # Absent
          /\ leaf' = [leaf EXCEPT ![cur] = backup[cur]]
          /\ backup' = [backup EXCEPT ![cur] = Absent]
          /\ Goto("undo_sync")
       \/ /\ kind[cur] # "added"
          /\ UndoError
          /\ UNCHANGED <<leaf, backup>>
    /\ UNCHANGED <<fixed, temp, export, dirvs, acts, hist>>

UndoSync ==
    /\ pc = "undo_sync"
    /\ UndoNext
    /\ errs' \in {errs, TRUE}
    /\ UNCHANGED <<orig, outcome>>
    /\ UNCHANGED <<fixed, tree, export, dirvs, acts, hist>>

\* A directory with an entry left in it cannot be removed.
Empty(d) ==
    /\ d \notin clutter
    /\ \A p \in Path : d \in ParentsOf(p) =>
          /\ leaf[p] = Absent /\ backup[p] = Absent /\ temp[p] = Absent
    /\ \A p \in Path : \A i, j \in DOMAIN Chain[p] :
          i < j /\ Chain[p][i] = d => Chain[p][j] \notin dirs

\* unlinkat(REMOVEDIR) for the created directories, last created first.
RemoveDir ==
    /\ pc = "rmdir"
    /\ \/ /\ created = <<>>
          /\ Finish(IF errs THEN "rollback_incomplete" ELSE "rolled_back")
          /\ UNCHANGED <<dirs, created>>
       \/ /\ created # <<>>
          /\ created' = SubSeq(created, 1, Len(created) - 1)
          /\ \/ /\ Empty(created[Len(created)])
                /\ dirs' = dirs \ {created[Len(created)]}
                /\ UNCHANGED errs
             \/ errs' = TRUE /\ UNCHANGED dirs
          /\ UNCHANGED <<pc, cur, orig, outcome>>
    /\ UNCHANGED <<fixed, tree, export, clutter, acts, hist>>

-----------------------------------------------------------------------------
(* The environment.                                                        *)

Running == pc \notin {"done", "crashed"}

\* A kill: nothing recovers the transaction afterwards.
Crash ==
    /\ Running /\ pc' = "crashed"
    /\ UNCHANGED <<cur, orig, errs, outcome>>
    /\ UNCHANGED <<fixed, tree, export, dirvs, acts, hist>>

HostOp ==
    /\ Running
    /\ hops < MaxHostOps
    /\ hops' = hops + 1
    /\ UNCHANGED <<fixed, temp, created, acts, ctl, lost>>

\* Windows in which the code no longer looks at what the host did.
UncheckedLeaf(p) == pc = "undo_unlink" /\ cur = p
Verified(p) == p \in pushed /\ ~(cur = p /\ pc = "verify")

\* Create a file, or replace the one there by renaming another over it.
HostWrite(p, d) ==
    /\ HostOp
    /\ ParentsOf(p) \subseteq dirs
    /\ leaf' = [leaf EXCEPT ![p] = [id |-> 2 + hops, data |-> d]]
    /\ touched' = touched \cup {p}
    /\ raced' = IF UncheckedLeaf(p) THEN raced \cup {p} ELSE raced
    /\ UNCHANGED <<backup, export, dirs, clutter>>

\* Write in place; the file may be Guard's own replacement.
HostEdit(p) ==
    /\ HostOp
    /\ leaf[p] # Absent
    /\ leaf' = [leaf EXCEPT ![p].data = "host"]
    /\ touched' = touched \cup {p}
    /\ raced' = IF leaf[p].id = 1 \/ UncheckedLeaf(p)
                    THEN raced \cup {p} ELSE raced
    /\ UNCHANGED <<backup, export, dirs, clutter>>

\* Write through a descriptor opened before the file was moved aside.
HostEditMoved(p) ==
    /\ HostOp
    /\ backup[p] # Absent
    /\ backup' = [backup EXCEPT ![p].data = "host"]
    /\ touched' = touched \cup {p}
    /\ raced' = IF Verified(p) THEN raced \cup {p} ELSE raced
    /\ UNCHANGED <<leaf, export, dirs, clutter>>

HostDelete(p) ==
    /\ HostOp
    /\ leaf[p] # Absent
    /\ leaf' = [leaf EXCEPT ![p] = Absent]
    /\ touched' = touched \cup {p}
    /\ UNCHANGED <<backup, export, dirs, clutter, raced>>

SpoilExport(p) ==
    /\ HostOp
    /\ kind[p] # "deleted"
    /\ export' = [export EXCEPT ![p] = "host"]
    /\ UNCHANGED <<leaf, backup, dirs, clutter, touched, raced>>

\* Create a directory, or put an unrelated file into one.
HostDirectory(d) ==
    /\ HostOp
    /\ \A p \in Path : \A i, j \in DOMAIN Chain[p] :
          i < j /\ Chain[p][j] = d => Chain[p][i] \in dirs
    /\ dirs' = dirs \cup {d}
    /\ clutter' = clutter \cup (dirs \cap {d})
    /\ UNCHANGED <<leaf, backup, export, touched, raced>>

Guard ==
    \/ Start \/ Precheck
    \/ OpenParent \/ Match \/ CreateTemp \/ CopyTemp
    \/ MoveToBackup \/ VerifyBackup \/ Install \/ SyncParent
    \/ Cleanup \/ CleanupSync
    \/ Undo \/ UndoUnlink \/ UndoRestore \/ UndoSync \/ RemoveDir

Host ==
    \/ \E p \in Path, d \in {"base", "host"} : HostWrite(p, d)
    \/ \E p \in Path : HostEdit(p) \/ HostEditMoved(p) \/ HostDelete(p)
    \/ \E p \in Path : SpoilExport(p)
    \/ \E d \in Dirs : HostDirectory(d)

\* The call has returned or the process is gone.
Ended == ~Running /\ UNCHANGED vars

Next == Guard \/ Host \/ Crash \/ Ended

Spec == Init /\ [][Next]_vars

\* The transaction runs straight through: no step waits for anything.
FairSpec == Spec /\ WF_vars(Guard)

-----------------------------------------------------------------------------
(* Properties.                                                             *)

FilesOK ==
    /\ leaf \in [Path -> File] /\ backup \in [Path -> File]
    /\ temp \in [Path -> File] /\ export \in [Path -> Data]

DirsOK ==
    /\ dirs \subseteq Dirs /\ clutter \subseteq Dirs
    /\ created \in Seq(Dirs)

ControlOK ==
    /\ orig \in Int /\ pc \in Steps /\ cur \in Nat
    /\ pc = "start" => cur = 1
    /\ pc \notin {"start", "done", "crashed"} => cur \in Path
    /\ errs \in BOOLEAN /\ outcome \in Outcomes /\ hops \in Nat

\* Type correctness of the transaction's state: in particular, the cursor is
\* on a change in every loop of apply_exported_changes and rollback.
TypeOK ==
    /\ kind \in [Path -> Kinds] /\ allow \in BOOLEAN
    /\ FilesOK /\ DirsOK /\ ControlOK
    /\ pushed \subseteq Path /\ installed \subseteq pushed
    /\ touched \subseteq Path /\ raced \subseteq touched /\ lost \subseteq Path

\* The staged original of a path is at its name or in its rollback slot.
Recoverable(p) == leaf[p] = Orig \/ backup[p] = Orig

\* The change of a path is in place.
InPlace(p) == leaf[p] = IF kind[p] = "deleted" THEN Absent ELSE Repl

\* Wherever the transaction stops (return, failed rollback or kill), a staged
\* original that no host program touched is gone only when every change is in
\* place: cleanup is the single point of no return (change_apply.rs, the two
\* loops of apply_exported_changes).
BaselineRecoverable ==
    \A p \in Path \ touched :
        kind[p] # "added" /\ ~Recoverable(p) =>
            \A q \in Path \ touched : InPlace(q)

\* Ok(report) means the whole reviewed change set is in the tree and nothing
\* hidden is left beside it.
AppliedExactly ==
    outcome = "applied" =>
        \A p \in Path :
            /\ backup[p] = Absent /\ temp[p] = Absent
            /\ p \notin touched => InPlace(p)

\* A plain error means rollback put every name back as staging saw it, same
\* inode included, emptied every rollback slot and dealt with every directory
\* it had created.
RollbackRestores ==
    outcome = "rolled_back" =>
        /\ created = <<>>
        /\ \A p \in Path :
              /\ backup[p] = Absent
              /\ p \notin touched => leaf[p] = Before(p)

\* Guard never destroys what the host wrote during the transaction, unless it
\* was written in one of the three windows the code cannot see: into Guard's
\* freshly installed file, between rollback's identity check and its unlink,
\* or through an old descriptor into an already verified rollback file.
HostWorkSurvives == lost \subseteq raced

\* A name never shows a half-written or unreviewed file of Guard's, not even
\* after a kill and not when the bundle changed after its first verification.
InstalledIsReviewed ==
    \A p \in Path : leaf[p].id = 1 /\ p \notin touched => leaf[p] = Repl

\* Without the typed deletion authorization no entry of the host tree moves.
DeletionNeedsAuthorization ==
    (\E p \in Path : kind[p] = "deleted") /\ ~allow =>
        \A p \in Path : backup[p] = Absent /\ temp[p] = Absent

\* A Guard step never puts a file over an existing one: the name is free
\* first (RenameFlags::NOREPLACE everywhere).
NeverOverwrites ==
    [][Guard => \A p \in Path :
          leaf[p] # Absent /\ leaf'[p] # leaf[p] => leaf'[p] = Absent]_vars

\* The transaction always comes to an end, rollback included.
Terminates == <>~Running

=============================================================================
