-------------------------- MODULE WorkspaceProofs --------------------------
(***************************************************************************)
(* Proofs about the way of the workspace, for any source tree and any      *)
(* limits of the policy.                                                   *)
(*                                                                         *)
(* The apply transaction, for any number of changes, any directory layout  *)
(* and any amount of host interference: IInv says, for each control state, *)
(* which local state every path is in that no host program touched.  The   *)
(* cursor splits the paths into those already dealt with, the current one  *)
(* and the rest.  LossInv adds what is needed to see that Guard destroys   *)
(* nothing of the host's.                                                  *)
(*                                                                         *)
(* The copy into a stage, with any number of edits meanwhile: StageInv     *)
(* says what an open handle knows of its file.  The file's stamp tells of  *)
(* a change since it was opened, or what was read is its beginning.        *)
(*                                                                         *)
(* The export, by any number of exporters: ExportInv says what a bundle    *)
(* holds of the entries that have been walked.                             *)
(***************************************************************************)
EXTENDS MCWorkspace, FiniteSetTheorems, SequenceTheorems,
        WellFoundedInduction, TLAPS

-----------------------------------------------------------------------------
(* The change-apply transaction.                                           *)

(* The local states a path goes through while no host program acts on it.  *)
Undone(p)  == leaf[p] = Before(p) /\ backup[p] = Absent
Aside(p)   == leaf[p] = Absent /\ backup[p] = Before(p)
Done(p)    == InPlace(p) /\ backup[p] = Before(p)
Cleaned(p) == InPlace(p) /\ backup[p] = Absent

Forward  == {"open", "match", "create", "copy", "move", "verify", "install",
             "sync"}
Cleaning == {"cleanup", "cleanup_sync"}
Undoing  == {"undo", "undo_unlink", "undo_restore", "undo_sync"}

\* What an untouched path looks like after rollback visited it.
Visited(p) ==
    /\ kind[p] # "added" => Recoverable(p)
    /\ errs \/ Undone(p)

\* What rollback relies on when it comes to an untouched path.
Undoable(p) ==
    /\ p \notin pushed => Undone(p)
    /\ p \in pushed \ installed => kind[p] # "added" /\ Aside(p)
    /\ p \in installed => kind[p] # "deleted" /\ Done(p)

\* The cursor splits the paths into finished, current and pending ones.
ForwardInv == \A p \in Path :
    pc \in Forward =>
        /\ p < cur => /\ p \in pushed
                      /\ p \in installed <=> kind[p] # "deleted"
                      /\ p \notin touched => Done(p)
        /\ p > cur => p \notin pushed /\ (p \notin touched => Undone(p))

\* The current path of the apply closure.
CurrentInv ==
    /\ pc \in {"open", "match", "create", "copy", "move"} =>
          cur \notin pushed /\ (cur \notin touched => Undone(cur))
    /\ pc \in {"create", "copy"} => kind[cur] # "deleted"
    /\ pc = "move" => kind[cur] # "added"
    /\ pc = "verify" =>
          /\ cur \in pushed \ installed /\ kind[cur] # "added"
          /\ cur \notin touched => Aside(cur)
    /\ pc = "install" =>
          /\ kind[cur] # "deleted" /\ cur \notin installed
          /\ cur \in pushed <=> kind[cur] # "added"
          /\ cur \notin touched => Aside(cur)
    /\ pc = "sync" =>
          /\ cur \in pushed
          /\ cur \in installed <=> kind[cur] # "deleted"
          /\ cur \notin touched => Done(cur)

\* Transaction files exist only for the current path.
TempInv == \A p \in Path :
    /\ pc \in Forward \cup Cleaning \cup {"start", "check"} /\ p # cur =>
          temp[p] = Absent
    /\ pc \in Cleaning \cup {"start", "check", "open", "match", "create",
                             "sync"} => temp[p] = Absent
    /\ pc \in {"move", "verify"} /\ kind[cur] = "deleted" => temp[p] = Absent
    /\ pc \in {"move", "verify"} /\ kind[cur] = "modified" => temp[cur] = Repl
    /\ pc = "install" => temp[cur] = Repl
    /\ outcome = "applied" => temp[p] = Absent

\* Cleanup removes the rollback files in order.
CleanupInv == \A p \in Path :
    pc \in Cleaning =>
        /\ p \in pushed
        /\ p \notin touched =>
              IF p < cur \/ (p = cur /\ pc = "cleanup_sync")
                  THEN Cleaned(p) ELSE Done(p)
        /\ p < cur \/ (p = cur /\ pc = "cleanup_sync") => backup[p] = Absent

\* Rollback walks the same paths backwards.
UndoAt(p) ==
    /\ pc \in Undoing /\ p \notin touched =>
          /\ p < cur \/ (p = cur /\ pc = "undo") => Undoable(p)
          /\ p > cur => Visited(p)
          /\ p = cur =>
                /\ pc = "undo_unlink" => kind[p] # "deleted" /\ Done(p)
                /\ pc = "undo_restore" => Aside(p)
                /\ pc = "undo_sync" => Undone(p)
    /\ pc = "rmdir" /\ p \notin touched => Visited(p)
    /\ pc \in Undoing /\ p > cur => errs \/ backup[p] = Absent
    /\ pc = "rmdir" => errs \/ backup[p] = Absent
    /\ pc = "undo_sync" /\ p = cur => backup[p] = Absent

UndoInv == \A p \in Path : UndoAt(p)

\* Only a moved path has a rollback file.
BackupInv == \A p \in Path :
    p \notin pushed \/ kind[p] = "added" => backup[p] = Absent

\* Nothing has happened before the first mutation.
QuietInv == \A p \in Path :
    pc \in {"start", "check"} =>
       /\ pushed = {} /\ created = <<>>
       /\ p \notin touched => Undone(p)

\* What the result says of the tree.
OutcomeInv ==
    /\ pc \notin {"done", "crashed"} => outcome = "none"
    /\ pc = "done" => outcome # "none"
    /\ pc = "crashed" => outcome = "none"
    /\ pc = "crashed" => BaselineRecoverable
    /\ outcome = "refused" => \A p \in Path \ touched : Undone(p)
    /\ outcome = "applied" =>
          \A p \in Path :
              backup[p] = Absent /\ (p \notin touched => Cleaned(p))
    /\ outcome = "cleanup_failed" => \A p \in Path \ touched : InPlace(p)
    /\ outcome = "rolled_back" =>
          /\ created = <<>>
          /\ \A p \in Path :
                backup[p] = Absent /\ (p \notin touched => Undone(p))
    /\ outcome = "rollback_incomplete" =>
          \A p \in Path \ touched : kind[p] # "added" => Recoverable(p)

\* The inductive invariant of the transaction.
IInv ==
    /\ TypeOK /\ ForwardInv /\ CurrentInv /\ TempInv /\ CleanupInv
    /\ UndoInv /\ BackupInv /\ QuietInv /\ OutcomeInv

-----------------------------------------------------------------------------
(* What Guard may destroy.                                                 *)

\* Inode 1 is at a name only once Guard put it there, and never in a slot.
ReplacementInv == \A p \in Path :
    /\ leaf[p].id = 1 => p \in installed
    /\ leaf[p].id = 1 /\ p \notin raced => leaf[p].data = "new"
    /\ backup[p].id # 1

\* What rollback is about to unlink is what it looked at.
UnlinkInv ==
    pc = "undo_unlink" /\ cur \notin raced =>
        leaf[cur] = Absent \/ leaf[cur].id = 1

\* A verified rollback file holds what staging saw.
SlotInv == \A p \in pushed \ raced :
    pc \in Forward \cup Cleaning /\ ~(p = cur /\ pc = "verify") =>
        backup[p] = Absent \/ backup[p].data = "base"

\* Only an authorized change set gets past the start.
AuthInv ==
    \/ Authorized
    \/ /\ pc \in {"start", "done", "crashed"}
       /\ \A p \in Path : backup[p] = Absent /\ temp[p] = Absent

LossInv ==
    ReplacementInv /\ UnlinkInv /\ SlotInv /\ HostWorkSurvives /\ AuthInv

-----------------------------------------------------------------------------
\* The distinguished directory entries are entries.
LEMMA Constants ==
    /\ Absent \in File /\ Orig \in File /\ Repl \in File
    /\ [id |-> 1, data |-> "part"] \in File
    /\ \A i \in Int, d \in Data : [id |-> i, data |-> d] \in File
    /\ \A f \in File : f.id \in Int /\ f.data \in Data
  BY DEF Absent, Orig, Repl, File, Data

\* The initial states are type correct.
LEMMA TypeInit == Init => TypeOK
<1> SUFFICES ASSUME Init PROVE TypeOK
  OBVIOUS
<1>1. FilesOK
  BY Constants DEF Init, FilesOK, Before, Data
<1>2. DirsOK
  <2>1. <<>> \in Seq(Dirs)
    OBVIOUS
  <2> QED
    BY <2>1 DEF Init, DirsOK
<1>3. ControlOK
  <2>1. errs \in BOOLEAN
    BY Zenon DEF Init
  <2> QED
    BY <2>1, NAssumption DEF Init, ControlOK, Steps, Outcomes, Path
<1> QED
  BY <1>1, <1>2, <1>3 DEF Init, TypeOK

\* rollback's cursor stays on a path or reaches the directories.
LEMMA UndoCursor ==
  ASSUME cur \in Path, UndoNext
  PROVE  (pc' = "undo" /\ cur' \in Path) \/ (pc' = "rmdir" /\ cur' = cur)
  BY NAssumption DEF Path, UndoNext

\* Every step keeps the control state well typed, the cursor on a path.
LEMMA ControlStep == TypeOK /\ [Next]_vars => ControlOK'
<1> SUFFICES ASSUME TypeOK, [Next]_vars PROVE ControlOK'
  OBVIOUS
<1> USE NAssumption DEF TypeOK, ControlOK, Steps, Outcomes, ctl, hist, Path
<1> USE DEF Goto, Finish, Fail, HostOp
<1>1. CASE Start BY <1>1 DEF Start
<1>2. CASE Precheck BY <1>2 DEF Precheck
<1>3. CASE OpenParent BY <1>3 DEF OpenParent
<1>4. CASE Match BY <1>4, Constants DEF Match, FilesOK
<1>5. CASE CreateTemp \/ CopyTemp \/ MoveToBackup
  BY <1>5 DEF CreateTemp, CopyTemp, MoveToBackup
<1>8. CASE VerifyBackup \/ Install BY <1>8 DEF VerifyBackup, Install
<1>10. CASE SyncParent BY <1>10 DEF SyncParent, NextChange
<1>11. CASE Cleanup BY <1>11 DEF Cleanup, NextCleanup
<1>12. CASE CleanupSync BY <1>12 DEF CleanupSync, NextCleanup
<1>13. CASE Undo \/ UndoUnlink \/ UndoRestore \/ UndoSync
  <2>1. errs' \in BOOLEAN
    BY <1>13, Zenon DEF Undo, UndoUnlink, UndoRestore, UndoSync, UndoError
  <2>2. cur \in Path
    BY <1>13, Zenon DEF Undo, UndoUnlink, UndoRestore, UndoSync
  <2>3. CASE UndoNext /\ UNCHANGED <<orig, outcome, hops>>
    BY <2>1, <2>2, <2>3, UndoCursor
  <2>4. CASE /\ pc' \in {"undo_unlink", "undo_restore", "undo_sync"}
             /\ UNCHANGED <<cur, orig, outcome, hops>>
    BY <2>1, <2>2, <2>4
  <2>5. UNCHANGED hops
    BY <1>13 DEF Undo, UndoUnlink, UndoRestore, UndoSync
  <2> QED
    BY <1>13, <2>3, <2>4, <2>5 DEF Undo, UndoUnlink, UndoRestore,
        UndoSync, UndoError
<1>17. CASE RemoveDir
  <2>1. errs' \in BOOLEAN
    BY <1>17, Zenon DEF RemoveDir
  <2> QED
    BY <1>17, <2>1 DEF RemoveDir
<1>18. CASE Crash BY <1>18 DEF Crash, Running
<1>19. CASE Host
  BY <1>19 DEF Host, HostWrite, HostEdit, HostEditMoved, HostDelete,
      SpoilExport, HostDirectory
<1>25. CASE UNCHANGED vars
  BY <1>25 DEF vars
<1> QED
  BY <1>1, <1>2, <1>3, <1>4, <1>5, <1>8, <1>10, <1>11, <1>12, <1>13, <1>17,
      <1>18, <1>19, <1>25
  DEF Next, Guard, Ended

\* Every step keeps the directory bookkeeping well typed.
LEMMA DirsStep == TypeOK /\ [Next]_vars => DirsOK'
<1> SUFFICES ASSUME TypeOK, [Next]_vars PROVE DirsOK'
  OBVIOUS
<1> USE DEF TypeOK, DirsOK, dirvs
<1>1. CASE OpenParent
  <2>1. cur \in Path
    BY <1>1 DEF OpenParent, ControlOK
  <2>2. \A i \in DOMAIN Chain[cur] : Chain[cur][i] \in Dirs
    BY <2>1, ChainAssumption
  <2> QED
    BY <1>1, <2>2 DEF OpenParent, Missing
<1>2. CASE RemoveDir
  <2>1. created # <<>> => SubSeq(created, 1, Len(created) - 1) \in Seq(Dirs)
    BY SubSeqProperties
  <2>2. created' \in Seq(Dirs)
    BY <1>2, <2>1 DEF RemoveDir
  <2> QED
    BY <1>2, <2>2 DEF RemoveDir
<1>3. CASE Host
  BY <1>3 DEF Host, HostOp, HostWrite, HostEdit, HostEditMoved, HostDelete,
      SpoilExport, HostDirectory
<1>4. CASE UNCHANGED dirvs
  BY <1>4
<1> QED
  BY <1>1, <1>2, <1>3, <1>4
  DEF Next, Guard, Ended, vars, Start, Precheck, Match, CreateTemp,
      CopyTemp, MoveToBackup, VerifyBackup, Install,
     SyncParent, Cleanup, CleanupSync, Undo, UndoUnlink, UndoRestore,
         UndoSync, Crash

\* Every step leaves directory entries behind.
LEMMA FilesStep == TypeOK /\ [Next]_vars => FilesOK'
<1> SUFFICES ASSUME TypeOK, [Next]_vars PROVE FilesOK'
  OBVIOUS
<1> USE Constants DEF TypeOK, FilesOK, tree, DropTemp
<1>1. CASE CreateTemp BY <1>1 DEF CreateTemp
<1>2. CASE CopyTemp BY <1>2 DEF CopyTemp
<1>3. CASE MoveToBackup
  <2>1. /\ backup' \in [Path -> File] /\ leaf' \in [Path -> File]
        /\ UNCHANGED export
    BY <1>3 DEF MoveToBackup
  <2>2. temp' \in [Path -> File]
    BY <1>3 DEF MoveToBackup
  <2> QED
    BY <2>1, <2>2
<1>4. CASE VerifyBackup BY <1>4 DEF VerifyBackup
<1>5. CASE Install BY <1>5 DEF Install
<1>6. CASE Cleanup BY <1>6 DEF Cleanup
<1>7. CASE UndoUnlink BY <1>7 DEF UndoUnlink
<1>8. CASE UndoRestore BY <1>8 DEF UndoRestore
<1>9. CASE Host
  <2> USE DEF HostOp, ControlOK
  <2>1. ASSUME NEW p \in Path, NEW d \in {"base", "host"}, HostWrite(p, d)
        PROVE  FilesOK'
    <3>1. 2 + hops \in Int /\ d \in Data
      BY <2>1 DEF Data
    <3>2. [id |-> 2 + hops, data |-> d] \in File
      BY <3>1 DEF File
    <3> QED
      BY <2>1, <3>2 DEF HostWrite
  <2>2. ASSUME NEW p \in Path, HostEdit(p) PROVE FilesOK'
    BY <2>2 DEF HostEdit, File, Data
  <2>3. ASSUME NEW p \in Path, HostEditMoved(p) PROVE FilesOK'
    BY <2>3 DEF HostEditMoved, File, Data
  <2>4. ASSUME NEW p \in Path, HostDelete(p) PROVE FilesOK'
    BY <2>4 DEF HostDelete
  <2>5. ASSUME NEW p \in Path, SpoilExport(p) PROVE FilesOK'
    BY <2>5 DEF SpoilExport, Data
  <2>6. ASSUME NEW d \in Dirs, HostDirectory(d) PROVE FilesOK'
    BY <2>6 DEF HostDirectory
  <2> QED
    BY <1>9, <2>1, <2>2, <2>3, <2>4, <2>5, <2>6 DEF Host
<1>10. CASE UNCHANGED <<tree, export>>
  BY <1>10
<1> QED
  BY <1>1, <1>2, <1>3, <1>4, <1>5, <1>6, <1>7, <1>8, <1>9, <1>10
  DEF Next, Guard, Ended, vars, Start, Precheck, OpenParent, Match,
     SyncParent, CleanupSync, Undo, UndoSync, RemoveDir, Crash

\* Type correctness is inductive.
LEMMA TypeStep == TypeOK /\ [Next]_vars => TypeOK'
<1> SUFFICES ASSUME TypeOK, [Next]_vars PROVE TypeOK'
  OBVIOUS
<1>1. FilesOK' /\ DirsOK' /\ ControlOK'
  BY FilesStep, DirsStep, ControlStep
<1>2. (kind \in [Path -> Kinds] /\ allow \in BOOLEAN)'
  BY DEF TypeOK, Next, Guard, Host, Ended, vars, fixed, Start, Precheck,
      OpenParent, Match,
     SyncParent, Cleanup, CleanupSync, Undo, UndoSync, RemoveDir, Crash,
         CreateTemp, CopyTemp, MoveToBackup, VerifyBackup, Install,
     UndoUnlink, UndoRestore, HostOp, HostWrite, HostEdit, HostEditMoved,
         HostDelete, SpoilExport, HostDirectory
<1>3. (pushed \subseteq Path /\ installed \subseteq pushed)'
  BY DEF TypeOK, ControlOK, Next, Guard, Host, Ended, vars, acts, Start,
      Precheck, OpenParent, Match,
     SyncParent, Cleanup, CleanupSync, Undo, UndoSync, RemoveDir, Crash,
         CreateTemp, CopyTemp, MoveToBackup, VerifyBackup, Install,
     UndoUnlink, UndoRestore, HostOp, HostWrite, HostEdit, HostEditMoved,
         HostDelete, SpoilExport, HostDirectory
<1>4. (/\ touched \subseteq Path /\ raced \subseteq touched
       /\ lost \subseteq Path)'
  BY DEF TypeOK, ControlOK, Next, Guard, Host, Ended, vars, hist, Start,
      Precheck, OpenParent, Match,
     SyncParent, Cleanup, CleanupSync, Undo, UndoSync, RemoveDir, Crash,
         CreateTemp, CopyTemp, MoveToBackup, VerifyBackup, Install,
     UndoUnlink, UndoRestore, HostOp, HostWrite, HostEdit, HostEditMoved,
         HostDelete, SpoilExport, HostDirectory
<1> QED
  BY <1>1, <1>2, <1>3, <1>4 DEF TypeOK

-----------------------------------------------------------------------------
(* The inductive step, one lemma per action.                               *)

\* No file, the original and the replacement can be told apart.
LEMMA Distinct == Absent # Orig /\ Absent # Repl /\ Orig # Repl
  BY DEF Absent, Orig, Repl

\* Whenever the apply closure may fail, rollback finds what it relies on:
\* every path up to the cursor can be undone, the others are as staged.
LEMMA ForwardUndoable ==
  ASSUME IInv, pc \in Forward, NEW p \in Path
  PROVE  /\ p \notin touched /\ p <= cur => Undoable(p)
         /\ p > cur => p \notin pushed /\ backup[p] = Absent
         /\ p \notin touched /\ p > cur => Undone(p)
<1> USE NAssumption, Distinct DEF IInv, TypeOK, ControlOK, Path
<1>1. p > cur => p \notin pushed /\ (p \notin touched => Undone(p))
  BY DEF ForwardInv
<1>2. p > cur => backup[p] = Absent
  BY <1>1 DEF BackupInv
<1>3. ASSUME p < cur, p \notin touched PROVE Undoable(p)
  BY <1>3 DEF ForwardInv, Undoable, Done, Aside, InPlace, Before
<1>4. ASSUME p = cur, p \notin touched PROVE Undoable(p)
  BY <1>4 DEF CurrentInv, Forward, Undoable, Done, Undone, Aside, InPlace,
      Before
<1> QED
  BY <1>1, <1>2, <1>3, <1>4

\* In every control state the originals are recoverable, or all changes are
\* in place.
LEMMA RunningRecoverable == IInv => BaselineRecoverable
<1> SUFFICES ASSUME IInv, NEW p \in Path \ touched, kind[p] # "added",
                    ~Recoverable(p), NEW q \in Path \ touched
             PROVE  InPlace(q)
  BY DEF BaselineRecoverable
<1> USE Distinct, NAssumption DEF IInv, TypeOK, ControlOK, Path, Recoverable,
    Undone, Before
<1>1. pc \notin {"start", "check"}
  BY DEF QuietInv
<1>2. pc \notin Forward
  BY ForwardUndoable DEF Undoable, Aside, Done
<1>3. pc \in Cleaning => InPlace(q)
  BY DEF CleanupInv, Cleaned, Done
<1>4. pc \notin Undoing
  BY DEF UndoInv, UndoAt, Undoable, Visited, Undoing, Aside, Done
<1>5. pc # "rmdir"
  BY DEF UndoInv, UndoAt, Visited
<1>6. pc = "done" => InPlace(q)
  BY DEF OutcomeInv, Outcomes, Cleaned
<1>7. pc = "crashed" => InPlace(q)
  BY DEF OutcomeInv, BaselineRecoverable
<1> QED
  BY <1>1, <1>2, <1>3, <1>4, <1>5, <1>6, <1>7 DEF Steps, Forward, Cleaning,
      Undoing

\* The host only changes paths it marks as touched, and never makes a
\* rollback file appear or vanish.
LEMMA HostFrame ==
  ASSUME TypeOK, Host
  PROVE  /\ UNCHANGED <<kind, pc, cur, errs, outcome, temp, pushed,
                       installed, created>>
         /\ touched \subseteq touched'
         /\ \A q \in Path :
               q \notin touched' => UNCHANGED <<leaf[q], backup[q]>>
         /\ \A q \in Path : backup'[q] = Absent <=> backup[q] = Absent
<1> USE DEF TypeOK, FilesOK, HostOp, ctl, acts, fixed
<1>1. ASSUME NEW p \in Path, HostEditMoved(p)
      PROVE  /\ backup[p] # Absent /\ backup'[p] # Absent
             /\ \A q \in Path : q # p => UNCHANGED backup[q]
  BY <1>1, Constants DEF HostEditMoved, Absent, File
<1> QED
  BY <1>1 DEF Host, HostWrite, HostEdit, HostEditMoved, HostDelete,
      SpoilExport, HostDirectory

\* Moving rollback to the previous action keeps its invariant, provided the
\* path left behind is dealt with or an error is on record.
LEMMA UndoAdvance ==
  ASSUME IInv, pc \in Undoing, UndoNext,
         UNCHANGED <<kind, touched, pushed, installed>>, errs => errs',
         \A p \in Path : p # cur => UNCHANGED <<leaf[p], backup[p]>>,
         \A p \in Path : p = cur /\ p \notin touched => Visited(p)',
         errs' \/ backup'[cur] = Absent
  PROVE  UndoInv'
<1> USE NAssumption, Distinct DEF IInv, TypeOK, ControlOK, Path, Undoing
<1> SUFFICES ASSUME NEW p \in Path PROVE UndoAt(p)'
  BY DEF UndoInv
<1> USE DEF UndoAt
<1>0. UndoAt(p)
  BY DEF UndoInv
<1>1. CASE p = cur
  BY <1>1 DEF UndoNext
<1>2. CASE p < cur
  <2>1. p \notin touched => Undoable(p)
    BY <1>0, <1>2
  <2>2. p \notin touched => Undoable(p)'
    BY <2>1, <1>2 DEF Undoable, Done, Aside, Undone, InPlace, Before
  <2> QED
    BY <1>2, <2>2 DEF UndoNext
<1>3. CASE p > cur
  <2>1. p \notin touched => Visited(p)
    BY <1>0, <1>3
  <2>2. p \notin touched => Visited(p)'
    BY <2>1, <1>3 DEF Visited, Recoverable, Undone, Before
  <2>3. errs' \/ backup'[p] = Absent
    BY <1>0, <1>3
  <2> QED
    BY <1>3, <2>2, <2>3 DEF UndoNext
<1> QED
  BY <1>1, <1>2, <1>3

\* An error of the apply closure hands rollback a tree it can undo.
LEMMA FailUndo ==
  ASSUME IInv, pc \in Forward, pc' = "undo",
         UNCHANGED <<cur, kind, leaf, backup, pushed, installed, touched,
                     errs>>
  PROVE  UndoInv'
<1> SUFFICES ASSUME NEW p \in Path, p \notin touched, p > cur
             PROVE  Visited(p)
  BY ForwardUndoable, NAssumption DEF UndoInv, UndoAt, Undoing, Visited,
      Undoable, Undone, Done, Aside, InPlace, Before, Recoverable, Path,
      IInv, TypeOK, ControlOK
<1> QED
  BY ForwardUndoable DEF Visited, Recoverable, Undone, Before

\* Start preserves the inductive invariant.
LEMMA StartStep ==
  ASSUME IInv, TypeOK', Start
  PROVE  IInv'
<1> USE NAssumption, Distinct DEF IInv, TypeOK, ControlOK, FilesOK, Start,
    Goto, Finish, fixed, tree, dirvs, acts, hist, Path
<1> USE DEF Undone, Done, InPlace, Before
<1>1. ForwardInv' /\ CurrentInv'
  BY DEF ForwardInv, Forward, CurrentInv, Aside
<1>2. TempInv' /\ BackupInv' /\ QuietInv'
  BY DEF TempInv, CurrentInv, Forward, Cleaning, Aside, BackupInv, QuietInv
<1>3. CleanupInv' /\ UndoInv' /\ OutcomeInv'
  BY DEF CleanupInv, ForwardInv, CurrentInv, Forward, Cleaning, Cleaned,
      Aside, UndoInv, UndoAt, BackupInv, Undoing, Undoable, Visited,
      OutcomeInv, QuietInv, TempInv, BaselineRecoverable, Recoverable
<1> QED
  BY <1>1, <1>2, <1>3

\* Precheck preserves the inductive invariant.
LEMMA PrecheckStep ==
  ASSUME IInv, TypeOK', Precheck
  PROVE  IInv'
<1> USE NAssumption, Distinct DEF IInv, TypeOK, ControlOK, FilesOK, Precheck,
    Finish, fixed, tree, dirvs, acts, hist, Path
<1> USE DEF Undone, Done, InPlace, Before
<1>1. ForwardInv' /\ CurrentInv'
  BY DEF ForwardInv, Forward, QuietInv, CurrentInv, Aside
<1>2. TempInv' /\ BackupInv' /\ QuietInv'
  BY DEF TempInv, CurrentInv, Forward, Cleaning, Aside, BackupInv, QuietInv
<1>3. CleanupInv' /\ UndoInv' /\ OutcomeInv'
  BY DEF CleanupInv, ForwardInv, CurrentInv, Forward, Cleaning, Cleaned,
      Aside, UndoInv, UndoAt, BackupInv, Undoing, Undoable, Visited,
      OutcomeInv, QuietInv, TempInv, BaselineRecoverable, Recoverable
<1> QED
  BY <1>1, <1>2, <1>3

\* OpenParent preserves the inductive invariant.
LEMMA OpenParentStep ==
  ASSUME IInv, TypeOK', OpenParent
  PROVE  IInv'
<1> USE NAssumption, Distinct DEF IInv, TypeOK, ControlOK, FilesOK,
    OpenParent, Goto, Fail, ctl, fixed, tree, dirvs, acts, hist, Path
<1> USE DEF Undone, Done, InPlace, Before
<1>1. ForwardInv' /\ CurrentInv'
  BY DEF ForwardInv, Forward, CurrentInv, Aside
<1>2. TempInv' /\ BackupInv' /\ QuietInv'
  BY DEF TempInv, CurrentInv, Forward, Cleaning, Aside, BackupInv, QuietInv
<1>3. CleanupInv' /\ UndoInv' /\ OutcomeInv'
  BY FailUndo DEF CleanupInv, ForwardInv, CurrentInv, Forward, Cleaning,
      Cleaned, Aside, UndoInv, UndoAt, Undoing, OutcomeInv, QuietInv,
      TempInv, BackupInv, Undoable, Visited, BaselineRecoverable,
      Recoverable
<1> QED
  BY <1>1, <1>2, <1>3

\* Match preserves the inductive invariant.
LEMMA MatchStep ==
  ASSUME IInv, TypeOK', Match
  PROVE  IInv'
<1> USE NAssumption, Distinct DEF IInv, TypeOK, ControlOK, FilesOK, Match,
    Goto, Fail, fixed, tree, dirvs, acts, hist, Path
<1> USE DEF Undone, Done, InPlace, Before
<1>1. ForwardInv' /\ CurrentInv'
  BY DEF ForwardInv, Forward, CurrentInv, Aside
<1>2. TempInv' /\ BackupInv' /\ QuietInv'
  BY DEF TempInv, CurrentInv, Forward, Cleaning, Aside, BackupInv, QuietInv
<1>3. CleanupInv' /\ UndoInv' /\ OutcomeInv'
  BY FailUndo DEF CleanupInv, ForwardInv, CurrentInv, Forward, Cleaning,
      Cleaned, Aside, UndoInv, UndoAt, Undoing, OutcomeInv, QuietInv,
      TempInv, BackupInv, Undoable, Visited, BaselineRecoverable,
      Recoverable
<1> QED
  BY <1>1, <1>2, <1>3

\* CreateTemp preserves the inductive invariant.
LEMMA CreateTempStep ==
  ASSUME IInv, TypeOK', CreateTemp
  PROVE  IInv'
<1> USE NAssumption, Distinct DEF IInv, TypeOK, ControlOK, FilesOK,
    CreateTemp, Goto, Fail, fixed, tree, dirvs, acts, hist, Path
<1> USE DEF Undone, Done, InPlace, Before
<1>1. ForwardInv' /\ CurrentInv'
  BY DEF ForwardInv, Forward, CurrentInv, Aside
<1>2. TempInv' /\ BackupInv' /\ QuietInv'
  BY DEF TempInv, CurrentInv, OutcomeInv, Forward, Cleaning, BackupInv,
      Aside, QuietInv
<1>3. CleanupInv' /\ UndoInv' /\ OutcomeInv'
  BY FailUndo DEF CleanupInv, ForwardInv, CurrentInv, Forward, Cleaning,
      Cleaned, Aside, UndoInv, UndoAt, Undoing, OutcomeInv, QuietInv,
      TempInv, BackupInv, Undoable, Visited, BaselineRecoverable,
      Recoverable
<1> QED
  BY <1>1, <1>2, <1>3

\* CopyTemp preserves the inductive invariant.
LEMMA CopyTempStep ==
  ASSUME IInv, TypeOK', CopyTemp
  PROVE  IInv'
<1> USE NAssumption, Distinct DEF IInv, TypeOK, ControlOK, FilesOK, CopyTemp,
    Goto, Fail, DropTemp, fixed, tree, dirvs, acts, hist, Path
<1> USE DEF Undone, Done, InPlace, Before
<1>1. ForwardInv' /\ CurrentInv'
  BY DEF ForwardInv, Forward, CurrentInv, Aside
<1>2. TempInv' /\ BackupInv' /\ QuietInv'
  BY DEF TempInv, CurrentInv, OutcomeInv, Forward, Cleaning, Repl, Kinds,
      BackupInv, Aside, QuietInv
<1>3. CleanupInv' /\ UndoInv' /\ OutcomeInv'
  BY FailUndo DEF CleanupInv, ForwardInv, CurrentInv, Forward, Cleaning,
      Cleaned, Aside, UndoInv, UndoAt, Undoing, OutcomeInv, QuietInv,
      TempInv, BackupInv, Undoable, Visited, BaselineRecoverable,
      Recoverable
<1> QED
  BY <1>1, <1>2, <1>3

\* MoveToBackup preserves the inductive invariant.
LEMMA MoveToBackupStep ==
  ASSUME IInv, TypeOK', MoveToBackup
  PROVE  IInv'
<1> USE NAssumption, Distinct DEF IInv, TypeOK, ControlOK, FilesOK,
    MoveToBackup, Goto, Fail, DropTemp, fixed, tree, dirvs, acts, hist, Path
<1> USE DEF Undone, Done, InPlace, Before
<1>1. ForwardInv'
  <2>1. CASE pc' = "verify"
    <3> SUFFICES ASSUME NEW p \in Path, p # cur
                 PROVE  /\ UNCHANGED <<leaf[p], backup[p], kind[p]>>
                        /\ p \in pushed' <=> p \in pushed
      BY <2>1 DEF ForwardInv, Forward
    <3> QED
      BY <2>1
  <2>2. CASE pc' = "undo"
    BY <2>2 DEF ForwardInv, Forward
  <2> QED
    BY <2>1, <2>2
<1>2. CurrentInv'
  BY DEF CurrentInv, ForwardInv, Forward, Aside
<1>3. TempInv' /\ BackupInv' /\ QuietInv'
  BY DEF TempInv, CurrentInv, Forward, Cleaning, Aside, BackupInv, QuietInv
<1>4. CleanupInv' /\ UndoInv' /\ OutcomeInv'
  BY FailUndo DEF CleanupInv, ForwardInv, CurrentInv, Forward, Cleaning,
      Cleaned, Aside, UndoInv, UndoAt, Undoing, OutcomeInv, QuietInv,
      TempInv, BackupInv, Undoable, Visited, BaselineRecoverable,
      Recoverable
<1> QED
  BY <1>1, <1>2, <1>3, <1>4

\* VerifyBackup preserves the inductive invariant.
LEMMA VerifyBackupStep ==
  ASSUME IInv, TypeOK', VerifyBackup
  PROVE  IInv'
<1> USE NAssumption, Distinct DEF IInv, TypeOK, ControlOK, FilesOK,
    VerifyBackup, Goto, Fail, DropTemp, fixed, tree, dirvs, acts, hist, Path
<1> USE DEF Undone, Done, InPlace, Before
<1>1. ForwardInv' /\ CurrentInv'
  BY DEF ForwardInv, Forward, CurrentInv, Aside, Kinds
<1>2. TempInv' /\ BackupInv' /\ QuietInv'
  BY DEF TempInv, CurrentInv, OutcomeInv, Forward, Cleaning, Kinds,
      BackupInv, Aside, QuietInv
<1>3. CleanupInv' /\ UndoInv' /\ OutcomeInv'
  BY FailUndo DEF CleanupInv, ForwardInv, CurrentInv, Forward, Cleaning,
      Cleaned, Aside, UndoInv, UndoAt, Undoing, OutcomeInv, QuietInv,
      TempInv, BackupInv, Undoable, Visited, BaselineRecoverable,
      Recoverable
<1> QED
  BY <1>1, <1>2, <1>3

\* Install preserves the inductive invariant.
LEMMA InstallStep ==
  ASSUME IInv, TypeOK', Install
  PROVE  IInv'
<1> USE NAssumption, Distinct DEF IInv, TypeOK, ControlOK, FilesOK, Install,
    Goto, Fail, DropTemp, fixed, tree, dirvs, acts, hist, Path
<1> USE DEF Undone, Done, InPlace, Before
<1>1. ForwardInv'
  <2>1. CASE pc' = "sync"
    <3> SUFFICES ASSUME NEW p \in Path, p # cur
                 PROVE  /\ UNCHANGED <<leaf[p], backup[p], kind[p]>>
                        /\ p \in pushed' <=> p \in pushed
                        /\ p \in installed' <=> p \in installed
      BY <2>1 DEF ForwardInv, Forward
    <3> QED
      BY <2>1
  <2>2. CASE pc' = "undo"
    BY <2>2 DEF ForwardInv, Forward
  <2> QED
    BY <2>1, <2>2
<1>2. CurrentInv'
  BY DEF CurrentInv, TempInv, Aside
<1>3. TempInv' /\ BackupInv' /\ QuietInv'
  BY DEF TempInv, CurrentInv, Forward, Cleaning, Aside, BackupInv, QuietInv
<1>4. CleanupInv' /\ UndoInv' /\ OutcomeInv'
  BY FailUndo DEF CleanupInv, ForwardInv, CurrentInv, Forward, Cleaning,
      Cleaned, Aside, UndoInv, UndoAt, Undoing, OutcomeInv, QuietInv,
      TempInv, BackupInv, Undoable, Visited, BaselineRecoverable,
      Recoverable
<1> QED
  BY <1>1, <1>2, <1>3, <1>4

\* SyncParent preserves the inductive invariant.
LEMMA SyncParentStep ==
  ASSUME IInv, TypeOK', SyncParent
  PROVE  IInv'
<1> USE NAssumption, Distinct DEF IInv, TypeOK, ControlOK, FilesOK,
    SyncParent, NextChange, Fail, fixed, tree, dirvs, acts, hist, Path
<1> USE DEF Undone, Done, InPlace, Before
<1>1. ForwardInv' /\ CurrentInv'
  BY DEF ForwardInv, CurrentInv, Forward, Aside
<1>2. TempInv' /\ BackupInv' /\ QuietInv'
  BY DEF TempInv, CurrentInv, Forward, Cleaning, Aside, BackupInv, QuietInv
<1>3. CleanupInv' /\ UndoInv' /\ OutcomeInv'
  BY FailUndo DEF CleanupInv, ForwardInv, CurrentInv, Forward, Cleaning,
      Cleaned, Aside, UndoInv, UndoAt, Undoing, OutcomeInv, QuietInv,
      TempInv, BackupInv, Undoable, Visited, BaselineRecoverable,
      Recoverable
<1> QED
  BY <1>1, <1>2, <1>3

\* Cleanup preserves the inductive invariant.
LEMMA CleanupStep ==
  ASSUME IInv, TypeOK', Cleanup
  PROVE  IInv'
<1> USE NAssumption, Distinct DEF IInv, TypeOK, ControlOK, FilesOK, Cleanup,
    NextCleanup, Goto, Finish, fixed, tree, dirvs, acts, hist, Path
<1> USE DEF Undone, Done, InPlace, Before
<1>1. ForwardInv' /\ CurrentInv'
  BY DEF ForwardInv, Forward, CurrentInv, Aside
<1>2. TempInv' /\ BackupInv' /\ QuietInv'
  BY DEF TempInv, CurrentInv, Forward, Cleaning, Aside, BackupInv, QuietInv
<1>3. UndoInv' /\ OutcomeInv'
  BY DEF UndoInv, UndoAt, ForwardInv, CurrentInv, BackupInv, Forward,
      Undoing, Undoable, Visited, Aside, OutcomeInv, CleanupInv, QuietInv,
      TempInv, Cleaning, Cleaned, BaselineRecoverable, Recoverable
<1>4. CleanupInv'
  <2>1. CASE kind[cur] = "added"
    <3>1. backup[cur] = Absent
      BY <2>1 DEF BackupInv
    <3> QED
      BY <2>1, <3>1 DEF CleanupInv, Cleaning, Cleaned
  <2>2. CASE kind[cur] # "added"
    <3>1. \A p \in Path : /\ UNCHANGED <<leaf[p], kind>>
                           /\ p # cur => UNCHANGED backup[p]
      BY <2>2
    <3> QED
      BY <2>2, <3>1 DEF CleanupInv, Cleaning, Cleaned
  <2> QED
    BY <2>1, <2>2
<1> QED
  BY <1>1, <1>2, <1>3, <1>4

\* CleanupSync preserves the inductive invariant.
LEMMA CleanupSyncStep ==
  ASSUME IInv, TypeOK', CleanupSync
  PROVE  IInv'
<1> USE NAssumption, Distinct DEF IInv, TypeOK, ControlOK, FilesOK,
    CleanupSync, NextCleanup, Finish, fixed, tree, dirvs, acts, hist, Path
<1> USE DEF Undone, Done, InPlace, Before
<1>1. ForwardInv' /\ CurrentInv'
  BY DEF ForwardInv, Forward, CurrentInv, Aside
<1>2. TempInv' /\ BackupInv' /\ QuietInv'
  BY DEF TempInv, CurrentInv, Forward, Cleaning, Aside, BackupInv, QuietInv
<1>3. CleanupInv' /\ UndoInv' /\ OutcomeInv'
  BY DEF CleanupInv, ForwardInv, CurrentInv, Forward, Cleaning, Cleaned,
      Aside, UndoInv, UndoAt, BackupInv, Undoing, Undoable, Visited,
      OutcomeInv, QuietInv, TempInv, BaselineRecoverable, Recoverable
<1> QED
  BY <1>1, <1>2, <1>3

\* Undo preserves the inductive invariant.
LEMMA UndoStep ==
  ASSUME IInv, TypeOK', Undo
  PROVE  IInv'
<1> USE NAssumption, Distinct DEF IInv, TypeOK, ControlOK, FilesOK, Undo,
    UndoNext, UndoError, Goto, fixed, tree, dirvs, acts, hist, Path
<1> USE DEF Undone, Done, InPlace, Before
<1>1. ForwardInv' /\ CurrentInv'
  BY DEF ForwardInv, Forward, CurrentInv, Aside
<1>2. TempInv' /\ BackupInv' /\ QuietInv'
  BY DEF TempInv, CurrentInv, Forward, Cleaning, Aside, BackupInv, QuietInv
<1>3. CleanupInv' /\ OutcomeInv'
  BY DEF CleanupInv, ForwardInv, CurrentInv, Forward, Cleaning, Cleaned,
      Aside, OutcomeInv, UndoInv, UndoAt, QuietInv, TempInv, BackupInv,
      Undoing, Undoable, Visited, BaselineRecoverable, Recoverable
<1>4. UndoInv'
  <2>1. cur \notin touched => Undoable(cur)
    BY DEF UndoInv, UndoAt, Undoing
  <2>2. CASE cur \notin pushed /\ UndoNext /\ UNCHANGED errs
    <3>1. backup[cur] = Absent
      BY <2>2 DEF BackupInv
    <3>2. \A p \in Path : p = cur /\ p \notin touched => Visited(p)'
      BY <2>1, <2>2, <3>1 DEF Undoable, Visited, Recoverable
    <3> QED
      BY <2>2, <3>1, <3>2, UndoAdvance DEF Undoing
  <2>3. CASE cur \in installed /\ UndoError
    <3>1. errs' = TRUE
      BY <2>3 DEF UndoError
    <3>2. \A p \in Path : p = cur /\ p \notin touched => Visited(p)'
      BY <2>1, <2>3, <3>1 DEF Undoable, Visited, Recoverable
    <3> QED
      BY <2>3, <3>1, <3>2, UndoAdvance DEF Undoing
  <2>4. CASE pc' = "undo_unlink" /\ cur \in installed
    BY <2>1, <2>4 DEF UndoInv, UndoAt, Undoing, Undoable, Visited,
        Recoverable, Aside
  <2>5. CASE pc' = "undo_restore" /\ cur \in pushed \ installed
    BY <2>1, <2>5 DEF UndoInv, UndoAt, Undoing, Undoable, Visited,
        Recoverable, Aside
  <2>6. CASE pc' = "undo_restore" /\ cur \in installed /\ leaf[cur] = Absent
    BY <2>1, <2>6 DEF UndoInv, UndoAt, Undoing, Undoable, Visited,
        Recoverable, Aside
  <2> QED
    BY <2>2, <2>3, <2>4, <2>5, <2>6
<1> QED
  BY <1>1, <1>2, <1>3, <1>4

\* UndoUnlink preserves the inductive invariant.
LEMMA UndoUnlinkStep ==
  ASSUME IInv, TypeOK', UndoUnlink
  PROVE  IInv'
<1> USE NAssumption, Distinct DEF IInv, TypeOK, ControlOK, FilesOK,
    UndoUnlink, UndoNext, UndoError, Goto, fixed, tree, dirvs, acts, hist,
    Path
<1> USE DEF Undone, Done, InPlace, Before
<1>1. ForwardInv' /\ CurrentInv'
  BY DEF ForwardInv, Forward, CurrentInv, Aside
<1>2. TempInv' /\ BackupInv' /\ QuietInv'
  BY DEF TempInv, CurrentInv, Forward, Cleaning, Aside, BackupInv, QuietInv
<1>3. CleanupInv' /\ OutcomeInv'
  BY DEF CleanupInv, ForwardInv, CurrentInv, Forward, Cleaning, Cleaned,
      Aside, OutcomeInv, UndoInv, UndoAt, QuietInv, TempInv, BackupInv,
      Undoing, Undoable, Visited, BaselineRecoverable, Recoverable
<1>4. UndoInv'
  <2>1. cur \notin touched => kind[cur] # "deleted" /\ Done(cur)
    BY DEF UndoInv, UndoAt, Undoing
  <2>2. CASE UndoError
    <3>1. errs' = TRUE
      BY <2>2 DEF UndoError
    <3>2. \A p \in Path : p = cur /\ p \notin touched => Visited(p)'
      BY <2>1, <2>2, <3>1 DEF Visited, Recoverable
    <3> QED
      BY <2>2, <3>1, <3>2, UndoAdvance DEF Undoing
  <2>3. CASE pc' = "undo_restore"
    <3>1. \A p \in Path : UNCHANGED backup[p] /\ (p # cur => UNCHANGED leaf[p])
      BY <2>3
    <3>2. leaf'[cur] = Absent
      BY <2>3
    <3> QED
      BY <2>1, <2>3, <3>1, <3>2 DEF UndoInv, UndoAt, Undoing, Undoable,
          Visited, Recoverable, Aside
  <2> QED
    BY <2>2, <2>3
<1> QED
  BY <1>1, <1>2, <1>3, <1>4

\* UndoRestore preserves the inductive invariant.
LEMMA UndoRestoreStep ==
  ASSUME IInv, TypeOK', UndoRestore
  PROVE  IInv'
<1> USE NAssumption, Distinct DEF IInv, TypeOK, ControlOK, FilesOK,
    UndoRestore, UndoNext, UndoError, Goto, fixed, tree, dirvs, acts, hist,
    Path
<1> USE DEF Undone, Done, InPlace, Before
<1>1. ForwardInv' /\ CurrentInv'
  BY DEF ForwardInv, Forward, CurrentInv, Aside
<1>2. TempInv' /\ BackupInv' /\ QuietInv'
  BY DEF TempInv, CurrentInv, Forward, Cleaning, Aside, BackupInv, QuietInv
<1>3. CleanupInv' /\ OutcomeInv'
  BY DEF CleanupInv, ForwardInv, CurrentInv, Forward, Cleaning, Cleaned,
      Aside, OutcomeInv, UndoInv, UndoAt, QuietInv, TempInv, BackupInv,
      Undoing, Undoable, Visited, BaselineRecoverable, Recoverable
<1>4. UndoInv'
  <2>1. cur \notin touched => Aside(cur)
    BY DEF UndoInv, UndoAt, Undoing
  <2>2. CASE UndoError
    <3>1. errs' = TRUE
      BY <2>2 DEF UndoError
    <3>2. \A p \in Path : p = cur /\ p \notin touched => Visited(p)'
      BY <2>1, <2>2, <3>1 DEF Visited, Recoverable, Aside
    <3> QED
      BY <2>2, <3>1, <3>2, UndoAdvance DEF Undoing
  <2>3. CASE pc' = "undo_sync"
    <3>1. \A p \in Path : p # cur => UNCHANGED <<leaf[p], backup[p]>>
      BY <2>3
    <3>2. backup'[cur] = Absent
      BY <2>3 DEF BackupInv
    <3>3. cur \notin touched => Undone(cur)'
      BY <2>1, <2>3, <3>2 DEF Aside
    <3> QED
      BY <2>1, <2>3, <3>1, <3>2, <3>3 DEF UndoInv, UndoAt, Undoing,
          Undoable, Visited, Recoverable, Aside
  <2> QED
    BY <2>2, <2>3
<1> QED
  BY <1>1, <1>2, <1>3, <1>4

\* UndoSync preserves the inductive invariant.
LEMMA UndoSyncStep ==
  ASSUME IInv, TypeOK', UndoSync
  PROVE  IInv'
<1> USE NAssumption, Distinct DEF IInv, TypeOK, ControlOK, FilesOK, UndoSync,
    UndoNext, fixed, tree, dirvs, acts, hist, Path
<1> USE DEF Undone, Done, InPlace, Before
<1>1. ForwardInv' /\ CurrentInv'
  BY DEF ForwardInv, Forward, CurrentInv, Aside
<1>2. TempInv' /\ BackupInv' /\ QuietInv'
  BY DEF TempInv, CurrentInv, Forward, Cleaning, Aside, BackupInv, QuietInv
<1>3. CleanupInv' /\ OutcomeInv'
  BY DEF CleanupInv, ForwardInv, CurrentInv, Forward, Cleaning, Cleaned,
      Aside, OutcomeInv, UndoInv, UndoAt, QuietInv, TempInv, BackupInv,
      Undoing, Undoable, Visited, BaselineRecoverable, Recoverable
<1>4. UndoInv'
  <2>1. cur \notin touched => Undone(cur)
    BY DEF UndoInv, UndoAt, Undoing
  <2>2. backup[cur] = Absent
    BY DEF UndoInv, UndoAt
  <2>3. \A p \in Path : p = cur /\ p \notin touched => Visited(p)'
    BY <2>1 DEF Visited, Recoverable
  <2>4. errs => errs'
    BY Zenon
  <2> QED
    BY <2>2, <2>3, <2>4, UndoAdvance DEF Undoing
<1> QED
  BY <1>1, <1>2, <1>3, <1>4

\* RemoveDir preserves the inductive invariant.
LEMMA RemoveDirStep ==
  ASSUME IInv, TypeOK', RemoveDir
  PROVE  IInv'
<1> USE NAssumption, Distinct DEF IInv, TypeOK, ControlOK, FilesOK, RemoveDir,
    Finish, fixed, tree, dirvs, acts, hist, Path
<1> USE DEF Undone, Done, InPlace, Before
<1>1. ForwardInv' /\ CurrentInv'
  BY DEF ForwardInv, Forward, CurrentInv, Aside
<1>2. TempInv' /\ BackupInv' /\ QuietInv'
  BY DEF TempInv, CurrentInv, Forward, Cleaning, Aside, BackupInv, QuietInv
<1>3. CleanupInv' /\ UndoInv' /\ OutcomeInv'
  BY DEF CleanupInv, ForwardInv, CurrentInv, Forward, Cleaning, Cleaned,
      Aside, UndoInv, UndoAt, Undoing, Visited, Recoverable, OutcomeInv,
      QuietInv, TempInv, BackupInv, Undoable, BaselineRecoverable
<1> QED
  BY <1>1, <1>2, <1>3

\* Crash preserves the inductive invariant.
LEMMA CrashStep ==
  ASSUME IInv, TypeOK', Crash
  PROVE  IInv'
<1> USE NAssumption, Distinct DEF IInv, TypeOK, ControlOK, FilesOK, Crash,
    Running, fixed, tree, dirvs, acts, hist, Path
<1> USE DEF Undone, Done, InPlace, Before
<1>1. ForwardInv' /\ CurrentInv'
  BY DEF ForwardInv, Forward, CurrentInv, Aside
<1>2. TempInv' /\ BackupInv' /\ QuietInv'
  BY DEF TempInv, CurrentInv, Forward, Cleaning, Aside, BackupInv, QuietInv
<1>3. CleanupInv' /\ UndoInv'
  BY DEF CleanupInv, ForwardInv, CurrentInv, Forward, Cleaning, Cleaned,
      Aside, UndoInv, UndoAt, BackupInv, Undoing, Undoable, Visited
<1>4. OutcomeInv'
  <2>1. BaselineRecoverable
    BY RunningRecoverable
  <2>2. BaselineRecoverable'
    BY <2>1 DEF BaselineRecoverable, Recoverable
  <2> QED
    BY <2>2 DEF OutcomeInv
<1> QED
  BY <1>1, <1>2, <1>3, <1>4

\* Host preserves the inductive invariant.
LEMMA HostStep ==
  ASSUME IInv, TypeOK', Host
  PROVE  IInv'
<1>0. /\ UNCHANGED <<kind, pc, cur, errs, outcome, temp, pushed, installed,
                     created>>
      /\ touched \subseteq touched'
      /\ \A q \in Path : q \notin touched' => UNCHANGED <<leaf[q], backup[q]>>
      /\ \A q \in Path : backup'[q] = Absent <=> backup[q] = Absent
      /\ pc \notin {"done", "crashed"}
  BY HostFrame DEF IInv, Host, HostWrite, HostEdit, HostEditMoved, HostDelete,
     SpoilExport, HostDirectory, HostOp, Running
<1> USE <1>0, NAssumption, Distinct
    DEF IInv, TypeOK, ControlOK, Undone, Done, InPlace, Before
<1>1. ForwardInv'
  BY DEF ForwardInv
<1>2. CurrentInv'
  BY DEF CurrentInv, Aside
<1>3. TempInv' /\ BackupInv' /\ QuietInv'
  BY DEF TempInv, BackupInv, QuietInv
<1>4. CleanupInv' /\ OutcomeInv'
  BY DEF CleanupInv, Cleaned, OutcomeInv
<1>5. UndoInv'
  BY DEF UndoInv, UndoAt, Undoable, Visited, Recoverable, Aside
<1> QED
  BY <1>1, <1>2, <1>3, <1>4, <1>5

\* The inductive invariant holds initially.
LEMMA InvInit == Init => IInv
<1> SUFFICES ASSUME Init PROVE IInv
  OBVIOUS
<1>1. TypeOK
  BY TypeInit
<1>2. ForwardInv /\ CurrentInv /\ CleanupInv /\ UndoInv
  BY DEF Init, ForwardInv, Forward, CurrentInv, CleanupInv, Cleaning,
      UndoInv, UndoAt, Undoing
<1>3. TempInv /\ BackupInv /\ QuietInv
  BY DEF Init, TempInv, BackupInv, QuietInv, Undone
<1>4. OutcomeInv
  BY DEF Init, OutcomeInv
<1> QED
  BY <1>1, <1>2, <1>3, <1>4 DEF IInv

\* The inductive invariant is preserved by every step.
LEMMA InvStep == IInv /\ [Next]_vars => IInv'
<1> SUFFICES ASSUME IInv, [Next]_vars PROVE IInv'
  OBVIOUS
<1>1. TypeOK'
  BY TypeStep DEF IInv
<1>2. CASE UNCHANGED vars
  BY <1>2 DEF vars, IInv, TypeOK, FilesOK, DirsOK, ControlOK, ForwardInv,
      CurrentInv, TempInv, CleanupInv,
     UndoInv, UndoAt, BackupInv, QuietInv, OutcomeInv,
         BaselineRecoverable, Recoverable, Undoable, Visited, Undone,
         Done, Aside, Cleaned,
     InPlace, Before
<1> QED
  BY <1>1, <1>2, StartStep, PrecheckStep, OpenParentStep, MatchStep,
      CreateTempStep, CopyTempStep, MoveToBackupStep,
     VerifyBackupStep, InstallStep, SyncParentStep, CleanupStep,
         CleanupSyncStep, UndoStep, UndoUnlinkStep, UndoRestoreStep,
     UndoSyncStep, RemoveDirStep, CrashStep, HostStep
  DEF Next, Guard, Ended

\* What the inductive invariant says of the tree and of the result.
LEMMA InvConsequences ==
  IInv => BaselineRecoverable /\ AppliedExactly /\ RollbackRestores
<1> SUFFICES ASSUME IInv PROVE AppliedExactly /\ RollbackRestores
  BY RunningRecoverable DEF IInv
<1>1. AppliedExactly
  BY DEF IInv, OutcomeInv, TempInv, AppliedExactly, Cleaned
<1>2. RollbackRestores
  BY DEF IInv, OutcomeInv, RollbackRestores, Undone
<1> QED
  BY <1>1, <1>2

\* Nothing of the host is lost initially.
LEMMA LossInit == Init => LossInv
  BY Distinct DEF Init, LossInv, ReplacementInv, UnlinkInv, SlotInv,
      HostWorkSurvives, AuthInv, Absent, Orig, Before

\* Every step keeps Guard's replacement accounted for.
LEMMA ReplacementInvStep ==
  ASSUME IInv, LossInv, [Next]_vars
  PROVE  ReplacementInv'
<1> USE Constants DEF IInv, LossInv, ReplacementInv, TypeOK, FilesOK,
    ControlOK, tree, acts, hist
<1>1. CASE Host
  <2> USE DEF HostOp, File, Absent
  <2>1. ASSUME NEW p \in Path, NEW d \in {"base", "host"}, HostWrite(p, d)
        PROVE  ReplacementInv'
    BY <2>1 DEF HostWrite
  <2>2. ASSUME NEW p \in Path, HostEdit(p) PROVE ReplacementInv'
    BY <2>2 DEF HostEdit
  <2>3. ASSUME NEW p \in Path, HostEditMoved(p) PROVE ReplacementInv'
    BY <2>3 DEF HostEditMoved
  <2>4. ASSUME NEW p \in Path, HostDelete(p) PROVE ReplacementInv'
    BY <2>4 DEF HostDelete
  <2>5. CASE UNCHANGED <<leaf, backup>>
    BY <2>5, <1>1 DEF Host, HostWrite, HostEdit, HostEditMoved,
        HostDelete, SpoilExport, HostDirectory
  <2> QED
    BY <1>1, <2>1, <2>2, <2>3, <2>4, <2>5 DEF Host, SpoilExport, HostDirectory
<1>2. CASE MoveToBackup
  BY <1>2 DEF MoveToBackup, CurrentInv, Absent
<1>3. CASE Install
  BY <1>3 DEF Install, TempInv, Repl
<1>4. CASE Cleanup
  BY <1>4 DEF Cleanup, Absent
<1>5. CASE UndoUnlink
  BY <1>5 DEF UndoUnlink, Absent
<1>6. CASE UndoRestore
  BY <1>6 DEF UndoRestore, Absent
<1>7. CASE UNCHANGED <<leaf, backup, installed, raced>>
  BY <1>7
<1> QED
  BY <1>1, <1>2, <1>3, <1>4, <1>5, <1>6, <1>7 DEF Next, Guard, Ended, vars,
      Start, Precheck, OpenParent, Match, CreateTemp, CopyTemp, VerifyBackup,
      SyncParent, CleanupSync, Undo, UndoSync, RemoveDir, Crash

\* Every step keeps what rollback is about to unlink accounted for.
LEMMA UnlinkInvStep ==
  ASSUME IInv, LossInv, [Next]_vars
  PROVE  UnlinkInv'
<1> USE Constants DEF IInv, LossInv, UnlinkInv, TypeOK, FilesOK, ControlOK,
    tree, acts, hist, ctl, Goto, Fail
<1>1. CASE Host
  BY <1>1 DEF Host, HostOp, HostWrite, HostEdit, HostEditMoved, HostDelete,
      SpoilExport, HostDirectory, UncheckedLeaf
<1>2. CASE Undo
  BY <1>2 DEF Undo, UndoNext, UndoError
<1>3. CASE UndoUnlink \/ UndoRestore \/ UndoSync
  BY <1>3 DEF UndoUnlink, UndoRestore, UndoSync, UndoNext, UndoError
<1>4. CASE pc' # "undo_unlink"
  BY <1>4
<1>5. CASE UNCHANGED vars
  BY <1>5 DEF vars
<1> QED
  BY <1>1, <1>2, <1>3, <1>4, <1>5 DEF Next, Guard, Ended, Start, Precheck,
      OpenParent, Match, CreateTemp, CopyTemp, MoveToBackup, VerifyBackup,
      Install, SyncParent, NextChange, Cleanup, CleanupSync, NextCleanup,
      Finish, RemoveDir, Crash

\* Every step keeps verified rollback files as staged.
LEMMA SlotInvStep ==
  ASSUME IInv, LossInv, [Next]_vars
  PROVE  SlotInv'
<1> USE Constants DEF IInv, LossInv, SlotInv, TypeOK, FilesOK, ControlOK,
    tree, acts, hist, ctl, Goto, Fail, Forward, Cleaning
<1>1. CASE Host
  BY <1>1 DEF Host, HostOp, HostWrite, HostEdit, HostEditMoved, HostDelete,
      SpoilExport, HostDirectory, Verified
<1>2. CASE Precheck
  BY <1>2 DEF Precheck, Finish, QuietInv
<1>3. CASE MoveToBackup
  BY <1>3 DEF MoveToBackup
<1>4. CASE VerifyBackup
  BY <1>4 DEF VerifyBackup, Kinds
<1>5. CASE Install
  BY <1>5 DEF Install, CurrentInv, BackupInv, Kinds
<1>6. CASE SyncParent
  BY <1>6 DEF SyncParent, NextChange
<1>7. CASE Cleanup \/ CleanupSync
  BY <1>7 DEF Cleanup, CleanupSync, NextCleanup, Finish
<1>8. CASE pc' \notin Forward \cup Cleaning
  BY <1>8
<1>9. CASE OpenParent \/ Match \/ CreateTemp \/ CopyTemp
  BY <1>9 DEF OpenParent, Match, CreateTemp, CopyTemp
<1>10. CASE UNCHANGED vars
  BY <1>10 DEF vars
<1> QED
  BY <1>1, <1>2, <1>3, <1>4, <1>5, <1>6, <1>7, <1>8, <1>9, <1>10 DEF Next,
      Guard, Ended, Start, Finish, Undo, UndoUnlink, UndoRestore, UndoSync,
      UndoNext, UndoError, RemoveDir, Crash

\* No step of Guard destroys host content outside the unchecked windows.
LEMMA HostWorkSurvivesStep ==
  ASSUME IInv, LossInv, [Next]_vars
  PROVE  HostWorkSurvives'
<1> USE Constants DEF IInv, LossInv, HostWorkSurvives, TypeOK, FilesOK,
    ControlOK, tree, acts, hist
<1>1. CASE Host
  BY <1>1 DEF Host, HostOp, HostWrite, HostEdit, HostEditMoved, HostDelete,
      SpoilExport, HostDirectory
<1>2. CASE Cleanup
  BY <1>2 DEF Cleanup, SlotInv, CleanupInv, Cleaning, Loses, Absent
<1>3. CASE UndoUnlink
  BY <1>3 DEF UndoUnlink, ReplacementInv, UnlinkInv, Loses, Absent
<1>4. CASE UNCHANGED <<raced, lost>>
  BY <1>4
<1> QED
  BY <1>1, <1>2, <1>3, <1>4 DEF Next, Guard, Ended, vars, Start, Precheck,
      OpenParent, Match, CreateTemp, CopyTemp, MoveToBackup, VerifyBackup,
      Install, SyncParent, CleanupSync, Undo, UndoRestore, UndoSync,
      RemoveDir, Crash

\* Every step keeps unauthorized deletions before the first mutation.
LEMMA AuthInvStep ==
  ASSUME IInv, LossInv, [Next]_vars
  PROVE  AuthInv'
<1> USE Constants DEF IInv, LossInv, AuthInv, TypeOK, FilesOK, ControlOK,
    tree, acts, hist, fixed
<1>1. CASE Host
  BY <1>1 DEF Host, HostOp, HostWrite, HostEdit, HostEditMoved, HostDelete,
      SpoilExport, HostDirectory, ctl, Authorized, Running, BackupInv,
      QuietInv
<1>2. CASE Start
  BY <1>2 DEF Start, Goto, Finish, Authorized, QuietInv, BackupInv, TempInv
<1>3. CASE Crash
  BY <1>3 DEF Crash, Authorized
<1>4. CASE Authorized /\ UNCHANGED <<kind, allow>>
  BY <1>4 DEF Authorized
<1>5. CASE UNCHANGED vars
  BY <1>5 DEF vars, Authorized
<1> QED
  BY <1>1, <1>2, <1>3, <1>4, <1>5 DEF Next, Guard, Ended, Precheck,
      OpenParent, Match, CreateTemp, CopyTemp, MoveToBackup, VerifyBackup,
      Install, SyncParent, Cleanup, CleanupSync, Undo, UndoUnlink,
      UndoRestore, UndoSync, RemoveDir

\* What the second invariant says about host files, reviewed content and
\* deletions.
LEMMA LossConsequences ==
  IInv /\ LossInv =>
    HostWorkSurvives /\ InstalledIsReviewed /\ DeletionNeedsAuthorization
<1> SUFFICES ASSUME IInv, LossInv
             PROVE  InstalledIsReviewed /\ DeletionNeedsAuthorization
  BY DEF LossInv
<1>1. InstalledIsReviewed
  BY DEF IInv, TypeOK, FilesOK, File, LossInv, ReplacementInv,
      InstalledIsReviewed, Repl
<1>2. DeletionNeedsAuthorization
  BY DEF LossInv, AuthInv, Authorized, DeletionNeedsAuthorization
<1> QED
  BY <1>1, <1>2

\* For every number of changes the transaction is type correct: the cursor is
\* on a change in each loop of apply_exported_changes and rollback.
THEOREM TypeCorrect == Spec => []TypeOK
<1>1. Init => TypeOK
  BY TypeInit
<1>2. TypeOK /\ [Next]_vars => TypeOK'
  BY TypeStep
<1> QED
  BY <1>1, <1>2, PTL DEF Spec

\* The inductive invariant holds throughout.
THEOREM Invariance == Spec => []IInv
<1> QED
  BY InvInit, InvStep, PTL DEF Spec

\* Wherever the transaction stops, killed included, an original that the host
\* left alone is gone only when every change is in place.
THEOREM Recoverability == Spec => []BaselineRecoverable
  BY Invariance, InvConsequences, PTL

\* Ok(report) of apply_exported_changes means the reviewed change set is in
\* the tree and no transaction or rollback file is left.
THEOREM AppliedCorrect == Spec => []AppliedExactly
  BY Invariance, InvConsequences, PTL

\* An error without RollbackIncomplete means rollback restored every name the
\* host left alone and emptied every rollback slot.
THEOREM RollbackCorrect == Spec => []RollbackRestores
  BY Invariance, InvConsequences, PTL

\* The second invariant holds throughout.
THEOREM LossInvariance == Spec => []LossInv
<1>1. Init => LossInv
  BY LossInit
<1>2. IInv /\ LossInv /\ [Next]_vars => LossInv'
  BY ReplacementInvStep, UnlinkInvStep, SlotInvStep, HostWorkSurvivesStep,
      AuthInvStep DEF LossInv
<1> QED
  BY <1>1, <1>2, Invariance, PTL DEF Spec

\* Neither cleanup nor rollback destroys what a host program wrote, outside
\* the three windows that change_apply.rs cannot see.
THEOREM HostWorkSafe == Spec => []HostWorkSurvives
  BY Invariance, LossInvariance, LossConsequences, PTL

\* The file Guard installs at a name is the reviewed one, after a kill and for
\* a bundle that changed between verification and copy alike.
THEOREM ReviewSafe == Spec => []InstalledIsReviewed
  BY Invariance, LossInvariance, LossConsequences, PTL

\* Without allow_deletions a change set with a deletion moves nothing.
THEOREM DeletionSafe == Spec => []DeletionNeedsAuthorization
  BY Invariance, LossInvariance, LossConsequences, PTL

\* A Guard step changes an occupied name only by freeing it.
LEMMA OverwriteStep ==
  ASSUME TypeOK, Guard, NEW p \in Path, leaf[p] # Absent, leaf'[p] # leaf[p]
  PROVE  leaf'[p] = Absent
<1> USE DEF TypeOK, FilesOK, tree
<1>1. CASE MoveToBackup BY <1>1 DEF MoveToBackup
<1>2. CASE Install BY <1>2 DEF Install
<1>3. CASE UndoUnlink BY <1>3 DEF UndoUnlink
<1>4. CASE UndoRestore BY <1>4 DEF UndoRestore
<1>5. CASE UNCHANGED leaf BY <1>5
<1> QED
  BY <1>1, <1>2, <1>3, <1>4, <1>5
  DEF Guard, Start, Precheck, OpenParent, Match, CreateTemp, CopyTemp,
      VerifyBackup, SyncParent, Cleanup, CleanupSync,
      Undo, UndoSync, RemoveDir

\* No step of Guard puts a file over an existing one (RenameFlags::NOREPLACE).
THEOREM NoOverwrite == Spec => NeverOverwrites
<1>1. TypeOK /\ [Next]_vars =>
        [Guard => \A p \in Path :
            leaf[p] # Absent /\ leaf'[p] # leaf[p] => leaf'[p] = Absent]_vars
  BY OverwriteStep
<1> QED
  BY <1>1, TypeCorrect, PTL DEF Spec, NeverOverwrites

\* A behaviour of the workspace is one of the transaction as far as its own
\* variables go, so what is proved of the transaction holds in it too.
THEOREM WorkspaceApplies == WorkspaceSpec => Spec
<1>1. WorkspaceInit => Init
  BY DEF WorkspaceInit
<1>2. [WorkspaceNext]_everything => [Next]_vars
  BY DEF WorkspaceNext, everything, vars
<1> QED
  BY <1>1, <1>2, PTL DEF WorkspaceSpec, Spec

-----------------------------------------------------------------------------
(* Numbers and finite sets.                                                *)

LEMMA LeastNumber ==
    ASSUME NEW T, T \subseteq Nat, T # {}
    PROVE  \E x \in T : \A y \in T : x <= y
<1>1. PICK x \in T : \A y \in T : ~(<<y, x>> \in OpToRel(<, Nat))
    BY NatLessThanWellFounded, WFMin, Zenon
<1>2. \A y \in T : ~(y < x)
    BY <1>1 DEF OpToRel
<1>. QED BY <1>2

LEMMA ImagesFinite ==
    ASSUME NEW D, IsFiniteSet(D), NEW f, DOMAIN f = D, f = [x \in D |-> f[x]]
    PROVE  IsFiniteSet({f[x] : x \in D})
<1>1. f \in Surjection(D, {f[x] : x \in D})
    BY DEF Surjection
<1>. QED BY <1>1, FS_Surjection

LEMMA UpTo ==
    ASSUME NEW n \in Nat PROVE IsFiniteSet(1..n) /\ Cardinality(1..n) = n
BY FS_Interval

\* As many pairs as the set has elements.
LEMMA OneRow ==
    ASSUME NEW q, NEW S, IsFiniteSet(S)
    PROVE  IsFiniteSet({q} \X S) /\ Cardinality({q} \X S) = Cardinality(S)
<1>1. IsFiniteSet({q}) /\ Cardinality({q}) = 1
    BY FS_Singleton
<1>2. /\ IsFiniteSet({q} \X S)
      /\ Cardinality({q} \X S) = Cardinality({q}) * Cardinality(S)
    BY <1>1, FS_Product, Zenon
<1>3. Cardinality(S) \in Nat
    BY FS_CardinalityType
<1>. QED BY <1>1, <1>2, <1>3

\* Files of finite sizes have finitely many bytes.
LEMMA BlocksFinite ==
    ASSUME NEW D, IsFiniteSet(D), NEW n, \A p \in D : n[p] \in Nat
    PROVE  IsFiniteSet(UNION {{p} \X (1..n[p]) : p \in D})
<1>. DEFINE f == [p \in D |-> {p} \X (1..n[p])]
<1>1. IsFiniteSet({f[p] : p \in D})
    <2>1. DOMAIN f = D /\ f = [x \in D |-> f[x]]
        OBVIOUS
    <2>. HIDE DEF f
    <2>. QED BY <2>1, ImagesFinite
<1>2. {f[p] : p \in D} = {{p} \X (1..n[p]) : p \in D}
    OBVIOUS
<1>3. \A p \in D : IsFiniteSet({p} \X (1..n[p]))
    <2>. TAKE p \in D
    <2>1. IsFiniteSet(1..n[p])
        BY UpTo
    <2>. QED BY <2>1, OneRow
<1>. QED BY <1>1, <1>2, <1>3, FS_UNION

-----------------------------------------------------------------------------
(* The copy of the source into a stage.                                    *)

Versions == [kind : {"file", "symlink", "special", "dir", "new"},
             data : Seq(Nat), links : Int, foreign : BOOLEAN, stamp : Nat]
Staged   == [data : Seq(Nat), given : Seq(Nat), quiet : BOOLEAN]
Handles  == [inode : Staging!Inode, before : Versions, since : Nat,
             read : Seq(Nat)]

StageTypes ==
    /\ Staging!TypeOK
    /\ nodes \in [Staging!Inode -> Versions]
    /\ clock \in Nat /\ edits \in Nat
    /\ queue \subseteq Staging!Path
    /\ setting.git \in BOOLEAN /\ setting.ignored \in {{}, Tracked}
    /\ \A p \in DOMAIN copies : copies[p] \in Staged

\* Until it is edited, the source is as it was given.
Untouched ==
    walk = "start" /\ edits = 0 =>
        \A p \in Staging!Path :
            /\ Staging!Exists(p)
            /\ Staging!Node(p).kind = "dir" => p \in Staging!Parents

\* The candidate that is opened and read has passed the policy.
AtHand ==
    walk \in {"open", "read"} => queue # {} /\ ~Staging!Denied(Staging!Current)

\* What has been read of file f, with a handle of earlier: f has changed since
\* then and shows it, or it has not, and what was read is its beginning.
Held(h, f) ==
    \/ f.stamp >= h.since
    \/ /\ f.stamp = h.before.stamp /\ f.data = h.before.data
       /\ Len(h.read) <= Len(f.data)
       /\ \A k \in 1..Len(h.read) : h.read[k] = f.data[k]

\* The bytes of the staged files c.
Blocks(c) == UNION {{p} \X DOMAIN c[p].data : p \in DOMAIN c}

Reading ==
    walk = "read" =>
        /\ handle \in Handles /\ handle.since <= clock
        /\ Cardinality(DOMAIN copies) < MaxFiles
        /\ Cardinality(Blocks(copies)) + Len(handle.before.data)
               <= MaxTotalBytes
        /\ Len(handle.read) <= MaxFileBytes
        /\ handle.before.stamp < handle.since =>
               Held(handle, nodes[handle.inode])

Good(c) ==
    /\ \A p \in DOMAIN c : c[p].quiet => c[p].data = c[p].given
    /\ Cardinality(DOMAIN c) <= MaxFiles
    /\ Cardinality(Blocks(c)) <= MaxTotalBytes
    /\ \A p \in DOMAIN c : Len(c[p].data) <= MaxFileBytes

Allowed == \A p \in DOMAIN copies \cup made : ~Staging!Denied(p)

\* A path is ahead, staged or excluded, or a manifest does not name it.
Excused(p) ==
    \/ setting.git /\ p \in Staging!Parents
    \/ ~setting.git /\ p \in setting.ignored

Accounts ==
    walk \in {"inspect", "open", "read", "commit", "audit", "built"}
        /\ edits = 0 =>
            \A p \in Staging!Path :
                \/ p \in queue \cup DOMAIN copies \cup DOMAIN excluded
                         \cup made
                \/ Excused(p)

Ending ==
    /\ walk \in {"none", "start"} => DOMAIN copies = {} /\ made = {}
    /\ walk \in {"commit", "audit", "built"} => queue = {}
    /\ walk \in {"audit", "built"} => committed = DOMAIN copies

StageInv ==
    /\ StageTypes /\ Untouched /\ AtHand /\ Reading /\ Good(copies)
    /\ Allowed /\ Accounts /\ Ending

-----------------------------------------------------------------------------
LEMMA StageCardinality ==
    \A S : Staging!Cardinality(S) = Cardinality(S)
BY DEF Cardinality, Staging!Cardinality

LEMMA StageBytes == Staging!Bytes = Cardinality(Blocks(copies))
BY StageCardinality DEF Staging!Bytes, Blocks

LEMMA OrderDomain ==
    /\ Len(Order) \in Nat /\ DOMAIN Order = 1..Len(Order)
    /\ Order = [n \in DOMAIN Order |-> Order[n]]
<1>. DEFINE P == Staging!Path
<1>1. Order \in Seq(P)
    BY WalkAssumption
<1>. HIDE DEF P
<1>. QED BY <1>1

LEMMA PathsFinite == IsFiniteSet(Staging!Path)
<1>1. IsFiniteSet(DOMAIN Order)
    BY OrderDomain, UpTo
<1>. QED BY <1>1, OrderDomain, ImagesFinite DEF Staging!Path

LEMMA CurrentAhead ==
    ASSUME queue \subseteq Staging!Path, queue # {}
    PROVE  Staging!Current \in queue /\ Staging!Current \in Staging!Path
<1>. DEFINE T == {n \in DOMAIN Order : Order[n] \in queue}
<1>1. T \subseteq Nat /\ T # {}
    BY OrderDomain DEF Staging!Path
<1>2. \E x \in T : \A y \in T : x <= y
    BY <1>1, LeastNumber
<1>3. Staging!Min(T) \in T
    BY <1>2 DEF Staging!Min
<1>. QED BY <1>3 DEF Staging!Current

LEMMA SizesFinite ==
    ASSUME NEW c, DOMAIN c \subseteq Staging!Path,
           \A p \in DOMAIN c : c[p].data \in Seq(Nat)
    PROVE  /\ IsFiniteSet(DOMAIN c) /\ IsFiniteSet(Blocks(c))
           /\ Cardinality(DOMAIN c) \in Nat /\ Cardinality(Blocks(c)) \in Nat
<1>1. IsFiniteSet(DOMAIN c)
    BY PathsFinite, FS_Subset
<1>. DEFINE n == [p \in DOMAIN c |-> Len(c[p].data)]
<1>2. \A p \in DOMAIN c : n[p] \in Nat /\ DOMAIN c[p].data = 1..n[p]
    OBVIOUS
<1>3. Blocks(c) = UNION {{p} \X (1..n[p]) : p \in DOMAIN c}
    <2>1. \A p \in DOMAIN c : {p} \X DOMAIN c[p].data = {p} \X (1..n[p])
        BY <1>2
    <2>. HIDE DEF n
    <2>. QED BY <2>1 DEF Blocks
<1>. HIDE DEF n
<1>4. IsFiniteSet(Blocks(c))
    BY <1>1, <1>2, <1>3, BlocksFinite
<1>. QED BY <1>1, <1>4, FS_CardinalityType

\* A stage with one more file.
LEMMA OneMoreFile ==
    ASSUME NEW c, DOMAIN c \subseteq Staging!Path,
           \A p \in DOMAIN c : c[p].data \in Seq(Nat),
           NEW q \in Staging!Path, NEW r, r.data \in Seq(Nat), NEW d,
           d = [p \in DOMAIN c \cup {q} |-> IF p # q THEN c[p] ELSE r]
    PROVE  /\ Cardinality(DOMAIN d) <= Cardinality(DOMAIN c) + 1
           /\ Cardinality(Blocks(d)) <= Cardinality(Blocks(c)) + Len(r.data)
<1>1. /\ IsFiniteSet(DOMAIN c) /\ IsFiniteSet(Blocks(c))
      /\ Cardinality(DOMAIN c) \in Nat /\ Cardinality(Blocks(c)) \in Nat
    BY SizesFinite
<1>2. Cardinality(DOMAIN d) <= Cardinality(DOMAIN c) + 1
    <2>1. DOMAIN d = DOMAIN c \cup {q}
        OBVIOUS
    <2>2. Cardinality(DOMAIN c \cup {q}) = IF q \in DOMAIN c
              THEN Cardinality(DOMAIN c) ELSE Cardinality(DOMAIN c) + 1
        BY <1>1, FS_AddElement
    <2>. QED BY <1>1, <2>1, <2>2
<1>. DEFINE new == {q} \X DOMAIN r.data
<1>3. IsFiniteSet(new) /\ Cardinality(new) = Len(r.data)
    <2>1. Len(r.data) \in Nat /\ DOMAIN r.data = 1..Len(r.data)
        OBVIOUS
    <2>2. /\ IsFiniteSet(DOMAIN r.data)
          /\ Cardinality(DOMAIN r.data) = Len(r.data)
        BY <2>1, UpTo
    <2>. QED BY <2>2, OneRow
<1>4. Blocks(d) \subseteq Blocks(c) \cup new
    BY DEF Blocks
<1>. HIDE DEF new
<1>5. /\ IsFiniteSet(Blocks(c) \cup new)
      /\ Cardinality(Blocks(c) \cup new)
             = Cardinality(Blocks(c)) + Cardinality(new)
               - Cardinality(Blocks(c) \cap new)
    BY <1>1, <1>3, FS_Union
<1>6. Cardinality(Blocks(c) \cap new) \in Nat
    BY <1>1, FS_Intersection, FS_CardinalityType
<1>7. Cardinality(Blocks(d)) <= Cardinality(Blocks(c) \cup new)
    BY <1>4, <1>5, FS_Subset
<1>8. /\ Cardinality(Blocks(d)) \in Nat
      /\ Cardinality(Blocks(c) \cup new) \in Nat
    BY <1>4, <1>5, FS_Subset, FS_CardinalityType
<1>9. Len(r.data) \in Nat
    OBVIOUS
<1>. QED BY <1>1, <1>2, <1>3, <1>5, <1>6, <1>7, <1>8, <1>9

-----------------------------------------------------------------------------
LEMMA EmptyStage == Good(Staging!Nothing) /\ DOMAIN Staging!Nothing = {}
<1>1. DOMAIN Staging!Nothing = {}
    BY DEF Staging!Nothing
<1>2. Blocks(Staging!Nothing) = {}
    BY <1>1 DEF Blocks
<1>. QED BY <1>1, <1>2, FS_EmptySet, LimitsAssumption DEF Good

\* A version of a file with one thing changed is another one.
LEMMA OtherVersion ==
    ASSUME NEW r \in Versions
    PROVE  /\ \A k \in {"file", "symlink", "special", "dir", "new"} :
                 /\ [r EXCEPT !.kind = k] \in Versions
                 /\ [r EXCEPT !.kind = k].kind = k
           /\ \A n \in Int : /\ [r EXCEPT !.links = n] \in Versions
                             /\ [r EXCEPT !.links = n].kind = r.kind
           /\ \A b \in BOOLEAN : /\ [r EXCEPT !.foreign = b] \in Versions
                                 /\ [r EXCEPT !.foreign = b].kind = r.kind
           /\ \A t \in Nat : /\ [r EXCEPT !.stamp = t] \in Versions
                             /\ [r EXCEPT !.stamp = t].stamp = t
           /\ \A n \in Int, t \in Nat :
                 /\ [r EXCEPT !.links = n, !.stamp = t] \in Versions
                 /\ [r EXCEPT !.links = n, !.stamp = t].stamp = t
<1>1. ASSUME NEW k \in {"file", "symlink", "special", "dir", "new"}
      PROVE  /\ [r EXCEPT !.kind = k] \in Versions
             /\ [r EXCEPT !.kind = k].kind = k
    BY DEF Versions
<1>2. ASSUME NEW n \in Int
      PROVE  /\ [r EXCEPT !.links = n] \in Versions
             /\ [r EXCEPT !.links = n].kind = r.kind
    BY DEF Versions
<1>3. ASSUME NEW b \in BOOLEAN
      PROVE  /\ [r EXCEPT !.foreign = b] \in Versions
             /\ [r EXCEPT !.foreign = b].kind = r.kind
    BY DEF Versions
<1>4. ASSUME NEW t \in Nat
      PROVE  /\ [r EXCEPT !.stamp = t] \in Versions
             /\ [r EXCEPT !.stamp = t].stamp = t
    BY DEF Versions
<1>5. ASSUME NEW n \in Int, NEW t \in Nat
      PROVE  /\ [r EXCEPT !.links = n, !.stamp = t] \in Versions
             /\ [r EXCEPT !.links = n, !.stamp = t].stamp = t
    BY DEF Versions
<1>. QED BY <1>1, <1>2, <1>3, <1>4, <1>5, Zenon

LEMMA ChangedVersions ==
    /\ \A k \in {"file", "symlink", "special", "dir", "new"} :
          Staging!Other(k) \in Versions /\ Staging!Other(k).kind = k
    /\ \A s \in Seq(Nat) : /\ Staging!File(s) \in Versions
                           /\ Staging!File(s).kind = "file"
    /\ \A f \in Staging!Originals : f \in Versions /\ f.kind # "dir"
<1>1. \A s \in Seq(Nat) : Staging!File(s) \in Versions
                          /\ Staging!File(s).kind = "file"
    BY DEF Staging!File, Versions
<1>2. <<>> \in Seq(Nat) /\ <<0>> \in Seq(Nat) /\ <<0, 0>> \in Seq(Nat)
    OBVIOUS
<1>3. \A k \in {"file", "symlink", "special", "dir", "new"} :
          Staging!Other(k) \in Versions /\ Staging!Other(k).kind = k
    BY <1>1, <1>2, OtherVersion DEF Staging!Other
<1>4. \A f \in Staging!Originals : f \in Versions /\ f.kind # "dir"
    <2>1. /\ [Staging!File(<<0>>) EXCEPT !.links = 2] \in Versions
          /\ [Staging!File(<<0>>) EXCEPT !.links = 2].kind = "file"
          /\ [Staging!File(<<0>>) EXCEPT !.foreign = TRUE] \in Versions
          /\ [Staging!File(<<0>>) EXCEPT !.foreign = TRUE].kind = "file"
        <3>. DEFINE r == Staging!File(<<0>>)
        <3>1. r \in Versions /\ r.kind = "file"
            BY <1>1, <1>2
        <3>. HIDE DEF r
        <3>2. /\ [r EXCEPT !.links = 2] \in Versions
              /\ [r EXCEPT !.links = 2].kind = r.kind
              /\ [r EXCEPT !.foreign = TRUE] \in Versions
              /\ [r EXCEPT !.foreign = TRUE].kind = r.kind
            <4>1. 2 \in Int /\ TRUE \in BOOLEAN
                OBVIOUS
            <4>. QED BY <3>1, <4>1, OtherVersion, Zenon
        <3>. QED BY <3>1, <3>2 DEF r
    <2>. QED BY <1>1, <1>2, <1>3, <2>1 DEF Staging!Originals
<1>. QED BY <1>1, <1>3, <1>4

LEMMA StageInit == Staging!Init => StageInv
<1>. SUFFICES ASSUME Staging!Init PROVE StageInv
    OBVIOUS
<1>. USE DEF Staging!Init
<1>1. StageTypes
    BY EmptyStage, ChangedVersions
       DEF StageTypes, Staging!TypeOK, Staging!None
<1>. QED
    BY <1>1, EmptyStage
       DEF StageInv, Untouched, AtHand, Reading, Allowed, Accounts, Ending

\* An error drops the stage.
LEMMA StageRefused ==
    ASSUME StageInv, Staging!Refuse, UNCHANGED setting,
           UNCHANGED Staging!source
    PROVE  StageInv'
<1>. USE DEF Staging!Refuse, Staging!source
<1>1. StageTypes'
    BY EmptyStage DEF StageInv, StageTypes, Staging!TypeOK
<1>2. Good(copies)'
    BY EmptyStage DEF Good, Blocks
<1>. QED
    BY <1>1, <1>2, EmptyStage
       DEF StageInv, Untouched, AtHand, Reading, Allowed, Accounts, Ending

LEMMA GivenStep ==
    ASSUME StageInv, Staging!Given
    PROVE  StageInv'
<1>. DEFINE L == Len(Order)
<1>1. /\ walk = "none" /\ walk' = "start" /\ handle' = handle
      /\ names' = [p \in Staging!Path |->
                      CHOOSE n \in DOMAIN Order : Order[n] = p]
      /\ UNCHANGED <<clock, edits, queue, handle, copies, made, excluded,
                     committed>>
      /\ setting'.git \in BOOLEAN /\ setting'.ignored \in {{}, Tracked}
    BY DEF Staging!Given, Staging!staged
<1>2. PICK first \in Staging!Originals :
          nodes' = [n \in Staging!Inode |->
                       IF n > L THEN Staging!Other("new")
                       ELSE IF Order[n] \in Staging!Parents
                            THEN Staging!Other("dir")
                            ELSE IF n = 1 THEN first
                                 ELSE Staging!File(<<0, 0>>)]
    BY DEF Staging!Given
<1>3. \A p \in Staging!Path : names'[p] \in 1..L /\ Order[names'[p]] = p
    <2>. TAKE p \in Staging!Path
    <2>1. \E n \in DOMAIN Order : Order[n] = p
        BY DEF Staging!Path
    <2>. QED BY <1>1, <2>1, OrderDomain
<1>4. L \in Nat /\ 1..L \subseteq Staging!Inode
    BY OrderDomain, LimitsAssumption DEF Staging!Inode
<1>5. nodes' \in [Staging!Inode -> Versions]
    <2>1. <<0, 0>> \in Seq(Nat)
        OBVIOUS
    <2>. QED BY <1>2, <2>1, ChangedVersions
<1>6. Staging!TypeOK'
    <2>1. \A p \in Staging!Path : names'[p] \in Staging!Inode
        BY <1>3, <1>4
    <2>. QED
        BY <1>1, <2>1 DEF StageInv, StageTypes, Staging!TypeOK
<1>7. StageTypes'
    BY <1>1, <1>5, <1>6 DEF StageInv, StageTypes
<1>8. Untouched'
    <2>. SUFFICES ASSUME NEW p \in Staging!Path
                  PROVE  /\ names'[p] # 0
                         /\ nodes'[names'[p]].kind = "dir"
                                => p \in Staging!Parents
        BY DEF Untouched, Staging!Exists, Staging!Node, Staging!None
    <2>. DEFINE n == names'[p]
    <2>1. n \in 1..L /\ n \in Staging!Inode /\ Order[n] = p
        BY <1>3, <1>4
    <2>. HIDE DEF n
    <2>2. n # 0 /\ ~(n > L)
        BY <1>4, <2>1
    <2>3. p \notin Staging!Parents =>
              nodes'[n] = IF n = 1 THEN first ELSE Staging!File(<<0, 0>>)
        BY <1>2, <2>1, <2>2
    <2>4. <<0, 0>> \in Seq(Nat)
        OBVIOUS
    <2>5. p \notin Staging!Parents => nodes'[n].kind # "dir"
        BY <2>3, <2>4, ChangedVersions
    <2>. QED BY <2>2, <2>5 DEF n
<1>9. Good(copies)'
    BY <1>1 DEF StageInv, Good, Blocks
<1>10. Allowed'
    BY <1>1 DEF StageInv, Ending, Allowed
<1>. QED
    BY <1>1, <1>7, <1>8, <1>9, <1>10
       DEF StageInv, AtHand, Reading, Accounts, Ending

\* A step of the builder leaves the source alone.
LEMMA CollectStep ==
    ASSUME StageInv, Staging!Collect
    PROVE  StageInv'
<1>1. CASE Staging!Refuse
    BY <1>1, StageRefused DEF Staging!Collect
<1>2. CASE ~Staging!Refuse
    <2>1. /\ walk = "start" /\ walk' = "inspect"
          /\ queue' = {p \in Staging!Path : Staging!Candidate(p)}
          /\ UNCHANGED <<handle, copies, made, excluded, committed, setting,
                         names, nodes, clock, edits>>
        BY <1>2 DEF Staging!Collect, Staging!staged, Staging!source
    <2>2. StageTypes'
        BY <2>1 DEF StageInv, StageTypes, Staging!TypeOK
    <2>3. Accounts'
        <3>. SUFFICES ASSUME edits = 0, NEW p \in Staging!Path,
                             ~Staging!Candidate(p)
                      PROVE  Excused(p)'
            BY <2>1 DEF Accounts
        <3>. QED
            BY <2>1
               DEF StageInv, StageTypes, Untouched, Staging!Candidate, Excused
    <2>4. Good(copies)' /\ Allowed'
        BY <2>1 DEF StageInv, Good, Blocks, Allowed, Staging!Denied
    <2>. QED
        BY <2>1, <2>2, <2>3, <2>4
           DEF StageInv, Untouched, AtHand, Reading, Ending
<1>. QED BY <1>1, <1>2

\* What a step to the next candidate has to bring.
LEMMA AdvanceStep ==
    ASSUME StageInv, queue # {}, Staging!Advance,
           walk \in {"inspect", "open", "read"},
           UNCHANGED <<setting, names, nodes, clock, edits>>,
           made \subseteq made', DOMAIN copies \subseteq DOMAIN copies',
           DOMAIN excluded \subseteq DOMAIN excluded',
           made' \subseteq Staging!Path, DOMAIN copies' \subseteq Staging!Path,
           DOMAIN excluded' \subseteq Staging!Path,
           \A p \in DOMAIN copies' : copies'[p] \in Staged,
           Staging!Current \in DOMAIN copies' \cup made' \cup DOMAIN excluded',
           \A p \in (DOMAIN copies' \cup made') \ (DOMAIN copies \cup made) :
               ~Staging!Denied(p),
           Good(copies')
    PROVE  StageInv'
<1>1. /\ queue' = queue \ {Staging!Current} /\ walk' = "inspect"
      /\ handle' = Staging!Closed
    BY DEF Staging!Advance
<1>2. StageTypes'
    BY <1>1 DEF StageInv, StageTypes, Staging!TypeOK, Staging!Closed
<1>3. \A p : Excused(p)' <=> Excused(p)
    BY DEF Excused
<1>4. Accounts'
    BY <1>1, <1>3 DEF StageInv, Accounts
<1>5. Allowed'
    BY DEF StageInv, Allowed, Staging!Denied
<1>6. Good(copies)'
    BY DEF Good, Blocks
<1>. QED
    BY <1>1, <1>2, <1>4, <1>5, <1>6
       DEF StageInv, Untouched, AtHand, Reading, Ending

LEMMA ExcludeStep ==
    ASSUME StageInv, queue # {}, NEW r, Staging!Exclude(r),
           walk \in {"inspect", "open", "read"},
           UNCHANGED <<setting, names, nodes, clock, edits>>
    PROVE  StageInv'
<1>1. /\ Staging!Advance /\ UNCHANGED <<copies, made, committed>>
      /\ DOMAIN excluded' = DOMAIN excluded \cup {Staging!Current}
    BY DEF Staging!Exclude
<1>2. Staging!Current \in Staging!Path
    BY CurrentAhead DEF StageInv, StageTypes
<1>3. Good(copies')
    BY <1>1 DEF StageInv
<1>. QED
    BY <1>1, <1>2, <1>3, AdvanceStep DEF StageInv, StageTypes, Staging!TypeOK

LEMMA InspectStep ==
    ASSUME StageInv, Staging!Inspect
    PROVE  StageInv'
<1>. DEFINE p == Staging!Current
<1>1. /\ walk = "inspect" /\ queue # {}
      /\ UNCHANGED <<setting, names, nodes, clock, edits>>
    BY DEF Staging!Inspect, Staging!source
<1>2. p \in Staging!Path
    BY <1>1, CurrentAhead DEF StageInv, StageTypes
<1>3. CASE \E r : Staging!Exclude(r)
    BY <1>1, <1>3, ExcludeStep
<1>4. CASE /\ ~Staging!Denied(p) /\ made' = made \cup {p} /\ Staging!Advance
           /\ UNCHANGED <<copies, excluded, committed>>
    <2>1. Good(copies')
        BY <1>4 DEF StageInv
    <2>. QED
        BY <1>1, <1>2, <1>4, <2>1, AdvanceStep
           DEF StageInv, StageTypes, Staging!TypeOK
<1>5. CASE /\ ~Staging!Denied(p) /\ walk' = "open"
           /\ UNCHANGED <<queue, handle, copies, made, excluded, committed>>
    <2>1. StageTypes'
        BY <1>1, <1>5 DEF StageInv, StageTypes, Staging!TypeOK
    <2>2. AtHand'
        BY <1>1, <1>5 DEF AtHand, Staging!Denied, Staging!Current
    <2>3. Good(copies)' /\ Allowed'
        BY <1>1, <1>5 DEF StageInv, Good, Blocks, Allowed, Staging!Denied
    <2>4. Accounts'
        BY <1>1, <1>5 DEF StageInv, Accounts, Excused
    <2>. QED
        BY <1>5, <2>1, <2>2, <2>3, <2>4
           DEF StageInv, Untouched, Reading, Ending
<1>. QED
    BY <1>3, <1>4, <1>5 DEF Staging!Inspect, Staging!staged

LEMMA OpenStep ==
    ASSUME StageInv, Staging!Open
    PROVE  StageInv'
<1>. DEFINE p == Staging!Current
            f == Staging!Node(p)
<1>1. walk = "open" /\ UNCHANGED <<setting, names, nodes, clock, edits>>
    BY DEF Staging!Open, Staging!source
<1>2. queue # {} /\ p \in Staging!Path /\ ~Staging!Denied(p)
    BY <1>1, CurrentAhead DEF StageInv, StageTypes, AtHand
<1>3. CASE Staging!Refuse
    BY <1>1, <1>3, StageRefused DEF Staging!source
<1>4. CASE \E r : Staging!Exclude(r)
    BY <1>1, <1>2, <1>4, ExcludeStep
<1>5. CASE ~Staging!Refuse /\ ~\E r : Staging!Exclude(r)
    <2>1. /\ Staging!Exists(p)
          /\ ~(Staging!Cardinality(DOMAIN copies) >= MaxFiles)
          /\ ~(Staging!Bytes + Len(f.data) > MaxTotalBytes)
          /\ handle' = [inode |-> names[p], before |-> f, since |-> clock,
                        read |-> <<>>]
          /\ walk' = "read"
          /\ UNCHANGED <<queue, copies, made, excluded, committed>>
        BY <1>5 DEF Staging!Open, Staging!Opens, Staging!staged
    <2>2. names[p] \in Staging!Inode /\ names[p] # 0 /\ f \in Versions
        BY <1>2, <2>1
           DEF StageInv, StageTypes, Staging!TypeOK, Staging!Exists,
               Staging!None, Staging!Node
    <2>. HIDE DEF f, p
    <2>3. handle' # Staging!Closed /\ handle' \in Handles
        <3>1. handle'.inode = names[p] /\ Staging!Closed.inode = 0
            BY <2>1 DEF Staging!Closed, Staging!None
        <3>2. clock \in Nat /\ <<>> \in Seq(Nat)
            BY DEF StageInv, StageTypes
        <3>. QED BY <2>1, <2>2, <3>1, <3>2 DEF Handles
    <2>4. StageTypes'
        BY <1>1, <2>1, <2>3 DEF StageInv, StageTypes, Staging!TypeOK
    <2>5. /\ Cardinality(DOMAIN copies) \in Nat
          /\ Cardinality(Blocks(copies)) \in Nat
        <3>1. \A q \in DOMAIN copies : copies[q].data \in Seq(Nat)
            BY DEF StageInv, StageTypes, Staged
        <3>. QED BY <3>1, SizesFinite DEF StageInv, StageTypes, Staging!TypeOK
    <2>6. Len(f.data) \in Nat /\ f.data \in Seq(Nat)
        BY <2>2 DEF Versions
    <2>7. Reading'
        <3>1. /\ Cardinality(DOMAIN copies) < MaxFiles
              /\ Cardinality(Blocks(copies)) + Len(f.data) <= MaxTotalBytes
            BY <2>1, <2>5, <2>6, LimitsAssumption, StageCardinality, StageBytes
        <3>2. /\ handle'.before = f /\ handle'.since = clock
              /\ handle'.read = <<>> /\ handle'.inode = names[p]
            BY <2>1
        <3>3. nodes'[handle'.inode] = f
            BY <1>1, <3>2 DEF f, Staging!Node
        <3>4. Held(handle', f)
            BY <2>6, <3>2 DEF Held
        <3>5. Blocks(copies') = Blocks(copies)
            BY <2>1
        <3>6. clock \in Nat /\ clock' = clock
            BY <1>1 DEF StageInv, StageTypes
        <3>. QED
            BY <2>1, <2>3, <3>1, <3>2, <3>3, <3>4, <3>5, <3>6, LimitsAssumption
               DEF Reading, Blocks, Held
    <2>8. AtHand'
        BY <1>1, <1>2, <2>1 DEF AtHand, Staging!Denied, Staging!Current, p
    <2>9. Good(copies)' /\ Allowed'
        BY <1>1, <2>1 DEF StageInv, Good, Blocks, Allowed, Staging!Denied
    <2>10. Accounts'
        BY <1>1, <2>1 DEF StageInv, Accounts, Excused
    <2>. QED
        BY <2>1, <2>4, <2>7, <2>8, <2>9, <2>10 DEF StageInv, Untouched, Ending
<1>. QED BY <1>3, <1>4, <1>5

LEMMA ReadBlockStep ==
    ASSUME StageInv, Staging!ReadBlock
    PROVE  StageInv'
<1>. DEFINE f == nodes[handle.inode]
            k == Len(handle.read) + 1
            r == Append(handle.read, f.data[k])
<1>1. walk = "read" /\ UNCHANGED <<setting, names, nodes, clock, edits>>
    BY DEF Staging!ReadBlock, Staging!source
<1>2. CASE Staging!Refuse
    BY <1>1, <1>2, StageRefused DEF Staging!source
<1>3. CASE ~Staging!Refuse
    <2>1. /\ k <= Len(f.data) /\ ~(k > MaxFileBytes)
          /\ handle' = [handle EXCEPT !.read = r]
          /\ UNCHANGED <<walk, queue, copies, made, excluded, committed>>
        BY <1>3 DEF Staging!ReadBlock, Staging!staged
    <2>2. handle \in Handles
        BY <1>1 DEF StageInv, Reading
    <2>3. f \in Versions /\ f.data \in Seq(Nat) /\ handle.read \in Seq(Nat)
        BY <2>2 DEF StageInv, StageTypes, Handles, Versions
    <2>. DEFINE data == f.data
                read == handle.read
    <2>. HIDE DEF data, read
    <2>4. /\ data \in Seq(Nat) /\ read \in Seq(Nat)
          /\ Len(read) + 1 <= Len(data) /\ Len(read) \in Nat
        BY <2>1, <2>3 DEF data, read
    <2>5. data[Len(read) + 1] \in Nat
        BY <2>4
    <2>6. /\ Append(read, data[Len(read) + 1]) \in Seq(Nat)
          /\ Len(Append(read, data[Len(read) + 1])) = Len(read) + 1
          /\ \A i \in 1..Len(read) :
                Append(read, data[Len(read) + 1])[i] = read[i]
          /\ Append(read, data[Len(read) + 1])[Len(read) + 1]
                = data[Len(read) + 1]
        BY <2>4, <2>5, AppendProperties
    <2>7. /\ r \in Seq(Nat) /\ Len(r) = k /\ k \in Nat
          /\ \A i \in 1..Len(read) : r[i] = read[i]
          /\ r[k] = f.data[k]
        BY <2>4, <2>6 DEF data, read
    <2>. HIDE DEF r
    <2>8. /\ handle' \in Handles /\ handle'.inode = handle.inode
          /\ handle'.before = handle.before /\ handle'.since = handle.since
          /\ handle'.read = r
        BY <2>1, <2>2, <2>7 DEF Handles
    <2>9. StageTypes'
        <3>1. handle'.inode # 0
            BY <2>2, <2>8, OrderDomain, LimitsAssumption
               DEF Handles, Staging!Inode
        <3>2. handle' # Staging!Closed
            BY <3>1 DEF Staging!Closed, Staging!None
        <3>. QED
            BY <1>1, <2>1, <3>2 DEF StageInv, StageTypes, Staging!TypeOK
    <2>10. Held(handle, f) => Held(handle', f)
        <3>. SUFFICES ASSUME f.stamp = handle.before.stamp,
                             f.data = handle.before.data,
                             \A i \in 1..Len(read) : read[i] = f.data[i]
                      PROVE  Held(handle', f)
            BY <2>8 DEF Held, read
        <3>1. \A i \in 1..k : i \in 1..Len(read) \/ i = k
            BY <2>4 DEF read
        <3>2. \A i \in 1..Len(r) : r[i] = f.data[i]
            BY <2>7, <3>1
        <3>. QED BY <2>1, <2>7, <2>8, <3>2 DEF Held
    <2>11. Reading'
        <3>1. nodes'[handle'.inode] = f
            BY <1>1, <2>8
        <3>2. Len(handle'.read) <= MaxFileBytes
            BY <2>1, <2>7, <2>8, LimitsAssumption
        <3>. QED
            BY <1>1, <2>1, <2>8, <2>10, <3>1, <3>2
               DEF StageInv, Reading, Blocks, Held
    <2>12. AtHand'
        BY <1>1, <2>1 DEF StageInv, AtHand, Staging!Denied, Staging!Current
    <2>13. Good(copies)' /\ Allowed'
        BY <1>1, <2>1 DEF StageInv, Good, Blocks, Allowed, Staging!Denied
    <2>14. Accounts'
        BY <1>1, <2>1 DEF StageInv, Accounts, Excused
    <2>. QED
        BY <1>1, <2>1, <2>9, <2>11, <2>12, <2>13, <2>14
           DEF StageInv, Untouched, Ending
<1>. QED BY <1>2, <1>3

LEMMA CopyEndsStep ==
    ASSUME StageInv, Staging!CopyEnds
    PROVE  StageInv'
<1>. DEFINE f == nodes[handle.inode]
            q == Staging!Current
            r == [data |-> handle.read, given |-> handle.before.data,
                  quiet |-> handle.before.stamp < handle.since]
<1>1. walk = "read" /\ UNCHANGED <<setting, names, nodes, clock, edits>>
    BY DEF Staging!CopyEnds, Staging!source
<1>2. CASE Staging!Refuse
    BY <1>1, <1>2, StageRefused DEF Staging!source
<1>3. CASE ~Staging!Refuse
    <2>1. /\ Staging!Unchanged /\ Staging!Advance
          /\ copies' = [p \in DOMAIN copies \cup {q} |->
                           IF p # q THEN copies[p] ELSE r]
          /\ UNCHANGED <<made, excluded, committed>>
        BY <1>3 DEF Staging!CopyEnds
    <2>2. queue # {} /\ q \in Staging!Path /\ ~Staging!Denied(q)
        BY <1>1, CurrentAhead DEF StageInv, StageTypes, AtHand
    <2>. HIDE DEF q
    <2>3. handle \in Handles
        BY <1>1 DEF StageInv, Reading
    <2>4. /\ f \in Versions /\ handle.read \in Seq(Nat)
          /\ handle.before.data \in Seq(Nat)
          /\ handle.before.stamp \in Nat /\ handle.since \in Nat
        BY <2>3 DEF StageInv, StageTypes, Handles, Versions
    <2>5. /\ f.stamp = handle.before.stamp
          /\ Len(handle.read) = Len(handle.before.data)
        BY <2>1 DEF Staging!Unchanged
    <2>6. handle.before.stamp < handle.since
              => handle.read = handle.before.data
        <3>. SUFFICES ASSUME handle.before.stamp < handle.since
                      PROVE  handle.read = handle.before.data
            OBVIOUS
        <3>1. Held(handle, f)
            BY <1>1 DEF StageInv, Reading
        <3>2. /\ f.data = handle.before.data
              /\ \A i \in 1..Len(handle.read) : handle.read[i] = f.data[i]
            BY <2>4, <2>5, <3>1 DEF Held
        <3>. QED BY <2>4, <2>5, <3>2, SeqEqual
    <2>7. /\ r \in Staged /\ r.data = handle.read
          /\ r.quiet => r.data = r.given
        <3>. DEFINE b == handle.before.stamp < handle.since
        <3>1. b \in BOOLEAN
            OBVIOUS
        <3>2. r = [data |-> handle.read, given |-> handle.before.data,
                   quiet |-> b]
            OBVIOUS
        <3>. HIDE DEF b, r
        <3>3. /\ r \in Staged /\ r.data = handle.read
              /\ r.given = handle.before.data /\ r.quiet = b
            BY <2>4, <3>1, <3>2 DEF Staged
        <3>. QED BY <2>6, <3>3 DEF b
    <2>. HIDE DEF r, f
    <2>8. /\ DOMAIN copies \subseteq Staging!Path
          /\ \A p \in DOMAIN copies : copies[p].data \in Seq(Nat)
        BY DEF StageInv, StageTypes, Staging!TypeOK, Staged
    <2>9. /\ Cardinality(DOMAIN copies') <= Cardinality(DOMAIN copies) + 1
          /\ Cardinality(Blocks(copies'))
                 <= Cardinality(Blocks(copies)) + Len(handle.read)
        <3>1. r.data \in Seq(Nat)
            BY <2>4, <2>7
        <3>. QED BY <2>1, <2>2, <2>7, <2>8, <3>1, OneMoreFile
    <2>10. /\ DOMAIN copies' = DOMAIN copies \cup {q}
           /\ \A p \in DOMAIN copies' :
                 copies'[p] = IF p # q THEN copies[p] ELSE r
        BY <2>1
    <2>11. Good(copies')
        <3>1. /\ DOMAIN copies' \subseteq Staging!Path
              /\ \A p \in DOMAIN copies' : copies'[p].data \in Seq(Nat)
            BY <2>2, <2>4, <2>7, <2>8, <2>10
        <3>2. /\ Cardinality(DOMAIN copies') \in Nat
              /\ Cardinality(Blocks(copies')) \in Nat
              /\ Cardinality(DOMAIN copies) \in Nat
              /\ Cardinality(Blocks(copies)) \in Nat
            BY <2>8, <3>1, SizesFinite
        <3>3. /\ Cardinality(DOMAIN copies) < MaxFiles
              /\ Cardinality(Blocks(copies)) + Len(handle.read)
                     <= MaxTotalBytes
              /\ Len(handle.read) <= MaxFileBytes
            BY <1>1, <2>5 DEF StageInv, Reading
        <3>4. Len(handle.read) \in Nat
            BY <2>4
        <3>5. /\ Cardinality(DOMAIN copies') <= MaxFiles
              /\ Cardinality(Blocks(copies')) <= MaxTotalBytes
            BY <2>9, <3>2, <3>3, <3>4, LimitsAssumption
        <3>6. /\ \A p \in DOMAIN copies' : copies'[p].quiet
                     => copies'[p].data = copies'[p].given
              /\ \A p \in DOMAIN copies' : Len(copies'[p].data) <= MaxFileBytes
            BY <2>7, <2>10, <3>3 DEF StageInv, Good
        <3>. QED BY <3>5, <3>6 DEF Good
    <2>12. \A p \in DOMAIN copies' : copies'[p] \in Staged
        BY <2>7, <2>10 DEF StageInv, StageTypes
    <2>. QED
        BY <1>1, <2>1, <2>2, <2>8, <2>10, <2>11, <2>12, AdvanceStep
           DEF StageInv, StageTypes, Staging!TypeOK, q
<1>. QED BY <1>2, <1>3

\* The stage is made, committed and recorded.
LEMMA FinishStep ==
    ASSUME StageInv, Staging!WalkEnds \/ Staging!Commit \/ Staging!WriteAudit
    PROVE  StageInv'
<1>. USE DEF Staging!WalkEnds, Staging!Commit, Staging!WriteAudit,
             Staging!source, Staging!staged
<1>1. /\ UNCHANGED <<setting, names, nodes, clock, edits, queue, handle,
                     copies, made, excluded>>
      /\ walk' \in {"commit", "audit", "built"}
      /\ walk \in {"inspect", "commit", "audit"} /\ queue = {}
      /\ walk' \in {"audit", "built"} => committed' = DOMAIN copies
    BY DEF StageInv, Ending
<1>2. StageTypes'
    BY <1>1 DEF StageInv, StageTypes, Staging!TypeOK
<1>3. Good(copies)' /\ Allowed'
    BY <1>1 DEF StageInv, Good, Blocks, Allowed, Staging!Denied
<1>4. Accounts'
    BY <1>1 DEF StageInv, Accounts, Excused
<1>. QED
    BY <1>1, <1>2, <1>3, <1>4 DEF StageInv, Untouched, AtHand, Reading, Ending

\* A step of the editor: the file behind an open handle stays as it is, or its
\* stamp is that of the clock.
LEMMA EditorStep ==
    ASSUME StageInv,
           UNCHANGED <<walk, setting, queue, handle, copies, made, excluded,
                       committed>>,
           nodes' \in [Staging!Inode -> Versions],
           names' \in [Staging!Path -> Staging!Inode \cup {0}],
           clock' \in Nat, clock' >= clock,
           \/ edits' \in Nat \ {0}
           \/ UNCHANGED <<names, nodes, edits>>,
           \A i \in Staging!Inode :
               nodes'[i] = nodes[i] \/ nodes'[i].stamp = clock
    PROVE  StageInv'
<1>1. StageTypes'
    BY DEF StageInv, StageTypes, Staging!TypeOK, Staging!None
<1>2. Untouched'
    BY DEF StageInv, Untouched, Staging!Exists, Staging!Node
<1>3. AtHand' /\ Good(copies)' /\ Allowed' /\ Ending'
    BY DEF StageInv, AtHand, Good, Blocks, Allowed, Ending, Staging!Denied,
           Staging!Current
<1>4. Accounts'
    BY DEF StageInv, Accounts, Excused
<1>5. Reading'
    <2>. SUFFICES ASSUME walk = "read" PROVE Reading'
        BY DEF Reading
    <2>. DEFINE i == handle.inode
    <2>1. handle \in Handles /\ handle.since <= clock /\ clock \in Nat
        BY DEF StageInv, StageTypes, Reading
    <2>2. i \in Staging!Inode /\ handle.since \in Nat
        BY <2>1 DEF Handles
    <2>3. handle.since <= clock'
        BY <2>1, <2>2
    <2>4. handle.before.stamp < handle.since => Held(handle, nodes[i])
        BY DEF StageInv, Reading
    <2>. HIDE DEF i
    <2>5. handle.before.stamp < handle.since => Held(handle, nodes'[i])
        BY <2>1, <2>2, <2>4 DEF Held
    <2>. QED BY <2>1, <2>3, <2>5 DEF StageInv, Reading, Blocks, Held, i
<1>. QED BY <1>1, <1>2, <1>3, <1>4, <1>5 DEF StageInv

LEMMA TickStep ==
    ASSUME StageInv, Staging!Tick
    PROVE  StageInv'
BY EditorStep
   DEF Staging!Tick, Staging!staged, StageInv, StageTypes, Staging!TypeOK,
       Staging!None

LEMMA WriteStep ==
    ASSUME StageInv, NEW i \in Staging!Inode, Staging!Write(i)
    PROVE  StageInv'
<1>1. /\ UNCHANGED <<walk, setting, queue, handle, copies, made, excluded,
                     committed, clock, names>>
      /\ edits' = edits + 1
    BY DEF Staging!Write, Staging!Edit, Staging!staged
<1>2. nodes[i] \in Versions /\ nodes \in [Staging!Inode -> Versions]
    BY DEF StageInv, StageTypes
<1>. DEFINE old == nodes[i].data
<1>3. PICK data \in {Append(old, edits + 1)}
                    \cup {[old EXCEPT ![k] = edits + 1] : k \in DOMAIN old} :
          nodes' = [nodes EXCEPT ![i].data = data, ![i].stamp = clock]
    BY DEF Staging!Write
<1>4. old \in Seq(Nat) /\ edits + 1 \in Nat /\ clock \in Nat
    BY <1>2 DEF StageInv, StageTypes, Versions
<1>. HIDE DEF old
<1>5. data \in Seq(Nat)
    <2>1. Append(old, edits + 1) \in Seq(Nat)
        BY <1>4, AppendProperties
    <2>2. ASSUME NEW k \in DOMAIN old
          PROVE  [old EXCEPT ![k] = edits + 1] \in Seq(Nat)
        <3>1. k \in 1..Len(old)
            BY <1>4
        <3>. QED BY <1>4, <3>1, ExceptSeq
    <2>. QED BY <2>1, <2>2
<1>. DEFINE v == [nodes[i] EXCEPT !.data = data, !.stamp = clock]
<1>6. v \in Versions /\ v.stamp = clock
    BY <1>2, <1>4, <1>5 DEF Versions
<1>7. nodes' = [nodes EXCEPT ![i] = v]
    BY <1>3
<1>. HIDE DEF v
<1>8. /\ nodes' \in [Staging!Inode -> Versions]
      /\ \A j \in Staging!Inode :
            nodes'[j] = nodes[j] \/ nodes'[j].stamp = clock
    BY <1>2, <1>6, <1>7
<1>. QED
    BY <1>1, <1>8, EditorStep
       DEF StageInv, StageTypes, Staging!TypeOK, Staging!None

LEMMA RenameStep ==
    ASSUME StageInv, NEW p \in Staging!Path, Staging!Rename(p)
    PROVE  StageInv'
<1>. DEFINE i == names[p]
            n == Staging!Fresh
<1>1. /\ UNCHANGED <<walk, setting, queue, handle, copies, made, excluded,
                     committed, clock>>
      /\ edits' = edits + 1 /\ edits < MaxEdits
      /\ i # 0
    BY DEF Staging!Rename, Staging!Edit, Staging!staged, Staging!Exists,
           Staging!None
<1>2. /\ i \in Staging!Inode /\ nodes[i] \in Versions
      /\ nodes \in [Staging!Inode -> Versions] /\ edits \in Nat
      /\ clock \in Nat /\ names \in [Staging!Path -> Staging!Inode \cup {0}]
    BY <1>1 DEF StageInv, StageTypes, Staging!TypeOK, Staging!None
<1>3. n \in Staging!Inode
    BY <1>1, <1>2, OrderDomain, LimitsAssumption
       DEF Staging!Fresh, Staging!Inode
<1>4. PICK new \in {Staging!Other("new"), Staging!Other("symlink"),
                    Staging!File(<<edits + 1>>)} :
          /\ names' = [names EXCEPT ![p] = IF new.kind = "new" THEN 0 ELSE n]
          /\ nodes' = [nodes EXCEPT ![i].links = @ - 1, ![i].stamp = clock,
                                    ![n] = [new EXCEPT !.stamp = clock]]
    BY DEF Staging!Rename, Staging!None
<1>5. new \in Versions
    <2>1. <<edits + 1>> \in Seq(Nat)
        BY <1>2
    <2>. QED BY <2>1, ChangedVersions
<1>. DEFINE v == [nodes[i] EXCEPT !.links = nodes[i].links - 1,
                                  !.stamp = clock]
            w == [new EXCEPT !.stamp = clock]
<1>6. v \in Versions /\ v.stamp = clock
    <2>1. nodes[i].links - 1 \in Int
        BY <1>2 DEF Versions
    <2>. DEFINE g == nodes[i]
                k == nodes[i].links - 1
    <2>2. g \in Versions /\ k \in Int
        BY <1>2, <2>1
    <2>. HIDE DEF g, k
    <2>3. /\ [g EXCEPT !.links = k, !.stamp = clock] \in Versions
          /\ [g EXCEPT !.links = k, !.stamp = clock].stamp = clock
        BY <1>2, <2>2 DEF Versions
    <2>. QED BY <2>3 DEF g, k
<1>7. w \in Versions /\ w.stamp = clock
    BY <1>2, <1>5 DEF Versions
<1>8. nodes' = [nodes EXCEPT ![i] = v, ![n] = w]
    BY <1>4
<1>. HIDE DEF v, w, n, i
<1>9. /\ nodes' \in [Staging!Inode -> Versions]
      /\ \A j \in Staging!Inode :
            nodes'[j] = nodes[j] \/ nodes'[j].stamp = clock
    BY <1>2, <1>3, <1>6, <1>7, <1>8
<1>10. names' \in [Staging!Path -> Staging!Inode \cup {0}]
    BY <1>2, <1>3, <1>4
<1>. QED BY <1>1, <1>2, <1>9, <1>10, EditorStep

LEMMA StageStep == StageInv /\ Staging!Next => StageInv'
<1>. SUFFICES ASSUME StageInv, Staging!Next PROVE StageInv'
    OBVIOUS
<1>1. CASE Staging!Fail
    BY <1>1, StageRefused DEF Staging!Fail
<1>. QED
    BY <1>1, GivenStep, CollectStep, InspectStep, OpenStep, ReadBlockStep,
       CopyEndsStep, FinishStep, WriteStep, RenameStep, TickStep
       DEF Staging!Next, Staging!Build, Staging!Editor

LEMMA StageKept == StageInv /\ UNCHANGED staging => StageInv'
<1>. SUFFICES ASSUME StageInv, UNCHANGED staging PROVE StageInv'
    OBVIOUS
<1>. QED
    BY EditorStep
       DEF staging, StageInv, StageTypes, Staging!TypeOK, Staging!None

\* A stage is a faithful copy of its source, edited as it may be meanwhile.
THEOREM StagesAreFaithful == WorkspaceSpec => []StagedFaithful
<1>1. WorkspaceInit => StageInv
    BY StageInit DEF WorkspaceInit
<1>2. StageInv /\ [WorkspaceNext]_everything => StageInv'
    BY StageStep, StageKept DEF WorkspaceNext, everything
<1>3. StageInv => StagedFaithful
    <2>. SUFFICES ASSUME StageInv PROVE Staging!StagedFaithful
        BY DEF StagedFaithful
    <2>1. Staging!StagedIsStable
        BY DEF StageInv, Good, Staging!StagedIsStable
    <2>2. Staging!StagedIsBounded
        BY StageCardinality, StageBytes
           DEF StageInv, StageTypes, Staging!TypeOK, Good, Reading,
               Staging!StagedIsBounded
    <2>3. Staging!StagedIsAccounted
        BY DEF StageInv, Allowed, Accounts, Ending, Excused, Staging!Denied,
               Staging!StagedIsAccounted
    <2>. QED
        BY <2>1, <2>2, <2>3 DEF StageInv, StageTypes, Staging!StagedFaithful
<1>. QED BY <1>1, <1>2, <1>3, PTL DEF WorkspaceSpec

-----------------------------------------------------------------------------
(* The change export.                                                      *)

\* What becomes of an entry of the workspace: it is left out with its name in
\* the manifest, or it is a regular file, changed or not.
Barred(p) ==
    \/ Export!DeniedItem(p)
    \/ work[p].kind \in {"symlink", "special"}
    \/ work[p].links > 1

Plain(p) ==
    ~Export!DeniedItem(p) /\ work[p].kind = "file" /\ work[p].links <= 1

Brought(p) == Plain(p) /\ baseline[p] # work[p].content

\* The entries that are walked, and those of them that export e is done with.
ToWalk    == {p \in Export!Item \ {GitPath} : work[p] # Export!Absent}
Walked(e) == ToWalk \ ahead[e]

Entered(p) ==
    Export!Change(p, IF baseline[p] = 0 THEN "added" ELSE "modified")

\* What bundle b is when the entries of W have been walked and those of D are
\* recorded as deleted.
Fits(b, W, D) ==
    /\ DOMAIN b.files = {p \in W : Brought(p)}
    /\ \A p \in DOMAIN b.files : b.files[p] = work[p].content
    /\ b.changes = {Entered(p) : p \in {q \in W : Brought(q)}}
                   \cup {Export!Change(p, "deleted") : p \in D}
    /\ b.rejected = {p \in W : Barred(p)}

\* Its limits.
Within(b) ==
    /\ Cardinality(DOMAIN b.files) <= MaxFiles
    /\ Export!Bytes(b) <= MaxTotalBytes
    /\ \A p \in DOMAIN b.files : b.files[p] <= MaxFileBytes

\* The files of the baseline that are not in the workspace any more.
Lost == {p \in Export!Item : baseline[p] # 0
                     /\ (work[p] = Export!Absent \/ work[p].kind = "dir")}

Full(b) == b.manifest /\ Within(b) /\ Fits(b, ToWalk, Lost)

Bundles == [files : UNION {[D -> Nat] : D \in SUBSET Export!Item},
            changes : SUBSET [path : Export!Item,
                              kind : {"added", "modified", "deleted"},
                              from : Nat, to : Nat],
            rejected : SUBSET Export!Item, manifest : BOOLEAN]

Sources == Export!Regular \cup {Export!Absent, Export!Linked,
             Export!Thing("dir"), Export!Thing("symlink"),
             Export!Thing("special")}

ExportTypes ==
    /\ Export!TypeOK
    /\ baseline \in [Export!Item -> Nat]
    /\ work \in [Export!Item -> Sources]
    /\ ahead \in [Exporter -> SUBSET Export!Item]
    /\ bundle \in [Exporter -> Bundles]
    /\ noticed \in [Exporter -> SUBSET Export!Item]

\* The baseline has been staged under the same policy.
BaselineAllowed ==
    \A p \in Export!Item :
        baseline[p] # 0 => ~Export!DeniedItem(p) /\ p # GitPath

Seen(e) == {p \in Walked(e) : ~Export!DeniedItem(p) /\ work[p].kind # "dir"}

Progress(e) ==
    /\ exports[e] = "walking" =>
           /\ ahead[e] \subseteq ToWalk /\ noticed[e] = Seen(e)
           /\ Within(bundle[e]) /\ Fits(bundle[e], Walked(e), {})
    /\ exports[e] = "written" => Full(bundle[e])
    /\ exports[e] \in {"none", "idle"} =>
           bundle[e] = Export!NoBundle /\ noticed[e] = {}

ExportInv ==
    /\ ExportTypes /\ BaselineAllowed
    /\ \A e \in Exporter : Progress(e)
    /\ Export!Published =>
           exports[destination.owner] # "none" /\ Full(destination.bundle)

-----------------------------------------------------------------------------
LEMMA ExportCardinality ==
    \A S : Export!Cardinality(S) = Cardinality(S)
BY DEF Cardinality, Export!Cardinality

\* Of the entries ahead there is a first one.
LEMMA EntryAhead ==
    ASSUME NEW e \in Exporter, ahead[e] \subseteq Export!Item, ahead[e] # {}
    PROVE  Export!Entry(e) \in ahead[e]
<1>. DEFINE T == {n \in DOMAIN Entries : Entries[n] \in ahead[e]}
<1>1. T \subseteq Nat /\ T # {}
    BY WalkAssumption DEF Export!Item
<1>2. \E x \in T : \A y \in T : x <= y
    BY <1>1, LeastNumber
<1>3. Export!Min(T) \in T
    BY <1>2 DEF Export!Min
<1>. QED BY <1>3 DEF Export!Entry

\* A workspace, its baseline and the policy stay as they are in an export.
Same == work' = work /\ baseline' = baseline /\ denied' = denied

LEMMA SameFits ==
    ASSUME Same
    PROVE  /\ ToWalk' = ToWalk /\ Lost' = Lost
           /\ \A b, W, D : Fits(b, W, D)' <=> Fits(b, W, D)
           /\ \A b : Within(b)' <=> Within(b)
           /\ \A b : Full(b)' <=> Full(b)
<1>1. /\ \A p : Export!DeniedItem(p)' <=> Export!DeniedItem(p)
      /\ \A p, k : Export!Change(p, k)' = Export!Change(p, k)
    BY DEF Same, Export!DeniedItem, Export!Change
<1>2. /\ \A p : Barred(p)' <=> Barred(p)
      /\ \A p : Brought(p)' <=> Brought(p)
      /\ \A p : Entered(p)' = Entered(p)
    BY <1>1 DEF Same, Barred, Brought, Plain, Entered
<1>3. ToWalk' = ToWalk /\ Lost' = Lost
    BY DEF Same, ToWalk, Lost
<1>4. \A b, W, D : Fits(b, W, D)' <=> Fits(b, W, D)
    BY <1>1, <1>2 DEF Same, Fits
<1>5. \A b : Within(b)' <=> Within(b)
    BY DEF Within, Export!Bytes
<1>6. \A b : Full(b)' <=> Full(b)
    BY <1>3, <1>4, <1>5 DEF Full
<1>. QED BY <1>3, <1>4, <1>5, <1>6

\* An entry that brings nothing.
LEMMA PassOver ==
    ASSUME NEW p, NEW W, NEW b, NEW c, Fits(b, W, {}), ~Brought(p),
           c.files = b.files, c.changes = b.changes,
           c.rejected = b.rejected \cup (IF Barred(p) THEN {p} ELSE {})
    PROVE  Fits(c, W \cup {p}, {})
<1>1. {q \in W \cup {p} : Brought(q)} = {q \in W : Brought(q)}
    OBVIOUS
<1>2. {q \in W \cup {p} : Barred(q)}
          = {q \in W : Barred(q)} \cup (IF Barred(p) THEN {p} ELSE {})
    OBVIOUS
<1>. QED BY <1>1, <1>2 DEF Fits

\* A regular file that has changed, or has not.
LEMMA TakeIn ==
    ASSUME NEW p, NEW W, NEW b, NEW c, Fits(b, W, {}), Plain(p), ~Barred(p),
           c.files = Export!CopiedFiles(b, p), c.rejected = b.rejected,
           c.changes = b.changes \cup IF baseline[p] = work[p].content
                                         THEN {} ELSE {Entered(p)}
    PROVE  Fits(c, W \cup {p}, {})
<1>1. {q \in W \cup {p} : Barred(q)} = {q \in W : Barred(q)}
    OBVIOUS
<1>2. CASE baseline[p] = work[p].content
    BY <1>2, PassOver DEF Export!CopiedFiles, Brought
<1>3. CASE baseline[p] # work[p].content
    <2>1. {q \in W \cup {p} : Brought(q)} = {q \in W : Brought(q)} \cup {p}
        BY <1>3 DEF Brought
    <2>2. {Entered(q) : q \in {r \in W : Brought(r)} \cup {p}}
              = {Entered(q) : q \in {r \in W : Brought(r)}} \cup {Entered(p)}
        OBVIOUS
    <2>. QED BY <1>1, <1>3, <2>1, <2>2 DEF Fits, Export!CopiedFiles
<1>. QED BY <1>2, <1>3

\* What an entry of the workspace can be.
Sorted(s) ==
    /\ s.kind \in {"absent", "file", "dir", "symlink", "special"}
    /\ s.kind = "absent" => s = Export!Absent
    /\ s.kind = "file" => s.content \in Nat \ {0}
    /\ s.kind # "file" => s.content = 0 /\ s.links <= 1
    /\ s.content \in Nat /\ s.links \in Nat

LEMMA SourcesSorted == \A s \in Sources : Sorted(s)
<1>. USE DEF Sorted
<1>1. ASSUME NEW s \in Export!Regular PROVE Sorted(s)
    <2>1. s.kind = "file" /\ s.content \in Contents /\ s.links = 1
        BY DEF Export!Regular
    <2>2. s.content \in Nat \ {0}
        BY <2>1, ExportAssumption
    <2>. QED BY <2>1, <2>2
<1>2. Sorted(Export!Absent) /\ Sorted(Export!Linked)
    BY DEF Export!Absent, Export!Linked
<1>3. \A k \in {"dir", "symlink", "special"} : Sorted(Export!Thing(k))
    BY DEF Export!Thing
<1>. QED BY <1>1, <1>2, <1>3 DEF Sources

\* What is at the destination keeps what the properties say.
LEMMA FullMeans ==
    ASSUME ExportTypes, BaselineAllowed, Full(destination.bundle)
    PROVE  Export!BundleWhole /\ Export!ExportExact /\ Export!ExportBounded
<1>. DEFINE b == destination.bundle
<1>0. \A p \in Export!Item : Sorted(work[p])
    BY SourcesSorted DEF ExportTypes
<1>. USE DEF Sorted
<1>1. Export!BundleWhole
    <2>1. {c \in b.changes : c.to # 0}
              = {Entered(p) : p \in {q \in ToWalk : Brought(q)}}
        <3>1. \A p \in ToWalk : Brought(p) => Entered(p).to # 0
            BY <1>0 DEF ToWalk, Brought, Plain, Entered, Export!Change
        <3>2. \A p \in Lost : Export!Change(p, "deleted").to = 0
            BY DEF Export!Change
        <3>. QED BY <3>1, <3>2 DEF Full, Fits
    <2>2. \A p : Entered(p).path = p
        BY DEF Entered, Export!Change
    <2>3. \A p : Entered(p).to = work[p].content
        BY DEF Entered, Export!Change
    <2>. QED
        BY <2>1, <2>2, <2>3 DEF Export!BundleWhole, Full, Fits
<1>2. Export!ExportExact
    <2>. SUFFICES ASSUME NEW p \in Export!Item \ {GitPath}
                  PROVE  IF \/ Export!DeniedItem(p) /\ work[p] # Export!Absent
                            \/ work[p].kind \in {"symlink", "special"}
                            \/ work[p].links > 1
                         THEN /\ Export!Applied(p) = baseline[p]
                              /\ p \in b.rejected
                         ELSE Export!Applied(p) = work[p].content
        BY DEF Export!ExportExact
    <2>. DEFINE own == {c \in b.changes : c.path = p}
    <2>1. own = (IF p \in ToWalk /\ Brought(p) THEN {Entered(p)} ELSE {})
                \cup (IF p \in Lost THEN {Export!Change(p, "deleted")} ELSE {})
        <3>1. \A q : /\ Entered(q).path = q
                     /\ Export!Change(q, "deleted").path = q
            BY DEF Entered, Export!Change
        <3>. QED BY <3>1 DEF Full, Fits
    <2>2. p \in ToWalk /\ Brought(p) => p \notin Lost
        BY <1>0 DEF ToWalk, Brought, Plain, Lost
    <2>3. CASE p \in ToWalk /\ Brought(p)
        <3>1. own = {Entered(p)}
            BY <2>1, <2>2, <2>3
        <3>2. Export!Applied(p) = work[p].content
            <4>1. (CHOOSE c \in own : TRUE) = Entered(p)
                BY <3>1
            <4>. QED BY <3>1, <4>1 DEF Export!Applied, Entered, Export!Change
        <3>. QED BY <1>0, <2>3, <3>2 DEF Brought, Plain
    <2>4. CASE p \in Lost
        <3>1. own = {Export!Change(p, "deleted")}
            BY <2>1, <2>2, <2>4
        <3>2. Export!Applied(p) = 0
            <4>1. (CHOOSE c \in own : TRUE) = Export!Change(p, "deleted")
                BY <3>1
            <4>. QED BY <3>1, <4>1 DEF Export!Applied, Export!Change
        <3>. QED BY <1>0, <2>4, <3>2 DEF Lost, BaselineAllowed, Export!Absent
    <2>5. CASE p \notin Lost /\ ~(p \in ToWalk /\ Brought(p))
        <3>1. Export!Applied(p) = baseline[p]
            BY <2>1, <2>5 DEF Export!Applied
        <3>2. CASE Barred(p) /\ work[p] # Export!Absent
            <4>1. p \in b.rejected
                BY <3>2 DEF Full, Fits, ToWalk
            <4>. QED BY <1>0, <3>1, <3>2, <4>1 DEF Barred
        <3>3. CASE work[p] = Export!Absent
            BY <1>0, <2>5, <3>1, <3>3 DEF Lost, Export!Absent
        <3>4. CASE ~Barred(p) /\ work[p] # Export!Absent
            BY <1>0, <2>5, <3>1, <3>4
               DEF Barred, Lost, ToWalk, Brought, Plain, Export!Absent
        <3>. QED BY <3>2, <3>3, <3>4
    <2>. QED BY <2>3, <2>4, <2>5
<1>3. Export!ExportBounded
    BY ExportCardinality DEF Export!ExportBounded, Full, Within
<1>. QED BY <1>1, <1>2, <1>3

LEMMA ItemsFinite == IsFiniteSet(Export!Item)
<1>. DEFINE I == Export!Item
<1>1. Entries \in Seq(I)
    BY WalkAssumption
<1>. HIDE DEF I
<1>2. /\ DOMAIN Entries = 1..Len(Entries) /\ Len(Entries) \in Nat
      /\ Entries = [n \in DOMAIN Entries |-> Entries[n]]
    BY <1>1
<1>3. IsFiniteSet(DOMAIN Entries)
    BY <1>2, UpTo
<1>. QED BY <1>2, <1>3, ImagesFinite DEF Export!Item

\* The numbers that are compared with the limits.
LEMMA ExportCounts ==
    ASSUME NEW b, DOMAIN b.files \subseteq Export!Item,
           \A p \in DOMAIN b.files : b.files[p] \in Nat
    PROVE  /\ Export!Bytes(b) \in Nat
           /\ Cardinality(DOMAIN b.files) \in Nat
<1>1. IsFiniteSet(DOMAIN b.files)
    BY ItemsFinite, FS_Subset
<1>2. IsFiniteSet(UNION {{p} \X (1..b.files[p]) : p \in DOMAIN b.files})
    BY <1>1, BlocksFinite
<1>. QED
    BY <1>1, <1>2, FS_CardinalityType, ExportCardinality DEF Export!Bytes

LEMMA NoBundleFits ==
    /\ Export!NoBundle \in Bundles
    /\ Within(Export!NoBundle) /\ Fits(Export!NoBundle, {}, {})
<1>1. DOMAIN Export!NoBundle.files = {}
    BY DEF Export!NoBundle
<1>2. Export!Bytes(Export!NoBundle) = 0
    BY <1>1, FS_EmptySet, ExportCardinality DEF Export!Bytes
<1>3. Export!NoBundle \in Bundles
    BY DEF Export!NoBundle, Bundles
<1>4. Within(Export!NoBundle)
    BY <1>1, <1>2, FS_EmptySet, LimitsAssumption DEF Within
<1>5. Fits(Export!NoBundle, {}, {})
    BY DEF Fits, Export!NoBundle
<1>. QED BY <1>3, <1>4, <1>5

-----------------------------------------------------------------------------
LEMMA ExportInit == Export!Init => ExportInv
<1>. SUFFICES ASSUME Export!Init PROVE ExportInv
    OBVIOUS
<1>. USE DEF Export!Init
<1>1. ExportTypes
    BY NoBundleFits
       DEF ExportTypes, Export!TypeOK, Sources, Export!Nowhere
<1>2. ~Export!Published
    BY ExportAssumption DEF Export!Published, Export!Nowhere
<1>. QED BY <1>1, <1>2 DEF ExportInv, BaselineAllowed, Progress

\* An export's own step leaves the others alone.
Alone(e) ==
    /\ UNCHANGED Export!input
    /\ \A d \in Exporter \ {e} :
          /\ exports'[d] = exports[d] /\ ahead'[d] = ahead[d]
          /\ bundle'[d] = bundle[d] /\ noticed'[d] = noticed[d]

LEMMA OthersProgress ==
    ASSUME ExportInv, NEW e \in Exporter, Alone(e), Progress(e)'
    PROVE  \A d \in Exporter : Progress(d)'
<1>1. Same
    BY DEF Alone, Export!input, Same
<1>2. ASSUME NEW d \in Exporter \ {e} PROVE Progress(d)'
    <2>1. Walked(d)' = Walked(d) /\ Seen(d)' = Seen(d)
        BY <1>1, SameFits
           DEF Alone, Same, Walked, Seen, Export!DeniedItem
    <2>. QED
        BY <1>1, <2>1, SameFits DEF ExportInv, Alone, Progress
<1>. QED BY <1>2

LEMMA InputKept ==
    ASSUME ExportInv, UNCHANGED Export!input, destination' = destination,
           Export!Published => exports'[destination.owner] # "none"
    PROVE  /\ BaselineAllowed'
           /\ (Export!Published => exports[destination.owner] # "none"
                                     /\ Full(destination.bundle))'
<1>1. Same
    BY DEF Export!input, Same
<1>2. BaselineAllowed'
    BY <1>1 DEF ExportInv, BaselineAllowed, Same, Export!DeniedItem
<1>3. Export!Published' <=> Export!Published
    BY DEF Export!Published
<1>. QED BY <1>1, <1>2, <1>3, SameFits DEF ExportInv

\* The invariant after a step of one export that leaves the destination.
LEMMA OwnStep ==
    ASSUME ExportInv, NEW e \in Exporter, Alone(e), Progress(e)',
           destination' = destination, ExportTypes',
           exports'[e] # "none"
    PROVE  ExportInv'
<1>1. \A d \in Exporter : Progress(d)'
    BY OthersProgress
<1>2. Export!Published => exports'[destination.owner] # "none"
    BY DEF ExportInv, Alone, Export!Published
<1>. QED BY <1>1, <1>2, InputKept DEF Alone, ExportInv

LEMMA RefuseStep ==
    ASSUME ExportInv, NEW e \in Exporter, Export!Refuse(e),
           UNCHANGED Export!input
    PROVE  ExportInv'
<1>. USE DEF Export!Refuse, Export!Become
<1>1. exports' = [exports EXCEPT ![e] = "failed"] /\ destination' = destination
    OBVIOUS
<1>2. Alone(e)
    BY DEF Alone, ExportInv, ExportTypes, Export!TypeOK
<1>3. ExportTypes'
    BY <1>1, NoBundleFits
       DEF ExportInv, ExportTypes, Export!TypeOK, Export!input
<1>4. exports'[e] = "failed"
    BY <1>1 DEF ExportInv, ExportTypes, Export!TypeOK
<1>5. Progress(e)'
    BY <1>4 DEF Progress
<1>. QED BY <1>1, <1>2, <1>3, <1>4, <1>5, OwnStep

LEMMA PrepareStep ==
    ASSUME ExportInv, NEW e \in Exporter, Export!Prepare(e)
    PROVE  ExportInv'
<1>1. CASE Export!Refuse(e)
    BY <1>1, RefuseStep DEF Export!Prepare
<1>2. CASE ~Export!Refuse(e)
    <2>1. /\ exports[e] = "idle"
          /\ exports' = [exports EXCEPT ![e] = "walking"]
          /\ ahead' = [ahead EXCEPT ![e] = ToWalk]
          /\ UNCHANGED <<destination, bundle, noticed>>
          /\ UNCHANGED Export!input
        BY <1>2 DEF Export!Prepare, Export!Become, ToWalk
    <2>2. ToWalk \subseteq Export!Item
        BY DEF ToWalk
    <2>3. ExportTypes'
        BY <2>1, <2>2 DEF ExportInv, ExportTypes, Export!TypeOK, Export!input
    <2>4. Alone(e) /\ Same
        BY <2>1
           DEF Alone, Same, Export!input, ExportInv, ExportTypes, Export!TypeOK
    <2>5. /\ exports'[e] = "walking" /\ ahead'[e] = ToWalk
          /\ bundle'[e] = Export!NoBundle /\ noticed'[e] = {}
        BY <2>1 DEF ExportInv, ExportTypes, Export!TypeOK, Progress
    <2>6. ToWalk' = ToWalk /\ Walked(e)' = {} /\ Seen(e)' = {}
        BY <2>4, <2>5, SameFits DEF Walked, Seen
    <2>7. Progress(e)'
        BY <2>4, <2>5, <2>6, SameFits, NoBundleFits DEF Progress
    <2>. QED BY <2>1, <2>3, <2>4, <2>5, <2>7, OwnStep
<1>. QED BY <1>1, <1>2

\* Export e is done with the first entry ahead.
LEMMA WalkedOne ==
    ASSUME ExportInv, NEW e \in Exporter, exports[e] = "walking",
           ahead[e] # {}, Export!Passed(e), UNCHANGED Export!input,
           bundle' \in [Exporter -> Bundles],
           noticed' \in [Exporter -> SUBSET Export!Item],
           \A d \in Exporter \ {e} :
               bundle'[d] = bundle[d] /\ noticed'[d] = noticed[d],
           destination' = destination,
           noticed'[e] = noticed[e]
               \cup (IF \/ Export!DeniedItem(Export!Entry(e))
                        \/ work[Export!Entry(e)].kind = "dir"
                     THEN {} ELSE {Export!Entry(e)}),
           Within(bundle'[e]),
           Fits(bundle'[e], Walked(e) \cup {Export!Entry(e)}, {})
    PROVE  ExportInv'
<1>. DEFINE p == Export!Entry(e)
<1>1. p \in ahead[e] /\ p \in ToWalk
    BY EntryAhead DEF ExportInv, ExportTypes, Progress
<1>. HIDE DEF p
<1>2. /\ ahead' = [ahead EXCEPT ![e] = @ \ {p}] /\ exports' = exports
    BY DEF Export!Passed, p
<1>3. ExportTypes'
    BY <1>2 DEF ExportInv, ExportTypes, Export!TypeOK, Export!input
<1>4. Alone(e) /\ Same
    BY <1>2 DEF Alone, Same, Export!input, ExportInv, ExportTypes
<1>5. ahead'[e] = ahead[e] \ {p} /\ exports'[e] = "walking"
    BY <1>2 DEF ExportInv, ExportTypes
<1>6. Walked(e)' = Walked(e) \cup {p}
    BY <1>1, <1>4, <1>5, SameFits DEF Walked
<1>7. Seen(e)' = Seen(e) \cup (IF \/ Export!DeniedItem(p)
                                  \/ work[p].kind = "dir" THEN {} ELSE {p})
    <2>1. \A q : Export!DeniedItem(q)' <=> Export!DeniedItem(q)
        BY <1>4 DEF Same, Export!DeniedItem
    <2>. QED BY <1>4, <1>6, <2>1 DEF Same, Seen
<1>8. Progress(e)'
    <2>1. ahead[e] \subseteq ToWalk /\ noticed[e] = Seen(e)
        BY DEF ExportInv, Progress
    <2>a. noticed'[e] = noticed[e]
              \cup (IF Export!DeniedItem(p) \/ work[p].kind = "dir"
                   THEN {} ELSE {p})
        BY DEF p
    <2>b. noticed'[e] = Seen(e)'
        BY <1>7, <2>1, <2>a
    <2>c. ahead'[e] \subseteq ToWalk'
        BY <1>4, <1>5, <2>1, SameFits
    <2>2. ahead'[e] \subseteq ToWalk' /\ noticed'[e] = Seen(e)'
        BY <2>b, <2>c
    <2>3. (Within(bundle[e]) /\ Fits(bundle[e], Walked(e), {}))'
        BY <1>4, <1>6, SameFits DEF p
    <2>. QED BY <1>5, <2>2, <2>3 DEF Progress
<1>. QED BY <1>3, <1>4, <1>5, <1>8, OwnStep

\* The name of a rejected entry is added to the bundle.
LEMMA RejectOne ==
    ASSUME bundle \in [Exporter -> Bundles], NEW e \in Exporter,
           NEW p \in Export!Item,
           bundle' = [bundle EXCEPT ![e].rejected = @ \cup {p}]
    PROVE  /\ bundle' \in [Exporter -> Bundles]
           /\ \A d \in Exporter \ {e} : bundle'[d] = bundle[d]
           /\ bundle'[e].files = bundle[e].files
           /\ bundle'[e].changes = bundle[e].changes
           /\ bundle'[e].rejected = bundle[e].rejected \cup {p}
<1>. DEFINE b == [bundle[e] EXCEPT !.rejected = bundle[e].rejected \cup {p}]
<1>1. bundle' = [bundle EXCEPT ![e] = b]
    OBVIOUS
<1>2. bundle[e] \in Bundles
    OBVIOUS
<1>3. /\ b \in Bundles /\ b.files = bundle[e].files
      /\ b.changes = bundle[e].changes
      /\ b.rejected = bundle[e].rejected \cup {p}
    BY <1>2 DEF Bundles
<1>. HIDE DEF b
<1>. QED BY <1>1, <1>3

LEMMA SkipStep ==
    ASSUME ExportInv, NEW e \in Exporter, Export!Skip(e)
    PROVE  ExportInv'
<1>. DEFINE p == Export!Entry(e)
<1>1. /\ exports[e] = "walking" /\ ahead[e] # {} /\ Export!Passed(e)
      /\ UNCHANGED Export!input /\ destination' = destination
      /\ noticed' = noticed
      /\ \/ /\ Export!DeniedItem(p)
            /\ bundle' = [bundle EXCEPT ![e].rejected = @ \cup {p}]
         \/ ~Export!DeniedItem(p) /\ work[p].kind = "dir" /\ bundle' = bundle
    BY DEF Export!Skip, Export!Reject
<1>2. p \in Export!Item
    BY <1>1, EntryAhead DEF ExportInv, ExportTypes
<1>. HIDE DEF p
<1>3. bundle \in [Exporter -> Bundles] /\ bundle[e] \in Bundles
    BY DEF ExportInv, ExportTypes
<1>4. Within(bundle[e]) /\ Fits(bundle[e], Walked(e), {})
    BY <1>1 DEF ExportInv, Progress
<1>5. ~Brought(p)
    BY <1>1 DEF Brought, Plain
<1>6. /\ bundle' \in [Exporter -> Bundles]
      /\ \A d \in Exporter \ {e} : bundle'[d] = bundle[d]
      /\ bundle'[e].files = bundle[e].files
      /\ bundle'[e].changes = bundle[e].changes
      /\ bundle'[e].rejected
             = bundle[e].rejected \cup (IF Barred(p) THEN {p} ELSE {})
    <2>1. CASE Export!DeniedItem(p)
        <3>6. Barred(p)
            BY <2>1 DEF Barred
        <3>. QED BY <1>1, <1>2, <1>3, <2>1, <3>6, RejectOne
    <2>2. CASE ~Export!DeniedItem(p)
        <3>1. work[p] \in Sources
            BY <1>2 DEF ExportInv, ExportTypes
        <3>2. work[p].links <= 1 /\ work[p].links \in Nat
            BY <1>1, <2>2, <3>1, SourcesSorted DEF Sorted
        <3>3. ~Barred(p)
            BY <1>1, <2>2, <3>2 DEF Barred
        <3>4. bundle' = bundle
            BY <1>1, <2>2
        <3>. QED BY <1>3, <3>3, <3>4
    <2>. QED BY <2>1, <2>2
<1>7. Fits(bundle'[e], Walked(e) \cup {p}, {})
    BY <1>4, <1>5, <1>6, PassOver
<1>8. Within(bundle'[e])
    BY <1>4, <1>6 DEF Within, Export!Bytes
<1>9. noticed' \in [Exporter -> SUBSET Export!Item]
    BY <1>1 DEF ExportInv, ExportTypes
<1>10. noticed'[e] = noticed[e]
           \cup (IF Export!DeniedItem(p) \/ work[p].kind = "dir"
                 THEN {} ELSE {p})
    BY <1>1
<1>. QED BY <1>1, <1>6, <1>7, <1>8, <1>9, <1>10, WalkedOne DEF p

LEMMA TurnDownStep ==
    ASSUME ExportInv, NEW e \in Exporter, Export!TurnDown(e)
    PROVE  ExportInv'
<1>. DEFINE p == Export!Entry(e)
<1>1. /\ exports[e] = "walking" /\ ahead[e] # {} /\ Export!Passed(e)
      /\ UNCHANGED Export!input /\ destination' = destination
      /\ noticed' = [noticed EXCEPT ![e] = @ \cup {p}]
      /\ ~Export!DeniedItem(p) /\ Barred(p) /\ work[p].kind # "dir"
      /\ bundle' = [bundle EXCEPT ![e].rejected = @ \cup {p}]
    BY DEF Export!TurnDown, Export!Reject, Export!Notice, Barred
<1>2. p \in Export!Item
    BY <1>1, EntryAhead DEF ExportInv, ExportTypes
<1>. HIDE DEF p
<1>3. bundle \in [Exporter -> Bundles] /\ bundle[e] \in Bundles
    BY DEF ExportInv, ExportTypes
<1>4. Within(bundle[e]) /\ Fits(bundle[e], Walked(e), {})
    BY <1>1 DEF ExportInv, Progress
<1>5. ~Brought(p)
    <2>1. work[p] \in Sources
        BY <1>2 DEF ExportInv, ExportTypes
    <2>2. work[p].links \in Nat
        BY <2>1, SourcesSorted DEF Sorted
    <2>. QED BY <1>1, <2>2 DEF Brought, Plain, Barred
<1>6. /\ bundle' \in [Exporter -> Bundles]
      /\ \A d \in Exporter \ {e} : bundle'[d] = bundle[d]
      /\ bundle'[e].files = bundle[e].files
      /\ bundle'[e].changes = bundle[e].changes
      /\ bundle'[e].rejected = bundle[e].rejected \cup {p}
    BY <1>1, <1>2, <1>3, RejectOne
<1>7. Fits(bundle'[e], Walked(e) \cup {p}, {})
    BY <1>1, <1>4, <1>5, <1>6, PassOver
<1>8. Within(bundle'[e])
    BY <1>4, <1>6 DEF Within, Export!Bytes
<1>9. /\ noticed' \in [Exporter -> SUBSET Export!Item]
      /\ noticed'[e] = noticed[e] \cup {p}
      /\ \A d \in Exporter \ {e} : noticed'[d] = noticed[d]
    BY <1>1, <1>2 DEF ExportInv, ExportTypes
<1>10. noticed'[e] = noticed[e]
           \cup (IF Export!DeniedItem(p) \/ work[p].kind = "dir"
                 THEN {} ELSE {p})
    BY <1>1, <1>9
<1>. QED BY <1>1, <1>6, <1>7, <1>8, <1>9, <1>10, WalkedOne DEF p

\* The files of a bundle that is taken into account.
LEMMA TakeStep ==
    ASSUME ExportInv, NEW e \in Exporter, Export!Take(e)
    PROVE  ExportInv'
<1>. DEFINE p     == Export!Entry(e)
            files == Export!CopiedFiles(bundle[e], p)
            same  == baseline[p] = work[p].content
            added == IF same THEN {} ELSE {Entered(p)}
<1>1. CASE Export!Refuse(e)
    BY <1>1, RefuseStep DEF Export!Take
<1>2. CASE ~Export!Refuse(e)
    <2>1. /\ exports[e] = "walking" /\ ahead[e] # {} /\ Export!Passed(e)
          /\ UNCHANGED Export!input /\ destination' = destination
          /\ noticed' = [noticed EXCEPT ![e] = @ \cup {p}]
          /\ Plain(p)
          /\ ~(work[p].content > MaxFileBytes)
          /\ same \/ /\ ~(Export!Cardinality(DOMAIN files) > MaxFiles)
                     /\ ~(Export!Bytes([files |-> files]) > MaxTotalBytes)
          /\ bundle' = [bundle EXCEPT ![e].files = files,
                                      ![e].changes = @ \cup added]
        BY <1>2 DEF Export!Take, Export!Notice, Plain, Entered
    <2>2. p \in Export!Item
        BY <2>1, EntryAhead DEF ExportInv, ExportTypes
    <2>. HIDE DEF p
    <2>3. /\ bundle \in [Exporter -> Bundles] /\ bundle[e] \in Bundles
          /\ baseline[p] \in Nat /\ work[p] \in Sources
        BY <2>2 DEF ExportInv, ExportTypes
    <2>4. Within(bundle[e]) /\ Fits(bundle[e], Walked(e), {})
        BY <2>1 DEF ExportInv, Progress
    <2>5. work[p].content \in Nat /\ work[p].links \in Nat
        BY <2>3, SourcesSorted DEF Sorted
    <2>6. ~Barred(p)
        BY <2>1, <2>5 DEF Barred, Plain
    <2>7. /\ files \in UNION {[D -> Nat] : D \in SUBSET Export!Item}
          /\ DOMAIN files \subseteq Export!Item
          /\ \A q \in DOMAIN files : files[q] \in Nat
          /\ \A q \in DOMAIN files : q = p \/ q \in DOMAIN bundle[e].files
          /\ same => files = bundle[e].files
          /\ \A q \in DOMAIN files : q # p => files[q] = bundle[e].files[q]
          /\ ~same => files[p] = work[p].content
        <3>1. PICK D \in SUBSET Export!Item : bundle[e].files \in [D -> Nat]
            BY <2>3 DEF Bundles
        <3>2. CASE same
            BY <3>1, <3>2 DEF Export!CopiedFiles
        <3>3. CASE ~same
            <4>1. files = [q \in D \cup {p} |-> IF q = p THEN work[p].content
                                                 ELSE bundle[e].files[q]]
                BY <3>1, <3>3 DEF Export!CopiedFiles
            <4>. HIDE DEF files, same
            <4>2. files \in [D \cup {p} -> Nat]
                BY <2>5, <3>1, <4>1
            <4>3. D \cup {p} \in SUBSET Export!Item
                BY <2>2
            <4>. QED BY <2>5, <3>1, <3>3, <4>1, <4>2, <4>3
        <3>. QED BY <3>2, <3>3
    <2>8. added \subseteq [path : Export!Item,
                           kind : {"added", "modified", "deleted"},
                           from : Nat, to : Nat]
        BY <2>2, <2>3, <2>5 DEF Entered, Export!Change
    <2>9. Fits([bundle[e] EXCEPT !.files = files,
                   !.changes = bundle[e].changes \cup added],
               Walked(e) \cup {p}, {})
        <3>. DEFINE c == [bundle[e] EXCEPT !.files = files,
                             !.changes = bundle[e].changes \cup added]
        <3>1. /\ c.files = files /\ c.rejected = bundle[e].rejected
              /\ c.changes = bundle[e].changes \cup added
            BY <2>3 DEF Bundles
        <3>. HIDE DEF c
        <3>. QED BY <2>1, <2>4, <2>6, <3>1, TakeIn DEF c
    <2>10. Within([files |-> files])
        <3>1. CASE same
            BY <2>4, <2>7, <3>1 DEF Within, Export!Bytes
        <3>2. CASE ~same
            <4>. DEFINE c == [files |-> files]
            <4>1. c.files = files
                OBVIOUS
            <4>. HIDE DEF c, files, same
            <4>2. /\ Export!Bytes(c) \in Nat
                  /\ Cardinality(DOMAIN c.files) \in Nat
                BY <2>7, <4>1, ExportCounts
            <4>3. Export!Bytes(c) <= MaxTotalBytes
                BY <2>1, <3>2, <4>2, LimitsAssumption DEF c
            <4>4. Cardinality(DOMAIN c.files) <= MaxFiles
                BY <2>1, <3>2, <4>1, <4>2, LimitsAssumption, ExportCardinality
            <4>5. \A q \in DOMAIN c.files : c.files[q] <= MaxFileBytes
                BY <2>1, <2>4, <2>5, <2>7, <3>2, <4>1, LimitsAssumption
                   DEF Within
            <4>. QED BY <4>3, <4>4, <4>5 DEF c, Within
        <3>. QED BY <3>1, <3>2
    <2>. DEFINE b == [bundle[e] EXCEPT !.files = files,
                         !.changes = bundle[e].changes \cup added]
    <2>. HIDE DEF files, added, same
    <2>11. /\ b \in Bundles /\ b.files = files
        BY <2>3, <2>7, <2>8 DEF Bundles
    <2>12. bundle' = [bundle EXCEPT ![e] = b]
        BY <2>1
    <2>13. Fits(b, Walked(e) \cup {p}, {})
        BY <2>9
    <2>14. Within(b)
        BY <2>10, <2>11 DEF Within, Export!Bytes
    <2>. HIDE DEF b
    <2>15. /\ bundle' \in [Exporter -> Bundles] /\ bundle'[e] = b
           /\ \A d \in Exporter \ {e} : bundle'[d] = bundle[d]
        BY <2>3, <2>11, <2>12
    <2>16. /\ noticed' \in [Exporter -> SUBSET Export!Item]
           /\ noticed'[e] = noticed[e] \cup {p}
           /\ \A d \in Exporter \ {e} : noticed'[d] = noticed[d]
        BY <2>1, <2>2 DEF ExportInv, ExportTypes
    <2>17. noticed'[e] = noticed[e]
               \cup (IF Export!DeniedItem(p) \/ work[p].kind = "dir"
                     THEN {} ELSE {p})
        BY <2>1, <2>16 DEF Plain
    <2>. QED BY <2>1, <2>13, <2>14, <2>15, <2>16, <2>17, WalkedOne DEF p
<1>. QED BY <1>1, <1>2

LEMMA WriteManifestStep ==
    ASSUME ExportInv, NEW e \in Exporter, Export!WriteManifest(e)
    PROVE  ExportInv'
<1>. DEFINE gone == {Export!Change(p, "deleted") : p \in Lost}
            b    == [bundle[e] EXCEPT !.changes = bundle[e].changes \cup gone,
                                      !.manifest = TRUE]
<1>1. /\ exports[e] = "walking" /\ ahead[e] = {}
      /\ exports' = [exports EXCEPT ![e] = "written"]
      /\ UNCHANGED Export!input
      /\ UNCHANGED <<destination, ahead, noticed>>
    BY DEF Export!WriteManifest, Export!Become
<1>2. Export!Missing(e) = Lost
    BY <1>1 DEF ExportInv, BaselineAllowed, Progress, Seen, Walked, ToWalk,
                Export!Missing, Lost
<1>3. bundle' = [bundle EXCEPT ![e] = b]
    BY <1>2 DEF Export!WriteManifest
<1>4. bundle \in [Exporter -> Bundles] /\ bundle[e] \in Bundles
    BY DEF ExportInv, ExportTypes
<1>5. gone \subseteq [path : Export!Item,
                      kind : {"added", "modified", "deleted"},
                      from : Nat, to : Nat]
    BY DEF Lost, Export!Change, ExportInv, ExportTypes
<1>6. Within(bundle[e]) /\ Fits(bundle[e], ToWalk, {})
    BY <1>1 DEF ExportInv, Progress, Walked
<1>7. /\ b \in Bundles /\ b.files = bundle[e].files /\ b.manifest
      /\ b.rejected = bundle[e].rejected
      /\ b.changes = bundle[e].changes \cup gone
    <2>. HIDE DEF gone
    <2>. QED BY <1>4, <1>5 DEF Bundles
<1>. HIDE DEF b
<1>8. Full(b)
    <2>1. Within(b)
        BY <1>6, <1>7 DEF Within, Export!Bytes
    <2>2. Fits(b, ToWalk, Lost)
        BY <1>6, <1>7 DEF Fits
    <2>. QED BY <1>7, <2>1, <2>2 DEF Full
<1>9. bundle' \in [Exporter -> Bundles] /\ bundle'[e] = b
    BY <1>3, <1>4, <1>7
<1>10. ExportTypes'
    BY <1>1, <1>9 DEF ExportInv, ExportTypes, Export!TypeOK, Export!input
<1>11. Alone(e) /\ Same
    BY <1>1, <1>3, <1>4
       DEF Alone, Same, Export!input, ExportInv, ExportTypes, Export!TypeOK
<1>12. exports'[e] = "written"
    BY <1>1 DEF ExportInv, ExportTypes, Export!TypeOK
<1>13. Progress(e)'
    BY <1>8, <1>9, <1>11, <1>12, SameFits DEF Progress
<1>. QED BY <1>1, <1>10, <1>11, <1>12, <1>13, OwnStep

LEMMA PublishStep ==
    ASSUME ExportInv, NEW e \in Exporter, Export!Publish(e)
    PROVE  ExportInv'
<1>1. CASE Export!Refuse(e)
    BY <1>1, RefuseStep DEF Export!Publish
<1>2. CASE ~Export!Refuse(e)
    <2>1. /\ exports[e] = "written"
          /\ destination' = [owner |-> e, bundle |-> bundle[e]]
          /\ exports' = [exports EXCEPT ![e] = "published"]
          /\ UNCHANGED Export!input
          /\ UNCHANGED <<ahead, bundle, noticed>>
        BY <1>2 DEF Export!Publish, Export!Become
    <2>2. exports'[e] = "published" /\ Full(bundle[e])
        BY <2>1 DEF ExportInv, ExportTypes, Export!TypeOK, Progress
    <2>3. ExportTypes'
        BY <2>1 DEF ExportInv, ExportTypes, Export!TypeOK, Export!input
    <2>4. Alone(e) /\ Same
        BY <2>1
           DEF Alone, Same, Export!input, ExportInv, ExportTypes, Export!TypeOK
    <2>5. BaselineAllowed'
        BY <2>4 DEF ExportInv, BaselineAllowed, Same, Export!DeniedItem
    <2>6. Progress(e)'
        BY <2>2 DEF Progress
    <2>7. exports'[destination'.owner] # "none" /\ Full(destination.bundle)'
        BY <2>1, <2>2, <2>4, SameFits
    <2>. QED BY <2>3, <2>4, <2>5, <2>6, <2>7, OthersProgress DEF ExportInv
<1>. QED BY <1>1, <1>2

\* A step that only says how an export has ended.
LEMMA EndedStep ==
    ASSUME ExportInv, NEW e \in Exporter,
           NEW s \in {"ok", "failed", "killed"}, Export!Become(e, s),
           UNCHANGED Export!input,
           UNCHANGED <<destination, ahead, bundle, noticed>>
    PROVE  ExportInv'
<1>1. exports' = [exports EXCEPT ![e] = s]
    BY DEF Export!Become
<1>2. ExportTypes'
    BY <1>1 DEF ExportInv, ExportTypes, Export!TypeOK, Export!input
<1>3. Alone(e) /\ exports'[e] = s
    BY <1>1 DEF Alone, ExportInv, ExportTypes, Export!TypeOK
<1>4. Progress(e)'
    BY <1>3 DEF Progress
<1>. QED BY <1>2, <1>3, <1>4, OwnStep

LEMMA ReceiveStep ==
    ASSUME ExportInv, Export!Receive
    PROVE  ExportInv'
<1>1. /\ \A e \in Exporter : exports[e] = "none"
      /\ exports' = [e \in Exporter |-> "idle"]
      /\ baseline' \in [Export!Item -> {0, 1}]
      /\ work' \in [Export!Item -> Sources]
      /\ UNCHANGED <<destination, ahead, bundle, noticed>>
    BY DEF Export!Receive, Sources
<1>2. ExportTypes'
    BY <1>1 DEF ExportInv, ExportTypes, Export!TypeOK
<1>3. BaselineAllowed'
    BY DEF BaselineAllowed, Export!Receive, Export!DeniedItem
<1>4. \A e \in Exporter : Progress(e)'
    BY <1>1 DEF ExportInv, Progress
<1>5. ~Export!Published'
    BY <1>1 DEF ExportInv, Export!Published
<1>. QED BY <1>2, <1>3, <1>4, <1>5 DEF ExportInv

LEMMA OccupyStep ==
    ASSUME ExportInv, Export!Occupy
    PROVE  ExportInv'
<1>1. /\ destination'.owner \in {"empty", "other"}
      /\ UNCHANGED <<exports, ahead, bundle, noticed>>
      /\ UNCHANGED Export!input
    BY DEF Export!Occupy, Export!Someone
<1>2. ~Export!Published'
    BY <1>1, ExportAssumption DEF Export!Published
<1>3. Same
    BY <1>1 DEF Same, Export!input
<1>4. BaselineAllowed'
    BY <1>3 DEF ExportInv, BaselineAllowed, Same, Export!DeniedItem
<1>5. ExportTypes'
    BY <1>1 DEF ExportInv, ExportTypes, Export!TypeOK, Export!input
<1>6. ASSUME NEW d \in Exporter PROVE Progress(d)'
    <2>1. Walked(d)' = Walked(d) /\ Seen(d)' = Seen(d)
        BY <1>1, <1>3, SameFits DEF Same, Walked, Seen, Export!DeniedItem
    <2>. QED BY <1>1, <1>3, <2>1, SameFits DEF ExportInv, Progress
<1>. QED BY <1>2, <1>4, <1>5, <1>6 DEF ExportInv

\* Every step of an export keeps the invariant.
LEMMA ExportStep == ExportInv /\ Export!Next => ExportInv'
<1>. SUFFICES ASSUME ExportInv, Export!Next PROVE ExportInv'
    OBVIOUS
<1>1. ASSUME NEW e \in Exporter, Export!SyncParent(e) PROVE ExportInv'
    BY <1>1, EndedStep DEF Export!SyncParent
<1>2. ASSUME NEW e \in Exporter, Export!Kill(e) PROVE ExportInv'
    BY <1>2, EndedStep DEF Export!Kill
<1>3. ASSUME NEW e \in Exporter, Export!Fail(e) PROVE ExportInv'
    BY <1>3, RefuseStep DEF Export!Fail
<1>. QED
    BY <1>1, <1>2, <1>3, PrepareStep, SkipStep, TurnDownStep, TakeStep,
       WriteManifestStep, PublishStep, ReceiveStep, OccupyStep
       DEF Export!Next

LEMMA ExportKept == ExportInv /\ UNCHANGED exporting => ExportInv'
<1>. SUFFICES ASSUME ExportInv, UNCHANGED exporting PROVE ExportInv'
    OBVIOUS
<1>1. /\ UNCHANGED Export!input /\ Same
      /\ UNCHANGED <<exports, destination, ahead, bundle, noticed>>
    BY DEF exporting, Export!input, Same
<1>2. ExportTypes'
    BY <1>1 DEF ExportInv, ExportTypes, Export!TypeOK, Export!input
<1>3. ASSUME NEW d \in Exporter PROVE Progress(d)'
    <2>1. Walked(d)' = Walked(d) /\ Seen(d)' = Seen(d)
        BY <1>1, SameFits DEF Same, Walked, Seen, Export!DeniedItem
    <2>. QED BY <1>1, <2>1, SameFits DEF ExportInv, Progress
<1>. QED BY <1>1, <1>2, <1>3, InputKept DEF ExportInv

LEMMA ExportInvariant == WorkspaceSpec => []ExportInv
<1>1. WorkspaceInit => ExportInv
    BY ExportInit DEF WorkspaceInit
<1>2. ExportInv /\ [WorkspaceNext]_everything => ExportInv'
    BY ExportStep, ExportKept DEF WorkspaceNext, everything
<1>. QED BY <1>1, <1>2, PTL DEF WorkspaceSpec

\* A bundle at the destination is whole, leads from the baseline exactly to
\* the workspace and is within the policy's limits, also after a kill.
THEOREM ExportsAreFaithful == WorkspaceSpec => []ExportFaithful
<1>1. ExportInv => ExportFaithful
    BY FullMeans
       DEF ExportInv, ExportTypes, ExportFaithful, Export!ExportFaithful,
           Export!BundleWhole, Export!ExportExact, Export!ExportBounded
<1>. QED BY <1>1, ExportInvariant, PTL

\* No export replaces another one's bundle or what another program has put at
\* the destination, unless it is an empty directory.
THEOREM DestinationIsKept == WorkspaceSpec => DestinationKept
<1>. DEFINE A == \/ destination = Export!Nowhere
                 \/ destination = Export!Someone(FALSE)
<1>1. ASSUME Export!Next PROVE [A]_destination
    BY <1>1
       DEF Export!Next, Export!Prepare, Export!Skip, Export!TurnDown,
           Export!Take, Export!WriteManifest, Export!Publish,
           Export!SyncParent, Export!Fail, Export!Kill, Export!Receive,
           Export!Occupy, Export!Refuse
<1>2. [WorkspaceNext]_everything => [A]_destination
    BY <1>1 DEF WorkspaceNext, everything, exporting
<1>. QED
    BY <1>2, PTL DEF WorkspaceSpec, DestinationKept, Export!DestinationKept

=============================================================================
