----------------------------- MODULE Uninstall -----------------------------
(***************************************************************************)
(* `guard uninstall --remove` of crates/sandbox-guard-cli/src/uninstall.rs *)
(* (execute_removal): after a look at the active stages every root of      *)
(* Guard's state is opened, renamed to a tombstone beside it and only then *)
(* deleted; when one cannot be renamed the others are renamed back.        *)
(*                                                                         *)
(* Sessions start and write meanwhile, and create a missing root anew.     *)
(* Another uninstall may run at the same time: the lock of the remembered  *)
(* decisions keeps them apart only when its file exists.                   *)
(***************************************************************************)
EXTENDS Integers, FiniteSets, Sequences

CONSTANTS
    Remover,   \* uninstall processes
    Session,   \* runs that use the state
    Absent,    \* no directory, or nobody
    MaxInodes, \* bound on directories ever made
    MaxMishaps  \* bound on failing system calls and kills

\* The roots in the order they are treated.
Roots == <<"data", "config">>
Root  == {Roots[k] : k \in DOMAIN Roots}
Inode == 1..MaxInodes

VARIABLES
    phase,    \* each uninstall's progress
    next,     \* the root it is at
    held,     \* the directories it has opened and validated
    moved,    \* the roots it has isolated, in order
    path,     \* the directory at each root's path
    tomb,     \* directories in tombstones
    deleted,  \* directories deleted or in the course of it
    lockfile, \* directories that contain a decision lock
    holder,   \* holder of the decision lock of each directory
    running,  \* sessions that hold their stage
    early,    \* sessions that ran when each uninstall looked
    users,    \* running sessions with files in each directory
    harmed,   \* <<uninstall, session>>: files deleted of a running session
    inodes, mishaps

vars == <<phase, next, held, moved, path, tomb, deleted, lockfile, holder,
          running, early, users, harmed, inodes, mishaps>>
fs     == <<path, tomb, deleted>>
locks  == <<lockfile, holder>>
usage  == <<running, users>>

Init ==
    /\ phase = [u \in Remover |-> "idle"] /\ next = [u \in Remover |-> 1]
    /\ held = [u \in Remover |-> [r \in Root |-> Absent]]
    /\ moved = [u \in Remover |-> <<>>]
    /\ path = [r \in Root |-> IF r = "data" THEN 1 ELSE 2]
    /\ tomb = {} /\ deleted = {}
    /\ lockfile = {} /\ holder = [i \in Inode |-> Absent]
    /\ running = {} /\ early = [u \in Remover |-> {}]
    /\ users = [i \in Inode |-> {}] /\ harmed = {}
    /\ inodes = 2 /\ mishaps = 0

Goto(u, p) == phase' = [phase EXCEPT ![u] = p]

Error == mishaps < MaxMishaps /\ mishaps' = mishaps + 1

\* The process is over: its lock is gone.
Release(u) ==
    holder' = [i \in Inode |-> IF holder[i] = u THEN Absent ELSE holder[i]]

-----------------------------------------------------------------------------
(* Sessions.                                                               *)

\* A run locks its stage.
Start(s) ==
    /\ s \notin running /\ running' = running \cup {s}
    /\ UNCHANGED <<phase, next, held, moved, fs, locks, early, users, harmed,
                   inodes, mishaps>>

\* It writes below the data root, creating it when it is missing.
Use(s) ==
    /\ s \in running
    /\ IF path["data"] = Absent
           THEN /\ inodes < MaxInodes /\ inodes' = inodes + 1
                /\ path' = [path EXCEPT !["data"] = inodes + 1]
                /\ users' = [users EXCEPT ![inodes + 1] = {s}]
           ELSE /\ users' = [users EXCEPT ![path["data"]] = @ \cup {s}]
                /\ UNCHANGED <<path, inodes>>
    /\ UNCHANGED <<phase, next, held, moved, tomb, deleted, locks, running,
                   early, harmed, mishaps>>

\* It remembers a decision under the lock, whose file it creates.
TakeLock(s) ==
    /\ s \in running /\ path["data"] # Absent
    /\ holder[path["data"]] = Absent
    /\ \A i \in Inode : holder[i] # s
    /\ lockfile' = lockfile \cup {path["data"]}
    /\ holder' = [holder EXCEPT ![path["data"]] = s]
    /\ UNCHANGED <<phase, next, held, moved, fs, usage, early, harmed, inodes,
                   mishaps>>

DropLock(s) ==
    /\ \E i \in Inode : holder[i] = s
    /\ Release(s)
    /\ UNCHANGED <<phase, next, held, moved, fs, lockfile, usage, early, harmed,
                   inodes, mishaps>>

End(s) ==
    /\ s \in running /\ running' = running \ {s}
    /\ users' = [i \in Inode |-> users[i] \ {s}]
    /\ Release(s)
    /\ UNCHANGED <<phase, next, held, moved, fs, lockfile, early, harmed, inodes,
                   mishaps>>

-----------------------------------------------------------------------------
(* execute_removal.                                                        *)

\* inspect_root: the directory may be unsafe (a link, another owner or mode).
Statuses(r) == IF path[r] = Absent THEN {"missing"} ELSE {"present", "unsafe"}

\* build_plan: an unsafe root refuses the removal.
Plan(u) ==
    /\ phase[u] = "idle"
    /\ \E status \in [Root -> {"missing", "present", "unsafe"}] :
          /\ \A r \in Root : status[r] \in Statuses(r)
          /\ Goto(u, IF \E r \in Root : status[r] = "unsafe" THEN "refused" ELSE "plan")
    /\ UNCHANGED <<next, held, moved, fs, locks, usage, early, harmed, inodes,
                   mishaps>>

\* --yes, or the phrase typed at the terminal.
Confirm(u) ==
    /\ phase[u] = "plan"
    /\ \E answer \in BOOLEAN : Goto(u, IF answer THEN "check" ELSE "refused")
    /\ UNCHANGED <<next, held, moved, fs, locks, usage, early, harmed, inodes,
                   mishaps>>

\* Mutant: active stages are not looked at.
CheckNot(u) ==
    /\ phase[u] = "check" /\ early' = [early EXCEPT ![u] = running]
    /\ Goto(u, "validate")
    /\ UNCHANGED <<next, held, moved, fs, locks, usage, harmed, inodes, mishaps>>

\* garbage_collect as a dry run with age zero: any locked stage refuses.
\* An error here or in the next step ends the process like a kill.
Check(u) ==
    /\ phase[u] = "check" /\ early' = [early EXCEPT ![u] = running]
    /\ Goto(u, IF running = {} THEN "validate" ELSE "refused")
    /\ UNCHANGED <<next, held, moved, fs, locks, usage, harmed, inodes, mishaps>>

\* ValidatedRoot::open, or a root that is missing.
Validate(u) ==
    /\ phase[u] = "validate"
    /\ held' = [held EXCEPT ![u][Roots[next[u]]] = path[Roots[next[u]]]]
    /\ IF next[u] = Len(Roots)
           THEN Goto(u, "lock") /\ next' = [next EXCEPT ![u] = 1]
           ELSE next' = [next EXCEPT ![u] = @ + 1] /\ UNCHANGED phase
    /\ UNCHANGED <<moved, fs, locks, usage, early, harmed, inodes, mishaps>>

\* acquire_existing_decision_lock: a missing file is no obstacle.
Lock(u) ==
    /\ phase[u] = "lock"
    /\ LET i == path["data"] IN
       \/ /\ i = Absent \/ i \notin lockfile
          /\ Goto(u, "rename") /\ UNCHANGED holder
       \/ /\ i # Absent /\ i \in lockfile /\ holder[i] = Absent
          /\ holder' = [holder EXCEPT ![i] = u] /\ Goto(u, "rename")
       \/ /\ i # Absent /\ i \in lockfile /\ holder[i] # Absent
          /\ Goto(u, "refused") /\ UNCHANGED holder
    /\ UNCHANGED <<next, held, moved, fs, lockfile, usage, early, harmed,
                   inodes, mishaps>>

\* The next root, or the deletion once all are isolated.
Advance(u) ==
    IF next[u] = Len(Roots)
        THEN Goto(u, "delete") /\ next' = [next EXCEPT ![u] = 1]
        ELSE Goto(u, "rename") /\ next' = [next EXCEPT ![u] = @ + 1]

\* rename_to_tombstone: whatever is at the path is renamed.
Rename(u) ==
    /\ phase[u] = "rename"
    /\ LET r == Roots[next[u]] IN
       \/ /\ held[u][r] = Absent
          /\ Advance(u) /\ UNCHANGED <<path, tomb>>
       \/ /\ held[u][r] # Absent /\ path[r] = Absent
          /\ Goto(u, "rollback") /\ UNCHANGED <<next, path, tomb>>
       \/ /\ held[u][r] # Absent /\ path[r] # Absent
          /\ path' = [path EXCEPT ![r] = Absent]
          /\ tomb' = tomb \cup {<<u, r, path[r]>>}
          /\ Goto(u, "inspect") /\ UNCHANGED next
    /\ UNCHANGED <<held, moved, deleted, locks, usage, early, harmed, inodes,
                   mishaps>>

\* The directory in the tombstone of a root.
Tombstone(u, r) == CHOOSE i \in Inode : <<u, r, i>> \in tomb

\* Mutant: what was renamed is not compared with what was opened.
InspectNot(u) ==
    /\ phase[u] = "inspect"
    /\ moved' = [moved EXCEPT ![u] = Append(@, Roots[next[u]])]
    /\ Advance(u)
    /\ UNCHANGED <<held, fs, locks, usage, early, harmed, inodes, mishaps>>

\* The tombstone must hold the directory that was opened.  Another one is
\* renamed back unless the path has been taken again.
Inspect(u) ==
    /\ phase[u] = "inspect"
    /\ LET r == Roots[next[u]]
           i == Tombstone(u, r)
       IN IF i = held[u][r]
              THEN /\ moved' = [moved EXCEPT ![u] = Append(@, r)]
                   /\ Advance(u) /\ UNCHANGED <<path, tomb>>
              ELSE /\ IF path[r] = Absent
                          THEN /\ path' = [path EXCEPT ![r] = i]
                               /\ tomb' = tomb \ {<<u, r, i>>}
                          ELSE UNCHANGED <<path, tomb>>
                   /\ Goto(u, "rollback") /\ UNCHANGED <<next, moved>>
    /\ UNCHANGED <<held, deleted, locks, usage, early, harmed, inodes, mishaps>>

\* rename(2) or the inspection of the tombstone fails; in the latter case the
\* root stays where it is.
FailIsolation(u) ==
    /\ phase[u] \in {"rename", "inspect"} /\ Error
    /\ Goto(u, "rollback")
    /\ UNCHANGED <<next, held, moved, fs, locks, usage, early, harmed, inodes>>

\* Mutant: a path that was created again is passed over.
RollbackSkips(u) ==
    /\ phase[u] = "rollback"
    /\ IF moved[u] = <<>>
           THEN Goto(u, "rolled back") /\ UNCHANGED <<moved, path, tomb>>
           ELSE LET r == moved[u][Len(moved[u])]
                    i == Tombstone(u, r)
                IN /\ IF path[r] # Absent
                          THEN UNCHANGED <<path, tomb>>
                          ELSE /\ path' = [path EXCEPT ![r] = i]
                               /\ tomb' = tomb \ {<<u, r, i>>}
                   /\ moved' = [moved EXCEPT ![u] = SubSeq(@, 1, Len(@) - 1)]
                   /\ UNCHANGED phase
    /\ UNCHANGED <<next, held, deleted, locks, usage, early, harmed, inodes,
                   mishaps>>

\* rollback_tombstones, last first: it ends at a path that was created again.
Rollback(u) ==
    /\ phase[u] = "rollback"
    /\ IF moved[u] = <<>>
           THEN Goto(u, "rolled back") /\ UNCHANGED <<moved, path, tomb>>
           ELSE LET r == moved[u][Len(moved[u])]
                    i == Tombstone(u, r)
                IN IF path[r] # Absent
                       THEN Goto(u, "incomplete") /\ UNCHANGED <<moved, path, tomb>>
                       ELSE /\ path' = [path EXCEPT ![r] = i]
                            /\ tomb' = tomb \ {<<u, r, i>>}
                            /\ moved' = [moved EXCEPT ![u] = SubSeq(@, 1, Len(@) - 1)]
                            /\ UNCHANGED phase
    /\ UNCHANGED <<next, held, deleted, locks, usage, early, harmed, inodes,
                   mishaps>>

\* remove_dir_all of the tombstones; one that fails does not stop the rest.
Delete(u) ==
    /\ phase[u] = "delete"
    /\ IF moved[u] = <<>>
           THEN Goto(u, "removed") /\ UNCHANGED <<moved, tomb, deleted, harmed, mishaps>>
           ELSE LET r == Head(moved[u])
                    i == Tombstone(u, r)
                IN /\ deleted' = deleted \cup {i}
                   /\ harmed' = harmed \cup {<<u, s>> : s \in users[i]}
                   /\ \/ tomb' = tomb \ {<<u, r, i>>} /\ UNCHANGED mishaps
                      \/ Error /\ UNCHANGED tomb
                   /\ moved' = [moved EXCEPT ![u] = Tail(@)]
                   /\ UNCHANGED phase
    /\ UNCHANGED <<next, held, path, locks, usage, early, inodes>>

Over == {"refused", "rolled back", "incomplete", "removed", "killed"}

\* The process ends, or is killed anywhere.
Exit(u) ==
    /\ \/ phase[u] \in Over \ {"killed"} /\ UNCHANGED <<phase, mishaps>>
       \/ phase[u] \notin Over \cup {"idle"} /\ Error /\ Goto(u, "killed")
    /\ Release(u)
    /\ UNCHANGED <<next, held, moved, fs, lockfile, usage, early, harmed, inodes>>

Next ==
    \/ \E s \in Session :
          Start(s) \/ Use(s) \/ TakeLock(s) \/ DropLock(s) \/ End(s)
    \/ \E u \in Remover :
          \/ Plan(u) \/ Confirm(u) \/ Check(u) \/ Validate(u) \/ Lock(u)
          \/ Rename(u) \/ Inspect(u) \/ FailIsolation(u)
          \/ Rollback(u) \/ Delete(u) \/ Exit(u)

Spec == Init /\ [][Next]_vars

-----------------------------------------------------------------------------
(* Properties.                                                             *)

\* Every directory is in one place: at one path, in one tombstone or gone.
TypeOK ==
    /\ \A r \in Root : path[r] \in 1..inodes \cup {Absent}
    /\ deleted \subseteq 1..inodes /\ lockfile \subseteq 1..inodes
    /\ \A i \in 1..inodes :
          Cardinality({r \in Root : path[r] = i} \cup {t \in tomb : t[3] = i}) <= 1

\* Nothing is lost: a directory that is neither at its path nor in a
\* tombstone was deleted by an uninstall that had opened it, and only after
\* it had isolated every root it had opened.
OnlyValidatedDeleted ==
    \A i \in 1..inodes :
        \/ i \notin deleted
              /\ \/ \E r \in Root : path[r] = i
                 \/ \E t \in tomb : t[3] = i
        \/ /\ i \in deleted
           /\ \E u \in Remover :
                 /\ phase[u] \in {"delete", "removed", "killed"}
                 /\ \E r \in Root : held[u][r] = i

\* A rollback that reports success has put every root that was isolated back
\* to its path, unless it is taken by what it found there ("prior renames
\* were rolled back").
RollbackExact ==
    [][\A u \in Remover :
          phase[u] = "rollback" /\ phase'[u] = "rolled back"
              => \A t \in tomb : t[1] = u => t[2] = Roots[next[u]]]_vars

\* No files of a session that was running when uninstall looked, and still
\* runs, are deleted ("active stage ... checks abort before any root is
\* renamed").
EarlySessionsSafe == \A w \in harmed : w[2] \notin early[w[1]]

\* A removal takes nothing but what it validated, and nothing from under a
\* session that it could see.
RemovalSafe == OnlyValidatedDeleted /\ EarlySessionsSafe

=============================================================================
