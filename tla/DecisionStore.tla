--------------------------- MODULE DecisionStore ---------------------------
(***************************************************************************)
(* The remembered egress decisions of                                      *)
(* crates/sandbox-guard-runner/src/approval.rs: a JSON file that several   *)
(* Guard processes (running sessions and `guard approvals`) share under an *)
(* advisory lock.  Every system call of an operation that another process, *)
(* a kill or a power loss can come between is a step of its own.  The copy *)
(* a session keeps in memory is snap of module EgressBroker.               *)
(***************************************************************************)
CONSTANTS
    Process,  \* Guard processes
    Host,     \* exact hostnames
    Nobody,   \* no process
    Torn      \* a file that read_decisions refuses: cut off by a power loss

VARIABLES
    file,       \* the published document
    survivors,  \* the documents a power loss may leave under its name
    locker,     \* holder of the flock
    pc,
    op,         \* the operation each process is in
    found       \* what it read under the lock

vars == <<file, survivors, locker, pc, op, found>>

Abstract == INSTANCE DecisionMap WITH map <- file

ASSUME NobodyAssumption == Nobody \notin Process
ASSUME TornAssumption   == Torn \notin Abstract!Documents

Documents == Abstract!Documents
Effect(o, d) == Abstract!Effect(o, d)

Opening == [kind |-> "open"]
Operations == Abstract!Updates \cup {Opening}

NoDocument == [h \in Host |-> "none"]

\* Steps that hold the lock.
Locked == {"locked", "read", "synced", "renamed", "done", "failed"}
Steps  == {"off", "ready", "lock"} \cup Locked

Init ==
    /\ file \in Documents /\ survivors = {file}
    /\ locker = Nobody
    /\ pc = [p \in Process |-> "off"]
    /\ op = [p \in Process |-> Opening]
    /\ found = [p \in Process |-> NoDocument]

Goto(p, label) == pc' = [pc EXCEPT ![p] = label]

\* The operation returns: its local variables are gone.
Return(p, label) ==
    /\ Goto(p, label)
    /\ op' = [op EXCEPT ![p] = Opening]
    /\ found' = [found EXCEPT ![p] = NoDocument]

\* A process opens the store, and then forgets, clears or remembers.
Begin(p, o) ==
    /\ IF o = Opening THEN pc[p] = "off" ELSE pc[p] = "ready"
    /\ op' = [op EXCEPT ![p] = o]
    /\ Goto(p, "lock")
    /\ UNCHANGED <<file, survivors, locker, found>>

\* Mutant: a shared lock does not keep other writers out.
LockShared(p) ==
    /\ pc[p] = "lock"
    /\ locker' = p
    /\ Goto(p, "locked")
    /\ UNCHANGED <<file, survivors, op, found>>

\* lock_decision_store: flock(LOCK_EX) waits.
Lock(p) ==
    /\ pc[p] = "lock"
    /\ locker = Nobody
    /\ locker' = p
    /\ Goto(p, "locked")
    /\ UNCHANGED <<file, survivors, op, found>>

\* A failed open leaves no store to work with.
AfterFailure(p) == IF op[p] = Opening THEN "off" ELSE "ready"

\* The lock file cannot be opened, is not a private file, or flock fails.
LockFails(p) ==
    /\ pc[p] = "lock"
    /\ Return(p, AfterFailure(p))
    /\ UNCHANGED <<file, survivors, locker>>

\* The operation has something to write: forget and clear may not.
Changes(o, d) == o.kind = "remember" \/ Effect(o, d) # d

\* read_decisions: open's document, or the one the operation is applied to.
Read(p) ==
    /\ pc[p] = "locked"
    /\ file # Torn
    /\ found' = [found EXCEPT ![p] = file]
    /\ Goto(p, IF Changes(op[p], file) THEN "read" ELSE "done")
    /\ UNCHANGED <<file, survivors, locker, op>>

\* write_decisions: the temporary file is written and synced.
WriteTemporary(p) ==
    /\ pc[p] = "read"
    /\ Goto(p, "synced")
    /\ UNCHANGED <<file, survivors, locker, op, found>>

\* The rename publishes; until the directory is synced a power loss may undo
\* it.
Publish(p) ==
    /\ pc[p] = "synced"
    /\ file' = Effect(op[p], found[p])
    /\ survivors' = survivors \cup {file'}
    /\ Goto(p, "renamed")
    /\ UNCHANGED <<locker, op, found>>

\* Mutant: the directory is not synced.
SyncNothing(p) ==
    /\ pc[p] = "renamed"
    /\ Goto(p, "done")
    /\ UNCHANGED <<file, survivors, locker, op, found>>

\* The directory sync.
SyncDirectory(p) ==
    /\ pc[p] = "renamed"
    /\ survivors' = {file}
    /\ Goto(p, "done")
    /\ UNCHANGED <<file, locker, op, found>>

\* Any of the steps fails, and the operation returns an error.
Fail(p) ==
    /\ pc[p] \in {"locked", "read", "synced", "renamed"}
    /\ Goto(p, "failed")
    /\ UNCHANGED <<file, survivors, locker, op, found>>

\* The lock is dropped.
Unlock(p) ==
    /\ pc[p] \in {"done", "failed"}
    /\ locker' = Nobody
    /\ Return(p, IF pc[p] = "failed" THEN AfterFailure(p) ELSE "ready")
    /\ UNCHANGED <<file, survivors>>

\* The process exits or is killed; the kernel drops its lock.
Exit(p) ==
    /\ pc[p] # "off"
    /\ Return(p, "off")
    /\ locker' = IF locker = p THEN Nobody ELSE locker
    /\ UNCHANGED <<file, survivors>>

\* The machine loses power: every process is gone, and the name shows one of
\* the documents that may have reached the disk.
PowerLoss ==
    /\ file' \in survivors
    /\ survivors' = {file'}
    /\ locker' = Nobody
    /\ pc' = [p \in Process |-> "off"]
    /\ op' = [p \in Process |-> Opening]
    /\ found' = [p \in Process |-> NoDocument]

Step(p) ==
    \/ Lock(p) \/ LockFails(p) \/ Read(p) \/ WriteTemporary(p) \/ Publish(p)
    \/ SyncDirectory(p) \/ Fail(p) \/ Unlock(p)

Next ==
    \/ \E p \in Process :
          Step(p) \/ Exit(p) \/ (\E o \in Operations : Begin(p, o))
    \/ PowerLoss

Spec == Init /\ [][Next]_vars

-----------------------------------------------------------------------------
(* Properties.                                                             *)

\* Type correctness.  No process ever finds a file it cannot read: what a
\* power loss leaves is a whole document.
TypeOK ==
    /\ file \in Documents
    /\ file \in survivors /\ survivors \subseteq Documents
    /\ locker \in Process \cup {Nobody}
    /\ pc \in [Process -> Steps]
    /\ op \in [Process -> Operations]
    /\ found \in [Process -> Documents]

\* Every operation is applied whole and to the latest document: no process
\* overwrites another's decision with a copy that lacks it.
Atomic == Abstract!Spec

\* An operation that reported a change to its caller survives a power loss.
ReportedIsDurable ==
    \A p \in Process :
        pc[p] = "done" /\ Changes(op[p], found[p]) => survivors = {file}

\* remember returned an error: the file does not grant what it did not grant
\* before (docs/SECURITY_MODEL.md, "Persistence failure denies rather than
\* widening access").
FailureWidensNothing ==
    \A p \in Process :
        /\ pc[p] = "failed" /\ op[p].kind = "remember"
        /\ op[p].value = "allow" /\ found[p][op[p].host] # "allow"
        => file[op[p].host] # "allow"

=============================================================================
