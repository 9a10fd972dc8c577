--------------------------- MODULE MCPrivateState ---------------------------
(* The private state of the guard: stages and their collection, the stores *)
(* of packages, and its removal as a whole.  The three share no variable,  *)
(* so a behaviour follows one of them and leaves the others alone.         *)
EXTENDS StageGc, FiniteSets, TLC

CONSTANTS Run, Proc, Name, Version, Absent, Files, MaxNames,
          MaxVersions, MaxInstalls, MaxErrors, MaxLosses,
          Remover, MaxInodes, MaxMishaps

VARIABLES
    component,
    kind, step, job, seen, lock, dir, images, files, synced, doomed, reported,
    made, errors, losses,
    phase, next, held, moved, path, tomb, deleted, lockfile, holder, running,
    early, users, harmed, inodes, mishaps

Packages == INSTANCE PackageStore
Removal  == INSTANCE Uninstall WITH Session <- Run

ASSUME PackageAssumption ==
    /\ IsFiniteSet(Name) /\ IsFiniteSet(Version)
    /\ {Files, MaxNames, MaxVersions, MaxInstalls, MaxErrors, MaxLosses}
          \subseteq Nat
    /\ Absent \notin Packages!Id /\ Nobody \notin Proc
ASSUME RemovalAssumption ==
    /\ MaxInodes \in Nat \ {0, 1} /\ MaxMishaps \in Nat
    /\ Absent \notin Removal!Inode

packages == <<kind, step, job, seen, lock, dir, images, files, synced, doomed,
              reported, made, errors, losses>>
removal == <<phase, next, held, moved, path, tomb, deleted, lockfile, holder,
             running, early, users, harmed, inodes, mishaps>>

Symmetry ==
    UNION {Permutations(S) : S \in {Session, Collector, Proc, Remover}}

everything == <<component, vars, packages, removal>>

StateInit ==
    /\ component \in {"stages", "packages", "removal"}
    /\ Init /\ Packages!Init /\ Removal!Init
    /\ component = "packages" \/ kind = "profile"

StateNext ==
    \/ /\ component = "stages" /\ Next
       /\ UNCHANGED <<component, packages, removal>>
    \/ /\ component = "packages" /\ Packages!Next
       /\ UNCHANGED <<component, vars, removal>>
    \/ /\ component = "removal" /\ Removal!Next
       /\ UNCHANGED <<component, vars, packages>>

StateSpec == StateInit /\ [][StateNext]_everything

\* Type correctness of the three components.
TypesOK == TypeOK /\ Packages!TypeOK /\ Removal!TypeOK

\* A rollback that reports success has restored every isolated root.
RollbackExact == Removal!RollbackExact

\* Installed packages are whole, within limits and verified as one.
InstallationsSafe == Packages!InstallationsSafe

\* A published package is durable once reported, and never replaced.
PublicationKept == Packages!PublicationKept

\* Uninstall deletes only what it validated, under no session it could see.
RemovalSafe == Removal!RemovalSafe

=============================================================================
