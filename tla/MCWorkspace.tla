---------------------------- MODULE MCWorkspace ----------------------------
(* The way of the workspace: the source tree is copied into a stage, the   *)
(* tool's changes are exported, and the export is applied to the source.   *)
(* The three share no variable, so a behaviour follows one of them and     *)
(* leaves the others alone.  Two changes are applied: one at the source's  *)
(* root, one two directories below it.                                     *)
EXTENDS ApplyTransaction

CONSTANTS d1, d2, Order, Above, Tracked, DeniedSets, MaxFiles, MaxFileBytes,
          MaxTotalBytes, MaxEdits, MaxClock, Exporter, Entries, Under, GitPath,
          Contents

VARIABLES
    component,
    walk, setting, names, nodes, clock, edits, queue, handle, copies, made,
    excluded, committed,
    exports, baseline, work, denied, place, destination, ahead, bundle, noticed

MCDirs  == {d1, d2}
MCChain == <<<<>>, <<d1, d2>>>>

\* A file at the root, a directory and a file in it; .git comes first.
MCOrder   == <<"a", "d", "d/e">>
MCEntries == <<".git">> \o MCOrder
MCAbove   == [p \in {".git", "a", "d", "d/e"} |->
                 IF p = "d/e" THEN {"d"} ELSE {}]

Staging == INSTANCE StageCopy
Export  == INSTANCE ChangeExport

\* The two walks are finite, limits and bounds are numbers, a file has a size
\* and an exporter is not one of the other owners of a destination.
ASSUME LimitsAssumption ==
    /\ MaxFiles \in Nat /\ MaxFileBytes \in Nat /\ MaxTotalBytes \in Nat
    /\ MaxEdits \in Nat /\ MaxClock \in Nat
ASSUME WalkAssumption ==
    Order \in Seq(Staging!Path) /\ Entries \in Seq(Export!Item)
ASSUME ExportAssumption ==
    /\ Contents \subseteq Nat \ {0}
    /\ {"nobody", "empty", "other"} \cap Exporter = {}

staging == <<walk, setting, names, nodes, clock, edits, queue, handle, copies,
             made, excluded, committed>>
exporting == <<exports, baseline, work, denied, place, destination, ahead,
               bundle, noticed>>

everything == <<component, vars, staging, exporting>>

WorkspaceInit ==
    /\ component \in {"apply", "staging", "export"}
    /\ Init /\ Staging!Init /\ Export!Init
    /\ \/ component = "apply"
       \/ allow /\ dirs = {} /\ \A p \in Path : kind[p] = "added"

ApplyStep ==
    component = "apply" /\ Guard /\ UNCHANGED <<component, staging, exporting>>

\* A staging or an export that is over has nothing more to do; an apply says
\* itself when it is over.
WorkspaceNext ==
    \/ /\ component = "apply" /\ Next
       /\ UNCHANGED <<component, staging, exporting>>
    \/ /\ component = "staging" /\ Staging!Next
       /\ UNCHANGED <<component, vars, exporting>>
    \/ /\ component = "export" /\ Export!Next
       /\ UNCHANGED <<component, vars, staging>>
    \/ component # "apply" /\ UNCHANGED everything

WorkspaceSpec ==
    WorkspaceInit /\ [][WorkspaceNext]_everything /\ WF_everything(ApplyStep)

\* An apply transaction comes to an end.
ApplyTerminates == component = "apply" => Terminates

\* An export replaces nothing at its destination.
DestinationKept == Export!DestinationKept

\* A stage is a faithful copy of its source.
StagedFaithful == Staging!StagedFaithful

\* A published export is whole, exact and within the limits.
ExportFaithful == Export!ExportFaithful

=============================================================================
