---------------------------- MODULE ChangeExport ----------------------------
(***************************************************************************)
(* export_changes (crates/sandbox-guard-core/src/export.rs): the changed   *)
(* files of a staged workspace are copied next to the destination, with a  *)
(* manifest of what was added, modified, deleted and rejected, and the     *)
(* whole is renamed to its name.  Two exports may have the same            *)
(* destination, where other programs may also put something.               *)
(*                                                                         *)
(* A file's content is a number that stands for its hash and is its size.  *)
(* The stable copy is that of module StageCopy: here it gives the file's   *)
(* content or fails.                                                       *)
(***************************************************************************)
EXTENDS Integers, Sequences, FiniteSetsExt

CONSTANTS
    Exporter,       \* running exports
    Entries,        \* the paths of workspace and baseline, in walk order
    Under,          \* each path's ancestors
    GitPath,        \* .git at the workspace's root
    Contents,       \* contents of files
    MaxFiles, MaxFileBytes, MaxTotalBytes

VARIABLES
    exports,      \* each export's progress
    baseline,     \* the audit's included files
    work,         \* the workspace
    denied,       \* the paths that a rule of the policy matches
    place,        \* where the destination is
    destination,  \* what is there
    ahead,        \* the entries each export has yet to walk
    bundle,       \* its temporary directory
    noticed       \* the files it has seen

vars == <<exports, baseline, work, denied, place, destination, ahead, bundle,
          noticed>>
input == <<baseline, work, denied, place>>

Item     == {Entries[n] : n \in DOMAIN Entries}
Absent   == [kind |-> "absent", content |-> 0, links |-> 0]
Regular  == [kind : {"file"}, content : Contents, links : {1}]
Linked   == [kind |-> "file", content |-> 1, links |-> 2]
Thing(k) == [kind |-> k, content |-> 0, links |-> 1]
Folders  == UNION {Under[p] : p \in Item}

NoBundle == [files |-> [p \in {} |-> 0], changes |-> {}, rejected |-> {},
             manifest |-> FALSE]
Nowhere  == [owner |-> "nobody", bundle |-> NoBundle]
Someone(full) == [owner |-> IF full THEN "other" ELSE "empty",
                  bundle |-> NoBundle]

Init ==
    /\ exports = [e \in Exporter |-> "none"]
    /\ baseline = [p \in Item |-> 0]
    /\ work = [p \in Item |-> Absent]
    /\ denied = {} /\ place = "safe"
    /\ destination = Nowhere
    /\ ahead = [e \in Exporter |-> {}]
    /\ bundle = [e \in Exporter |-> NoBundle]
    /\ noticed = [e \in Exporter |-> {}]

\* The baseline was staged under the same policy; the workspace is the tree
\* that the tool left.
Receive ==
    /\ \A e \in Exporter : exports[e] = "none"
    /\ exports' = [e \in Exporter |-> "idle"]
    /\ denied' \in {{}} \cup {{p} : p \in Folders}
    /\ baseline' \in [Item -> {0, 1}]
    /\ work' \in [Item -> Regular \cup {Absent, Linked, Thing("dir"),
                                        Thing("symlink"), Thing("special")}]
    /\ \A p \in Item :
          /\ work'[p].kind = "dir" => p \in Folders
          /\ work'[p].kind \in {"special", "symlink"} => p \notin Folders
          /\ work'[p] # Absent => \A q \in Under[p] : work'[q].kind = "dir"
          /\ baseline'[p] # 0 => /\ \A q \in Under[p] : baseline'[q] = 0
                                 /\ ({p} \cup Under[p]) \cap denied' = {}
                                 /\ p # GitPath
    /\ work'[GitPath].kind \in {"absent", "file"}
    /\ work'[GitPath].content <= 1 /\ work'[GitPath].links <= 1
    /\ place' \in {"safe", "inside", "unsafe"}
    /\ UNCHANGED <<destination, ahead, bundle, noticed>>

DeniedItem(p) == ({p} \cup Under[p]) \cap denied # {}

Become(e, state) == exports' = [exports EXCEPT ![e] = state]

\* An error drops the temporary directory.
Refuse(e) ==
    /\ Become(e, "failed")
    /\ bundle' = [bundle EXCEPT ![e] = NoBundle]
    /\ ahead' = [ahead EXCEPT ![e] = {}]
    /\ noticed' = [noticed EXCEPT ![e] = {}]
    /\ UNCHANGED destination

\* The destination is inside the source or the workspace, has a .. component,
\* or its parent can be written by others.
PlaceRefused == place # "safe"

\* The destination must not exist; then the temporary directory is made beside
\* it and the walk begins.
Prepare(e) ==
    /\ exports[e] = "idle"
    /\ IF destination # Nowhere \/ PlaceRefused
           THEN Refuse(e)
           ELSE /\ Become(e, "walking")
                /\ ahead' = [ahead EXCEPT ![e] =
                       {p \in Item \ {GitPath} : work[p] # Absent}]
                /\ UNCHANGED <<destination, bundle, noticed>>
    /\ UNCHANGED input

-----------------------------------------------------------------------------
(* One entry of the walk.                                                  *)

\* The number of bytes of a bundle's files.
Bytes(b) == Cardinality(UNION {{p} \X (1..b.files[p]) : p \in DOMAIN b.files})

\* The entry at hand: the first one ahead, in walk order.
Entry(e) == Entries[Min({n \in DOMAIN Entries : Entries[n] \in ahead[e]})]

Passed(e) == ahead' = [ahead EXCEPT ![e] = @ \ {Entry(e)}] /\ UNCHANGED exports

Reject(e, p) ==
    /\ bundle' = [bundle EXCEPT ![e].rejected = @ \cup {p}]
    /\ Passed(e)

\* An entry the policy denies is not noticed, a directory neither.
Skip(e) ==
    /\ exports[e] = "walking" /\ ahead[e] # {}
    /\ LET p == Entry(e) IN
       \/ DeniedItem(p) /\ Reject(e, p)
       \/ ~DeniedItem(p) /\ work[p].kind = "dir" /\ Passed(e) /\ UNCHANGED bundle
    /\ UNCHANGED <<input, destination, noticed>>

Notice(e, p) == noticed' = [noticed EXCEPT ![e] = @ \cup {p}]

\* Links, special files and files with several links are rejected (and files
\* of another file system, which stand beside the latter in the code).
TurnDown(e) ==
    /\ exports[e] = "walking" /\ ahead[e] # {}
    /\ LET p == Entry(e) IN
       /\ ~DeniedItem(p)
       /\ \/ work[p].kind \in {"symlink", "special"}
          \/ work[p].kind = "file" /\ work[p].links > 1
       /\ Notice(e, p) /\ Reject(e, p)
    /\ UNCHANGED <<input, destination>>

Change(p, kind) ==
    [path |-> p, kind |-> kind, from |-> baseline[p],
     to |-> IF kind = "deleted" THEN 0 ELSE work[p].content]

\* Mutant: the copy of an unchanged file stays.
KeptFiles(b, p) == [q \in DOMAIN b.files \cup {p} |->
                       IF q = p THEN work[p].content ELSE b.files[q]]

\* The copies, the new one included unless it equals the baseline.
CopiedFiles(b, p) ==
    IF baseline[p] = work[p].content
        THEN b.files
        ELSE [q \in DOMAIN b.files \cup {p} |->
                 IF q = p THEN work[p].content ELSE b.files[q]]

\* Mutant: what would go over a limit is still exported.
TakeUnlimited(e) ==
    /\ exports[e] = "walking" /\ ahead[e] # {}
    /\ LET p     == Entry(e)
           same  == baseline[p] = work[p].content
           files == CopiedFiles(bundle[e], p) IN
       /\ ~DeniedItem(p) /\ work[p].kind = "file" /\ work[p].links <= 1
       /\ bundle' = [bundle EXCEPT
                     ![e].files = files,
                     ![e].changes = @ \cup
                         IF same THEN {}
                         ELSE {Change(p, IF baseline[p] = 0 THEN "added"
                                                            ELSE "modified")}]
       /\ Notice(e, p) /\ Passed(e)
    /\ UNCHANGED <<input, destination>>

\* A regular file: it is copied, compared with the baseline and counted.
Take(e) ==
    /\ exports[e] = "walking" /\ ahead[e] # {}
    /\ LET p     == Entry(e)
           same  == baseline[p] = work[p].content
           files == CopiedFiles(bundle[e], p) IN
       /\ ~DeniedItem(p) /\ work[p].kind = "file" /\ work[p].links <= 1
       /\ IF \/ work[p].content > MaxFileBytes
             \/ /\ ~same
                /\ \/ Cardinality(DOMAIN files) > MaxFiles
                   \/ Bytes([files |-> files]) > MaxTotalBytes
          THEN Refuse(e)
          ELSE /\ bundle' = [bundle EXCEPT
                     ![e].files = files,
                     ![e].changes = @ \cup
                         IF same THEN {}
                         ELSE {Change(p, IF baseline[p] = 0 THEN "added"
                                                            ELSE "modified")}]
               /\ Notice(e, p) /\ Passed(e)
               /\ UNCHANGED destination
    /\ UNCHANGED input

\* Mutant: what the walk did not export counts as deleted.
MissingUnexported(e) ==
    {p \in Item : baseline[p] # 0
                  /\ \A c \in bundle[e].changes : c.path # p}

\* The files of the baseline that the walk did not notice.
Missing(e) == {p \in Item : baseline[p] # 0 /\ p \notin noticed[e]}

WriteManifest(e) ==
    /\ exports[e] = "walking" /\ ahead[e] = {}
    /\ bundle' = [bundle EXCEPT
           ![e].changes = @ \cup {Change(p, "deleted") : p \in Missing(e)},
           ![e].manifest = TRUE]
    /\ Become(e, "written")
    /\ UNCHANGED <<input, destination, ahead, noticed>>

\* Mutant: what is at the destination is replaced.
PublishOver(e) ==
    /\ exports[e] = "written"
    /\ destination' = [owner |-> e, bundle |-> bundle[e]]
    /\ Become(e, "published")
    /\ UNCHANGED <<input, ahead, bundle, noticed>>

\* rename(2) of a directory replaces nothing but an empty one.
Publish(e) ==
    /\ exports[e] = "written"
    /\ IF destination \in {Nowhere, Someone(FALSE)}
           THEN /\ destination' = [owner |-> e, bundle |-> bundle[e]]
                /\ Become(e, "published")
                /\ UNCHANGED <<ahead, bundle, noticed>>
           ELSE Refuse(e)
    /\ UNCHANGED input

\* The parent is synced, and the report returned or an error.
SyncParent(e) ==
    /\ exports[e] = "published"
    /\ Become(e, "ok") \/ Become(e, "failed")
    /\ UNCHANGED <<input, destination, ahead, bundle, noticed>>

\* A system call fails, or a copied file changed under the copy.
Fail(e) ==
    /\ exports[e] \in {"walking", "written"}
    /\ Refuse(e)
    /\ UNCHANGED input

\* The process is killed: its temporary directory stays.
Kill(e) ==
    /\ exports[e] \in {"walking", "written", "published"}
    /\ Become(e, "killed")
    /\ UNCHANGED <<input, destination, ahead, bundle, noticed>>

\* Another program makes a directory at the destination, empty or not.
Occupy ==
    /\ destination = Nowhere
    /\ \E e \in Exporter : exports[e] \in {"idle", "walking", "written"}
    /\ \E full \in BOOLEAN : destination' = Someone(full)
    /\ UNCHANGED <<exports, input, ahead, bundle, noticed>>

Next ==
    \/ \E e \in Exporter :
          \/ Prepare(e) \/ Skip(e) \/ TurnDown(e) \/ Take(e)
          \/ WriteManifest(e) \/ Publish(e) \/ SyncParent(e)
          \/ Fail(e) \/ Kill(e)
    \/ Receive \/ Occupy

Spec == Init /\ [][Next]_vars

-----------------------------------------------------------------------------
(* Properties.                                                             *)

\* Type correctness.
TypeOK ==
    /\ exports \in [Exporter -> {"none", "idle", "walking", "written",
                                 "published", "ok", "failed", "killed"}]
    /\ destination.owner \in {"nobody", "empty", "other"} \cup Exporter
    /\ \A e \in Exporter : noticed[e] \subseteq Item

Published == destination.owner \in Exporter

\* What is at the destination is whole, also after a kill: the manifest, and
\* exactly the files its additions and modifications name, with their content.
BundleWhole ==
    Published =>
        /\ destination.bundle.manifest
        /\ LET brought == {c \in destination.bundle.changes : c.to # 0} IN
           /\ DOMAIN destination.bundle.files = {c.path : c \in brought}
           /\ \A c \in brought : destination.bundle.files[c.path] = c.to

\* The baseline with a published manifest's changes applied.
Applied(p) ==
    LET own == {c \in destination.bundle.changes : c.path = p} IN
    IF own = {} THEN baseline[p] ELSE (CHOOSE c \in own : TRUE).to

\* A published manifest leads from the baseline to the workspace: every regular
\* file arrives with its content, every missing one goes, and what could not be
\* exported is listed as rejected and stays as it was, not deleted.
ExportExact ==
    Published =>
        \A p \in Item \ {GitPath} :
            IF \/ DeniedItem(p) /\ work[p] # Absent
               \/ work[p].kind \in {"symlink", "special"}
               \/ work[p].links > 1
            THEN Applied(p) = baseline[p] /\ p \in destination.bundle.rejected
            ELSE Applied(p) = work[p].content

\* The policy's limits hold for a published bundle.
ExportBounded ==
    Published =>
        /\ Cardinality(DOMAIN destination.bundle.files) <= MaxFiles
        /\ Bytes(destination.bundle) <= MaxTotalBytes
        /\ \A p \in DOMAIN destination.bundle.files :
              destination.bundle.files[p] <= MaxFileBytes

\* Neither another export's bundle nor another program's directory with
\* something in it is ever replaced.
DestinationKept ==
    [][\/ destination = Nowhere \/ destination = Someone(FALSE)]_destination

\* A bundle at the destination is whole, leads from the baseline exactly to
\* the workspace, and is within the limits.
ExportFaithful == TypeOK /\ BundleWhole /\ ExportExact /\ ExportBounded

=============================================================================
