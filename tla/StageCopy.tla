----------------------------- MODULE StageCopy -----------------------------
(***************************************************************************)
(* Filling a stage: the loop of Stage::build over its candidates and       *)
(* copy_stable_file (crates/sandbox-guard-core/src/staging.rs), against an *)
(* editor that goes on working in the source tree.                         *)
(*                                                                         *)
(* A file's bytes are a sequence of blocks, read one at a time; a block is *)
(* the number of the edit that wrote it.  A file's stamp (mtime and ctime) *)
(* is the clock's tick of its last change: two changes within one tick are *)
(* not told apart.  Each path begins with a file of its own, and an edit   *)
(* that makes a new file takes the next number for it.                     *)
(***************************************************************************)
EXTENDS Integers, Sequences, FiniteSetsExt

CONSTANTS
    Order,          \* the paths below the source, in the order of the walk
    Above,          \* each path's ancestors below the source
    Tracked,        \* paths that git lists whether they exist or not
    DeniedSets,     \* the sets of paths that a rule of the policy may match
    MaxFiles,       \* max_files
    MaxFileBytes,   \* max_file_bytes
    MaxTotalBytes,  \* max_total_bytes
    MaxEdits,       \* bound on changes of the source tree
    MaxClock        \* bound on the clock

VARIABLES
    walk,       \* none, start, inspect, open, read, commit, audit, built or
                \* failed
    setting,    \* the tree's kind, the platform, the denied and ignored paths
    names,      \* the file under each path
    nodes,      \* the files
    clock, edits,
    queue,      \* the candidates ahead
    handle,     \* the source file being copied
    copies,     \* the staged files
    made,       \* the staged directories
    excluded,   \* the manifest's excluded paths, with the reason
    committed   \* the files of the synthetic repository's baseline

source == <<names, nodes, clock, edits>>
staged == <<copies, made, excluded, committed>>
vars   == <<walk, setting, names, nodes, clock, edits, queue, handle, copies,
            made, excluded, committed>>

Path  == {Order[n] : n \in DOMAIN Order}
Inode == 1..(Len(Order) + MaxEdits)
None  == 0

File(data) == [kind |-> "file", data |-> data, links |-> 1, foreign |-> FALSE,
               stamp |-> 0]
Other(kind) == [File(<<>>) EXCEPT !.kind = kind]

\* A file of another file system has been mounted over its name; a linked one
\* has a second name outside the tree.
Originals ==
    {File(<<>>), File(<<0>>), File(<<0, 0>>), Other("symlink"),
     Other("special"), [File(<<0>>) EXCEPT !.links = 2],
     [File(<<0>>) EXCEPT !.foreign = TRUE]}

Parents == UNION {Above[p] : p \in Path}
Closed  == [inode |-> None]
Nothing == [p \in {} |-> None]

Init ==
    /\ walk = "none"
    /\ setting = [git |-> FALSE, openat2 |-> FALSE, denied |-> {}, ignored |-> {}]
    /\ names = [p \in Path |-> None]
    /\ nodes = [i \in Inode |-> Other("new")]
    /\ clock = 0 /\ edits = 0
    /\ queue = {} /\ handle = Closed
    /\ copies = Nothing /\ made = {} /\ excluded = Nothing
    /\ committed = {}

\* guard run is given a source tree: the first path is of any kind, the others
\* are directories or files.
Given ==
    /\ walk = "none" /\ walk' = "start"
    /\ setting' \in [git : BOOLEAN, openat2 : BOOLEAN, denied : DeniedSets,
                    ignored : {{}, Tracked}]
    /\ names' = [p \in Path |-> CHOOSE n \in DOMAIN Order : Order[n] = p]
    /\ \E first \in Originals :
          nodes' = [n \in Inode |->
                       IF n > Len(Order) THEN Other("new")
                       ELSE IF Order[n] \in Parents THEN Other("dir")
                            ELSE IF n = 1 THEN first ELSE File(<<0, 0>>)]
    /\ UNCHANGED <<clock, edits, queue, handle, staged>>

-----------------------------------------------------------------------------
(* Stage::build.                                                           *)

Exists(p) == names[p] # None
Node(p)   == nodes[names[p]]

\* denied_by_path_or_ancestor
Denied(p) == ({p} \cup Above[p]) \cap setting.denied # {}

\* An error of build: the stage is dropped.
Refuse ==
    /\ walk' = "failed" /\ handle' = Closed /\ queue' = {}
    /\ copies' = Nothing /\ made' = {} /\ excluded' = Nothing
    /\ committed' = {}

\* git ls-files lists files, tracked ones even when they are gone or ignored by
\* now; the walk of another tree lists directories as well.
Candidate(p) ==
    IF setting.git
        THEN \/ p \in Tracked
             \/ Exists(p) /\ Node(p).kind # "dir" /\ p \notin setting.ignored
        ELSE Exists(p) /\ p \notin setting.ignored

Collect ==
    /\ walk = "start"
    /\ IF Cardinality({p \in Path : Candidate(p)}) > MaxFiles
           THEN Refuse
           ELSE /\ queue' = {p \in Path : Candidate(p)}
                /\ walk' = "inspect"
                /\ UNCHANGED <<handle, staged>>
    /\ UNCHANGED <<setting, source>>

\* The candidate at hand: the first one ahead, in the order of the walk.
Current == Order[Min({n \in DOMAIN Order : Order[n] \in queue})]

\* The next candidate.
Advance == queue' = queue \ {Current} /\ walk' = "inspect" /\ handle' = Closed

Exclude(reason) ==
    /\ excluded' = [p \in DOMAIN excluded \cup {Current} |->
                       IF p = Current THEN reason ELSE excluded[p]]
    /\ Advance
    /\ UNCHANGED <<copies, made, committed>>

\* The policy, then symlink_metadata of the path, which follows links in the
\* directories above.
Inspect ==
    /\ walk = "inspect" /\ queue # {}
    /\ LET p == Current IN
       \/ Denied(p) /\ Exclude("policy")
       \/ ~Denied(p) /\ ~Exists(p) /\ Exclude("missing")
       \/ /\ ~Denied(p) /\ Exists(p)
          /\ \/ Node(p).kind \in {"symlink", "special"} /\ Exclude(Node(p).kind)
             \/ /\ Node(p).kind = "dir"
                /\ made' = made \cup {p} /\ Advance
                /\ UNCHANGED <<copies, excluded, committed>>
             \/ /\ Node(p).kind = "file" /\ walk' = "open"
                /\ UNCHANGED <<queue, handle, staged>>
    /\ UNCHANGED <<setting, source>>

\* The manifest's included_bytes.
Bytes == Cardinality(UNION {{p} \X DOMAIN copies[p].data : p \in DOMAIN copies})

\* open_relative_no_links: openat2 crosses no mount and no link, while openat
\* component by component only refuses the links.
Opens(p) ==
    /\ Exists(p) /\ Node(p).kind # "symlink"
    /\ \A q \in Above[p] : Exists(q) /\ Node(q).kind = "dir"
    /\ ~(setting.openat2 /\ Node(p).foreign)

\* The checks of the open file, in the code's order.
Open ==
    /\ walk = "open"
    /\ LET p == Current IN
       \/ ~Opens(p) /\ Refuse
       \/ /\ Opens(p)
          /\ LET before == Node(p) IN
             \/ before.kind # "file" /\ Exclude("special")
             \/ before.kind = "file" /\ before.foreign /\ Exclude("foreign")
             \/ /\ before.kind = "file" /\ ~before.foreign /\ before.links > 1
                /\ Exclude("links")
             \/ /\ before.kind = "file" /\ ~before.foreign /\ before.links <= 1
                /\ IF \/ Len(before.data) > MaxFileBytes
                      \/ Cardinality(DOMAIN copies) >= MaxFiles
                      \/ Bytes + Len(before.data) > MaxTotalBytes
                   THEN Refuse
                   ELSE /\ handle' = [inode |-> names[p], before |-> before,
                                      since |-> clock, read |-> <<>>]
                        /\ walk' = "read"
                        /\ UNCHANGED <<queue, staged>>
    /\ UNCHANGED <<setting, source>>

\* Mutant: the limit is only checked before the copy.
ReadBlockFreely ==
    /\ walk = "read"
    /\ LET data == nodes[handle.inode].data
           k    == Len(handle.read) + 1 IN
       /\ k <= Len(data)
       /\ handle' = [handle EXCEPT !.read = Append(@, data[k])]
    /\ UNCHANGED <<walk, setting, source, queue, staged>>

\* One read of copy_stable_file, and its write.
ReadBlock ==
    /\ walk = "read"
    /\ LET data == nodes[handle.inode].data
           k    == Len(handle.read) + 1 IN
       /\ k <= Len(data)
       /\ IF k > MaxFileBytes
              THEN Refuse
              ELSE /\ handle' = [handle EXCEPT !.read = Append(@, data[k])]
                   /\ UNCHANGED <<walk, queue, staged>>
    /\ UNCHANGED <<setting, source>>

\* Mutant: only the length is compared.
UnchangedLength ==
    Len(handle.read) = Len(nodes[handle.inode].data)

\* The metadata after the last read against the metadata before the first.
Unchanged ==
    /\ nodes[handle.inode].stamp = handle.before.stamp
    /\ Len(nodes[handle.inode].data) = Len(handle.before.data)
    /\ Len(handle.read) = Len(handle.before.data)

CopyEnds ==
    /\ walk = "read"
    /\ Len(handle.read) >= Len(nodes[handle.inode].data)
    /\ IF ~Unchanged
           THEN Refuse
           ELSE /\ copies' =
                       [p \in DOMAIN copies \cup {Current} |->
                           IF p # Current THEN copies[p]
                           ELSE [data |-> handle.read,
                                 given |-> handle.before.data,
                                 quiet |-> handle.before.stamp < handle.since]]
                /\ Advance
                /\ UNCHANGED <<made, excluded, committed>>
    /\ UNCHANGED <<setting, source>>

\* Every candidate has been visited.
WalkEnds ==
    /\ walk = "inspect" /\ queue = {}
    /\ walk' = "commit"
    /\ UNCHANGED <<setting, source, queue, handle, staged>>

\* Mutant: git add without --force.
CommitUnforced ==
    /\ walk = "commit"
    /\ committed' = DOMAIN copies \ setting.ignored
    /\ walk' = "audit"
    /\ UNCHANGED <<setting, source, queue, handle, copies, made, excluded>>

\* create_synthetic_repository: git add --force --all, git commit.
Commit ==
    /\ walk = "commit"
    /\ committed' = DOMAIN copies
    /\ walk' = "audit"
    /\ UNCHANGED <<setting, source, queue, handle, copies, made, excluded>>

WriteAudit ==
    /\ walk = "audit" /\ walk' = "built"
    /\ UNCHANGED <<setting, source, queue, handle, staged>>

\* A system call or git fails.
Fail ==
    /\ walk \in {"start", "inspect", "open", "read", "commit", "audit"}
    /\ Refuse
    /\ UNCHANGED <<setting, source>>

Build ==
    \/ Given \/ Collect \/ Inspect \/ Open \/ ReadBlock \/ CopyEnds \/ WalkEnds
    \/ Commit \/ WriteAudit \/ Fail

-----------------------------------------------------------------------------
(* The editor.                                                             *)

Working == walk \notin {"none", "commit", "audit", "built", "failed"}

Edit ==
    /\ Working /\ edits < MaxEdits /\ edits' = edits + 1
    /\ UNCHANGED <<walk, setting, clock, queue, handle, staged>>

Fresh == Len(Order) + edits + 1

Held(i) == \E p \in Path : names[p] = i

\* A file is written in place.
Write(i) ==
    /\ Edit
    /\ Held(i) /\ nodes[i].kind = "file" /\ ~nodes[i].foreign
    /\ \E data \in {Append(nodes[i].data, edits + 1)}
                   \cup {[nodes[i].data EXCEPT ![k] = edits + 1] :
                            k \in DOMAIN nodes[i].data} :
          nodes' = [nodes EXCEPT ![i].data = data, ![i].stamp = clock]
    /\ UNCHANGED names

\* A name gets a new file or a link, or goes: what had it loses a link.
Rename(p) ==
    /\ Edit
    /\ Exists(p) /\ ~Node(p).foreign
    /\ \E new \in {Other("new"), Other("symlink")}
                  \cup (IF p \in Parents THEN {} ELSE {File(<<edits + 1>>)}) :
          /\ new.kind = "new" => p \notin Parents
          /\ names' = [names EXCEPT ![p] = IF new.kind = "new" THEN None
                                                              ELSE Fresh]
          /\ nodes' = [nodes EXCEPT ![names[p]].links = @ - 1,
                                    ![names[p]].stamp = clock,
                                    ![Fresh] = [new EXCEPT !.stamp = clock]]

Tick ==
    /\ Working /\ clock < MaxClock /\ clock' = clock + 1
    /\ UNCHANGED <<walk, setting, names, nodes, edits, queue, handle, staged>>

Editor == (\E i \in Inode : Write(i)) \/ (\E p \in Path : Rename(p)) \/ Tick

Next == Build \/ Editor

Spec == Init /\ [][Next]_vars

-----------------------------------------------------------------------------
(* Properties.                                                             *)

\* Type correctness.
TypeOK ==
    /\ walk \in {"none", "start", "inspect", "open", "read", "commit",
                "audit", "built", "failed"}
    /\ names \in [Path -> Inode \cup {None}]
    /\ handle # Closed <=> walk = "read"
    /\ DOMAIN copies \subseteq Path /\ made \subseteq Path
    /\ DOMAIN excluded \subseteq Path

\* A staged file is what the source file was when it was opened, however the
\* editor wrote to it meanwhile: never a mixture of two versions.  The metadata
\* can only tell when the file's last change was not in the very tick of the
\* clock in which it was opened.
StagedIsStable ==
    \A p \in DOMAIN copies :
        copies[p].quiet => copies[p].data = copies[p].given

\* The limits of the policy hold for what is staged, even of a file that grows
\* while it is being copied.
StagedIsBounded ==
    /\ Cardinality(DOMAIN copies) <= MaxFiles /\ Bytes <= MaxTotalBytes
    /\ \A p \in DOMAIN copies : Len(copies[p].data) <= MaxFileBytes
    /\ handle # Closed => Len(handle.read) <= MaxFileBytes

\* Nothing denied is staged, not even below a denied directory, a built stage
\* and its manifest account for every path of the source that is not ignored,
\* and the baseline commit has every staged file.
StagedIsAccounted ==
    /\ \A p \in DOMAIN copies \cup made :
          ({p} \cup Above[p]) \cap setting.denied = {}
    /\ walk = "built" /\ edits = 0 =>
          \A p \in Path :
              \/ p \in DOMAIN copies \cup DOMAIN excluded \cup made
              \/ setting.git /\ p \in Parents
              \/ ~setting.git /\ p \in setting.ignored
    /\ walk = "built" => committed = DOMAIN copies

\* A stage is a faithful copy of its source, edited as it may be meanwhile:
\* each file one version of it, all of them within the limits, with nothing
\* denied among them and nothing left out unsaid.
StagedFaithful ==
    TypeOK /\ StagedIsStable /\ StagedIsBounded /\ StagedIsAccounted

=============================================================================
