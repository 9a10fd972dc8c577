---------------------------- MODULE PackageStore ----------------------------
(***************************************************************************)
(* The two stores of verified packages: profile_store.rs (install, verify, *)
(* list, remove, under the store's lock) and tool_store.rs (install and    *)
(* verify, without a lock).  Both assemble an installation in a hidden     *)
(* directory beside its destination and publish it by a rename that never  *)
(* replaces; removal renames to a hidden tombstone and deletes that.       *)
(*                                                                         *)
(* Signatures, hashes and file modes decide whether an installation is     *)
(* genuine: one is genuine here when all its files are there.  An          *)
(* installation is a number, and has contents like no other.               *)
(***************************************************************************)
EXTENDS Integers, FiniteSets, Sequences

CONSTANTS
    Proc, Name, Version,
    Absent,       \* no entry
    Nobody,       \* the lock is free
    Files,        \* files of an installation
    MaxNames, MaxVersions,
    MaxInstalls,  \* bound on installations begun
    MaxErrors,    \* bound on errors of system calls and kills
    MaxLosses     \* bound on power losses

VARIABLES
    kind,      \* "profile" or "tool": which store this is
    step,      \* where each process is
    job,       \* its operation, name, version and installation
    seen,      \* what a verification has read
    lock,
    dir,       \* each name's directory
    images,    \* the directories a power loss may leave
    files,     \* files of each installation
    synced,    \* installations whose files are durable
    doomed,    \* installations whose removal has begun
    reported,  \* installations reported as installed
    made, errors, losses

vars == <<kind, step, job, seen, lock, dir, images, files, synced, doomed,
          reported, made, errors, losses>>
disk == <<dir, images, files, synced>>
ghosts == <<doomed, reported>>
counts == <<made, errors, losses>>

Id   == 1..MaxInstalls
NoDir == [exists |-> FALSE, entry |-> [v \in Version |-> Absent], hidden |-> {}]
Idle == [op |-> "none", name |-> Absent, version |-> Absent, id |-> Absent]

Init ==
    /\ kind \in {"profile", "tool"}
    /\ step = [p \in Proc |-> "idle"] /\ job = [p \in Proc |-> Idle]
    /\ seen = [p \in Proc |-> <<>>] /\ lock = Nobody
    /\ dir = [n \in Name |-> NoDir] /\ images = [n \in Name |-> {NoDir}]
    /\ files = [i \in Id |-> 0] /\ synced = {}
    /\ doomed = {} /\ reported = {}
    /\ made = 0 /\ errors = 0 /\ losses = 0

-----------------------------------------------------------------------------
(* Directories, and what a power loss may leave of them.                   *)

Become(n, d) ==
    /\ dir' = [dir EXCEPT ![n] = d]
    /\ images' = [images EXCEPT ![n] = @ \cup {d}]

\* fsync of a name's directory: its entry in the store is not covered.
SyncName(n) ==
    images' = [images EXCEPT ![n] = {dir[n]} \cup {d \in @ : ~d.exists}]

\* fsync of the store's directory.
SyncStore ==
    images' = [n \in Name |-> {d \in images[n] : d.exists = dir[n].exists}]

Installed(n) == {v \in Version : dir[n].entry[v] # Absent}
Here(p)  == dir[job[p].name]
Found(p) == Here(p).entry[job[p].version]

Goto(p, place) == step' = [step EXCEPT ![p] = place]

\* Return: the lock goes with its descriptor.
Return(p) ==
    /\ step' = [step EXCEPT ![p] = "idle"]
    /\ job' = [job EXCEPT ![p] = Idle] /\ seen' = [seen EXCEPT ![p] = <<>>]
    /\ lock' = IF lock = p THEN Nobody ELSE lock

\* lock_store: the profile store is locked, unless to verify one
\* installation; a busy lock is an error.
LockStore(p, op) ==
    IF kind = "profile" /\ op # "verify"
        THEN lock = Nobody /\ lock' = p
        ELSE UNCHANGED lock

\* An operation begins; the package to install is genuine.
Begin(p, op, n, v) ==
    /\ step[p] = "idle"
    /\ kind = "tool" => op \in {"install", "verify"}
    /\ op = "install" => made < MaxInstalls
    /\ job' = [job EXCEPT ![p] =
                  [op |-> op, name |-> n, version |-> v, id |-> Absent]]
    /\ LockStore(p, op)
    /\ Goto(p, op)
    /\ UNCHANGED <<kind, seen, disk, ghosts, counts>>

-----------------------------------------------------------------------------
(* install_verified_profile, install_verified_tool.                        *)

\* enforce_name_limit.
NameRefused(p) ==
    /\ kind = "profile" /\ ~Here(p).exists
    /\ Cardinality({m \in Name : dir[m].exists}) >= MaxNames

\* prepare_private_directory: the name's directory is made when it is missing.
MakeName(p) ==
    /\ step[p] = "install"
    /\ LET n == job[p].name IN
       IF NameRefused(p)
           THEN Return(p) /\ UNCHANGED disk
           ELSE /\ IF dir[n].exists
                       THEN UNCHANGED <<dir, images>>
                       ELSE Become(n, [NoDir EXCEPT !.exists = TRUE])
                /\ Goto(p, "check")
                /\ UNCHANGED <<job, seen, lock, files, synced>>
    /\ UNCHANGED <<kind, ghosts, counts>>

\* Mutant: the limit is off by one.
RefusedLate(p) ==
    \/ Found(p) # Absent
    \/ /\ kind = "profile"
       /\ \/ Here(p).hidden # {}
          \/ Cardinality(Installed(job[p].name)) > MaxVersions

\* enforce_version_limit, which fails on any hidden entry, and the check that
\* the version is not there yet.
Refused(p) ==
    \/ Found(p) # Absent
    \/ /\ kind = "profile"
       /\ \/ Here(p).hidden # {}
          \/ Cardinality(Installed(job[p].name)) >= MaxVersions

MakeTemp(p) ==
    /\ step[p] = "check"
    /\ IF Refused(p)
           THEN Return(p) /\ UNCHANGED <<disk, made>>
           ELSE /\ made < MaxInstalls /\ made' = made + 1
                /\ job' = [job EXCEPT ![p].id = made + 1]
                /\ Become(job[p].name, [Here(p) EXCEPT !.hidden = @ \cup {made + 1}])
                /\ Goto(p, "write")
                /\ UNCHANGED <<seen, lock, files, synced>>
    /\ UNCHANGED <<kind, ghosts, errors, losses>>

\* write_private, file by file.
Write(p) ==
    /\ step[p] = "write" /\ files[job[p].id] < Files
    /\ files' = [files EXCEPT ![job[p].id] = @ + 1]
    /\ UNCHANGED <<kind, step, job, seen, lock, dir, images, synced, ghosts, counts>>

\* Mutant: the temporary directory is not synced.
SyncTempNot(p) ==
    /\ step[p] = "write" /\ files[job[p].id] = Files
    /\ Goto(p, "publish")
    /\ UNCHANGED <<kind, job, seen, lock, disk, ghosts, counts>>

\* sync_directory of the temporary directory.
SyncTemp(p) ==
    /\ step[p] = "write" /\ files[job[p].id] = Files
    /\ synced' = synced \cup {job[p].id}
    /\ Goto(p, "publish")
    /\ UNCHANGED <<kind, job, seen, lock, dir, images, files, ghosts, counts>>

\* Mutant: rename without NOREPLACE.
PublishReplacing(p) ==
    /\ step[p] = "publish"
    /\ Become(job[p].name, [Here(p) EXCEPT !.entry[job[p].version] = job[p].id,
                                           !.hidden = @ \ {job[p].id}])
    /\ Goto(p, "settle")
    /\ UNCHANGED <<kind, job, seen, lock, files, synced, ghosts, counts>>

\* renameat_with NOREPLACE; when the version is there now, the temporary
\* directory is removed.
Publish(p) ==
    /\ step[p] = "publish"
    /\ IF Found(p) = Absent
           THEN /\ Become(job[p].name,
                      [Here(p) EXCEPT !.entry[job[p].version] = job[p].id,
                                      !.hidden = @ \ {job[p].id}])
                /\ Goto(p, "settle") /\ UNCHANGED <<job, seen, lock>>
           ELSE /\ Become(job[p].name, [Here(p) EXCEPT !.hidden = @ \ {job[p].id}])
                /\ Return(p)
    /\ UNCHANGED <<kind, files, synced, ghosts, counts>>

\* Mutant: success before the directory is synced.
SettleEarly(p) ==
    /\ step[p] = "settle"
    /\ reported' = reported \cup {job[p].id}
    /\ Return(p)
    /\ UNCHANGED <<kind, disk, doomed, counts>>

\* sync_directory of the name's directory, and success.
Settle(p) ==
    /\ step[p] = "settle"
    /\ SyncName(job[p].name)
    /\ reported' = reported \cup {job[p].id}
    /\ Return(p)
    /\ UNCHANGED <<kind, dir, files, synced, doomed, counts>>

-----------------------------------------------------------------------------
(* remove_installed_profile.                                               *)

\* The version is opened, renamed to a tombstone and opened again there.
Isolate(p) ==
    /\ step[p] = "remove"
    /\ IF Found(p) = Absent
           THEN Return(p) /\ UNCHANGED <<disk, doomed>>
           ELSE /\ job' = [job EXCEPT ![p].id = Found(p)]
                /\ doomed' = doomed \cup {Found(p)}
                /\ Become(job[p].name,
                      [Here(p) EXCEPT !.entry[job[p].version] = Absent,
                                      !.hidden = @ \cup {Found(p)}])
                /\ Goto(p, "delete") /\ UNCHANGED <<seen, lock, files, synced>>
    /\ UNCHANGED <<kind, reported, counts>>

\* remove_dir_all of the tombstone, file by file.
Delete(p) ==
    /\ step[p] = "delete"
    /\ IF files[job[p].id] > 0
           THEN /\ files' = [files EXCEPT ![job[p].id] = @ - 1]
                /\ UNCHANGED <<step, dir, images>>
           ELSE /\ Become(job[p].name, [Here(p) EXCEPT !.hidden = @ \ {job[p].id}])
                /\ Goto(p, "prune") /\ UNCHANGED files
    /\ UNCHANGED <<kind, job, seen, lock, synced, ghosts, counts>>

\* remove_dir of an empty name directory.
Prune(p) ==
    /\ step[p] = "prune"
    /\ IF Installed(job[p].name) = {} /\ Here(p).hidden = {}
           THEN Become(job[p].name, NoDir)
           ELSE UNCHANGED <<dir, images>>
    /\ Goto(p, "removed")
    /\ UNCHANGED <<kind, job, seen, lock, files, synced, ghosts, counts>>

FinishRemoval(p) ==
    /\ step[p] = "removed"
    /\ SyncStore /\ Return(p)
    /\ UNCHANGED <<kind, dir, files, synced, ghosts, counts>>

-----------------------------------------------------------------------------
(* verify_installed_profile, verify_installed_tool_snapshot and the list.  *)

\* The directory is opened.
Opened(p) == Found(p) # Absent

\* The closed set of files is there and the manifest is read by path.
ManifestRead(p) == Opened(p) /\ files[Found(p)] = Files

\* The package and its signature are read by path and match the manifest.
PackageRead(p) == ManifestRead(p) /\ seen[p][2] = Found(p)

\* The three steps of a verification.
Look(p) ==
    /\ step[p] = "verify" /\ Len(seen[p]) < 3
    /\ IF CASE Len(seen[p]) = 0 -> ~Opened(p)
            [] Len(seen[p]) = 1 -> ~ManifestRead(p)
            [] OTHER            -> ~PackageRead(p)
           THEN Return(p)
           ELSE /\ seen' = [seen EXCEPT ![p] = Append(@, Found(p))]
                /\ UNCHANGED <<step, job, lock>>
    /\ UNCHANGED <<kind, disk, ghosts, counts>>

\* Mutant: the directory is not compared again.
ConfirmNot(p) == step[p] = "verify" /\ Len(seen[p]) = 3

\* ensure_path_matches_directory: what was opened is still there.
Confirm(p) == step[p] = "verify" /\ Len(seen[p]) = 3 /\ Found(p) = seen[p][1]

Verify(p) ==
    /\ step[p] = "verify" /\ Len(seen[p]) = 3
    /\ IF Confirm(p)
           THEN Goto(p, "verified") /\ UNCHANGED <<job, seen, lock>>
           ELSE Return(p)
    /\ UNCHANGED <<kind, disk, ghosts, counts>>

\* Hidden entries and exceeded limits are errors.
Listable ==
    /\ Cardinality({n \in Name : dir[n].exists}) <= MaxNames
    /\ \A n \in Name :
          dir[n].hidden = {} /\ Cardinality(Installed(n)) <= MaxVersions

\* list_installed_profiles: every version is verified under the lock.
List(p) ==
    /\ step[p] = "list"
    /\ IF /\ Listable
          /\ \A n \in Name : \A v \in Installed(n) : files[dir[n].entry[v]] = Files
           THEN Goto(p, "listed") /\ UNCHANGED <<job, seen, lock>>
           ELSE Return(p)
    /\ UNCHANGED <<kind, disk, ghosts, counts>>

Report(p) ==
    /\ step[p] \in {"verified", "listed"} /\ Return(p)
    /\ UNCHANGED <<kind, disk, ghosts, counts>>

-----------------------------------------------------------------------------
(* Trouble.                                                                *)

Error == errors < MaxErrors /\ errors' = errors + 1

\* A system call fails: the temporary directory is removed on the way out.
Fail(p) ==
    /\ step[p] # "idle" /\ Error
    /\ IF step[p] \in {"write", "publish"}
           THEN Become(job[p].name, [Here(p) EXCEPT !.hidden = @ \ {job[p].id}])
           ELSE UNCHANGED <<dir, images>>
    /\ Return(p)
    /\ UNCHANGED <<kind, files, synced, ghosts, made, losses>>

\* A process is killed: everything stays where it is.
Kill(p) ==
    /\ step[p] # "idle" /\ Error /\ Return(p)
    /\ UNCHANGED <<kind, disk, ghosts, made, losses>>

\* What was not synced may be lost, and so may files of a directory.
PowerLoss ==
    /\ losses < MaxLosses /\ losses' = losses + 1
    /\ step' = [p \in Proc |-> "idle"] /\ job' = [p \in Proc |-> Idle]
    /\ seen' = [p \in Proc |-> <<>>] /\ lock' = Nobody
    /\ dir' \in {d \in [Name -> UNION {images[n] : n \in Name}] :
                    \A n \in Name : d[n] \in images[n]}
    /\ images' = [n \in Name |-> {dir'[n]}]
    /\ \/ files' = files
       \/ files' = [i \in Id |-> IF i \in synced THEN files[i] ELSE 0]
    /\ UNCHANGED <<kind, synced, ghosts, made, errors>>

Next ==
    \/ PowerLoss
    \/ \E p \in Proc :
          \/ \E op \in {"install", "remove", "verify"}, n \in Name, v \in Version :
                Begin(p, op, n, v)
          \/ Begin(p, "list", Absent, Absent)
          \/ MakeName(p) \/ MakeTemp(p) \/ Write(p) \/ SyncTemp(p)
          \/ Publish(p) \/ Settle(p)
          \/ Isolate(p) \/ Delete(p) \/ Prune(p) \/ FinishRemoval(p)
          \/ Look(p) \/ Verify(p) \/ List(p) \/ Report(p)
          \/ Fail(p) \/ Kill(p)

Spec == Init /\ [][Next]_vars

-----------------------------------------------------------------------------
(* Properties.                                                             *)

\* Type correctness; only an operation of the profile store holds the lock.
TypeOK ==
    /\ lock \in Proc \cup {Nobody}
    /\ lock # Nobody => kind = "profile" /\ step[lock] \notin {"idle", "verify"}
    /\ \A n \in Name : dir[n] \in images[n]
    /\ \A i \in Id : files[i] \in 0..Files
    /\ synced \cup doomed \cup reported \subseteq 1..made

\* Whatever is at an installed path has all its files, also after a power
\* loss at any moment, unless its removal had begun (the temporary directory
\* is synced before the rename).
InstallationsWhole ==
    \A n \in Name : \A d \in images[n] : \A v \in Version :
        d.entry[v] # Absent /\ d.entry[v] \notin doomed
            => d.entry[v] \in synced /\ files[d.entry[v]] = Files

\* A power loss leaves every installation that was reported and not removed,
\* or takes the whole directory of its name, whose entry in the store was
\* never synced (sync_directory of the name's directory before the report).
ReportedDurable ==
    [][losses' # losses =>
         \A n \in Name, v \in Version :
            dir[n].entry[v] \in reported \ doomed /\ dir'[n].exists
                => dir'[n].entry[v] = dir[n].entry[v]]_vars

\* Installations at work together never exceed the limit of versions of a
\* name, nor the limit of names when no power was lost.
LimitsHold ==
    kind = "profile" =>
        /\ \A n \in Name : Cardinality(Installed(n)) <= MaxVersions
        /\ losses = 0 => Cardinality({n \in Name : dir[n].exists}) <= MaxNames

\* What a successful verification has read is the directory it opened and
\* checked, also when the version was removed and installed anew meanwhile.
VerifiedIsOpened ==
    \A p \in Proc :
        step[p] = "verified" => \A k \in DOMAIN seen[p] : seen[p][k] = seen[p][1]

\* No step but a power loss puts another installation in the place of one
\* ("An existing version is never overwritten").
NoOverwrite ==
    [][losses' = losses =>
         \A n \in Name, v \in Version :
            dir[n].entry[v] # Absent
                => dir'[n].entry[v] \in {Absent, dir[n].entry[v]}]_vars

\* What is installed can be relied on: it is whole, also after a power loss,
\* within the limits, and one installation throughout its verification.
InstallationsSafe == InstallationsWhole /\ LimitsHold /\ VerifiedIsOpened

\* A publication stays: it survives a power loss once it was reported, and
\* nothing takes its place.
PublicationKept == ReportedDurable /\ NoOverwrite

=============================================================================
