------------------------------ MODULE StageGc ------------------------------
(***************************************************************************)
(* The life of staging directories: Stage::build and the ways a stage ends *)
(* (crates/sandbox-guard-core/src/staging.rs), and `guard gc`, which       *)
(* removes what killed runs left behind (garbage_collect in gc.rs).  They  *)
(* share the staging base and coordinate only through the advisory lock on *)
(* the stage's .lock file and the age of its directory.                    *)
(*                                                                         *)
(* A stage is named after its session: mkdtemp never reuses a name.  Its   *)
(* entries appear and disappear one by one, as remove_dir_all removes      *)
(* them.  flock[s] is the lock on the inode of s's .lock file, which stays *)
(* lockable through open descriptors after the entry is gone.              *)
(***************************************************************************)
EXTENDS Integers

CONSTANTS
    Session,    \* runs of the guard, each with one stage
    Collector,  \* `guard gc` processes
    Nobody,     \* no session and no collector
    AnyAge,     \* --older-than-hours 0
    MaxFaults   \* bound on kills and I/O errors during collection

ASSUME NobodyAssumption == Nobody \notin Session \cup Collector
ASSUME DisjointAssumption == Session \cap Collector = {}
ASSUME AgeAssumption == AnyAge \in BOOLEAN /\ MaxFaults \in Nat

VARIABLES
    run,     \* each session's progress
    tree,    \* the entries of its stage that exist
    old,     \* the stage directory has reached the age gc asks for
    flock,   \* holder of the lock on the stage's .lock inode
    gc,      \* each collector's progress
    todo,    \* the entries it has yet to look at
    at,      \* the stage it is working on
    faults

sessions   == <<run, tree, old>>
collection == <<gc, todo, at>>
vars       == <<run, tree, old, flock, gc, todo, at, faults>>

Entries == {"root", "lock", "work"}

\* "made" and "locking": the directory exists, the lock is not yet held.
\* "failed": build returned an error.  "leaving": the Stage is dropped.
Runs == {"absent", "made", "locking", "locked", "using",
         "failed", "leaving", "over", "killed", "kept"}

Init ==
    /\ run = [s \in Session |-> "absent"]
    /\ tree = [s \in Session |-> {}]
    /\ old = [s \in Session |-> AnyAge]
    /\ flock = [s \in Session |-> Nobody]
    /\ gc = [g \in Collector |-> "idle"]
    /\ todo = [g \in Collector |-> {}]
    /\ at = [g \in Collector |-> Nobody]
    /\ faults = 0

\* A change of the directory's entries makes it young again.
SetTree(s, entries) ==
    /\ tree' = [tree EXCEPT ![s] = entries]
    /\ old' = [old EXCEPT ![s] = AnyAge]

Become(s, state) == run' = [run EXCEPT ![s] = state]
Hold(s, who) == flock' = [flock EXCEPT ![s] = who]
Released(s) == IF flock[s] = s THEN Nobody ELSE flock[s]

-----------------------------------------------------------------------------
(* Sessions.                                                               *)

MakeDirectory(s) ==
    /\ run[s] = "absent"
    /\ SetTree(s, {"root"})
    /\ Become(s, "made")
    /\ UNCHANGED <<flock, collection, faults>>

\* The .lock file is created, unless the directory is already gone.
CreateLock(s) ==
    /\ run[s] = "made"
    /\ IF "root" \in tree[s]
           THEN SetTree(s, tree[s] \cup {"lock"}) /\ Become(s, "locking")
           ELSE Become(s, "failed") /\ UNCHANGED <<tree, old>>
    /\ UNCHANGED <<flock, collection, faults>>

\* flock(LOCK_EX | LOCK_NB): build fails when a collector has it.
TakeLock(s) ==
    /\ run[s] = "locking"
    /\ IF flock[s] = Nobody
           THEN Hold(s, s) /\ Become(s, "locked")
           ELSE Become(s, "failed") /\ UNCHANGED flock
    /\ UNCHANGED <<tree, old, collection, faults>>

\* The workspace is created and filled, or build fails.
Populate(s) ==
    /\ run[s] = "locked"
    /\ \/ /\ "root" \in tree[s]
          /\ SetTree(s, tree[s] \cup {"work"})
          /\ Become(s, "using")
       \/ Become(s, "failed") /\ UNCHANGED <<tree, old>>
    /\ UNCHANGED <<flock, collection, faults>>

\* A failed build drops the lock first, then the directory.
DropLock(s) ==
    /\ run[s] = "failed"
    /\ Become(s, "leaving")
    /\ Hold(s, Released(s))
    /\ UNCHANGED <<tree, old, collection, faults>>

\* The run is over and the Stage is dropped, directory first; or it is kept.
Finish(s) ==
    /\ run[s] = "using"
    /\ \/ Become(s, "leaving") /\ UNCHANGED flock
       \/ Become(s, "kept") /\ Hold(s, Released(s))
    /\ UNCHANGED <<tree, old, collection, faults>>

\* Mutant: the directory may go before its entries.
RemovableAny(s) == tree[s]

\* What remove_dir_all may remove next: the directory itself comes last.
Removable(s) == IF tree[s] = {"root"} THEN tree[s] ELSE tree[s] \ {"root"}

\* TempDir's drop removes the stage, entry by entry.
DropEntry(s) ==
    /\ run[s] = "leaving"
    /\ \E e \in Removable(s) : SetTree(s, tree[s] \ {e})
    /\ UNCHANGED <<run, flock, collection, faults>>

\* It is removed, or an error is ignored; then the lock goes.
Over(s) ==
    /\ run[s] = "leaving"
    /\ \/ tree[s] = {} /\ UNCHANGED faults
       \/ faults < MaxFaults /\ faults' = faults + 1
    /\ Become(s, "over")
    /\ Hold(s, Released(s))
    /\ UNCHANGED <<tree, old, collection>>

Kill(s) ==
    /\ run[s] \notin {"absent", "over", "killed", "kept"}
    /\ Become(s, "killed")
    /\ Hold(s, Released(s))
    /\ UNCHANGED <<tree, old, collection, faults>>

\* Time passes.  The two system calls between mkdir and flock take less than
\* any age but zero.
Age(s) ==
    /\ run[s] \notin {"made", "locking"}
    /\ "root" \in tree[s] /\ ~old[s]
    /\ old' = [old EXCEPT ![s] = TRUE]
    /\ UNCHANGED <<run, tree, flock, collection, faults>>

-----------------------------------------------------------------------------
(* Collectors.                                                             *)

\* The flocks of a collector that moves on or ends.
Let(g) ==
    flock' = [s \in Session |-> IF flock[s] = g THEN Nobody ELSE flock[s]]

\* The collector goes on with its next entry, or returns the report.
NextEntry(g) ==
    /\ gc' = [gc EXCEPT ![g] = IF todo[g] = {} THEN "idle" ELSE "scan"]
    /\ at' = [at EXCEPT ![g] = Nobody]

\* An error ends the collection.
Abort(g) ==
    /\ gc' = [gc EXCEPT ![g] = "idle"]
    /\ at' = [at EXCEPT ![g] = Nobody]
    /\ todo' = [todo EXCEPT ![g] = {}]

Goto(g, label) == gc' = [gc EXCEPT ![g] = label]

\* read_dir.
Scan(g) ==
    /\ gc[g] = "idle"
    /\ \E s \in Session : "root" \in tree[s]
    /\ todo' = [todo EXCEPT ![g] = {s \in Session : "root" \in tree[s]}]
    /\ Goto(g, "scan")
    /\ UNCHANGED <<sessions, flock, at, faults>>

\* symlink_metadata fails when the stage is gone meanwhile; a young stage is
\* only reported.
Inspect(g) ==
    /\ gc[g] = "scan"
    /\ \E s \in todo[g] :
          IF "root" \notin tree[s]
              THEN Abort(g)
              ELSE /\ todo' = [todo EXCEPT ![g] = @ \ {s}]
                   /\ IF old[s]
                          THEN at' = [at EXCEPT ![g] = s] /\ Goto(g, "open")
                          ELSE /\ Goto(g, IF todo[g] = {s} THEN "idle"
                                                           ELSE "scan")
                               /\ UNCHANGED at
    /\ UNCHANGED <<sessions, flock, faults>>

\* Mutant: a stage without a lock file is taken for an active one.
OpenLockMissingActive(g) ==
    /\ gc[g] = "open"
    /\ IF "lock" \in tree[at[g]]
           THEN Goto(g, "try") /\ UNCHANGED at
           ELSE NextEntry(g)
    /\ UNCHANGED <<sessions, flock, todo, faults>>

\* try_lock opens .lock: a missing one marks an orphan.
OpenLock(g) ==
    /\ gc[g] = "open"
    /\ Goto(g, IF "lock" \in tree[at[g]] THEN "try" ELSE "remove")
    /\ UNCHANGED <<sessions, flock, todo, at, faults>>

\* Mutant: the outcome of flock is not looked at.
TryLockIgnored(g) ==
    /\ gc[g] = "try"
    /\ Goto(g, "remove")
    /\ UNCHANGED <<sessions, flock, todo, at, faults>>

\* flock(LOCK_EX | LOCK_NB): the stage is active when it is held.
TryLock(g) ==
    /\ gc[g] = "try"
    /\ IF flock[at[g]] = Nobody
           THEN Hold(at[g], g) /\ Goto(g, "remove") /\ UNCHANGED at
           ELSE NextEntry(g) /\ UNCHANGED flock
    /\ UNCHANGED <<sessions, todo, faults>>

\* --dry-run: the stage is only reported.
DryRun(g) ==
    /\ gc[g] = "remove"
    /\ NextEntry(g)
    /\ Let(g)
    /\ UNCHANGED <<sessions, todo, faults>>

\* remove_dir_all, entry by entry.
RemoveEntry(g) ==
    /\ gc[g] = "remove"
    /\ \E e \in Removable(at[g]) :
          /\ SetTree(at[g], tree[at[g]] \ {e})
          /\ IF e = "root"
                 THEN NextEntry(g) /\ Let(g)
                 ELSE UNCHANGED <<gc, at, flock>>
    /\ UNCHANGED <<run, todo, faults>>

\* remove_dir_all fails: the stage has gone meanwhile, or another error.
RemoveFails(g) ==
    /\ gc[g] = "remove"
    /\ \/ "root" \notin tree[at[g]] /\ UNCHANGED faults
       \/ faults < MaxFaults /\ faults' = faults + 1
    /\ Abort(g)
    /\ Let(g)
    /\ UNCHANGED sessions

KillCollector(g) ==
    /\ gc[g] # "idle"
    /\ faults < MaxFaults /\ faults' = faults + 1
    /\ Abort(g)
    /\ Let(g)
    /\ UNCHANGED sessions

-----------------------------------------------------------------------------

Guard(s) ==
    \/ MakeDirectory(s) \/ CreateLock(s) \/ TakeLock(s) \/ Populate(s)
    \/ DropLock(s) \/ Finish(s) \/ DropEntry(s) \/ Over(s)

\* A collection in progress, or a new one that removes what it may.
Collect(g) ==
    Scan(g) \/ Inspect(g) \/ OpenLock(g) \/ TryLock(g) \/ RemoveEntry(g)

Next ==
    \/ \E s \in Session : Guard(s) \/ Kill(s) \/ Age(s)
    \/ \E g \in Collector :
          Collect(g) \/ DryRun(g) \/ RemoveFails(g) \/ KillCollector(g)

Spec == Init /\ [][Next]_vars

\* Time passes, and the user runs `guard gc` again and again, without
\* --dry-run for ever.  Sessions need not end.
FairSpec ==
    /\ Spec
    /\ \A s \in Session :
          /\ WF_vars(Age(s))
          /\ WF_vars(Guard(s) /\ run[s] \in {"failed", "leaving"})
    /\ \A g \in Collector :
          WF_vars(Collect(g) \/ RemoveFails(g)) /\ SF_vars(RemoveEntry(g))

-----------------------------------------------------------------------------
(* Properties.                                                             *)

\* Type correctness, and no entry without its directory.
TypeOK ==
    /\ run \in [Session -> Runs]
    /\ tree \in [Session -> SUBSET Entries]
    /\ old \in [Session -> BOOLEAN]
    /\ flock \in [Session -> Session \cup Collector \cup {Nobody}]
    /\ gc \in [Collector -> {"idle", "scan", "open", "try", "remove"}]
    /\ todo \in [Collector -> SUBSET Session]
    /\ at \in [Collector -> Session \cup {Nobody}]
    /\ faults \in 0..MaxFaults
    /\ \A s \in Session : tree[s] # {} => "root" \in tree[s]

\* No collector removes anything of a stage in use (README.md, "advisory
\* locks protect active stages").
ActiveIsWhole == \A s \in Session : run[s] = "using" => tree[s] = Entries

\* What a killed or failed run left behind is removed in the end, also when
\* collections were themselves interrupted half way.
OrphansCollected ==
    \A s \in Session : run[s] \in {"killed", "over"} ~> tree[s] = {}

=============================================================================
