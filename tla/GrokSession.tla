---------------------------- MODULE GrokSession ----------------------------
(***************************************************************************)
(* The private conversations of guard grok for one source directory        *)
(* (GrokSessionState and GrokSessionStore in                               *)
(* crates/sandbox-guard-cli/src/grok.rs).  A run copies the snapshot that  *)
(* CURRENT names into a stage, lets the tool work on the copy, publishes   *)
(* it as a new snapshot, lets CURRENT name that one and removes snapshots  *)
(* older than the one it began with.  Nothing locks the store: runs may    *)
(* overlap, fail and be killed anywhere, and a power loss may take back a  *)
(* rename whose directory was not synced.                                  *)
(*                                                                         *)
(* A snapshot is a set of conversations.  Every process runs once.  They   *)
(* are numbered in the order in which they open the store, and a process's *)
(* number is also the id of its snapshot and of its conversation.          *)
(***************************************************************************)
EXTENDS Integers, FiniteSets

CONSTANTS
    Grok,         \* processes running guard grok, positive numbers
    MaxOutages    \* bound on power losses

VARIABLES
    doing,        \* each run's step
    previous,     \* the snapshot CURRENT named when it opened the store
    listed,       \* the conversations its walk of that snapshot found
    copied,       \* its copy
    snapshot,     \* the snapshots' conversations
    published,    \* what each one was published with
    current,      \* the snapshot CURRENT names, 0 for none
    outcomes,     \* the values of CURRENT that a power loss may leave
    sweep,        \* the snapshots each cleanup has found and not yet handled
    overlapped,   \* two runs have overlapped
    raced,        \* two publications have overlapped
    outages

vars == <<doing, previous, listed, copied, snapshot, published, current,
          outcomes, sweep, overlapped, raced, outages>>
own  == <<previous, listed, copied>>
disk == <<snapshot, published, current, outcomes>>

Gone == {0}     \* no directory

Active(p)     == doing[p] \notin {"idle", "done", "failed", "killed"}
Publishing(p) == doing[p] \in {"placed", "named", "activated", "sweeping"}
Stored(n)     == snapshot[n] # Gone

Init ==
    /\ doing = [p \in Grok |-> "idle"]
    /\ previous = [p \in Grok |-> 0]
    /\ listed = [p \in Grok |-> {}] /\ copied = [p \in Grok |-> {}]
    /\ snapshot = [p \in Grok |-> Gone] /\ published = [p \in Grok |-> Gone]
    /\ current = 0 /\ outcomes = {0}
    /\ sweep = [p \in Grok |-> {}]
    /\ overlapped = FALSE /\ raced = FALSE /\ outages = 0

Become(p, step) == doing' = [doing EXCEPT ![p] = step]

-----------------------------------------------------------------------------
(* GrokSessionState::prepare.                                              *)

\* open_at: the private directories exist, CURRENT is read.
Open(p) ==
    /\ doing[p] = "idle" /\ \A q \in Grok : q < p => doing[q] # "idle"
    /\ Become(p, "opened")
    /\ previous' = [previous EXCEPT ![p] = current]
    /\ overlapped' = (overlapped \/ \E q \in Grok : Active(q))
    /\ UNCHANGED <<listed, copied, disk, sweep, raced, outages>>

\* current_snapshot and the walk of Stage::build over what it finds.
List(p) ==
    /\ doing[p] = "opened"
    /\ LET n == previous[p] IN
       IF n # 0 /\ ~Stored(n)
           THEN Become(p, "failed") /\ UNCHANGED listed
           ELSE /\ Become(p, "copying")
                /\ listed' = [listed EXCEPT ![p] =
                                 IF n = 0 THEN {} ELSE snapshot[n]]
    /\ UNCHANGED <<previous, copied, disk, sweep, overlapped, raced, outages>>

\* Mutant: a conversation that is gone by now is left out.
CopySkipping(p) ==
    /\ doing[p] = "copying"
    /\ \E c \in listed[p] \ copied[p] :
          IF c \in snapshot[previous[p]]
              THEN /\ copied' = [copied EXCEPT ![p] = @ \cup {c}]
                   /\ UNCHANGED <<doing, listed>>
              ELSE Become(p, "loaded") /\ UNCHANGED <<copied, listed>>
    /\ UNCHANGED <<previous, disk, sweep, overlapped, raced, outages>>

\* One conversation; what is gone by now is an excluded path, which
\* ensure_clean_session_stage refuses.
Copy(p) ==
    /\ doing[p] = "copying"
    /\ \E c \in listed[p] \ copied[p] :
          IF c \in snapshot[previous[p]]
              THEN /\ copied' = [copied EXCEPT ![p] = @ \cup {c}]
                   /\ UNCHANGED doing
              ELSE Become(p, "failed") /\ UNCHANGED copied
    /\ UNCHANGED <<previous, listed, disk, sweep, overlapped, raced, outages>>

\* The layout is valid, and a conversation to resume is there.
Prepared(p) ==
    /\ doing[p] = "copying" /\ copied[p] = listed[p]
    /\ \E wanted \in {0} \cup Grok :
          IF wanted \in {0} \cup copied[p] THEN Become(p, "loaded")
                                           ELSE Become(p, "failed")
    /\ UNCHANGED <<own, disk, sweep, overlapped, raced, outages>>

-----------------------------------------------------------------------------
(* The run and GrokSessionState::publish.                                  *)

\* The tool adds its conversation; what it leaves may not validate.
Converse(p) ==
    /\ doing[p] = "loaded"
    /\ \/ /\ Become(p, "ran")
          /\ copied' = [copied EXCEPT ![p] = @ \cup {p}]
       \/ Become(p, "failed") /\ UNCHANGED copied
    /\ UNCHANGED <<previous, listed, disk, sweep, overlapped, raced, outages>>

\* The returned state is copied once more and validated beside the snapshots,
\* and publish_workspace renames it to its id and syncs their directory.
Place(p) ==
    /\ doing[p] = "ran"
    /\ Become(p, "placed")
    /\ snapshot' = [snapshot EXCEPT ![p] = copied[p]]
    /\ published' = [published EXCEPT ![p] = copied[p]]
    /\ raced' = (raced \/ \E q \in Grok : Publishing(q))
    /\ UNCHANGED <<own, current, outcomes, sweep, overlapped, outages>>

\* activate: the temporary pointer is written and synced,
WritePointer(p) ==
    /\ doing[p] = "placed"
    /\ Become(p, "named")
    /\ UNCHANGED <<own, disk, sweep, overlapped, raced, outages>>

\* renamed,
Rename(p) ==
    /\ doing[p] = "named"
    /\ Become(p, "activated")
    /\ current' = p /\ outcomes' = outcomes \cup {p}
    /\ UNCHANGED <<own, snapshot, published, sweep, overlapped, raced, outages>>

Found(p) == {n \in Grok : Stored(n)} \ {p, previous[p]}

\* Mutant: the directory is not synced.
SyncStoreNot(p) ==
    /\ doing[p] = "activated"
    /\ sweep' = [sweep EXCEPT ![p] = Found(p)]
    /\ Become(p, "sweeping")
    /\ UNCHANGED <<own, disk, overlapped, raced, outages>>

\* and its directory synced.  Then cleanup_old_snapshots reads the directory;
\* as a small one it is read in one piece.
SyncStore(p) ==
    /\ doing[p] = "activated"
    /\ outcomes' = {current}
    /\ sweep' = [sweep EXCEPT ![p] = Found(p)]
    /\ Become(p, "sweeping")
    /\ UNCHANGED <<own, snapshot, published, current, overlapped, raced,
                   outages>>

\* remove_dir_all takes one conversation, then the directory, and may fail,
\* which is only a warning.
Sweep(p) ==
    /\ doing[p] = "sweeping"
    /\ \E n \in sweep[p] :
          \/ /\ \E rest \in IF snapshot[n] \in {{}, Gone} THEN {Gone}
                            ELSE {snapshot[n] \ {c} : c \in snapshot[n]} :
                   /\ snapshot' = [snapshot EXCEPT ![n] = rest]
                   /\ sweep' = IF rest = Gone
                                   THEN [sweep EXCEPT ![p] = @ \ {n}]
                                   ELSE sweep
          \/ sweep' = [sweep EXCEPT ![p] = @ \ {n}] /\ UNCHANGED snapshot
    /\ UNCHANGED <<doing, own, published, current, outcomes, overlapped, raced,
                   outages>>

\* Mutant: publish succeeds before the pointer is renamed.
ReportEarly(p) ==
    /\ \/ doing[p] = "named"
       \/ doing[p] = "sweeping" /\ sweep[p] = {}
    /\ Become(p, "done")
    /\ UNCHANGED <<own, disk, sweep, overlapped, raced, outages>>

Report(p) ==
    /\ doing[p] = "sweeping" /\ sweep[p] = {}
    /\ Become(p, "done")
    /\ UNCHANGED <<own, disk, sweep, overlapped, raced, outages>>

-----------------------------------------------------------------------------
(* Failures.                                                               *)

\* A step fails: the error leaves what was done.
Fail(p) ==
    /\ doing[p] \in {"opened", "copying", "ran", "placed", "named",
                     "activated"}
    /\ Become(p, "failed")
    /\ UNCHANGED <<own, disk, sweep, overlapped, raced, outages>>

Kill(p) ==
    /\ Active(p)
    /\ Become(p, "killed")
    /\ sweep' = [sweep EXCEPT ![p] = {}]
    /\ UNCHANGED <<own, disk, overlapped, raced, outages>>

PowerLoss ==
    /\ outages < MaxOutages /\ outages' = outages + 1
    /\ doing' = [p \in Grok |-> IF Active(p) THEN "killed" ELSE doing[p]]
    /\ sweep' = [p \in Grok |-> {}]
    /\ current' \in outcomes /\ outcomes' = {current'}
    /\ UNCHANGED <<own, snapshot, published, overlapped, raced>>

Next ==
    \/ \E p \in Grok :
          \/ Open(p) \/ List(p) \/ Copy(p) \/ Prepared(p) \/ Converse(p)
          \/ Place(p) \/ WritePointer(p) \/ Rename(p) \/ SyncStore(p)
          \/ Sweep(p) \/ Report(p) \/ Fail(p) \/ Kill(p)
    \/ PowerLoss

Spec == Init /\ [][Next]_vars

-----------------------------------------------------------------------------
(* Properties.                                                             *)

\* Type correctness.
TypeOK ==
    /\ doing \in [Grok -> {"idle", "opened", "copying", "loaded", "ran",
                           "placed", "named", "activated", "sweeping", "done",
                           "failed", "killed"}]
    /\ previous \in [Grok -> {0} \cup Grok] /\ current \in {0} \cup Grok
    /\ outcomes \subseteq {0} \cup Grok /\ current \in outcomes
    /\ \A p \in Grok : copied[p] \subseteq Grok /\ sweep[p] \subseteq Grok

\* CURRENT names a snapshot that is all there, after a kill, a failed step or a
\* power loss as well: removal never touches what the pointer may still name.
\* Two publications at the same time are excepted: the cleanup of one then
\* removes the other's new snapshot.
CurrentWhole ==
    ~raced => \A n \in outcomes \ {0} : snapshot[n] = published[n]

\* A run never works on a copy with holes: every conversation the walk found
\* has been copied, although another run's cleanup removes them meanwhile.
LoadedAsListed ==
    \A p \in Grok : doing[p] = "loaded" => copied[p] = listed[p]

\* When runs do not overlap, a run that reports its conversations as stored has
\* stored them for good: whatever happens to later runs, CURRENT leads to them.
ReportedKept ==
    ~overlapped =>
        \A p \in Grok : doing[p] = "done" =>
            \A n \in outcomes : n # 0 /\ p \in snapshot[n]

\* Conversations are safe from one run to the next: the snapshot that CURRENT
\* names is whole, it is loaded whole, and what was reported is kept.
SnapshotsSafe == TypeOK /\ CurrentWhole /\ LoadedAsListed /\ ReportedKept

=============================================================================
