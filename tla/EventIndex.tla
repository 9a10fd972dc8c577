----------------------------- MODULE EventIndex -----------------------------
(***************************************************************************)
(* The end of a guarded run: its audit manifest is persisted               *)
(* (persist_run_audit in crates/sandbox-guard-cli/src/main.rs), a bounded  *)
(* number of event records is derived from it and added to the shared      *)
(* event index (crates/sandbox-guard-core/src/events.rs), unless another   *)
(* run holds the index's lock.                                             *)
(*                                                                         *)
(* Records are totally ordered by observation time, then id, and ids are   *)
(* never reused, so a record is its place in that order (rank) and its     *)
(* run.  Ranks are drawn freely: runs end in any order.  An audit line is  *)
(* TRUE when the strict parsers accept it.                                 *)
(***************************************************************************)
EXTENDS Integers, Sequences, FiniteSets

CONSTANTS
    Run,           \* guarded runs
    Rank,          \* places in the order of all records
    MaxEvents,     \* MAX_EVENTS
    MaxPerAudit,   \* MAX_EVENTS_PER_AUDIT
    MaxLines,      \* bound on the lines of an audit
    MaxPowerLoss,  \* bound on power losses
    Scheduled,     \* runs that are not stopped (SIGSTOP, a hung disk) for ever
    Nobody         \* no run

ASSUME RankAssumption  == Rank \subseteq Nat
ASSUME LimitAssumption == MaxEvents \in Nat /\ MaxPerAudit \in Nat \ {0, 1}
ASSUME BoundAssumption == MaxLines \in Nat /\ MaxPowerLoss \in Nat
ASSUME RunAssumption   == Nobody \notin Run /\ Scheduled \subseteq Run

VARIABLES
    pc, audit,   \* each run, and the lines of its audit
    batch,       \* the records derived from it
    found,       \* the index it read under the lock
    locker,      \* holder of the flock
    audits,      \* runs whose audit manifest is in the audit directory
    index,       \* the published index
    survivors,   \* the indexes a power loss may leave
    history,     \* all records ever published
    losses

vars == <<pc, audit, batch, found, locker, audits, index, survivors, history,
          losses>>

Records == [rank : Rank, run : Run]

Lines == UNION {[1..n -> BOOLEAN] : n \in 0..MaxLines}

Audits == {a \in [egress : Lines, approvals : Lines] :
              Len(a.egress) + Len(a.approvals) <= MaxLines}

NoAudit == [egress |-> <<>>, approvals |-> <<>>]

Smaller(m, n) == IF m < n THEN m ELSE n

-----------------------------------------------------------------------------
(* events_from_audit.                                                      *)

LineCount(a) == Len(a.egress) + Len(a.approvals)

Truncated(a) == LineCount(a) > MaxPerAudit - 1

\* Mutant: no room is kept for the truncation record.
BudgetNoRoom(a) == MaxPerAudit - 1

\* The lines that may become records, next to the summary and, when lines are
\* left out, the truncation record.
Budget(a) == IF Truncated(a) THEN MaxPerAudit - 2 ELSE MaxPerAudit - 1

EgressRead(a)   == Smaller(Budget(a), Len(a.egress))
ApprovalRead(a) == Smaller(Budget(a) - EgressRead(a), Len(a.approvals))

\* dropped_audit_entries of the truncation record.
Dropped(a) == IF Truncated(a) THEN LineCount(a) - Budget(a) ELSE 0

Parsed(lines, n) == Cardinality({i \in 1..n : lines[i]})

\* How many records the audit gives.
RecordCount(a) ==
    Parsed(a.egress, EgressRead(a)) + Parsed(a.approvals, ApprovalRead(a))
        + (IF Truncated(a) THEN 1 ELSE 0) + 1

-----------------------------------------------------------------------------
(* append_events.                                                          *)

Newer(S, e) == {f \in S : f.rank > e.rank}

\* Mutant: the newcomers stay and the oldest of the others make room.
MergeArrival(old, new) ==
    new \cup {e \in old :
                 Cardinality(Newer(old, e)) + Cardinality(new) < MaxEvents}

\* Mutant: nothing is drained.
MergeAll(old, new) == old \cup new

\* The records are put in order and the oldest above the limit drained.
Merge(old, new) ==
    LET all == old \cup new
    IN  {e \in all : Cardinality(Newer(all, e)) < MaxEvents}

Init ==
    /\ pc = [r \in Run |-> "running"]
    /\ audit = [r \in Run |-> NoAudit]
    /\ batch = [r \in Run |-> {}] /\ found = [r \in Run |-> {}]
    /\ locker = Nobody
    /\ audits = {} /\ index = {} /\ survivors = {{}} /\ history = {}
    /\ losses = 0

Goto(r, label) == pc' = [pc EXCEPT ![r] = label]

\* The update ends, one way or another.
End(r) ==
    /\ Goto(r, "over")
    /\ audit' = [audit EXCEPT ![r] = NoAudit]
    /\ batch' = [batch EXCEPT ![r] = {}]
    /\ found' = [found EXCEPT ![r] = {}]
    /\ locker' = IF locker = r THEN Nobody ELSE locker

\* persist_audit creates and syncs the manifest; failing, the run ends here.
PersistAudit(r) ==
    /\ pc[r] = "running"
    /\ \/ /\ \E a \in Audits : audit' = [audit EXCEPT ![r] = a]
          /\ audits' = audits \cup {r}
          /\ Goto(r, "audited")
          /\ UNCHANGED <<batch, found, locker>>
       \/ End(r) /\ UNCHANGED audits
    /\ UNCHANGED <<index, survivors, history, losses>>

\* Ranks that records have.
Used == {e.rank : e \in history \cup UNION {batch[r] : r \in Run}}

\* The records get their times and ids.
Derive(r) ==
    /\ pc[r] = "audited"
    /\ \E ranks \in SUBSET (Rank \ Used) :
          /\ IsFiniteSet(ranks) /\ Cardinality(ranks) = RecordCount(audit[r])
          /\ batch' = [batch EXCEPT ![r] = [rank : ranks, run : {r}]]
    /\ Goto(r, "derived")
    /\ UNCHANGED <<audit, found, locker, audits, index, survivors, history,
                   losses>>

\* Mutant: the lock is waited for.
LockWaits(r) ==
    /\ pc[r] = "derived"
    /\ locker = Nobody
    /\ locker' = r /\ Goto(r, "locked")
    /\ UNCHANGED <<audit, batch, found, audits, index, survivors, history,
                   losses>>

\* lock_store: flock(LOCK_NB).  A busy store, an unsafe one or too many
\* records give the update up.
Lock(r) ==
    /\ pc[r] = "derived"
    /\ \/ /\ locker = Nobody
          /\ Cardinality(batch[r]) <= MaxPerAudit
          /\ locker' = r /\ Goto(r, "locked")
          /\ UNCHANGED <<audit, batch, found>>
       \/ End(r)
    /\ UNCHANGED <<audits, index, survivors, history, losses>>

\* read_index_file.
Read(r) ==
    /\ pc[r] = "locked"
    /\ found' = [found EXCEPT ![r] = index]
    /\ Goto(r, "read")
    /\ UNCHANGED <<audit, batch, locker, audits, index, survivors, history,
                   losses>>

\* write_index: the merged index, written and synced, is renamed into place.
Publish(r) ==
    /\ pc[r] = "read"
    /\ index' = Merge(found[r], batch[r])
    /\ survivors' = survivors \cup {index'}
    /\ history' = history \cup batch[r]
    /\ Goto(r, "renamed")
    /\ UNCHANGED <<audit, batch, found, locker, audits, losses>>

\* sync_directory, and append_events returns.
Finish(r) ==
    /\ pc[r] = "renamed"
    /\ survivors' = {index}
    /\ End(r)
    /\ UNCHANGED <<audits, index, history, losses>>

\* A step of the update fails, or the process is killed: the lock goes.
GiveUp(r) ==
    /\ pc[r] # "over"
    /\ End(r)
    /\ UNCHANGED <<audits, index, survivors, history, losses>>

\* What had not been synced may be gone: entries of the audit directory, the
\* last rename in the event directory.  Runs still "running" come later.
PowerLoss ==
    /\ losses < MaxPowerLoss
    /\ losses' = losses + 1
    /\ audits' \in SUBSET audits
    /\ index' \in survivors
    /\ survivors' = {index'}
    /\ history' = index'
    /\ locker' = Nobody
    /\ pc' = [r \in Run |-> IF pc[r] = "running" THEN "running" ELSE "over"]
    /\ audit' = [r \in Run |-> NoAudit]
    /\ batch' = [r \in Run |-> {}] /\ found' = [r \in Run |-> {}]

Step(r) ==
    \/ PersistAudit(r) \/ Derive(r) \/ Lock(r) \/ Read(r) \/ Publish(r)
    \/ Finish(r)

Next == (\E r \in Run : Step(r) \/ GiveUp(r)) \/ PowerLoss

Spec == Init /\ [][Next]_vars

FairSpec == Spec /\ \A r \in Scheduled : WF_vars(Step(r))

-----------------------------------------------------------------------------
(* Properties.                                                             *)

\* Type correctness; the index keeps its bound.
TypeOK ==
    /\ pc \in [Run -> {"running", "audited", "derived", "locked", "read",
                       "renamed", "over"}]
    /\ audit \in [Run -> Audits]
    /\ batch \in [Run -> SUBSET Records] /\ found \in [Run -> SUBSET Records]
    /\ locker \in Run \cup {Nobody} /\ audits \subseteq Run
    /\ index \subseteq Records /\ Cardinality(index) <= MaxEvents
    /\ index \in survivors /\ survivors \subseteq SUBSET Records
    /\ history \subseteq Records /\ losses \in 0..MaxPowerLoss

\* Draining at every append leaves the newest of all records ever published,
\* whatever the order in which the runs ended (docs/SECURITY_MODEL.md, "run
\* completion order cannot evict newer records").
NewestKept ==
    index = {e \in history : Cardinality(Newer(history, e)) < MaxEvents}

\* events_from_audit stays within the limit of an append, and every audit line
\* it does not look at is counted in the truncation record.
AuditAccounted ==
    \A r \in Run : pc[r] = "derived" =>
        /\ Cardinality(batch[r]) <= MaxPerAudit
        /\ EgressRead(audit[r]) + ApprovalRead(audit[r]) + Dropped(audit[r])
              = LineCount(audit[r])

\* Every record in the index belongs to a run whose audit is in the audit
\* directory (docs/SECURITY_MODEL.md, "durably persisted before any
\* event-index update is attempted").
EventsHaveAudit == \A e \in index : e.run \in audits

\* A finished run is never held up by another one that has stopped with the
\* index locked.
UpdateEnds ==
    \A r \in Scheduled : pc[r] = "derived" ~> pc[r] = "over"

\* The index stays within its bound and holds the newest records published,
\* whatever runs, kills and power losses do to it.
IndexSound == TypeOK /\ NewestKept

=============================================================================
