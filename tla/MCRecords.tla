----------------------------- MODULE MCRecords -----------------------------
(* The records of finished runs: their audits and the event index, and the *)
(* queries over the audits.  The two share no variable, so a behaviour     *)
(* follows one of them and leaves the other alone.                         *)
EXTENDS EventIndex

CONSTANTS r1, r2, Audit, Seconds, Limits, MaxCandidates, MaxReadBytes

VARIABLES
    component,
    query, reading, second, manifests, path, opened, complete, scanned, must,
    visited, newest, picked, answer

Reader == INSTANCE AuditReader

\* There are finitely many audits; their numbers, the seconds and the limits
\* of the queries are numbers.
ASSUME AuditAssumption == Audit \subseteq Nat /\ IsFiniteSet(Audit)
ASSUME QueryAssumption == Seconds \subseteq Nat /\ Limits \subseteq Nat

reader == <<query, reading, second, manifests, path, opened, complete, scanned,
            must, visited, newest, picked, answer>>

everything == <<component, vars, reader>>

RecordsInit ==
    /\ component \in {"events", "reader"}
    /\ Init /\ Reader!Init

EventStep(A) ==
    /\ component = "events" /\ A
    /\ UNCHANGED <<component, reader>>

RecordsNext ==
    \/ EventStep(Next)
    \/ /\ component = "reader" /\ Reader!Next
       /\ UNCHANGED <<component, vars>>

RecordsSpec ==
    /\ RecordsInit /\ [][RecordsNext]_everything
    /\ \A r \in Scheduled : WF_everything(EventStep(Step(r)))

\* A query answers with exactly the audits it was asked for.
QueriesExact == Reader!QueriesExact

=============================================================================
