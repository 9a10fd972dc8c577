---------------------------- MODULE AuditReader ----------------------------
(***************************************************************************)
(* The queries of guard audit (crates/sandbox-guard-core/src/              *)
(* audit_reader.rs): the newest audits, found by two scans of the audit    *)
(* directory, and the audit of one run.  Runs add their audits meanwhile,  *)
(* guard uninstall may move the directory away, and a run make a new one.  *)
(*                                                                         *)
(* Audits are numbered by creation, then run id.  A file's name has only   *)
(* the second of its creation.                                             *)
(***************************************************************************)
EXTENDS Integers, FiniteSetsExt

CONSTANTS
    Audit,           \* 1..n
    Seconds,         \* seconds in which audits are created
    Limits,          \* the limits a query asks for
    MaxCandidates,   \* MAX_AUDIT_TAIL_CANDIDATES
    MaxReadBytes     \* MAX_AUDIT_TAIL_READ_BYTES; audit a has a bytes

VARIABLES
    query,      \* the query's kind and its limit or audit
    reading,    \* none, open, first, count, second, pick, read, ok or failed
    second,     \* each audit's second
    manifests,  \* the files: none, partial or whole, in both directories
    path,       \* the directory that has the path
    opened,     \* the directory the query holds
    complete,   \* the audits that were whole when it began
    scanned,    \* the directory that a scan reads
    must,       \* the entries it has to find
    visited,    \* the entries it has found
    newest,     \* newest_seconds: the audits that it counts, by second
    picked,     \* the files to be read, with the sizes the scan found
    answer      \* the audits read

vars == <<query, reading, second, manifests, path, opened, complete,
          scanned, must, visited, newest, picked, answer>>
store == <<second, manifests, path>>
scan  == <<scanned, must, visited>>

NoneRead == [f \in {} |-> 0]

Init ==
    /\ query = [kind |-> "tail", limit |-> 0, audit |-> 0]
    /\ reading = "none"
    /\ second = [a \in Audit |-> 1]
    /\ manifests = [d \in {1, 2} |-> [a \in Audit |-> "none"]]
    /\ path = 1 /\ opened = 0
    /\ complete = {} /\ scanned = 0 /\ must = {} /\ visited = {}
    /\ newest = {}
    /\ picked = NoneRead /\ answer = {}

\* A query is asked of a directory with some audits.
Ask ==
    /\ reading = "none" /\ reading' = "open"
    /\ query' \in [kind : {"tail"}, limit : Limits, audit : {0}]
                  \cup [kind : {"find"}, limit : {0}, audit : Audit]
    /\ second' \in {f \in [Audit -> Seconds] :
                       \A a, b \in Audit : a < b => f[a] <= f[b]}
    /\ \E there \in SUBSET Audit :
          manifests' = [manifests EXCEPT ![1] =
                           [a \in Audit |-> IF a \in there THEN "whole"
                                                           ELSE "none"]]
    /\ UNCHANGED <<path, opened, complete, scan, newest, picked, answer>>

There(d) == {a \in Audit : manifests[d][a] # "none"}

Fail ==
    /\ reading' = "failed" /\ answer' = {} /\ picked' = NoneRead
    /\ UNCHANGED <<query, store, opened, complete, scan, newest>>

\* open_audit_directory.
Open ==
    /\ reading = "open"
    /\ opened' = path
    /\ complete' = {a \in Audit : manifests[path][a] = "whole"}
    /\ reading' = IF query.kind = "find" THEN "second"
                  ELSE IF query.limit = 0 THEN "ok" ELSE "first"
    /\ UNCHANGED <<query, store, scan, newest, picked, answer>>

\* scan_audit_files opens the directory by its path.
Scan ==
    /\ reading \in {"first", "second"}
    /\ reading' = IF reading = "first" THEN "count" ELSE "pick"
    /\ scanned' = path /\ must' = There(path) /\ visited' = {}
    /\ UNCHANGED <<query, store, opened, complete, newest, picked, answer>>

\* The next entry, in any order; an entry made later may be found.  It is
\* inspected by its path.
Visit(a) ==
    /\ a \in There(scanned) \ visited /\ a \in There(path)
    /\ visited' = visited \cup {a}
    /\ UNCHANGED <<scanned, must>>

VisitFails ==
    /\ reading \in {"count", "pick"}
    /\ There(scanned) \ (visited \cup There(path)) # {}
    /\ Fail

\* Mutant: the oldest second goes as soon as there are more than asked for.
PruneGreedy(kept) ==
    {a \in kept : Cardinality({b \in kept : second[b] >= second[a]})
                      <= query.limit}

\* The loop of the first scan: the oldest second goes while enough remain.
Prune(kept) ==
    {a \in kept : Cardinality({b \in kept : second[b] > second[a]})
                      < query.limit}

\* One entry of the first scan.
Count ==
    /\ reading = "count"
    /\ \E a \in Audit :
          /\ Visit(a)
          /\ newest' = Prune(newest \cup {a})
    /\ UNCHANGED <<query, reading, store, opened, complete, picked, answer>>

CountEnds ==
    /\ reading = "count" /\ must \subseteq visited
    /\ reading' = IF newest = {} THEN "ok" ELSE "second"
    /\ UNCHANGED <<query, store, opened, complete, scan, newest, picked, answer>>

Oldest == Min({second[a] : a \in newest})

\* The second scan takes what is not before the oldest second that was kept;
\* the scan for one run takes that run's file.
Wanted(a) == IF query.kind = "tail" THEN second[a] >= Oldest
                                    ELSE a = query.audit

Pick ==
    /\ reading = "pick"
    /\ \E a \in Audit :
          LET files == [f \in DOMAIN picked \cup {a} |->
                           IF f # a THEN picked[f]
                           ELSE IF manifests[path][a] = "whole" THEN a ELSE 0]
              room  == query.kind = "find"
                       \/ Cardinality(DOMAIN files) <= MaxCandidates IN
          \/ /\ Visit(a) /\ ~Wanted(a)
             /\ UNCHANGED <<query, reading, store, opened, complete, newest,
                            picked, answer>>
          \/ /\ Visit(a) /\ Wanted(a) /\ room
             /\ picked' = files
             /\ UNCHANGED <<query, reading, store, opened, complete, newest,
                            answer>>
          \/ /\ a \in There(scanned) \ visited /\ Wanted(a) /\ ~room
             /\ Fail

ToRead == MapThenSumSet(LAMBDA f : picked[f], DOMAIN picked)

PickEnds ==
    /\ reading = "pick" /\ must \subseteq visited
    /\ IF query.kind = "tail" /\ ToRead > MaxReadBytes
           THEN Fail
           ELSE /\ reading' = "read"
                /\ UNCHANGED <<query, store, opened, complete, scan, newest,
                               picked, answer>>

\* read_audit: a file that is being written does not parse, or is seen to have
\* changed.
Read ==
    /\ reading = "read"
    /\ \E a \in DOMAIN picked \ answer :
          IF manifests[path][a] # "whole"
              THEN Fail
              ELSE /\ answer' = answer \cup {a}
                   /\ UNCHANGED <<query, reading, store, opened, complete, scan,
                                  newest, picked>>

\* Mutant: the path is not compared.
RecheckNot ==
    /\ reading = "read" /\ answer = DOMAIN picked
    /\ reading' = "ok"
    /\ answer' = IF query.kind = "find" THEN answer
                 ELSE {a \in answer :
                          Cardinality({b \in answer : b > a}) < query.limit}
    /\ UNCHANGED <<query, store, opened, complete, scan, newest, picked>>

\* ensure_path_matches_directory, then the answer is sorted and cut.
Recheck ==
    /\ reading = "read" /\ answer = DOMAIN picked
    /\ IF path # opened
           THEN Fail
           ELSE /\ reading' = "ok"
                /\ answer' = IF query.kind = "find" THEN answer
                             ELSE {a \in answer :
                                      Cardinality({b \in answer : b > a})
                                          < query.limit}
                /\ UNCHANGED <<query, store, opened, complete, scan, newest,
                               picked>>

-----------------------------------------------------------------------------
(* The other processes.                                                    *)

Busy == reading \notin {"none", "ok", "failed"}

others == <<query, reading, opened, complete, scan, newest, picked, answer>>

\* A run writes its audit: a new file, then its bytes.
Persist(a) ==
    /\ Busy
    /\ \/ /\ \A d \in {1, 2} : manifests[d][a] = "none"
          /\ manifests' = [manifests EXCEPT ![path][a] = "partial"]
       \/ \E d \in {1, 2} :
             /\ manifests[d][a] = "partial"
             /\ manifests' = [manifests EXCEPT ![d][a] = "whole"]
    /\ UNCHANGED <<others, second, path>>

\* guard uninstall moves the directory away, and a run makes a new one.
Replace ==
    /\ Busy /\ path = 1 /\ path' = 2
    /\ UNCHANGED <<others, second, manifests>>

Next ==
    \/ Ask \/ Open \/ Scan \/ VisitFails \/ Count \/ CountEnds
    \/ Pick \/ PickEnds \/ Read \/ Recheck
    \/ (\E a \in Audit : Persist(a)) \/ Replace

Spec == Init /\ [][Next]_vars

-----------------------------------------------------------------------------
(* Properties.                                                             *)

\* Type correctness.
TypeOK ==
    /\ reading \in {"none", "open", "first", "count", "second", "pick", "read",
                   "ok", "failed"}
    /\ opened \in {0, 1, 2} /\ answer \subseteq Audit
    /\ newest \subseteq Audit
    /\ answer \subseteq DOMAIN picked

\* An answer is the newest audits, as many as asked for: an audit that was
\* there when the query began is missing only when the answer is full of newer
\* ones, in whatever order the entries are found and although runs add theirs
\* and the directory may be replaced between the two scans.  (Without an audit
\* in the first scan the query answers at once and does not look whether it has
\* read the directory that it opened.)
TailIsNewest ==
    reading = "ok" /\ query.kind = "tail" /\ (picked = NoneRead => path = opened) =>
        /\ Cardinality(answer) <= query.limit
        /\ \A a \in complete \ answer :
              /\ Cardinality(answer) = query.limit
              /\ \A b \in answer : b > a

\* The audit of a run that was there is found, and nothing else is.
FindIsExact ==
    reading = "ok" /\ query.kind = "find" =>
        answer = {query.audit} \/ (answer = {} /\ query.audit \notin complete)

\* A query answers with exactly the audits it was asked for.
QueriesExact == TypeOK /\ TailIsNewest /\ FindIsExact

=============================================================================
