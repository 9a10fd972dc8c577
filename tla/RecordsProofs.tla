--------------------------- MODULE RecordsProofs ---------------------------
(***************************************************************************)
(* The records of finished runs, for any number of runs, records, audits   *)
(* and power losses, and any limits.                                       *)
(*                                                                         *)
(* The event index keeps the newest records ever published.  Draining at   *)
(* every append forgets records for good, so that the index alone does not *)
(* say what the newest of all records are.  The proof rests on a lemma     *)
(* about the draining (MergeOfNewest): what was drained before can never   *)
(* come back among the newest.  The lock makes what a run read the         *)
(* published index until it renames (Exclusive), and a power loss can only *)
(* leave an index that was published and within the limit (Surviving).     *)
(*                                                                         *)
(* A query answers with exactly the audits it was asked for.  Its first    *)
(* scan forgets audits as well: what it dropped has as many newer ones     *)
(* among what it kept as the query asks for (KeptNext), in whatever order  *)
(* the directory is listed, between the persists of other runs.  The       *)
(* directory the query holds can only be taken away, which its last check  *)
(* notices (Directory).                                                    *)
(***************************************************************************)
EXTENDS MCRecords, FiniteSetTheorems, WellFoundedInduction, TLAPS

-----------------------------------------------------------------------------
(* The newest records of a set.                                            *)

Newest(S) == {e \in S : Cardinality(Newer(S, e)) < MaxEvents}

Ranked(S) == IsFiniteSet(S) /\ S \subseteq Records

\* No two records have the same place in the order.
OneEach(S) == \A e, f \in S : e.rank = f.rank => e = f

LEMMA RankType == \A e \in Records : e.rank \in Nat
BY RankAssumption DEF Records

LEMMA LeastNumber ==
    ASSUME NEW T, T \subseteq Nat, T # {}
    PROVE  \E x \in T : \A y \in T : x <= y
<1>1. PICK x \in T : \A y \in T : ~(<<y, x>> \in OpToRel(<, Nat))
    BY NatLessThanWellFounded, WFMin, Zenon
<1>2. \A y \in T : ~(y < x)
    BY <1>1 DEF OpToRel
<1>. QED BY <1>2

LEMMA NewerFinite ==
    ASSUME NEW S, Ranked(S), NEW e
    PROVE  IsFiniteSet(Newer(S, e)) /\ Cardinality(Newer(S, e)) \in Nat
BY FS_Subset, FS_CardinalityType DEF Newer, Ranked

LEMMA FewerNewer ==
    ASSUME NEW S, NEW T, Ranked(S), T \subseteq S, NEW e \in Records,
           NEW f \in Records, e.rank <= f.rank
    PROVE  Cardinality(Newer(T, f)) <= Cardinality(Newer(S, e))
<1>1. Newer(T, f) \subseteq Newer(S, e)
    <2>1. ASSUME NEW g \in T, g.rank > f.rank PROVE g.rank > e.rank
        <3>1. g.rank \in Nat /\ f.rank \in Nat /\ e.rank \in Nat
            BY RankType DEF Ranked
        <3>. QED BY <2>1, <3>1
    <2>. QED BY <2>1 DEF Newer
<1>. QED BY <1>1, NewerFinite, FS_Subset

\* A record has strictly fewer newer ones than an older one has.
LEMMA OrderedByNewer ==
    ASSUME NEW S, Ranked(S), NEW e \in S, NEW f \in S, e.rank < f.rank
    PROVE  Cardinality(Newer(S, f)) < Cardinality(Newer(S, e))
<1>1. Newer(S, f) \subseteq Newer(S, e) \ {f}
    <2>1. \A g \in S : g.rank \in Nat
        BY RankAssumption DEF Ranked, Records
    <2>. QED BY <2>1 DEF Newer
<1>2. f \in Newer(S, e)
    BY RankAssumption DEF Newer, Ranked, Records
<1>3. /\ IsFiniteSet(Newer(S, e) \ {f})
      /\ Cardinality(Newer(S, e) \ {f}) = Cardinality(Newer(S, e)) - 1
    BY <1>2, NewerFinite, FS_RemoveElement
<1>4. Cardinality(Newer(S, f)) <= Cardinality(Newer(S, e) \ {f})
    BY <1>1, <1>3, FS_Subset
<1>. QED BY <1>3, <1>4, NewerFinite

\* A record that is not among the newest has MaxEvents of them before it.
LEMMA OutOfNewest ==
    ASSUME NEW S, Ranked(S), NEW f \in S \ Newest(S)
    PROVE  Cardinality(Newer(Newest(S), f)) >= MaxEvents
<1>. DEFINE Old == S \ Newest(S)
            Places == {Cardinality(Newer(S, e)) : e \in Old}
<1>1. Places \subseteq Nat /\ Places # {}
    BY NewerFinite
<1>2. PICK g \in Old : \A e \in Old :
          Cardinality(Newer(S, g)) <= Cardinality(Newer(S, e))
    <2>1. PICK x \in Places : \A y \in Places : x <= y
        BY <1>1, LeastNumber
    <2>. QED BY <2>1
<1>3. \A e \in S : e.rank \in Nat
    BY RankAssumption DEF Ranked, Records
<1>4. f.rank <= g.rank
    <2>1. CASE g.rank < f.rank
        BY <1>2, <2>1, OrderedByNewer, NewerFinite
    <2>. QED BY <1>3, <2>1
<1>5. Newer(S, g) \subseteq Newest(S)
    <2>1. ASSUME NEW e \in S, e.rank > g.rank, e \notin Newest(S) PROVE FALSE
        <3>1. Cardinality(Newer(S, e)) < Cardinality(Newer(S, g))
            BY <1>3, <2>1, OrderedByNewer
        <3>. QED BY <1>2, <2>1, <3>1, NewerFinite
    <2>. QED BY <2>1 DEF Newer
<1>6. Cardinality(Newer(S, g)) >= MaxEvents
    BY NewerFinite, LimitAssumption DEF Newest
<1>7. Ranked(Newest(S)) /\ Newest(S) \subseteq S
    BY FS_Subset DEF Ranked, Newest
<1>8. Newer(S, g) \subseteq Newer(Newest(S), f)
    <2>1. ASSUME NEW e \in S, e.rank > g.rank PROVE e.rank > f.rank
        BY <1>3, <1>4, <2>1
    <2>. QED BY <1>5, <2>1 DEF Newer
<1>9. Cardinality(Newer(S, g)) <= Cardinality(Newer(Newest(S), f))
    BY <1>7, <1>8, NewerFinite, FS_Subset
<1>. QED BY <1>6, <1>7, <1>9, NewerFinite, LimitAssumption

\* The newest of the newest and of others are the newest of all: what was
\* drained is not missed by any later append.
LEMMA MergeOfNewest ==
    ASSUME NEW H, NEW B, Ranked(H), Ranked(B)
    PROVE  Merge(Newest(H), B) = Newest(H \cup B)
<1>. DEFINE A == H \cup B
            C == Newest(H) \cup B
<1>1. C \subseteq A /\ Ranked(A) /\ Ranked(C)
    BY FS_Union, FS_Subset DEF Ranked, Newest
<1>2. \A e \in A : e \in Records /\ e.rank \in Nat
    BY <1>1, RankAssumption DEF Ranked, Records
<1>. HIDE DEF A, C
<1>3. ASSUME NEW e \in A, Cardinality(Newer(A, e)) < MaxEvents
      PROVE  e \in C /\ Cardinality(Newer(C, e)) < MaxEvents
    <2>1. Cardinality(Newer(C, e)) <= Cardinality(Newer(A, e))
        BY <1>1, <1>2, FewerNewer
    <2>2. Cardinality(Newer(H, e)) <= Cardinality(Newer(A, e))
        BY <1>1, <1>2, FewerNewer DEF A
    <2>3. e \in H => e \in Newest(H)
        BY <1>1, <1>3, <2>2, NewerFinite, LimitAssumption DEF Newest
    <2>. QED BY <1>1, <1>3, <2>1, <2>3, NewerFinite, LimitAssumption DEF A, C
<1>4. ASSUME NEW e \in C, Cardinality(Newer(C, e)) < MaxEvents
      PROVE  Cardinality(Newer(A, e)) < MaxEvents
    <2>1. CASE Newer(A, e) \subseteq C
        <3>1. Newer(A, e) = Newer(C, e)
            BY <1>1, <2>1 DEF Newer
        <3>. QED BY <1>4, <3>1
    <2>2. ASSUME NEW f \in Newer(A, e), f \notin C PROVE FALSE
        <3>1. f \in H \ Newest(H) /\ f.rank > e.rank /\ e \in A
            BY <1>1, <2>2 DEF Newer, A, C
        <3>2. Cardinality(Newer(Newest(H), f)) >= MaxEvents
            BY <3>1, OutOfNewest
        <3>3. Newest(H) \subseteq C
            BY DEF C
        <3>4. f \in A
            BY <2>2 DEF Newer
        <3>5. Cardinality(Newer(Newest(H), f)) <= Cardinality(Newer(C, e))
            BY <1>1, <1>2, <3>1, <3>3, <3>4, FewerNewer
        <3>6. Ranked(Newest(H))
            BY FS_Subset DEF Ranked, Newest
        <3>. QED BY <1>1, <1>4, <3>2, <3>5, <3>6, NewerFinite, LimitAssumption
    <2>. QED BY <2>1, <2>2
<1>. QED BY <1>1, <1>3, <1>4 DEF Merge, Newest, A, C

\* The newest records are within the limit.
LEMMA NewestBounded ==
    ASSUME NEW S, Ranked(S), OneEach(S)
    PROVE  Cardinality(Newest(S)) <= MaxEvents
<1>1. IsFiniteSet(Newest(S)) /\ Newest(S) \subseteq S
    BY FS_Subset DEF Ranked, Newest
<1>2. \A e \in S : e.rank \in Nat
    BY RankAssumption DEF Ranked, Records
<1>3. CASE Newest(S) = {}
    BY <1>3, FS_EmptySet, LimitAssumption
<1>4. CASE Newest(S) # {}
    <2>. DEFINE Ranks == {e.rank : e \in Newest(S)}
    <2>1. Ranks \subseteq Nat /\ Ranks # {}
        BY <1>1, <1>2, <1>4
    <2>2. PICK x \in Ranks : \A y \in Ranks : x <= y
        BY <2>1, LeastNumber
    <2>3. PICK e \in Newest(S) : \A f \in Newest(S) : e.rank <= f.rank
        BY <2>2
    <2>4. Newest(S) \ {e} \subseteq Newer(S, e)
        <3>1. ASSUME NEW f \in Newest(S), f # e PROVE f.rank > e.rank
            BY <1>1, <1>2, <2>3, <3>1 DEF OneEach
        <3>. QED BY <1>1, <3>1 DEF Newer
    <2>5. Cardinality(Newest(S) \ {e}) <= Cardinality(Newer(S, e))
        BY <2>4, NewerFinite, FS_Subset
    <2>6. Cardinality(Newest(S) \ {e}) = Cardinality(Newest(S)) - 1
        BY <1>1, FS_RemoveElement
    <2>7. Cardinality(Newer(S, e)) < MaxEvents
        BY DEF Newest
    <2>. QED BY <1>1, <2>5, <2>6, <2>7, NewerFinite, FS_CardinalityType,
                LimitAssumption
<1>. QED BY <1>3, <1>4

\* A set within the limit has nothing to drain.
LEMMA NothingToDrain ==
    ASSUME NEW S, Ranked(S), Cardinality(S) <= MaxEvents
    PROVE  Newest(S) = S
<1>1. ASSUME NEW e \in S PROVE Cardinality(Newer(S, e)) < MaxEvents
    <2>1. Newer(S, e) \subseteq S \ {e}
        <3>1. ~(e.rank > e.rank)
            BY RankType DEF Ranked
        <3>. QED BY <3>1 DEF Newer
    <2>2. /\ IsFiniteSet(S \ {e})
          /\ Cardinality(S \ {e}) = Cardinality(S) - 1
        BY FS_RemoveElement DEF Ranked
    <2>3. Cardinality(Newer(S, e)) <= Cardinality(S \ {e})
        BY <2>1, <2>2, FS_Subset
    <2>. QED BY <2>2, <2>3, NewerFinite, FS_CardinalityType, LimitAssumption
             DEF Ranked
<1>. QED BY <1>1 DEF Newest

-----------------------------------------------------------------------------
(* What an audit gives.                                                    *)

LEMMA AuditShape ==
    ASSUME NEW a \in Audits
    PROVE  /\ Len(a.egress) \in Nat /\ Len(a.approvals) \in Nat
           /\ Budget(a) \in Nat
<1>1. ASSUME NEW l \in Lines PROVE Len(l) \in Nat
    <2>1. PICK n \in 0..MaxLines : l \in [1..n -> BOOLEAN]
        BY DEF Lines
    <2>2. n \in Nat /\ l \in Seq(BOOLEAN)
        BY <2>1, BoundAssumption
    <2>. QED BY <2>2
<1>2. a.egress \in Lines /\ a.approvals \in Lines
    BY DEF Audits
<1>. QED BY <1>1, <1>2, LimitAssumption DEF Budget

\* Every line is read or counted as dropped.
LEMMA LinesAccounted ==
    ASSUME NEW a \in Audits
    PROVE  /\ EgressRead(a) \in Nat /\ ApprovalRead(a) \in Nat
           /\ EgressRead(a) + ApprovalRead(a) <= Budget(a)
           /\ EgressRead(a) + ApprovalRead(a) + Dropped(a) = LineCount(a)
<1>. DEFINE E == Len(a.egress)
            P == Len(a.approvals)
            L == Budget(a)
<1>1. E \in Nat /\ P \in Nat /\ L \in Nat
    BY AuditShape
<1>2. /\ EgressRead(a) = Smaller(L, E)
      /\ ApprovalRead(a) = Smaller(L - Smaller(L, E), P)
      /\ LineCount(a) = E + P
    BY DEF EgressRead, ApprovalRead, LineCount
<1>3. \/ E + P > L /\ Dropped(a) = E + P - L
      \/ E + P <= L /\ Dropped(a) = 0
    <2>1. /\ Truncated(a) <=> E + P > MaxPerAudit - 1
          /\ L = IF Truncated(a) THEN MaxPerAudit - 2 ELSE MaxPerAudit - 1
          /\ Dropped(a) = IF Truncated(a) THEN (E + P) - L ELSE 0
        <3>1. Truncated(a) <=> E + P > MaxPerAudit - 1
            BY DEF Truncated, LineCount
        <3>2. L = IF Truncated(a) THEN MaxPerAudit - 2 ELSE MaxPerAudit - 1
            BY DEF Budget
        <3>3. Dropped(a) = IF Truncated(a) THEN (E + P) - L ELSE 0
            <4>1. Dropped(a) = IF Truncated(a) THEN LineCount(a) - L ELSE 0
                BY DEF Dropped
            <4>2. LineCount(a) = E + P
                BY <1>2
            <4>. HIDE DEF E, P, L
            <4>. QED BY <4>1, <4>2, Zenon
        <3>. QED BY <3>1, <3>2, <3>3
    <2>. HIDE DEF E, P, L
    <2>2. CASE Truncated(a)
        BY <1>1, <2>1, <2>2, LimitAssumption
    <2>3. CASE ~Truncated(a)
        BY <1>1, <2>1, <2>3, LimitAssumption
    <2>. QED BY <2>2, <2>3
<1>. HIDE DEF E, P, L
<1>4. Budget(a) = L
    BY DEF L
<1>. QED BY <1>1, <1>2, <1>3, <1>4 DEF Smaller

LEMMA ParsedBound ==
    ASSUME NEW lines, NEW n \in Nat
    PROVE  Parsed(lines, n) \in Nat /\ Parsed(lines, n) <= n
<1>1. IsFiniteSet(1..n) /\ Cardinality(1..n) = n
    BY FS_Interval
<1>2. {i \in 1..n : lines[i]} \subseteq 1..n
    OBVIOUS
<1>3. /\ IsFiniteSet({i \in 1..n : lines[i]})
      /\ Cardinality({i \in 1..n : lines[i]}) <= Cardinality(1..n)
    BY <1>1, <1>2, FS_Subset
<1>. QED BY <1>1, <1>3, FS_CardinalityType DEF Parsed

\* An audit never gives more records than an append takes.
LEMMA RecordsBound ==
    ASSUME NEW a \in Audits
    PROVE  RecordCount(a) \in Nat /\ RecordCount(a) <= MaxPerAudit
<1>. DEFINE x == Parsed(a.egress, EgressRead(a))
            y == Parsed(a.approvals, ApprovalRead(a))
<1>1. /\ x \in Nat /\ x <= EgressRead(a) /\ y \in Nat /\ y <= ApprovalRead(a)
      /\ EgressRead(a) \in Nat /\ ApprovalRead(a) \in Nat
      /\ EgressRead(a) + ApprovalRead(a) <= Budget(a) /\ Budget(a) \in Nat
    BY LinesAccounted, ParsedBound, AuditShape
<1>2. RecordCount(a) = x + y + (IF Truncated(a) THEN 1 ELSE 0) + 1
    BY DEF RecordCount
<1>3. Budget(a) = IF Truncated(a) THEN MaxPerAudit - 2 ELSE MaxPerAudit - 1
    BY DEF Budget
<1>. HIDE DEF x, y
<1>4. CASE Truncated(a)
    BY <1>1, <1>2, <1>3, <1>4, LimitAssumption
<1>5. CASE ~Truncated(a)
    BY <1>1, <1>2, <1>3, <1>5, LimitAssumption
<1>. QED BY <1>4, <1>5

-----------------------------------------------------------------------------
(* The inductive invariant.                                                *)

Locking == {"locked", "read", "renamed"}
Places  == Locking \cup {"running", "audited", "derived", "over"}

RunTypes ==
    /\ pc \in [Run -> Places] /\ audit \in [Run -> Audits]
    /\ batch \in [Run -> SUBSET Records] /\ found \in [Run -> SUBSET Records]
    /\ \A r \in Run : IsFiniteSet(batch[r])
    /\ locker \in Run \cup {Nobody} /\ audits \subseteq Run
    /\ losses \in 0..MaxPowerLoss

\* The records at hand, of which no two share a place in the order.
AtHand == history \cup UNION {batch[r] : r \in Run}

HistoryTypes ==
    /\ Ranked(history) /\ OneEach(AtHand)
    /\ index = Newest(history)

\* Whatever a power loss may leave was published, and is within the limit.
Surviving ==
    /\ index \in survivors
    /\ \A s \in survivors : s \subseteq history /\ Cardinality(s) <= MaxEvents

\* The lock is held from lock_store to the end, and what was read under it is
\* what is published.
Exclusive ==
    \A r \in Run :
        /\ pc[r] \in Locking => locker = r
        /\ pc[r] = "read" => found[r] = index

IInv == RunTypes /\ HistoryTypes /\ Surviving /\ Exclusive /\ AuditAccounted

\* What is in the index is in its history.
LEMMA IndexTypes == ASSUME IInv PROVE IndexSound
<1>1. /\ index \subseteq history /\ index \subseteq Records
      /\ Cardinality(index) <= MaxEvents
    BY DEF IInv, HistoryTypes, Surviving, Ranked, Newest
<1>2. survivors \subseteq SUBSET Records
    BY DEF IInv, HistoryTypes, Surviving, Ranked
<1>3. TypeOK
    BY <1>1, <1>2 DEF IInv, RunTypes, HistoryTypes, Surviving, Ranked, TypeOK,
       Places, Locking
<1>4. NewestKept
    BY DEF IInv, HistoryTypes, Newest, NewestKept
<1>. QED BY <1>3, <1>4 DEF IndexSound

LEMMA NoAuditType == NoAudit \in Audits
<1>1. << >> \in Lines
    <2>1. 0 \in 0..MaxLines /\ << >> \in [1..0 -> BOOLEAN]
        BY BoundAssumption
    <2>. QED BY <2>1 DEF Lines
<1>2. Len(<< >>) + Len(<< >>) <= MaxLines
    BY BoundAssumption
<1>. QED BY <1>1, <1>2 DEF NoAudit, Audits

LEMMA InitInv == Init => IInv
<1>. SUFFICES ASSUME Init PROVE IInv OBVIOUS
<1>1. RunTypes
    BY NoAuditType, FS_EmptySet, BoundAssumption DEF Init, RunTypes, Places
<1>2. AtHand = {}
    BY DEF Init, AtHand
<1>3. HistoryTypes
    BY <1>2, FS_EmptySet
       DEF Init, HistoryTypes, Ranked, OneEach, Newest
<1>4. Surviving
    BY FS_EmptySet, LimitAssumption DEF Init, Surviving
<1>5. Exclusive /\ AuditAccounted
    BY DEF Init, Exclusive, Locking, AuditAccounted
<1>. QED BY <1>1, <1>3, <1>4, <1>5 DEF IInv

\* A step that leaves the index alone and gives nobody the lock.
Quiet(r) ==
    /\ UNCHANGED <<index, survivors, history>>
    /\ \A q \in Run \ {r} : /\ pc'[q] = pc[q] /\ batch'[q] = batch[q]
                            /\ found'[q] = found[q] /\ audit'[q] = audit[q]
                            /\ locker = q => locker' = q

LEMMA QuietInv ==
    ASSUME IInv, NEW r \in Run, Quiet(r), RunTypes', OneEach(AtHand)',
           pc'[r] \in Locking => locker' = r,
           pc'[r] = "read" => found'[r] = index,
           pc'[r] = "derived" =>
               /\ Cardinality(batch'[r]) <= MaxPerAudit
               /\ audit'[r] \in Audits
    PROVE  IInv'
<1>1. HistoryTypes' /\ Surviving'
    BY DEF IInv, HistoryTypes, Surviving, Quiet
<1>2. Exclusive'
    BY DEF IInv, Exclusive, Quiet
<1>3. AuditAccounted'
    BY LinesAccounted DEF IInv, AuditAccounted, Quiet
<1>. QED BY <1>1, <1>2, <1>3 DEF IInv

LEMMA FewerAtHand ==
    ASSUME IInv, history' = history, NEW r \in Run,
           batch' \in [Run -> SUBSET Records],
           \A q \in Run : batch'[q] \subseteq batch[q]
    PROVE  OneEach(AtHand)'
<1>1. AtHand' \subseteq AtHand
    BY DEF AtHand
<1>. QED BY <1>1 DEF IInv, HistoryTypes, OneEach

\* The end of a run's update.
LEMMA EndInv ==
    ASSUME IInv, NEW r \in Run, End(r), audits' \subseteq Run,
           UNCHANGED <<index, survivors, history, losses>>
    PROVE  IInv'
<1>1. RunTypes'
    <2>1. \A q \in Run : IsFiniteSet(batch'[q])
        BY FS_EmptySet DEF IInv, RunTypes, End
    <2>. QED BY <2>1, NoAuditType
             DEF IInv, RunTypes, End, Goto, Places, Locking
<1>2. OneEach(AtHand)'
    <2>1. \A q \in Run : batch'[q] \subseteq batch[q]
        BY DEF IInv, RunTypes, End
    <2>. QED BY <1>1, <2>1, FewerAtHand DEF RunTypes
<1>3. Quiet(r)
    BY DEF IInv, RunTypes, End, Goto, Quiet
<1>4. pc'[r] = "over"
    BY DEF IInv, RunTypes, End, Goto
<1>. QED BY <1>1, <1>2, <1>3, <1>4, QuietInv DEF Locking

LEMMA PersistAuditInv ==
    ASSUME IInv, NEW r \in Run, PersistAudit(r) PROVE IInv'
<1>1. CASE End(r) /\ audits' = audits
    BY <1>1, EndInv DEF PersistAudit, IInv, RunTypes
<1>2. CASE /\ \E a \in Audits : audit' = [audit EXCEPT ![r] = a]
           /\ audits' = audits \cup {r} /\ Goto(r, "audited")
           /\ UNCHANGED <<batch, found, locker>>
    <2>1. RunTypes'
        BY <1>2 DEF PersistAudit, IInv, RunTypes, Goto, Places
    <2>2. OneEach(AtHand)'
        BY <1>2 DEF PersistAudit, IInv, HistoryTypes, AtHand
    <2>3. Quiet(r) /\ pc'[r] = "audited"
        BY <1>2 DEF PersistAudit, IInv, RunTypes, Goto, Quiet
    <2>. QED BY <2>1, <2>2, <2>3, QuietInv DEF Locking
<1>. QED BY <1>1, <1>2 DEF PersistAudit

LEMMA LockInv ==
    ASSUME IInv, NEW r \in Run, Lock(r) PROVE IInv'
<1>1. CASE End(r)
    BY <1>1, EndInv DEF Lock, IInv, RunTypes
<1>2. CASE /\ locker = Nobody /\ locker' = r /\ Goto(r, "locked")
           /\ UNCHANGED <<audit, batch, found>>
    <2>1. RunTypes'
        BY <1>2 DEF Lock, IInv, RunTypes, Goto, Places, Locking
    <2>2. OneEach(AtHand)'
        BY <1>2 DEF Lock, IInv, HistoryTypes, AtHand
    <2>3. Quiet(r) /\ pc'[r] = "locked"
        BY <1>2, RunAssumption DEF Lock, IInv, RunTypes, Goto, Quiet
    <2>. QED BY <1>2, <2>1, <2>2, <2>3, QuietInv
<1>. QED BY <1>1, <1>2 DEF Lock

LEMMA ReadInv ==
    ASSUME IInv, NEW r \in Run, Read(r) PROVE IInv'
<1>1. index \subseteq Records
    BY DEF IInv, HistoryTypes, Ranked, Newest
<1>2. RunTypes'
    BY <1>1 DEF Read, IInv, RunTypes, Goto, Places, Locking
<1>3. OneEach(AtHand)'
    BY DEF Read, IInv, HistoryTypes, AtHand
<1>4. Quiet(r) /\ pc'[r] = "read" /\ found'[r] = index
    BY DEF Read, IInv, RunTypes, Goto, Quiet
<1>5. locker' = r
    BY DEF Read, IInv, Exclusive, Locking
<1>. QED BY <1>2, <1>3, <1>4, <1>5, QuietInv

LEMMA DeriveInv ==
    ASSUME IInv, NEW r \in Run, Derive(r) PROVE IInv'
<1>1. PICK ranks \in SUBSET (Rank \ Used) :
          /\ IsFiniteSet(ranks) /\ Cardinality(ranks) = RecordCount(audit[r])
          /\ batch' = [batch EXCEPT ![r] = [rank : ranks, run : {r}]]
    BY DEF Derive
<1>. DEFINE new == [rank : ranks, run : {r}]
<1>2. new \in SUBSET Records
    BY DEF Records
<1>3. IsFiniteSet(new) /\ Cardinality(new) <= Cardinality(ranks)
    <2>. DEFINE f == [x \in ranks |-> [rank |-> x, run |-> r]]
    <2>1. f \in Surjection(ranks, new)
        BY DEF Surjection
    <2>. QED BY <1>1, <2>1, FS_Surjection
<1>4. batch'[r] = new /\ \A q \in Run \ {r} : batch'[q] = batch[q]
    BY <1>1 DEF IInv, RunTypes
<1>5. RunTypes'
    <2>1. \A q \in Run : IsFiniteSet(batch'[q])
        BY <1>3, <1>4 DEF IInv, RunTypes
    <2>2. batch' \in [Run -> SUBSET Records]
        BY <1>1, <1>2 DEF IInv, RunTypes
    <2>. QED BY <2>1, <2>2 DEF Derive, IInv, RunTypes, Goto, Places
<1>6. OneEach(AtHand)'
    <2>1. AtHand' \subseteq AtHand \cup new
        BY <1>4 DEF AtHand, Derive
    <2>2. ASSUME NEW e \in AtHand, NEW f \in new PROVE e.rank # f.rank
        <3>1. e.rank \in Used
            BY DEF Used, AtHand
        <3>2. f.rank \in ranks
            OBVIOUS
        <3>. QED BY <1>1, <3>1, <3>2
    <2>3. \A e, f \in new : e.rank = f.rank => e = f
        OBVIOUS
    <2>4. OneEach(AtHand)
        BY DEF IInv, HistoryTypes
    <2>. HIDE DEF new
    <2>. QED BY <2>1, <2>2, <2>3, <2>4 DEF OneEach
<1>7. Quiet(r) /\ pc'[r] = "derived"
    BY <1>4 DEF Derive, IInv, RunTypes, Goto, Quiet
<1>8. audit'[r] \in Audits /\ audit'[r] = audit[r]
    BY DEF Derive, IInv, RunTypes
<1>9. Cardinality(batch'[r]) <= MaxPerAudit
    <2>1. RecordCount(audit[r]) \in Nat /\ RecordCount(audit[r]) <= MaxPerAudit
        BY <1>8, RecordsBound
    <2>2. Cardinality(new) \in Nat
        BY <1>3, FS_CardinalityType
    <2>. HIDE DEF new
    <2>3. Cardinality(new) <= RecordCount(audit[r])
        BY <1>1, <1>3
    <2>4. Cardinality(new) <= MaxPerAudit
        BY <2>1, <2>2, <2>3, LimitAssumption
    <2>. QED BY <1>4, <2>4
<1>. QED BY <1>5, <1>6, <1>7, <1>8, <1>9, QuietInv DEF Locking

\* What is published is the newest of all records ever published.
LEMMA PublishInv ==
    ASSUME IInv, NEW r \in Run, Publish(r) PROVE IInv'
<1>1. /\ pc[r] = "read" /\ locker = r /\ found[r] = index
      /\ index = Newest(history) /\ Ranked(history)
    BY DEF Publish, IInv, Exclusive, Locking, HistoryTypes
<1>2. Ranked(batch[r])
    BY DEF IInv, RunTypes, Ranked
<1>3. /\ index' = Merge(index, batch[r]) /\ history' = history \cup batch[r]
      /\ survivors' = survivors \cup {index'}
    BY <1>1 DEF Publish
<1>4. RunTypes'
    BY DEF Publish, IInv, RunTypes, Goto, Places, Locking
<1>5. index' = Newest(history')
    BY <1>1, <1>2, <1>3, MergeOfNewest
<1>6. Ranked(history')
    BY <1>1, <1>2, <1>3, FS_Union DEF Ranked
<1>7. AtHand' \subseteq AtHand
    BY <1>3 DEF AtHand, Publish
<1>8. OneEach(AtHand)' /\ OneEach(history')
    BY <1>7 DEF IInv, HistoryTypes, OneEach, AtHand
<1>9. HistoryTypes'
    BY <1>5, <1>6, <1>8 DEF HistoryTypes, Ranked, Newest, Newer
<1>10. Cardinality(index') <= MaxEvents
    BY <1>5, <1>6, <1>8, NewestBounded
<1>11. index' \subseteq history'
    BY <1>5 DEF Newest
<1>12. Surviving'
    BY <1>3, <1>10, <1>11 DEF IInv, Surviving
<1>13. Exclusive'
    <2>1. pc'[r] = "renamed" /\ locker' = r
          /\ \A q \in Run \ {r} : pc'[q] = pc[q]
        BY <1>1 DEF Publish, Goto, IInv, RunTypes
    <2>2. \A q \in Run \ {r} : pc[q] \notin Locking
        BY <1>1 DEF IInv, Exclusive
    <2>. QED BY <2>1, <2>2 DEF Exclusive, Locking
<1>14. AuditAccounted'
    BY DEF IInv, RunTypes, AuditAccounted, Publish, Goto
<1>. QED BY <1>4, <1>9, <1>12, <1>13, <1>14 DEF IInv

LEMMA FinishInv ==
    ASSUME IInv, NEW r \in Run, Finish(r) PROVE IInv'
<1>1. /\ survivors' = {index} /\ End(r)
      /\ UNCHANGED <<audits, index, history, losses>>
    BY DEF Finish
<1>2. RunTypes'
    <2>1. \A q \in Run : IsFiniteSet(batch'[q])
        BY <1>1, FS_EmptySet DEF IInv, RunTypes, End
    <2>. QED BY <1>1, <2>1, NoAuditType
             DEF IInv, RunTypes, End, Goto, Places, Locking
<1>3. HistoryTypes'
    <2>1. \A q \in Run : batch'[q] \subseteq batch[q]
        BY <1>1 DEF IInv, RunTypes, End
    <2>2. OneEach(AtHand)'
        BY <1>1, <1>2, <2>1, FewerAtHand DEF RunTypes
    <2>. QED BY <1>1, <2>2 DEF IInv, HistoryTypes
<1>4. Surviving'
    BY <1>1 DEF IInv, Surviving
<1>5. Exclusive'
    <2>1. pc'[r] = "over" /\ \A q \in Run \ {r} :
              /\ pc'[q] = pc[q] /\ found'[q] = found[q]
              /\ locker = q => locker' = q
        BY <1>1 DEF IInv, RunTypes, End, Goto
    <2>. QED BY <1>1, <2>1 DEF IInv, Exclusive, Locking
<1>6. AuditAccounted'
    <2>1. pc'[r] = "over" /\ \A q \in Run \ {r} :
              /\ pc'[q] = pc[q] /\ batch'[q] = batch[q] /\ audit'[q] = audit[q]
        BY <1>1 DEF IInv, RunTypes, End, Goto
    <2>. QED BY <2>1 DEF IInv, AuditAccounted
<1>. QED BY <1>2, <1>3, <1>4, <1>5, <1>6 DEF IInv

LEMMA PowerLossInv == ASSUME IInv, PowerLoss PROVE IInv'
<1>1. RunTypes'
    <2>1. \A q \in Run : IsFiniteSet(batch'[q])
        BY FS_EmptySet DEF PowerLoss
    <2>2. losses' \in 0..MaxPowerLoss
        BY BoundAssumption DEF PowerLoss, IInv, RunTypes
    <2>. QED BY <2>1, <2>2, NoAuditType
             DEF PowerLoss, IInv, RunTypes, Places
<1>2. /\ index' \in survivors /\ survivors' = {index'} /\ history' = index'
      /\ index' \subseteq history /\ Cardinality(index') <= MaxEvents
    BY DEF PowerLoss, IInv, Surviving
<1>3. Ranked(history')
    BY <1>2, FS_Subset DEF IInv, HistoryTypes, Ranked
<1>4. index' = Newest(history')
    BY <1>2, <1>3, NothingToDrain
<1>5. AtHand' \subseteq AtHand
    BY <1>2 DEF AtHand, PowerLoss
<1>6. OneEach(AtHand)'
    BY <1>5 DEF IInv, HistoryTypes, OneEach
<1>7. HistoryTypes'
    BY <1>3, <1>4, <1>6 DEF HistoryTypes, Ranked, Newest, Newer
<1>8. Surviving'
    BY <1>2 DEF Surviving
<1>9. \A r \in Run : pc'[r] \in {"running", "over"}
    BY DEF PowerLoss
<1>10. Exclusive' /\ AuditAccounted'
    BY <1>9 DEF Exclusive, AuditAccounted, Locking
<1>. QED BY <1>1, <1>7, <1>8, <1>10 DEF IInv

LEMMA NextInv == IInv /\ [Next]_vars => IInv'
<1>. SUFFICES ASSUME IInv, [Next]_vars PROVE IInv' OBVIOUS
<1>1. CASE UNCHANGED vars
    <2>1. RunTypes' /\ Surviving' /\ Exclusive' /\ AuditAccounted'
        BY <1>1 DEF vars, IInv, RunTypes, Surviving, Exclusive, AuditAccounted
    <2>2. HistoryTypes'
        BY <1>1 DEF vars, IInv, HistoryTypes, AtHand
    <2>. QED BY <2>1, <2>2 DEF IInv
<1>2. ASSUME NEW r \in Run, GiveUp(r) PROVE IInv'
    BY <1>2, EndInv DEF GiveUp, IInv, RunTypes
<1>3. ASSUME NEW r \in Run, Step(r) PROVE IInv'
    BY <1>3, PersistAuditInv, DeriveInv, LockInv, ReadInv, PublishInv,
       FinishInv DEF Step
<1>. QED BY <1>1, <1>2, <1>3, PowerLossInv DEF Next

LEMMA Invariant == Spec => []IInv
BY InitInv, NextInv, PTL DEF Spec

\* append_events: the index keeps its bound and is exactly the newest records
\* ever published, whatever runs, kills and power losses do.
THEOREM NewestAreKept == Spec => []IndexSound
<1>1. IInv => IndexSound
    BY IndexTypes
<1>. QED BY <1>1, Invariant, PTL

\* events_from_audit: an audit of any length gives no more records than an
\* append takes, and every line it leaves out is counted.
THEOREM AuditsAreAccounted == Spec => []AuditAccounted
<1>1. IInv => AuditAccounted
    BY DEF IInv
<1>. QED BY <1>1, Invariant, PTL

-----------------------------------------------------------------------------
(* The audit comes first.                                                  *)

AuditFirst ==
    /\ \A r \in Run : pc[r] \notin {"running", "over"} => r \in audits
    /\ \A r \in Run : pc[r] \in {"running", "audited", "over"} => batch[r] = {}
    /\ \A r \in Run : \A e \in batch[r] : e.run = r
    /\ \A e \in history : e.run \in audits

\* Without a power loss every record in the index is of a run whose audit is
\* there (persist_run_audit before append_events): only the entry of the
\* audit directory that nobody synced can be missing.
THEOREM AuditComesFirst ==
    ASSUME MaxPowerLoss = 0 PROVE Spec => []EventsHaveAudit
<1>1. Init => AuditFirst
    BY DEF Init, AuditFirst
<1>2. IInv /\ AuditFirst /\ [Next]_vars => AuditFirst'
    <2>. SUFFICES ASSUME IInv, AuditFirst, [Next]_vars PROVE AuditFirst'
        OBVIOUS
    <2>1. CASE UNCHANGED vars
        BY <2>1 DEF vars, AuditFirst
    <2>2. ~PowerLoss
        BY DEF PowerLoss, IInv, RunTypes
    <2>3. ASSUME NEW r \in Run, End(r), audits' = audits, history' = history
          PROVE  AuditFirst'
        BY <2>3 DEF IInv, RunTypes, AuditFirst, End, Goto
    <2>4. ASSUME NEW r \in Run, PersistAudit(r) PROVE AuditFirst'
        <3>1. CASE End(r) /\ audits' = audits
            BY <2>3, <2>4, <3>1 DEF PersistAudit
        <3>2. CASE ~(End(r) /\ audits' = audits)
            BY <2>4, <3>2 DEF PersistAudit, IInv, RunTypes, AuditFirst, Goto
        <3>. QED BY <3>1, <3>2
    <2>5. ASSUME NEW r \in Run, Derive(r) PROVE AuditFirst'
        <3>1. PICK ranks :
                  batch' = [batch EXCEPT ![r] = [rank : ranks, run : {r}]]
            BY <2>5 DEF Derive
        <3>2. \A e \in [rank : ranks, run : {r}] : e.run = r
            OBVIOUS
        <3>. QED BY <2>5, <3>1, <3>2
                 DEF Derive, IInv, RunTypes, AuditFirst, Goto
    <2>6. ASSUME NEW r \in Run, Lock(r) PROVE AuditFirst'
        <3>1. CASE End(r)
            BY <2>3, <2>6, <3>1 DEF Lock
        <3>2. CASE ~End(r)
            BY <2>6, <3>2 DEF Lock, IInv, RunTypes, AuditFirst, Goto
        <3>. QED BY <3>1, <3>2
    <2>7. ASSUME NEW r \in Run, Read(r) PROVE AuditFirst'
        BY <2>7 DEF Read, IInv, RunTypes, AuditFirst, Goto
    <2>8. ASSUME NEW r \in Run, Publish(r) PROVE AuditFirst'
        BY <2>8 DEF Publish, IInv, RunTypes, AuditFirst, Goto
    <2>. QED BY <2>1, <2>2, <2>3, <2>4, <2>5, <2>6, <2>7, <2>8
             DEF Next, Step, Finish, GiveUp
<1>3. IInv /\ AuditFirst => EventsHaveAudit
    BY DEF IInv, HistoryTypes, Newest, AuditFirst, EventsHaveAudit
<1>. QED BY <1>1, <1>2, <1>3, Invariant, PTL DEF Spec

\* A behaviour of the records is one of the index as far as its own
\* variables go, so what is proved of the index holds in it too.
THEOREM RecordsIndex == RecordsSpec => Spec
<1>1. RecordsInit => Init
    BY DEF RecordsInit
<1>2. [RecordsNext]_everything => [Next]_vars
    BY DEF RecordsNext, EventStep, everything, vars
<1>. QED BY <1>1, <1>2, PTL DEF RecordsSpec, Spec

-----------------------------------------------------------------------------
(* The last elements of a set by a function that may not tell them all     *)
(* apart.                                                                  *)

Later(f, S, x) == {y \in S : f[y] > f[x]}
Last(f, S, n)  == {x \in S : Cardinality(Later(f, S, x)) < n}

Dated(f, S) == IsFiniteSet(S) /\ \A x \in S : f[x] \in Nat

LEMMA LaterFinite ==
    ASSUME NEW f, NEW S, IsFiniteSet(S), NEW x
    PROVE  /\ IsFiniteSet(Later(f, S, x))
           /\ Cardinality(Later(f, S, x)) \in Nat
BY FS_Subset, FS_CardinalityType DEF Later

LEMMA FewerLater ==
    ASSUME NEW f, NEW S, NEW T, Dated(f, S), T \subseteq S, NEW x, NEW y,
           f[x] \in Nat, f[y] \in Nat, f[x] <= f[y]
    PROVE  Cardinality(Later(f, T, y)) <= Cardinality(Later(f, S, x))
<1>1. Later(f, T, y) \subseteq Later(f, S, x)
    BY DEF Later, Dated
<1>. QED BY <1>1, LaterFinite, FS_Subset DEF Dated

LEMMA OrderedByLater ==
    ASSUME NEW f, NEW S, Dated(f, S), NEW x \in S, NEW y \in S, f[x] < f[y]
    PROVE  Cardinality(Later(f, S, y)) < Cardinality(Later(f, S, x))
<1>1. Later(f, S, y) \subseteq Later(f, S, x) \ {y}
    BY DEF Later, Dated
<1>2. y \in Later(f, S, x)
    BY DEF Later, Dated
<1>3. IsFiniteSet(Later(f, S, x)) /\ IsFiniteSet(Later(f, S, y))
    BY LaterFinite DEF Dated
<1>4. /\ IsFiniteSet(Later(f, S, x) \ {y})
      /\ Cardinality(Later(f, S, x) \ {y}) = Cardinality(Later(f, S, x)) - 1
    BY <1>2, <1>3, FS_RemoveElement
<1>5. Cardinality(Later(f, S, y)) <= Cardinality(Later(f, S, x) \ {y})
    BY <1>1, <1>4, FS_Subset
<1>6. /\ Cardinality(Later(f, S, x)) \in Nat
      /\ Cardinality(Later(f, S, y)) \in Nat
    BY <1>3, FS_CardinalityType
<1>. QED BY <1>4, <1>5, <1>6

\* What is not among the last n has n of them after it.
LEMMA OutOfLast ==
    ASSUME NEW f, NEW S, Dated(f, S), NEW n \in Nat,
           NEW x \in S \ Last(f, S, n)
    PROVE  Cardinality(Later(f, Last(f, S, n), x)) >= n
<1>. DEFINE Old    == S \ Last(f, S, n)
            Counts == {Cardinality(Later(f, S, y)) : y \in Old}
<1>1. \A y \in S : f[y] \in Nat /\ Cardinality(Later(f, S, y)) \in Nat
    BY LaterFinite DEF Dated
<1>2. Counts \subseteq Nat /\ Counts # {}
    BY <1>1
<1>3. PICK g \in Old : \A y \in Old :
          Cardinality(Later(f, S, g)) <= Cardinality(Later(f, S, y))
    <2>1. PICK m \in Counts : \A k \in Counts : m <= k
        BY <1>2, LeastNumber
    <2>. QED BY <2>1
<1>4. f[x] <= f[g]
    <2>1. CASE f[g] < f[x]
        BY <1>1, <1>3, <2>1, OrderedByLater
    <2>. QED BY <1>1, <2>1
<1>5. Later(f, S, g) \subseteq Last(f, S, n)
    <2>1. ASSUME NEW y \in S, f[y] > f[g], y \notin Last(f, S, n) PROVE FALSE
        <3>1. Cardinality(Later(f, S, y)) < Cardinality(Later(f, S, g))
            BY <1>1, <2>1, OrderedByLater
        <3>. QED BY <1>1, <1>3, <2>1, <3>1
    <2>. QED BY <2>1 DEF Later
<1>6. Cardinality(Later(f, S, g)) >= n
    BY <1>1 DEF Last
<1>7. IsFiniteSet(Last(f, S, n))
    BY FS_Subset DEF Last, Dated
<1>8. Later(f, S, g) \subseteq Later(f, Last(f, S, n), x)
    <2>1. \A y \in S : f[y] > f[g] => f[y] > f[x]
        BY <1>1, <1>4
    <2>. QED BY <1>5, <2>1 DEF Later
<1>9. /\ Cardinality(Later(f, S, g)) <= Cardinality(Later(f, Last(f, S, n), x))
      /\ Cardinality(Later(f, Last(f, S, n), x)) \in Nat
    BY <1>7, <1>8, LaterFinite, FS_Subset
<1>. QED BY <1>1, <1>6, <1>9

\* Of the elements of V, those that K has lost have n later ones in K.
Kept(f, V, K, n) ==
    /\ K \subseteq V
    /\ \A x \in V \ K : Cardinality(Later(f, K, x)) >= n

\* One more element, and again only the last n.
LEMMA KeptNext ==
    ASSUME NEW f, NEW V, NEW K, NEW n \in Nat, NEW a, Dated(f, V \cup {a}),
           Kept(f, V, K, n)
    PROVE  Kept(f, V \cup {a}, Last(f, K \cup {a}, n), n)
<1>. DEFINE W == V \cup {a}
            S == K \cup {a}
            L == Last(f, S, n)
<1>1. S \subseteq W /\ L \subseteq S /\ K \subseteq S
    BY DEF Kept, Last
<1>2. Dated(f, S) /\ IsFiniteSet(L) /\ \A x \in W : f[x] \in Nat
    BY <1>1, FS_Subset DEF Dated
<1>. HIDE DEF L
<1>3. ASSUME NEW x \in W \ L PROVE Cardinality(Later(f, L, x)) >= n
    <2>1. CASE x \in S
        BY <1>2, <1>3, <2>1, OutOfLast DEF L
    <2>2. CASE x \notin S
        <3>1. Cardinality(Later(f, K, x)) >= n
            BY <1>3, <2>2 DEF Kept
        <3>2. CASE Later(f, K, x) \subseteq L
            <4>1. Later(f, K, x) \subseteq Later(f, L, x)
                BY <3>2 DEF Later
            <4>2. /\ Cardinality(Later(f, K, x)) <= Cardinality(Later(f, L, x))
                  /\ Cardinality(Later(f, L, x)) \in Nat
                BY <1>2, <4>1, LaterFinite, FS_Subset
            <4>3. Cardinality(Later(f, K, x)) \in Nat
                BY <1>1, <1>2, FS_Subset, LaterFinite DEF Dated
            <4>. QED BY <3>1, <4>2, <4>3
        <3>3. ASSUME NEW y \in Later(f, K, x), y \notin L
              PROVE  Cardinality(Later(f, L, x)) >= n
            <4>1. y \in S \ L /\ f[y] > f[x] /\ y \in W
                BY <1>1, <3>3 DEF Later
            <4>2. Cardinality(Later(f, L, y)) >= n
                BY <1>2, <4>1, OutOfLast DEF L
            <4>3. Dated(f, L)
                BY <1>1, <1>2 DEF Dated
            <4>4. Cardinality(Later(f, L, y)) <= Cardinality(Later(f, L, x))
                BY <1>2, <1>3, <4>1, <4>3, FewerLater
            <4>5. /\ Cardinality(Later(f, L, y)) \in Nat
                  /\ Cardinality(Later(f, L, x)) \in Nat
                BY <1>2, LaterFinite
            <4>. QED BY <4>2, <4>4, <4>5
        <3>. QED BY <3>2, <3>3
    <2>. QED BY <2>1, <2>2
<1>. QED BY <1>1, <1>3 DEF Kept, L

\* The last n of a set of numbers.
Greatest(S, n) == {x \in S : Cardinality({y \in S : y > x}) < n}

LEMMA GreatestMeans ==
    ASSUME NEW S, S \subseteq Nat, IsFiniteSet(S), NEW n \in Nat
    PROVE  /\ Cardinality(Greatest(S, n)) <= n
           /\ Cardinality(S) >= n => Cardinality(Greatest(S, n)) = n
           /\ \A x \in S \ Greatest(S, n) :
                 /\ Cardinality(Greatest(S, n)) = n
                 /\ \A y \in Greatest(S, n) : y > x
<1>. DEFINE f == [x \in S |-> x]
            G == Greatest(S, n)
<1>1. \A x \in S : Later(f, S, x) = {y \in S : y > x}
    BY DEF Later
<1>2. G = Last(f, S, n) /\ Dated(f, S) /\ \A x \in S : f[x] = x
    BY <1>1 DEF Greatest, Last, Dated
<1>3. G \subseteq S /\ IsFiniteSet(G) /\ Cardinality(G) \in Nat
    BY FS_Subset, FS_CardinalityType DEF Greatest
<1>4. \A x \in S : Cardinality(Later(f, S, x)) \in Nat
    BY LaterFinite
<1>. HIDE DEF f, G
<1>5. Cardinality(G) <= n
    <2>1. CASE G = {}
        BY <2>1, FS_EmptySet
    <2>2. CASE G # {}
        <3>1. PICK m \in G : \A y \in G : m <= y
            BY <1>3, <2>2, LeastNumber
        <3>2. G \subseteq Later(f, S, m) \cup {m}
            <4>1. \A y \in G : y \in Nat /\ f[y] = y
                BY <1>2, <1>3
            <4>2. \A y \in G : y # m => f[y] > f[m]
                BY <3>1, <4>1
            <4>. QED BY <1>3, <4>2 DEF Later
        <3>3. /\ m \in S /\ m \notin Later(f, S, m)
              /\ Cardinality(Later(f, S, m)) < n
            BY <1>2, <1>3 DEF Last, Later
        <3>4. IsFiniteSet(Later(f, S, m))
            BY LaterFinite
        <3>5. /\ IsFiniteSet(Later(f, S, m) \cup {m})
              /\ Cardinality(Later(f, S, m) \cup {m})
                     = Cardinality(Later(f, S, m)) + 1
            BY <3>3, <3>4, FS_AddElement
        <3>6. Cardinality(G) <= Cardinality(Later(f, S, m) \cup {m})
            BY <3>2, <3>5, FS_Subset
        <3>. QED BY <1>3, <1>4, <3>3, <3>5, <3>6
    <2>. QED BY <2>1, <2>2
<1>6. ASSUME NEW x \in S \ G PROVE Cardinality(G) = n /\ \A y \in G : y > x
    <2>1. Cardinality(Later(f, G, x)) >= n
        BY <1>2, <1>6, OutOfLast
    <2>2. /\ Cardinality(Later(f, G, x)) <= Cardinality(G)
          /\ Cardinality(Later(f, G, x)) \in Nat
        <3>1. Later(f, G, x) \subseteq G
            BY DEF Later
        <3>. QED BY <1>3, <3>1, LaterFinite, FS_Subset
    <2>3. Cardinality(G) = n
        BY <1>3, <1>5, <2>1, <2>2
    <2>4. Later(f, G, x) = G
        <3>1. Later(f, G, x) \subseteq G
            BY DEF Later
        <3>2. Cardinality(Later(f, G, x)) = Cardinality(G)
            BY <1>3, <2>1, <2>2, <2>3
        <3>. QED BY <1>3, <3>1, <3>2, FS_Subset
    <2>5. \A y \in G : y > x
        BY <1>2, <1>3, <2>4 DEF Later
    <2>. QED BY <2>3, <2>5
<1>7. Cardinality(S) >= n => Cardinality(G) = n
    <2>1. CASE G = S
        BY <1>3, <1>5, <2>1
    <2>2. CASE G # S
        BY <1>3, <1>6, <2>2
    <2>. QED BY <2>1, <2>2
<1>. QED BY <1>5, <1>6, <1>7 DEF G

-----------------------------------------------------------------------------
(* The queries over the audits.                                            *)

\* The audits of directory d whose files are whole.
Whole(d) == {a \in Audit : manifests[d][a] = "whole"}

ReaderTypes ==
    /\ Reader!TypeOK
    /\ query.kind \in {"tail", "find"} /\ query.limit \in Nat
    /\ query.kind = "find" => query.audit \in Audit
    /\ second \in [Audit -> Nat]
    /\ \A a, b \in Audit : a < b => second[a] <= second[b]
    /\ manifests \in [{1, 2} -> [Audit -> {"none", "partial", "whole"}]]
    /\ path \in {1, 2} /\ complete \subseteq Audit /\ must \subseteq Audit
    /\ visited \subseteq Audit

Begun == {"first", "count", "second", "pick", "read"}

\* The directory the query holds has all the audits it began with, and can
\* only be taken away.
Directory ==
    reading \in Begun =>
        opened \in {1, 2} /\ opened <= path /\ complete \subseteq Whole(opened)

\* What has not begun is empty.
Fresh ==
    /\ reading \in {"none", "open", "first", "count", "second"}
           => picked = Reader!NoneRead
    /\ reading \in {"none", "open", "first", "count", "second", "pick"}
           => answer = {}
    /\ reading \in {"none", "open", "first"} \/ query.kind = "find"
           => newest = {}
    /\ reading \in {"first", "count"} => query.kind = "tail"
    /\ reading \in Begun /\ query.kind = "tail" => query.limit > 0
    /\ reading \in {"second", "pick", "read"} /\ query.kind = "tail"
           => newest # {}

\* Of the audits the first scan has found, those that it does not count any
\* more have enough newer ones.
FirstScan ==
    reading = "count" =>
        /\ Kept(second, visited, newest, query.limit)
        /\ path = opened => /\ complete \subseteq must
                            /\ visited \subseteq Reader!There(opened)

\* After it, the same holds of the audits the query began with.
Counted ==
    reading \in {"second", "pick", "read"} /\ path = opened =>
        /\ newest \subseteq Reader!There(opened)
        /\ query.kind = "tail" =>
               \A a \in complete \ newest :
                   Cardinality(Later(second, newest, a)) >= query.limit

\* The second scan takes what is wanted of what it finds.
SecondScan ==
    /\ reading \in {"pick", "read"} =>
           DOMAIN picked = {a \in visited : Reader!Wanted(a)}
    /\ reading = "pick" /\ path = opened => complete \cup newest \subseteq must
    /\ reading = "read" /\ path = opened =>
           complete \cup newest \subseteq visited

ReaderInv ==
    /\ ReaderTypes /\ Directory /\ Fresh /\ FirstScan /\ Counted /\ SecondScan
    /\ Reader!TailIsNewest /\ Reader!FindIsExact

LEMMA ReaderCardinality ==
    \A S : Reader!Cardinality(S) = Cardinality(S)
BY DEF Cardinality, Reader!Cardinality

LEMMA PruneLast ==
    \A K : Reader!Prune(K) = Last(second, K, query.limit)
BY ReaderCardinality DEF Reader!Prune, Last, Later

\* The second of the oldest audit that is counted.
LEMMA OldestMeans ==
    ASSUME ReaderTypes, newest # {}
    PROVE  /\ Reader!Oldest \in Nat
           /\ \A a \in newest : Reader!Oldest <= second[a]
<1>. DEFINE T == {second[a] : a \in newest}
<1>1. T \subseteq Nat /\ T # {}
    BY DEF ReaderTypes, Reader!TypeOK
<1>2. \E x \in T : \A y \in T : x <= y
    BY <1>1, LeastNumber
<1>3. Reader!Min(T) \in T /\ \A y \in T : Reader!Min(T) <= y
    BY <1>2 DEF Reader!Min
<1>. QED BY <1>1, <1>3 DEF Reader!Oldest

LEMMA WhollyThere == \A d : Whole(d) \subseteq Reader!There(d)
BY DEF Whole, Reader!There

LEMMA ReaderInit == Reader!Init => ReaderInv
<1>. SUFFICES ASSUME Reader!Init PROVE ReaderInv
    OBVIOUS
<1>. USE DEF Reader!Init
<1>1. ReaderTypes
    BY DEF ReaderTypes, Reader!TypeOK, Reader!NoneRead
<1>. QED
    BY <1>1
       DEF ReaderInv, Directory, Begun, Fresh, FirstScan, Counted, SecondScan,
           Reader!TailIsNewest, Reader!FindIsExact

LEMMA AskStep == ASSUME ReaderInv, Reader!Ask PROVE ReaderInv'
<1>1. /\ reading = "none" /\ reading' = "open"
      /\ UNCHANGED <<path, opened, complete, scanned, must, visited, newest,
                     picked, answer>>
    BY DEF Reader!Ask, Reader!scan
<1>2. /\ query'.kind \in {"tail", "find"} /\ query'.limit \in Nat
      /\ query'.kind = "find" => query'.audit \in Audit
    <2>1. CASE query' \in [kind : {"tail"}, limit : Limits, audit : {0}]
        BY <2>1, QueryAssumption
    <2>2. CASE query' \in [kind : {"find"}, limit : {0}, audit : Audit]
        BY <2>2
    <2>. QED BY <2>1, <2>2 DEF Reader!Ask
<1>3. /\ second' \in [Audit -> Nat]
      /\ \A a, b \in Audit : a < b => second'[a] <= second'[b]
    BY QueryAssumption DEF Reader!Ask
<1>4. manifests' \in [{1, 2} -> [Audit -> {"none", "partial", "whole"}]]
    <2>1. PICK there \in SUBSET Audit :
              manifests' = [manifests EXCEPT ![1] =
                  [a \in Audit |-> IF a \in there THEN "whole" ELSE "none"]]
        BY DEF Reader!Ask
    <2>. QED BY <2>1 DEF ReaderInv, ReaderTypes
<1>5. ReaderTypes'
    BY <1>1, <1>2, <1>3, <1>4 DEF ReaderInv, ReaderTypes, Reader!TypeOK
<1>6. Fresh'
    BY <1>1 DEF ReaderInv, Fresh, Begun
<1>. QED
    BY <1>1, <1>5, <1>6
       DEF ReaderInv, Directory, Begun, FirstScan, Counted, SecondScan,
           Reader!TailIsNewest, Reader!FindIsExact

LEMMA QueryFails == ASSUME ReaderInv, Reader!Fail PROVE ReaderInv'
<1>1. /\ reading' = "failed" /\ answer' = {} /\ picked' = Reader!NoneRead
      /\ UNCHANGED <<query, second, manifests, path, opened, complete,
                     scanned, must, visited, newest>>
    BY DEF Reader!Fail, Reader!store, Reader!scan
<1>2. ReaderTypes'
    BY <1>1 DEF ReaderInv, ReaderTypes, Reader!TypeOK, Reader!NoneRead
<1>. QED
    BY <1>1, <1>2
       DEF ReaderInv, Directory, Begun, Fresh, FirstScan, Counted, SecondScan,
           Reader!TailIsNewest, Reader!FindIsExact

LEMMA QueryOpens == ASSUME ReaderInv, Reader!Open PROVE ReaderInv'
<1>1. /\ reading = "open" /\ opened' = path /\ complete' = Whole(path)
      /\ reading' = IF query.kind = "find" THEN "second"
                    ELSE IF query.limit = 0 THEN "ok" ELSE "first"
      /\ UNCHANGED <<query, second, manifests, path, scanned, must, visited,
                     newest, picked, answer>>
    BY DEF Reader!Open, Reader!store, Reader!scan, Whole
<1>2. ReaderTypes'
    BY <1>1 DEF ReaderInv, ReaderTypes, Reader!TypeOK, Whole
<1>3. Directory' /\ Fresh' /\ FirstScan' /\ Counted' /\ SecondScan'
    BY <1>1
       DEF ReaderInv, ReaderTypes, Directory, Begun, Fresh, FirstScan,
           Counted, SecondScan, Whole
<1>4. Reader!TailIsNewest' /\ Reader!FindIsExact'
    <2>1. Reader!Cardinality({}) = 0
        BY ReaderCardinality, FS_EmptySet
    <2>. QED
        BY <1>1, <2>1
           DEF ReaderInv, ReaderTypes, Fresh, Reader!TailIsNewest,
               Reader!FindIsExact
<1>. QED BY <1>2, <1>3, <1>4 DEF ReaderInv

LEMMA ScanStep == ASSUME ReaderInv, Reader!Scan PROVE ReaderInv'
<1>1. /\ reading \in {"first", "second"}
      /\ reading' = IF reading = "first" THEN "count" ELSE "pick"
      /\ scanned' = path /\ must' = Reader!There(path) /\ visited' = {}
      /\ UNCHANGED <<query, second, manifests, path, opened, complete, newest,
                     picked, answer>>
    BY DEF Reader!Scan, Reader!store
<1>2. ReaderTypes'
    BY <1>1 DEF ReaderInv, ReaderTypes, Reader!TypeOK, Reader!There
<1>3. Directory' /\ Fresh'
    BY <1>1 DEF ReaderInv, Directory, Begun, Fresh, Whole
<1>4. path = opened => complete \subseteq must'
    BY <1>1, WhollyThere DEF ReaderInv, Directory, Begun
<1>5. FirstScan'
    BY <1>1, <1>4 DEF ReaderInv, Fresh, FirstScan, Kept
<1>6. Counted'
    BY <1>1 DEF ReaderInv, Counted, Reader!There
<1>7. SecondScan'
    <2>1. reading = "second" => DOMAIN picked' = {}
        BY <1>1 DEF ReaderInv, Fresh, Reader!NoneRead
    <2>2. reading = "second" /\ path = opened => newest \subseteq must'
        BY <1>1 DEF ReaderInv, Counted
    <2>. QED BY <1>1, <1>4, <2>1, <2>2 DEF SecondScan
<1>. QED
    BY <1>1, <1>2, <1>3, <1>5, <1>6, <1>7
       DEF ReaderInv, Reader!TailIsNewest, Reader!FindIsExact

LEMMA CountStep == ASSUME ReaderInv, Reader!Count PROVE ReaderInv'
<1>1. PICK a \in Audit : Reader!Visit(a)
                         /\ newest' = Reader!Prune(newest \cup {a})
    BY DEF Reader!Count
<1>2. /\ reading = "count" /\ a \in Reader!There(path)
      /\ visited' = visited \cup {a}
      /\ newest' = Last(second, newest \cup {a}, query.limit)
      /\ UNCHANGED <<query, reading, second, manifests, path, opened,
                     complete, scanned, must, picked, answer>>
    BY <1>1, PruneLast DEF Reader!Count, Reader!Visit, Reader!store
<1>3. newest' \subseteq newest \cup {a}
    BY <1>2 DEF Last
<1>4. ReaderTypes'
    BY <1>2, <1>3 DEF ReaderInv, ReaderTypes, Reader!TypeOK
<1>5. Directory' /\ Fresh' /\ Counted' /\ SecondScan'
    BY <1>2
       DEF ReaderInv, Directory, Begun, Fresh, Counted, SecondScan, Whole
<1>6. Kept(second, visited', newest', query.limit)
    <2>1. Dated(second, visited \cup {a})
        <3>1. visited \cup {a} \subseteq Audit
            BY DEF ReaderInv, ReaderTypes
        <3>2. IsFiniteSet(visited \cup {a})
            BY <3>1, AuditAssumption, FS_Subset
        <3>. QED BY <3>1, <3>2 DEF ReaderInv, ReaderTypes, Dated
    <2>. QED
        BY <1>2, <2>1, KeptNext DEF ReaderInv, ReaderTypes, FirstScan
<1>7. FirstScan'
    BY <1>2, <1>6 DEF ReaderInv, FirstScan, Kept, Later, Reader!There
<1>. QED
    BY <1>2, <1>4, <1>5, <1>7
       DEF ReaderInv, Reader!TailIsNewest, Reader!FindIsExact

LEMMA CountEndsStep == ASSUME ReaderInv, Reader!CountEnds PROVE ReaderInv'
<1>1. /\ reading = "count" /\ must \subseteq visited
      /\ reading' = IF newest = {} THEN "ok" ELSE "second"
      /\ UNCHANGED <<query, second, manifests, path, opened, complete,
                     scanned, must, visited, newest, picked, answer>>
    BY DEF Reader!CountEnds, Reader!store, Reader!scan
<1>2. ReaderTypes'
    BY <1>1 DEF ReaderInv, ReaderTypes, Reader!TypeOK
<1>3. Directory' /\ Fresh' /\ FirstScan' /\ SecondScan'
    BY <1>1
       DEF ReaderInv, Directory, Begun, Fresh, FirstScan, SecondScan, Whole
<1>4. /\ Kept(second, visited, newest, query.limit)
      /\ path = opened => /\ complete \subseteq visited
                          /\ visited \subseteq Reader!There(opened)
      /\ query.kind = "tail" /\ query.limit > 0 /\ query.limit \in Nat
      /\ picked = Reader!NoneRead /\ answer = {}
    BY <1>1 DEF ReaderInv, ReaderTypes, FirstScan, Fresh, Begun
<1>5. Counted'
    BY <1>1, <1>4 DEF Counted, Kept, Later, Reader!There
<1>6. newest = {} => visited = {}
    <2>. SUFFICES ASSUME newest = {}, NEW a \in visited PROVE FALSE
        OBVIOUS
    <2>1. Cardinality(Later(second, newest, a)) >= query.limit
        BY <1>4 DEF Kept
    <2>2. Later(second, newest, a) = {}
        BY DEF Later
    <2>. QED BY <1>4, <2>1, <2>2, FS_EmptySet
<1>7. Reader!TailIsNewest' /\ Reader!FindIsExact'
    <2>1. Reader!Cardinality({}) <= query.limit
        BY <1>4, ReaderCardinality, FS_EmptySet
    <2>2. newest = {} /\ path = opened => complete = {}
        BY <1>4, <1>6
    <2>. QED
        BY <1>1, <1>4, <2>1, <2>2
           DEF Reader!TailIsNewest, Reader!FindIsExact
<1>. QED BY <1>2, <1>3, <1>5, <1>7 DEF ReaderInv

LEMMA PickStep == ASSUME ReaderInv, Reader!Pick PROVE ReaderInv'
<1>1. CASE Reader!Fail
    BY <1>1, QueryFails
<1>2. CASE ~Reader!Fail
    <2>1. PICK a \in Audit :
              /\ Reader!Visit(a)
              /\ UNCHANGED <<query, reading, second, manifests, path, opened,
                             complete, newest, answer>>
              /\ \/ ~Reader!Wanted(a) /\ picked' = picked
                 \/ Reader!Wanted(a) /\ DOMAIN picked' = DOMAIN picked \cup {a}
        BY <1>2 DEF Reader!Pick, Reader!store
    <2>2. /\ reading = "pick" /\ visited' = visited \cup {a} /\ must' = must
        BY <2>1 DEF Reader!Pick, Reader!Visit
    <2>3. ReaderTypes'
        BY <2>1, <2>2 DEF ReaderInv, ReaderTypes, Reader!TypeOK
    <2>4. Directory' /\ Fresh' /\ FirstScan'
        BY <2>1, <2>2
           DEF ReaderInv, Directory, Begun, Fresh, FirstScan, Whole
    <2>5. Counted'
        BY <2>1, <2>2 DEF ReaderInv, Counted, Later, Reader!There
    <2>6. \A b : Reader!Wanted(b)' <=> Reader!Wanted(b)
        BY <2>1 DEF Reader!Wanted, Reader!Oldest
    <2>7. SecondScan'
        BY <2>1, <2>2, <2>6 DEF ReaderInv, SecondScan
    <2>. QED
        BY <2>1, <2>2, <2>3, <2>4, <2>5, <2>7
           DEF ReaderInv, Reader!TailIsNewest, Reader!FindIsExact
<1>. QED BY <1>1, <1>2

LEMMA PickEndsStep == ASSUME ReaderInv, Reader!PickEnds PROVE ReaderInv'
<1>1. CASE Reader!Fail
    BY <1>1, QueryFails
<1>2. CASE ~Reader!Fail
    <2>1. /\ reading = "pick" /\ must \subseteq visited /\ reading' = "read"
          /\ UNCHANGED <<query, second, manifests, path, opened, complete,
                         scanned, must, visited, newest, picked, answer>>
        BY <1>2 DEF Reader!PickEnds, Reader!store, Reader!scan
    <2>2. ReaderTypes'
        BY <2>1 DEF ReaderInv, ReaderTypes, Reader!TypeOK
    <2>3. Directory' /\ Fresh' /\ FirstScan'
        BY <2>1 DEF ReaderInv, Directory, Begun, Fresh, FirstScan, Whole
    <2>4. Counted'
        BY <2>1 DEF ReaderInv, Counted, Later, Reader!There
    <2>5. \A b : Reader!Wanted(b)' <=> Reader!Wanted(b)
        BY <2>1 DEF Reader!Wanted, Reader!Oldest
    <2>6. SecondScan'
        BY <2>1, <2>5 DEF ReaderInv, SecondScan
    <2>. QED
        BY <2>1, <2>2, <2>3, <2>4, <2>6
           DEF ReaderInv, Reader!TailIsNewest, Reader!FindIsExact
<1>. QED BY <1>1, <1>2

LEMMA ReadStep == ASSUME ReaderInv, Reader!Read PROVE ReaderInv'
<1>1. CASE Reader!Fail
    BY <1>1, QueryFails
<1>2. CASE ~Reader!Fail
    <2>1. PICK a \in DOMAIN picked :
              /\ answer' = answer \cup {a} /\ reading = "read"
              /\ UNCHANGED <<query, reading, second, manifests, path, opened,
                             complete, scanned, must, visited, newest, picked>>
        BY <1>2 DEF Reader!Read, Reader!store, Reader!scan
    <2>2. a \in Audit
        BY <2>1 DEF ReaderInv, ReaderTypes, SecondScan
    <2>3. ReaderTypes'
        BY <2>1, <2>2 DEF ReaderInv, ReaderTypes, Reader!TypeOK
    <2>4. Directory' /\ Fresh' /\ FirstScan'
        BY <2>1 DEF ReaderInv, Directory, Begun, Fresh, FirstScan, Whole
    <2>5. Counted'
        BY <2>1 DEF ReaderInv, Counted, Later, Reader!There
    <2>6. \A b : Reader!Wanted(b)' <=> Reader!Wanted(b)
        BY <2>1 DEF Reader!Wanted, Reader!Oldest
    <2>7. SecondScan'
        BY <2>1, <2>6 DEF ReaderInv, SecondScan
    <2>. QED
        BY <2>1, <2>3, <2>4, <2>5, <2>7
           DEF ReaderInv, Reader!TailIsNewest, Reader!FindIsExact
<1>. QED BY <1>1, <1>2

\* The answer to a query for the newest audits.
LEMMA TailAnswer ==
    ASSUME ReaderInv, reading = "read", path = opened, query.kind = "tail",
           answer = DOMAIN picked
    PROVE  LET G == Greatest(answer, query.limit) IN
           /\ Cardinality(G) <= query.limit
           /\ \A a \in complete \ G :
                 Cardinality(G) = query.limit /\ \A b \in G : b > a
<1>. DEFINE n == query.limit
            D == answer
            G == Greatest(D, n)
<1>1. /\ n \in Nat /\ newest # {} /\ newest \subseteq Audit
      /\ complete \subseteq Audit /\ second \in [Audit -> Nat]
      /\ D \subseteq Audit /\ D \subseteq Nat /\ IsFiniteSet(D)
      /\ IsFiniteSet(newest)
      /\ \A a, b \in Audit : a < b => second[a] <= second[b]
    BY AuditAssumption, FS_Subset
       DEF ReaderInv, ReaderTypes, Reader!TypeOK, Fresh
<1>2. Reader!Oldest \in Nat /\ \A a \in newest : Reader!Oldest <= second[a]
    BY <1>1, OldestMeans DEF ReaderInv
<1>3. D = {a \in visited : second[a] >= Reader!Oldest}
    BY DEF ReaderInv, SecondScan, Reader!Wanted
<1>4. newest \subseteq D
    <2>1. newest \subseteq visited
        BY DEF ReaderInv, SecondScan
    <2>. QED BY <1>1, <1>2, <1>3, <2>1
<1>5. G \subseteq D
    BY DEF Greatest
<1>. HIDE DEF n, D, G
<1>6. /\ Cardinality(G) <= n
      /\ Cardinality(D) >= n => Cardinality(G) = n
      /\ \A x \in D \ G : Cardinality(G) = n /\ \A y \in G : y > x
    BY <1>1, GreatestMeans DEF G
<1>7. ASSUME NEW a \in complete \ D
      PROVE  Cardinality(G) = n /\ \A b \in G : b > a
    <2>1. a \in visited /\ a \in Audit /\ a \notin newest
        BY <1>1, <1>4, <1>7 DEF ReaderInv, SecondScan
    <2>2. second[a] < Reader!Oldest
        BY <1>1, <1>2, <1>3, <1>7, <2>1
    <2>3. Cardinality(Later(second, newest, a)) >= n
        BY <1>7, <2>1 DEF ReaderInv, Counted, n
    <2>4. Later(second, newest, a) \subseteq D
        BY <1>4 DEF Later
    <2>5. /\ Cardinality(Later(second, newest, a)) <= Cardinality(D)
          /\ Cardinality(D) \in Nat
          /\ Cardinality(Later(second, newest, a)) \in Nat
        BY <1>1, <2>4, LaterFinite, FS_Subset, FS_CardinalityType
    <2>6. Cardinality(G) = n
        BY <1>1, <1>6, <2>3, <2>5
    <2>7. \A b \in G : b > a
        <3>. TAKE b \in G
        <3>1. b \in Audit /\ second[b] >= Reader!Oldest
            BY <1>1, <1>3, <1>5
        <3>2. second[b] > second[a]
            BY <1>1, <1>2, <2>1, <2>2, <3>1
        <3>3. ~(b < a) /\ b # a
            BY <1>1, <2>1, <3>1, <3>2
        <3>. QED BY <2>1, <3>1, <3>3, AuditAssumption
    <2>. QED BY <2>6, <2>7
<1>. QED BY <1>6, <1>7 DEF n, D, G

LEMMA RecheckStep == ASSUME ReaderInv, Reader!Recheck PROVE ReaderInv'
<1>1. CASE Reader!Fail
    BY <1>1, QueryFails
<1>2. CASE ~Reader!Fail
    <2>1. /\ reading = "read" /\ answer = DOMAIN picked /\ path = opened
          /\ reading' = "ok"
          /\ answer' = IF query.kind = "find" THEN answer
                       ELSE Greatest(answer, query.limit)
          /\ UNCHANGED <<query, second, manifests, path, opened, complete,
                         scanned, must, visited, newest, picked>>
        BY <1>2, ReaderCardinality
           DEF Reader!Recheck, Reader!store, Reader!scan, Greatest
    <2>2. answer' \subseteq answer
        BY <2>1 DEF Greatest
    <2>3. ReaderTypes'
        BY <2>1, <2>2 DEF ReaderInv, ReaderTypes, Reader!TypeOK
    <2>4. Directory' /\ FirstScan' /\ Counted' /\ SecondScan' /\ Fresh'
        BY <2>1
           DEF ReaderInv, Directory, Begun, FirstScan, Counted, SecondScan,
               Fresh
    <2>5. Reader!TailIsNewest'
        <3>. SUFFICES ASSUME query.kind = "tail" PROVE Reader!TailIsNewest'
            BY <2>1 DEF Reader!TailIsNewest
        <3>1. /\ Cardinality(answer') <= query.limit
              /\ \A a \in complete \ answer' :
                    /\ Cardinality(answer') = query.limit
                    /\ \A b \in answer' : b > a
            BY <2>1, TailAnswer
        <3>. QED BY <2>1, <3>1, ReaderCardinality DEF Reader!TailIsNewest
    <2>6. Reader!FindIsExact'
        <3>. SUFFICES ASSUME query.kind = "find"
                      PROVE  \/ answer = {query.audit}
                             \/ answer = {} /\ query.audit \notin complete
            BY <2>1 DEF Reader!FindIsExact
        <3>1. answer = {a \in visited : a = query.audit}
            BY <2>1 DEF ReaderInv, SecondScan, Reader!Wanted
        <3>2. complete \subseteq visited
            BY <2>1 DEF ReaderInv, SecondScan
        <3>. QED BY <3>1, <3>2
    <2>. QED BY <2>3, <2>4, <2>5, <2>6 DEF ReaderInv
<1>. QED BY <1>1, <1>2

\* Other processes only add files, or take the directory away.
LEMMA OthersStep ==
    ASSUME ReaderInv, UNCHANGED Reader!others, UNCHANGED second,
           path' \in {1, 2}, path' >= path,
           manifests' \in [{1, 2} -> [Audit -> {"none", "partial", "whole"}]],
           \A d \in {1, 2} : /\ Whole(d) \subseteq Whole(d)'
                             /\ Reader!There(d) \subseteq Reader!There(d)',
           path' = path \/ reading \in Begun \cup {"open"}
    PROVE  ReaderInv'
<1>1. UNCHANGED <<query, reading, second, opened, complete, scanned, must,
                  visited, newest, picked, answer>>
    BY DEF Reader!others, Reader!scan
<1>2. ReaderTypes'
    BY <1>1 DEF ReaderInv, ReaderTypes, Reader!TypeOK
<1>3. Directory'
    BY <1>1 DEF ReaderInv, ReaderTypes, Directory
<1>4. reading \in Begun /\ path' = opened'
          => path = opened /\ opened \in {1, 2}
    BY <1>1 DEF ReaderInv, ReaderTypes, Directory
<1>5. FirstScan'
    <2>1. \A V, K : Kept(second, V, K, query.limit)'
                        <=> Kept(second, V, K, query.limit)
        BY <1>1 DEF Kept, Later
    <2>. QED BY <1>1, <1>4, <2>1 DEF ReaderInv, FirstScan, Begun
<1>6. Counted'
    BY <1>1, <1>4 DEF ReaderInv, Counted, Begun, Later
<1>7. SecondScan'
    <2>1. \A b : Reader!Wanted(b)' <=> Reader!Wanted(b)
        BY <1>1 DEF Reader!Wanted, Reader!Oldest
    <2>. QED BY <1>1, <1>4, <2>1 DEF ReaderInv, SecondScan, Begun
<1>8. Fresh' /\ Reader!TailIsNewest' /\ Reader!FindIsExact'
    BY <1>1
       DEF ReaderInv, Fresh, Begun, Reader!TailIsNewest, Reader!FindIsExact
<1>. QED BY <1>2, <1>3, <1>5, <1>6, <1>7, <1>8 DEF ReaderInv

LEMMA PersistStep ==
    ASSUME ReaderInv, NEW a \in Audit, Reader!Persist(a)
    PROVE  ReaderInv'
<1>1. /\ UNCHANGED Reader!others /\ UNCHANGED <<second, path>>
      /\ path \in {1, 2}
      /\ manifests \in [{1, 2} -> [Audit -> {"none", "partial", "whole"}]]
    BY DEF Reader!Persist, ReaderInv, ReaderTypes
<1>2. PICK d \in {1, 2}, s \in {"partial", "whole"} :
          /\ manifests' = [manifests EXCEPT ![d][a] = s]
          /\ manifests[d][a] # "whole"
    BY <1>1 DEF Reader!Persist
<1>3. /\ manifests' \in [{1, 2} -> [Audit -> {"none", "partial", "whole"}]]
      /\ \A c \in {1, 2}, b \in Audit :
            manifests'[c][b] = IF c = d /\ b = a THEN s ELSE manifests[c][b]
    BY <1>1, <1>2
<1>4. \A c \in {1, 2} : /\ Whole(c) \subseteq Whole(c)'
                        /\ Reader!There(c) \subseteq Reader!There(c)'
    BY <1>2, <1>3 DEF Whole, Reader!There
<1>. QED BY <1>1, <1>3, <1>4, OthersStep

LEMMA ReplaceStep == ASSUME ReaderInv, Reader!Replace PROVE ReaderInv'
<1>1. /\ UNCHANGED Reader!others /\ UNCHANGED <<second, manifests>>
      /\ path = 1 /\ path' = 2 /\ reading \in Begun \cup {"open"}
    BY DEF Reader!Replace, Reader!Busy, ReaderInv, ReaderTypes,
           Reader!TypeOK, Begun
<1>2. \A c \in {1, 2} : /\ Whole(c) \subseteq Whole(c)'
                        /\ Reader!There(c) \subseteq Reader!There(c)'
    BY <1>1 DEF Whole, Reader!There
<1>. QED BY <1>1, <1>2, OthersStep DEF ReaderInv, ReaderTypes

LEMMA ReaderStep == ReaderInv /\ Reader!Next => ReaderInv'
<1>. SUFFICES ASSUME ReaderInv, Reader!Next PROVE ReaderInv'
    OBVIOUS
<1>1. CASE Reader!VisitFails
    BY <1>1, QueryFails DEF Reader!VisitFails
<1>. QED
    BY <1>1, AskStep, QueryOpens, ScanStep, CountStep, CountEndsStep, PickStep,
       PickEndsStep, ReadStep, RecheckStep, PersistStep, ReplaceStep
       DEF Reader!Next

LEMMA ReaderKept == ReaderInv /\ UNCHANGED reader => ReaderInv'
<1>. SUFFICES ASSUME ReaderInv, UNCHANGED reader PROVE ReaderInv'
    OBVIOUS
<1>1. UNCHANGED Reader!others /\ UNCHANGED <<second, path, manifests>>
    BY DEF reader, Reader!others, Reader!scan
<1>2. \A c \in {1, 2} : /\ Whole(c) \subseteq Whole(c)'
                        /\ Reader!There(c) \subseteq Reader!There(c)'
    BY <1>1 DEF Whole, Reader!There
<1>. QED BY <1>1, <1>2, OthersStep DEF ReaderInv, ReaderTypes

\* tail_persisted_audit_summaries and find_persisted_audit: a query that
\* succeeds answers with exactly the audits it was asked for, whatever order
\* the directory is listed in, whatever audits are persisted meanwhile, and
\* when the directory is replaced under it.
THEOREM AnswersAreExact == RecordsSpec => []QueriesExact
<1>1. RecordsInit => ReaderInv
    BY ReaderInit DEF RecordsInit
<1>2. ReaderInv /\ [RecordsNext]_everything => ReaderInv'
    BY ReaderStep, ReaderKept DEF RecordsNext, EventStep, everything
<1>3. ReaderInv => QueriesExact
    BY DEF ReaderInv, ReaderTypes, QueriesExact, Reader!QueriesExact
<1>. QED BY <1>1, <1>2, <1>3, PTL DEF RecordsSpec

=============================================================================
