--------------------------- MODULE StageGcProofs ---------------------------
(***************************************************************************)
(* With any age limit but zero, and any number of sessions and collectors, *)
(* no collector removes anything of a stage in use.                        *)
(*                                                                         *)
(* A stage passes from the protection of its age to that of its lock: the  *)
(* inductive invariant says that no collector is past the age check while  *)
(* the lock is not yet held (Protected), and none is past the lock check   *)
(* once it is (Locked).                                                    *)
(***************************************************************************)
EXTENDS StageGc, TLAPS

\* The collector has passed the age check of stage s.
Reached(g, s) == at[g] = s /\ gc[g] \in {"open", "try", "remove"}

Protected ==
    \A s \in Session : run[s] \in {"absent", "made", "locking"} =>
        /\ ~old[s] /\ flock[s] = Nobody
        /\ \A g \in Collector : ~Reached(g, s)
        /\ run[s] = "absent" => tree[s] = {}
        /\ run[s] = "made" => tree[s] = {"root"}
        /\ run[s] = "locking" => tree[s] = {"root", "lock"}

Locked ==
    \A s \in Session : run[s] \in {"locked", "using"} =>
        /\ flock[s] = s
        /\ \A g \in Collector : ~(at[g] = s /\ gc[g] = "remove")
        /\ run[s] = "locked" => tree[s] = {"root", "lock"}

\* A collector works on a stage exactly between two entries.
Working ==
    \A g \in Collector :
        gc[g] \in {"open", "try", "remove"} => at[g] \in Session

IInv == TypeOK /\ Working /\ Protected /\ Locked /\ ActiveIsWhole

\* The invariant holds of the initial states.
LEMMA InitInvariant == ASSUME AnyAge = FALSE PROVE Init => IInv
BY AgeAssumption
   DEF Init, IInv, TypeOK, Working, Protected, Locked, ActiveIsWhole, Runs,
       Reached, Entries

\* Giving a stage a set of entries that has the root, or none, keeps the
\* types of tree and old.
LEMMA TreeType ==
    ASSUME TypeOK, AnyAge = FALSE, NEW s \in Session, NEW e \in SUBSET Entries,
           e # {} => "root" \in e, SetTree(s, e)
    PROVE  /\ tree' \in [Session -> SUBSET Entries]
           /\ old' \in [Session -> BOOLEAN]
           /\ \A t \in Session : tree'[t] # {} => "root" \in tree'[t]
<1>1. tree' \in [Session -> SUBSET Entries]
    BY DEF TypeOK, SetTree
<1>2. old' \in [Session -> BOOLEAN]
    BY DEF TypeOK, SetTree
<1>3. \A t \in Session : tree'[t] # {} => "root" \in tree'[t]
    BY DEF TypeOK, SetTree
<1>. QED BY <1>1, <1>2, <1>3

\* Removing the next entry keeps those types: the root goes last.
LEMMA RemovalType ==
    ASSUME TypeOK, AnyAge = FALSE, NEW s \in Session, NEW e \in Removable(s),
           SetTree(s, tree[s] \ {e})
    PROVE  /\ tree' \in [Session -> SUBSET Entries]
           /\ old' \in [Session -> BOOLEAN]
           /\ \A t \in Session : tree'[t] # {} => "root" \in tree'[t]
<1>1. tree[s] \ {e} \in SUBSET Entries
    BY DEF TypeOK
<1>2. tree[s] \ {e} # {} => "root" \in tree[s] \ {e}
    BY DEF TypeOK, Removable
<1>. QED BY <1>1, <1>2, TreeType

\* A session's own step preserves the invariant.
LEMMA GuardInvariant ==
    ASSUME AnyAge = FALSE, IInv, NEW s \in Session, Guard(s) PROVE IInv'
<1>. USE DEF IInv, TypeOK
<1>1. CASE MakeDirectory(s)
    <2>. USE <1>1 DEF MakeDirectory, SetTree, Become, collection
    <2>1. TypeOK' BY DEF Runs, Entries
    <2>2. Working' BY DEF Working
    <2>3. Protected' BY DEF Protected, Reached
    <2>4. Locked' BY DEF Locked
    <2>5. ActiveIsWhole' BY DEF ActiveIsWhole
    <2>. QED BY <2>1, <2>2, <2>3, <2>4, <2>5
<1>2. CASE CreateLock(s)
    <2>. USE <1>2 DEF CreateLock, Become, collection
    <2>1. TypeOK'
        <3>1. CASE "root" \in tree[s]
            <4>1. tree[s] \cup {"lock"} \in SUBSET Entries BY DEF Entries
            <4>2. SetTree(s, tree[s] \cup {"lock"}) BY <3>1
            <4>. QED BY <3>1, <4>1, <4>2, TreeType DEF Runs
        <3>2. CASE "root" \notin tree[s]
            BY <3>2 DEF Runs
        <3>. QED BY <3>1, <3>2
    <2>2. Working' BY DEF Working
    <2>3. Protected' BY DEF Protected, Reached, SetTree
    <2>4. Locked' BY DEF Locked, SetTree
    <2>5. ActiveIsWhole' BY DEF ActiveIsWhole, SetTree
    <2>. QED BY <2>1, <2>2, <2>3, <2>4, <2>5
<1>3. CASE TakeLock(s)
    <2>. USE <1>3 DEF TakeLock, Hold, Become, collection
    <2>1. TypeOK' BY DEF Runs
    <2>2. Working' BY DEF Working
    <2>3. Protected' BY DEF Protected, Reached
    <2>4. Locked' BY DEF Locked, Protected, Reached
    <2>5. ActiveIsWhole' BY DEF ActiveIsWhole
    <2>. QED BY <2>1, <2>2, <2>3, <2>4, <2>5
<1>4. CASE Populate(s)
    <2>. USE <1>4 DEF Populate, Become, collection
    <2>1. TypeOK'
        <3>1. CASE "root" \in tree[s] /\ SetTree(s, tree[s] \cup {"work"})
                   /\ run' = [run EXCEPT ![s] = "using"]
            <4>1. tree[s] \cup {"work"} \in SUBSET Entries BY DEF Entries
            <4>. QED BY <3>1, <4>1, TreeType DEF Runs
        <3>2. CASE /\ UNCHANGED <<tree, old>>
                   /\ run' = [run EXCEPT ![s] = "failed"]
            BY <3>2 DEF Runs
        <3>. QED BY <3>1, <3>2
    <2>2. Working' BY DEF Working
    <2>3. Protected' BY DEF Protected, Reached, SetTree
    <2>4. Locked' BY DEF Locked, SetTree
    <2>5. ActiveIsWhole' BY DEF ActiveIsWhole, Locked, Entries, SetTree
    <2>. QED BY <2>1, <2>2, <2>3, <2>4, <2>5
<1>5. CASE DropLock(s) \/ Finish(s)
    <2>. USE <1>5 DEF DropLock, Finish, Hold, Released, Become, collection
    <2>1. TypeOK' BY DEF Runs
    <2>2. Working' BY DEF Working
    <2>3. Protected' BY DEF Protected, Reached
    <2>4. Locked' BY DEF Locked
    <2>5. ActiveIsWhole' BY DEF ActiveIsWhole
    <2>. QED BY <2>1, <2>2, <2>3, <2>4, <2>5
<1>6. CASE DropEntry(s)
    <2>. USE <1>6 DEF DropEntry, collection
    <2>1. TypeOK' BY RemovalType
    <2>2. Working' BY DEF Working
    <2>3. Protected' BY DEF Protected, Reached, SetTree
    <2>4. Locked' BY DEF Locked, SetTree
    <2>5. ActiveIsWhole' BY DEF ActiveIsWhole, SetTree
    <2>. QED BY <2>1, <2>2, <2>3, <2>4, <2>5
<1>7. CASE Over(s)
    <2>. USE <1>7 DEF Over, Hold, Released, Become, collection
    <2>1. TypeOK' BY AgeAssumption DEF Runs
    <2>2. Working' BY DEF Working
    <2>3. Protected' BY DEF Protected, Reached
    <2>4. Locked' BY DEF Locked
    <2>5. ActiveIsWhole' BY DEF ActiveIsWhole
    <2>. QED BY <2>1, <2>2, <2>3, <2>4, <2>5
<1>. QED
    BY <1>1, <1>2, <1>3, <1>4, <1>5, <1>6, <1>7 DEF Guard

\* A kill and the passage of time preserve the invariant.
LEMMA OutsideInvariant ==
    ASSUME AnyAge = FALSE, IInv, NEW s \in Session, Kill(s) \/ Age(s)
    PROVE  IInv'
<1>. USE DEF IInv, TypeOK, Kill, Age, Hold, Released, Become, collection
<1>1. TypeOK' BY DEF Runs
<1>2. Working' BY DEF Working
<1>3. Protected' BY DEF Protected, Reached
<1>4. Locked' BY DEF Locked
<1>5. ActiveIsWhole' BY DEF ActiveIsWhole
<1>. QED BY <1>1, <1>2, <1>3, <1>4, <1>5

\* A collector's step preserves the invariant.
LEMMA CollectorInvariant ==
    ASSUME AnyAge = FALSE, IInv, NEW g \in Collector,
           \/ Collect(g) \/ DryRun(g) \/ RemoveFails(g) \/ KillCollector(g)
    PROVE  IInv'
<1>. USE DisjointAssumption, NobodyAssumption DEF IInv, TypeOK
<1>1. CASE Scan(g)
    <2>. USE <1>1 DEF Scan, Goto, sessions
    <2>1. TypeOK' OBVIOUS
    <2>2. Working' BY DEF Working
    <2>3. Protected' BY DEF Protected, Reached
    <2>4. Locked' BY DEF Locked
    <2>5. ActiveIsWhole' BY DEF ActiveIsWhole
    <2>. QED BY <2>1, <2>2, <2>3, <2>4, <2>5
<1>2. CASE Inspect(g)
    <2>. USE <1>2 DEF Inspect, Abort, Goto, sessions
    <2>1. TypeOK' OBVIOUS
    <2>2. Working' BY DEF Working
    <2>3. Protected' BY DEF Protected, Reached
    <2>4. Locked' BY DEF Locked
    <2>5. ActiveIsWhole' BY DEF ActiveIsWhole
    <2>. QED BY <2>1, <2>2, <2>3, <2>4, <2>5
<1>3. CASE OpenLock(g)
    <2>. USE <1>3 DEF OpenLock, Goto, sessions
    <2>1. TypeOK' OBVIOUS
    <2>2. Working' BY DEF Working
    <2>3. Protected' BY DEF Protected, Reached
    <2>4. Locked' BY DEF Locked, ActiveIsWhole, Entries
    <2>5. ActiveIsWhole' BY DEF ActiveIsWhole
    <2>. QED BY <2>1, <2>2, <2>3, <2>4, <2>5
<1>4. CASE TryLock(g)
    <2>. USE <1>4 DEF TryLock, NextEntry, Hold, Goto, sessions, Working
    <2>1. TypeOK' OBVIOUS
    <2>2. Working' OBVIOUS
    <2>3. Protected' BY DEF Protected, Reached
    <2>4. Locked' BY DEF Locked
    <2>5. ActiveIsWhole' BY DEF ActiveIsWhole
    <2>. QED BY <2>1, <2>2, <2>3, <2>4, <2>5
<1>5. CASE RemoveEntry(g)
    <2>. USE <1>5 DEF RemoveEntry, NextEntry, Let, Working
    <2>1. TypeOK'
        <3>1. PICK e \in Removable(at[g]) : SetTree(at[g], tree[at[g]] \ {e})
            OBVIOUS
        <3>2. /\ tree' \in [Session -> SUBSET Entries]
              /\ old' \in [Session -> BOOLEAN]
              /\ \A t \in Session : tree'[t] # {} => "root" \in tree'[t]
            BY <3>1, RemovalType
        <3>. QED BY <3>2
    <2>2. Working' OBVIOUS
    <2>3. Protected' BY DEF Protected, Reached, SetTree
    <2>4. Locked' BY DEF Locked, SetTree
    <2>5. ActiveIsWhole' BY DEF ActiveIsWhole, Locked, SetTree
    <2>. QED BY <2>1, <2>2, <2>3, <2>4, <2>5
<1>6. CASE DryRun(g)
    <2>. USE <1>6 DEF DryRun, NextEntry, Let, sessions
    <2>1. TypeOK' OBVIOUS
    <2>2. Working' BY DEF Working
    <2>3. Protected' BY DEF Protected, Reached
    <2>4. Locked' BY DEF Locked
    <2>5. ActiveIsWhole' BY DEF ActiveIsWhole
    <2>. QED BY <2>1, <2>2, <2>3, <2>4, <2>5
<1>7. CASE RemoveFails(g) \/ KillCollector(g)
    <2>. USE <1>7 DEF RemoveFails, KillCollector, Abort, Let, sessions
    <2>1. TypeOK' BY AgeAssumption
    <2>2. Working' BY DEF Working
    <2>3. Protected' BY DEF Protected, Reached
    <2>4. Locked' BY DEF Locked
    <2>5. ActiveIsWhole' BY DEF ActiveIsWhole
    <2>. QED BY <2>1, <2>2, <2>3, <2>4, <2>5
<1>. QED
    BY <1>1, <1>2, <1>3, <1>4, <1>5, <1>6, <1>7 DEF Collect

\* Every step preserves the invariant.
LEMMA NextInvariant ==
    ASSUME AnyAge = FALSE PROVE IInv /\ [Next]_vars => IInv'
<1>. SUFFICES ASSUME IInv, [Next]_vars PROVE IInv'
    OBVIOUS
<1>1. CASE Next
    BY <1>1, GuardInvariant, OutsideInvariant, CollectorInvariant DEF Next
<1>2. CASE UNCHANGED vars
    BY <1>2
    DEF vars, IInv, TypeOK, Working, Protected, Locked, ActiveIsWhole, Reached
<1>. QED BY <1>1, <1>2

\* The age check and the advisory lock together keep every collector off a
\* stage in use (Stage::build and garbage_collect), for any age but zero.
THEOREM ActiveStagesSafe ==
    ASSUME AnyAge = FALSE PROVE Spec => []ActiveIsWhole
<1>1. Init => IInv BY InitInvariant
<1>2. IInv /\ [Next]_vars => IInv' BY NextInvariant
<1>3. IInv => ActiveIsWhole BY DEF IInv
<1>. QED BY <1>1, <1>2, <1>3, PTL DEF Spec

=============================================================================
