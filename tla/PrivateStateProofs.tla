------------------------- MODULE PrivateStateProofs -------------------------
(***************************************************************************)
(* The private state of the guard: the package stores for any number of    *)
(* processes, names, versions, installations, errors and power losses, and *)
(* the removal of everything for any number of removers and sessions.      *)
(*                                                                         *)
(* The package stores.  An installation under way is in nobody's sight     *)
(* (AtWork, Distinct); what a directory names, or may name after a power   *)
(* loss, is synced before it is published (Whole); what was reported is in *)
(* every directory that may survive (Durable); and once a verification has *)
(* seen another installation, the one it opened never comes back           *)
(* (Reading).                                                              *)
(*                                                                         *)
(* The removal.  Every directory is in one place (OnePlace), and the       *)
(* tombstones of a process are those of the roots it counts as moved, each *)
(* with the directory it opened, and at most the one it is at (Progress).  *)
(***************************************************************************)
EXTENDS MCPrivateState, StageGcProofs, FiniteSetTheorems, SequenceTheorems,
        TLAPS

-----------------------------------------------------------------------------
(* The package stores: the inductive invariant.                            *)

LockedSteps == {"install", "check", "write", "publish", "settle", "remove",
                "delete", "prune", "removed", "list", "listed"}
Steps  == LockedSteps \cup {"idle", "verify", "verified"}
Named  == Steps \ {"idle", "list", "listed"}
Fresh  == {"write", "publish"}
Owning == {"write", "publish", "settle"}

Id   == Packages!Id
Dirs == [exists : BOOLEAN, entry : [Version -> Id \cup {Absent}],
         hidden : SUBSET Id]
Jobs == [op : {"none", "install", "remove", "verify", "list"},
         name : Name \cup {Absent}, version : Version \cup {Absent},
         id : Id \cup {Absent}]

ProcessTypes ==
    /\ step \in [Proc -> Steps] /\ job \in [Proc -> Jobs]
    /\ seen \in [Proc -> Seq(Id)]

DiskTypes ==
    /\ dir \in [Name -> Dirs] /\ images \in [Name -> SUBSET Dirs]
    /\ \A n \in Name : dir[n] \in images[n]

CountTypes ==
    /\ kind \in {"profile", "tool"} /\ lock \in Proc \cup {Nobody}
    /\ files \in [Id -> 0..Files]
    /\ made \in 0..MaxInstalls /\ losses \in Nat
    /\ synced \subseteq 1..made /\ doomed \subseteq 1..made
    /\ reported \subseteq 1..made

\* Whatever is an entry of a directory that may survive has been made.
EntriesMade ==
    \A n \in Name : \A d \in images[n] : \A v \in Version :
        d.entry[v] \in 1..made \cup {Absent}

\* The lock of the profile store is held from the first step of an operation
\* to its return.
LockKept ==
    /\ lock # Nobody => kind = "profile" /\ step[lock] \in LockedSteps
    /\ kind = "profile" => \A p \in Proc : step[p] \in LockedSteps => lock = p

\* An installation under way has not been seen by anybody else.
Unpublished(i) ==
    /\ i \notin doomed /\ i \notin reported
    /\ \A n \in Name : \A d \in images[n] : \A v \in Version : d.entry[v] # i

Versions(d) == {v \in Version : d.entry[v] # Absent}

JobTyped(p) ==
    /\ step[p] \in Named => job[p].name \in Name /\ job[p].version \in Version
    /\ step[p] \in Owning \cup {"delete"} => job[p].id \in 1..made

\* What a process at work can rely on.
AtWork(p) ==
    /\ step[p] \in Fresh => Unpublished(job[p].id)
    /\ step[p] = "publish" => job[p].id \in synced /\ files[job[p].id] = Files
    /\ step[p] = "delete" => job[p].id \in doomed
    /\ step[p] = "settle" =>
          \A m \in Name \ {job[p].name} : \A w \in Version :
              dir[m].entry[w] # job[p].id
    /\ kind = "profile" /\ step[p] \in Fresh =>
          Cardinality(Versions(dir[job[p].name])) < MaxVersions

\* What a verification has read: once another installation stood in the
\* place of the one it opened, the one it opened is gone for good.
Reading(p) ==
    /\ step[p] \notin {"verify", "verified"} => seen[p] = << >>
    /\ \A k \in DOMAIN seen[p] : seen[p][k] \in 1..made
    /\ step[p] = "verify" => \A k \in DOMAIN seen[p] :
          seen[p][k] # seen[p][1] =>
              dir[job[p].name].entry[job[p].version] # seen[p][1]
    /\ step[p] = "verified" =>
          \A k \in DOMAIN seen[p] : seen[p][k] = seen[p][1]

\* Installations under way are distinct from each other and from what any
\* verification has read.
Distinct ==
    \A p, q \in Proc :
        /\ p # q /\ step[p] \in Owning /\ step[q] \in Owning =>
              job[p].id # job[q].id
        /\ step[q] \in Fresh => \A k \in DOMAIN seen[p] : seen[p][k] # job[q].id

Whole == Packages!InstallationsWhole

\* The limits hold of every directory that may survive.
Bounded ==
    kind = "profile" =>
        /\ \A n \in Name : \A d \in images[n] :
              Cardinality(Versions(d)) <= MaxVersions
        /\ losses = 0 => Cardinality({n \in Name : dir[n].exists}) <= MaxNames

\* What was reported is in every directory that may survive, if its name is.
Durable ==
    \A n \in Name : \A v \in Version :
        dir[n].entry[v] \in reported \ doomed =>
            \A d \in images[n] : d.exists => d.entry[v] = dir[n].entry[v]

PackageInv ==
    /\ ProcessTypes /\ DiskTypes /\ CountTypes /\ EntriesMade /\ LockKept
    /\ \A p \in Proc : JobTyped(p) /\ AtWork(p) /\ Reading(p)
    /\ Distinct /\ Whole /\ Bounded /\ Durable

-----------------------------------------------------------------------------
(* What a step of one process does.                                        *)

\* Entries of the directories go, or stay, or are published by p.
Evolves(p) ==
    /\ DiskTypes'
    /\ \A n \in Name : images'[n] \subseteq images[n] \cup {dir'[n]}
    /\ \A n \in Name : \A v \in Version :
          \/ dir'[n].entry[v] \in {Absent, dir[n].entry[v]}
          \/ /\ step[p] = "publish" /\ dir[n].entry[v] = Absent
             /\ n = job[p].name /\ v = job[p].version
             /\ dir'[n].entry[v] = job[p].id
    /\ step[p] \notin LockedSteps => dir' = dir /\ images' = images

Others(p) ==
    /\ ProcessTypes'
    /\ \A q \in Proc \ {p} :
          step'[q] = step[q] /\ job'[q] = job[q] /\ seen'[q] = seen[q]

Counts(p) ==
    /\ CountTypes' /\ kind' = kind /\ losses' = losses /\ made <= made'
    /\ \A i \in Id :
          \/ files'[i] = files[i]
          \/ /\ i = job[p].id
             /\ step[p] = "delete" \/ (step[p] = "write" /\ files[i] < Files)
    /\ synced \subseteq synced'
    /\ doomed \subseteq doomed'
    /\ \A i \in doomed' \ doomed :
          \E n \in Name : \E v \in Version : dir[n].entry[v] = i
    /\ reported \subseteq reported'
    /\ \A i \in reported' \ reported : step[p] = "settle" /\ i = job[p].id

LEMMA Sizes ==
    /\ Files \in Nat /\ MaxNames \in Nat /\ MaxVersions \in Nat
    /\ MaxInstalls \in Nat
    /\ Id = 1..MaxInstalls /\ Absent \notin Id /\ Nobody \notin Proc
BY PackageAssumption DEF Id, Packages!Id

LEMMA PackageCardinality ==
    \A S : Packages!Cardinality(S) = Cardinality(S)
BY DEF Cardinality, Packages!Cardinality

\* Entries after the step: none is new but what p publishes.
LEMMA EntriesAfter ==
    ASSUME PackageInv, NEW p \in Proc, Evolves(p), NEW n \in Name,
           NEW d \in images'[n], NEW v \in Version
    PROVE  \/ d.entry[v] = Absent
           \/ \E c \in images[n] : d.entry[v] = c.entry[v]
           \/ /\ step[p] = "publish" /\ n = job[p].name /\ v = job[p].version
              /\ d.entry[v] = job[p].id
<1>1. CASE d \in images[n]
    BY <1>1
<1>2. CASE d = dir'[n]
    <2>1. dir[n] \in images[n]
        BY DEF PackageInv, DiskTypes
    <2>. QED BY <1>2, <2>1 DEF Evolves
<1>. QED BY <1>1, <1>2 DEF Evolves

LEMMA EntriesMadeKept ==
    ASSUME PackageInv, NEW p \in Proc, Evolves(p), Counts(p)
    PROVE  EntriesMade'
<1>1. made \in Nat /\ made' \in Nat /\ made <= made'
    BY Sizes DEF PackageInv, CountTypes, Counts
<1>2. ASSUME NEW n \in Name, NEW d \in images'[n], NEW v \in Version
      PROVE  d.entry[v] \in 1..made' \cup {Absent}
    <2>1. d.entry[v] \in 1..made \cup {Absent}
        <3>1. ASSUME NEW c \in images[n]
              PROVE  c.entry[v] \in 1..made \cup {Absent}
            BY DEF PackageInv, EntriesMade
        <3>2. step[p] = "publish" => job[p].id \in 1..made
            BY DEF PackageInv, JobTyped, Owning
        <3>. QED BY <3>1, <3>2, EntriesAfter
    <2>. QED BY <1>1, <2>1
<1>. QED BY <1>2 DEF EntriesMade

\* Nobody else's installation comes to light.
LEMMA UnpublishedKept ==
    ASSUME PackageInv, NEW p \in Proc, Evolves(p), Counts(p),
           NEW i \in 1..made, Unpublished(i),
           step[p] \in Owning => job[p].id # i
    PROVE  Unpublished(i)'
<1>1. i # Absent
    BY Sizes DEF PackageInv, CountTypes
<1>2. \A n \in Name : \A v \in Version : dir[n].entry[v] # i
    BY DEF PackageInv, DiskTypes, Unpublished
<1>3. i \notin doomed'
    BY <1>2 DEF Counts, Unpublished
<1>4. i \notin reported'
    BY DEF Counts, Unpublished, Owning
<1>5. ASSUME NEW n \in Name, NEW d \in images'[n], NEW v \in Version
      PROVE  d.entry[v] # i
    BY <1>1, EntriesAfter DEF Unpublished, Owning
<1>. QED BY <1>3, <1>4, <1>5 DEF Unpublished

-----------------------------------------------------------------------------
(* The other processes.                                                    *)

LEMMA OthersTyped ==
    ASSUME PackageInv, NEW p \in Proc, Others(p), Counts(p),
           NEW q \in Proc \ {p}
    PROVE  JobTyped(q)'
<1>1. made \in Nat /\ made' \in Nat /\ made <= made'
    BY Sizes DEF PackageInv, CountTypes, Counts
<1>2. step'[q] = step[q] /\ job'[q] = job[q] /\ JobTyped(q)
    BY DEF Others, PackageInv
<1>3. 1..made \subseteq 1..made'
    BY <1>1
<1>. QED BY <1>2, <1>3 DEF JobTyped

LEMMA OthersWork ==
    ASSUME PackageInv, NEW p \in Proc, Evolves(p), Others(p), Counts(p),
           NEW q \in Proc \ {p}
    PROVE  AtWork(q)'
<1>1. /\ step'[q] = step[q] /\ job'[q] = job[q] /\ AtWork(q) /\ JobTyped(q)
      /\ step[q] \in Owning \cup {"delete"} => job[q].id \in 1..made
    BY DEF Others, PackageInv, JobTyped
<1>2. step[p] \in Owning /\ step[q] \in Owning => job[p].id # job[q].id
    BY DEF PackageInv, Distinct
<1>3. step[q] \in Fresh => Unpublished(job[q].id)'
    <2>1. CASE step[q] \in Fresh
        BY <1>1, <1>2, <2>1, UnpublishedKept DEF AtWork, Fresh, Owning
    <2>. QED BY <2>1
<1>4. step[q] = "publish" => job[q].id \in synced' /\ files'[job[q].id] = Files
    <2>. SUFFICES ASSUME step[q] = "publish"
                  PROVE  job[q].id \in synced' /\ files'[job[q].id] = Files
        OBVIOUS
    <2>1. /\ job[q].id \in synced /\ files[job[q].id] = Files
          /\ job[q].id \in 1..made /\ Unpublished(job[q].id)
        BY <1>1 DEF AtWork, Fresh, Owning
    <2>2. job[q].id \in Id
        BY <2>1, Sizes DEF PackageInv, CountTypes
    <2>3. step[p] = "delete" => job[p].id \in doomed
        BY DEF PackageInv, AtWork
    <2>4. ~(job[q].id = job[p].id /\ step[p] \in {"delete", "write"})
        BY <1>2, <2>1, <2>3 DEF Unpublished, Owning
    <2>. QED BY <2>1, <2>2, <2>4 DEF Counts
<1>5. step[q] = "delete" => job[q].id \in doomed'
    BY <1>1 DEF AtWork, Counts
<1>6. step[q] = "settle" =>
         \A m \in Name \ {job[q].name} : \A w \in Version :
             dir'[m].entry[w] # job[q].id
    <2>. SUFFICES ASSUME step[q] = "settle", NEW m \in Name \ {job[q].name},
                         NEW w \in Version
                  PROVE  dir'[m].entry[w] # job[q].id
        OBVIOUS
    <2>1. dir[m].entry[w] # job[q].id /\ job[q].id \in 1..made
        BY <1>1 DEF AtWork, Owning
    <2>2. job[q].id # Absent
        BY <2>1, Sizes DEF PackageInv, CountTypes
    <2>3. step[p] = "publish" => job[p].id # job[q].id
        BY <1>2 DEF Owning
    <2>. QED BY <2>1, <2>2, <2>3 DEF Evolves
<1>7. kind' = "profile" /\ step[q] \in Fresh =>
         Cardinality(Versions(dir[job[q].name])') < MaxVersions
    <2>. SUFFICES ASSUME kind' = "profile", step[q] \in Fresh
                  PROVE  Cardinality(Versions(dir[job[q].name])') < MaxVersions
        OBVIOUS
    <2>1. kind = "profile" /\ step[q] \in LockedSteps
        BY DEF Counts, Fresh, LockedSteps
    <2>2. step[p] \notin LockedSteps
        BY <2>1 DEF PackageInv, LockKept
    <2>3. dir' = dir /\ job' [q] = job[q]
        BY <1>1, <2>2 DEF Evolves
    <2>. QED BY <1>1, <2>1, <2>3 DEF AtWork, Versions
<1>. QED BY <1>1, <1>3, <1>4, <1>5, <1>6, <1>7 DEF AtWork, Versions

LEMMA OthersRead ==
    ASSUME PackageInv, NEW p \in Proc, Evolves(p), Others(p), Counts(p),
           NEW q \in Proc \ {p}
    PROVE  Reading(q)'
<1>1. /\ step'[q] = step[q] /\ job'[q] = job[q] /\ seen'[q] = seen[q]
      /\ Reading(q) /\ JobTyped(q)
    BY DEF Others, PackageInv
<1>2. made \in Nat /\ made' \in Nat /\ made <= made'
    BY Sizes DEF PackageInv, CountTypes, Counts
<1>3. 1..made \subseteq 1..made'
    BY <1>2
<1>4. ASSUME step[q] = "verify", NEW k \in DOMAIN seen[q],
             seen[q][k] # seen[q][1]
      PROVE  dir'[job[q].name].entry[job[q].version] # seen[q][1]
    <2>1. job[q].name \in Name /\ job[q].version \in Version
        BY <1>1, <1>4 DEF JobTyped, Named, Steps
    <2>2. dir[job[q].name].entry[job[q].version] # seen[q][1]
        BY <1>1, <1>4 DEF Reading
    <2>3. seen[q] \in Seq(Id)
        BY DEF PackageInv, ProcessTypes
    <2>4. 1 \in DOMAIN seen[q]
        BY <1>4, <2>3
    <2>5. seen[q][1] # Absent
        BY <2>3, <2>4, Sizes
    <2>6. step[p] = "publish" => seen[q][1] # job[p].id
        BY <2>4 DEF PackageInv, Distinct, Fresh
    <2>. QED BY <2>1, <2>2, <2>5, <2>6 DEF Evolves
<1>. QED BY <1>1, <1>3, <1>4 DEF Reading

-----------------------------------------------------------------------------
(* The directories as a whole.                                             *)

LEMMA WholeKept ==
    ASSUME PackageInv, NEW p \in Proc, Evolves(p), Counts(p)
    PROVE  Whole'
<1>. SUFFICES ASSUME NEW n \in Name, NEW d \in images'[n], NEW v \in Version,
                     d.entry[v] # Absent, d.entry[v] \notin doomed'
              PROVE  d.entry[v] \in synced' /\ files'[d.entry[v]] = Files
    BY DEF Whole, Packages!InstallationsWhole
<1>1. d.entry[v] \notin doomed
    BY DEF Counts
<1>2. d.entry[v] \in synced /\ files[d.entry[v]] = Files
    <2>1. CASE \E c \in images[n] : d.entry[v] = c.entry[v]
        BY <1>1, <2>1 DEF PackageInv, Whole, Packages!InstallationsWhole
    <2>2. CASE step[p] = "publish" /\ d.entry[v] = job[p].id
        BY <2>2 DEF PackageInv, AtWork
    <2>. QED BY <2>1, <2>2, EntriesAfter
<1>3. d.entry[v] \in Id
    BY <1>2, Sizes DEF PackageInv, CountTypes
<1>4. step[p] = "delete" => job[p].id \in doomed
    BY DEF PackageInv, AtWork
<1>5. files'[d.entry[v]] = files[d.entry[v]]
    <2>1. ~(step[p] = "write" /\ files[d.entry[v]] < Files)
        BY <1>2, Sizes
    <2>. QED BY <1>1, <1>3, <1>4, <2>1 DEF Counts
<1>. QED BY <1>2, <1>5 DEF Counts

\* Unless p reports an installation now.
LEMMA DurableKept ==
    ASSUME PackageInv, NEW p \in Proc, Evolves(p), Counts(p),
           reported' = reported
    PROVE  Durable'
<1>. SUFFICES ASSUME NEW n \in Name, NEW v \in Version,
                     dir'[n].entry[v] \in reported \ doomed',
                     NEW d \in images'[n], d.exists
              PROVE  d.entry[v] = dir'[n].entry[v]
    BY DEF Durable
<1>1. dir'[n].entry[v] = dir[n].entry[v]
    <2>1. dir'[n].entry[v] # Absent
        BY Sizes DEF PackageInv, CountTypes
    <2>2. step[p] = "publish" => job[p].id \notin reported
        BY DEF PackageInv, AtWork, Fresh, Unpublished
    <2>. QED BY <2>1, <2>2 DEF Evolves
<1>2. dir[n].entry[v] \in reported \ doomed
    BY <1>1 DEF Counts
<1>. QED BY <1>1, <1>2 DEF Evolves, PackageInv, Durable

LEMMA VersionsFinite ==
    \A d : IsFiniteSet(Versions(d)) /\ Cardinality(Versions(d)) \in Nat
BY PackageAssumption, FS_Subset, FS_CardinalityType DEF Versions

LEMMA VersionsBounded ==
    ASSUME PackageInv, NEW p \in Proc, Evolves(p), Counts(p),
           kind' = "profile", NEW n \in Name, NEW d \in images'[n]
    PROVE  Cardinality(Versions(d)) <= MaxVersions
<1>. DEFINE past == Versions(dir[n])
            new == Versions(dir'[n])
            v   == job[p].version
<1>1. kind = "profile" /\ MaxVersions \in Nat
    BY Sizes DEF Counts
<1>2. ASSUME NEW c \in images[n] PROVE Cardinality(Versions(c)) <= MaxVersions
    BY <1>1 DEF PackageInv, Bounded
<1>3. IsFiniteSet(past) /\ Cardinality(past) \in Nat /\ Cardinality(new) \in Nat
    BY VersionsFinite
<1>4. dir[n] \in images[n]
    BY DEF PackageInv, DiskTypes
<1>5. CASE d \in images[n]
    BY <1>2, <1>5
<1>6. CASE d = dir'[n] /\ ~(step[p] = "publish" /\ n = job[p].name)
    <2>1. new \subseteq past
        BY <1>6 DEF Evolves, Versions
    <2>2. Cardinality(new) <= Cardinality(past)
        BY <1>3, <2>1, FS_Subset
    <2>3. Cardinality(past) <= MaxVersions
        BY <1>2, <1>4
    <2>4. Cardinality(new) <= MaxVersions
        <3>. HIDE DEF past, new
        <3>. QED BY <1>1, <1>3, <2>2, <2>3
    <2>. QED BY <1>6, <2>4
<1>7. CASE d = dir'[n] /\ step[p] = "publish" /\ n = job[p].name
    <2>1. Cardinality(past) < MaxVersions
        BY <1>1, <1>7 DEF PackageInv, AtWork, Fresh
    <2>2. new \subseteq past \cup {v}
        BY <1>7 DEF Evolves, Versions
    <2>3. /\ IsFiniteSet(past \cup {v})
          /\ Cardinality(past \cup {v})
                \in {Cardinality(past), Cardinality(past) + 1}
        BY <1>3, FS_AddElement
    <2>4. Cardinality(new) <= Cardinality(past \cup {v})
        BY <2>2, <2>3, FS_Subset
    <2>5. Cardinality(new) <= MaxVersions
        <3>. DEFINE c == Cardinality(past \cup {v})
        <3>1. c \in {Cardinality(past), Cardinality(past) + 1}
              /\ Cardinality(new) <= c
            BY <2>3, <2>4
        <3>. HIDE DEF past, new, c
        <3>. QED BY <1>1, <1>3, <2>1, <3>1
    <2>. QED BY <1>7, <2>5
<1>. QED BY <1>5, <1>6, <1>7 DEF Evolves

LEMMA BoundedKept ==
    ASSUME PackageInv, NEW p \in Proc, Evolves(p), Counts(p),
           \/ \A n \in Name : dir'[n].exists => dir[n].exists
           \/ kind = "profile" =>
                  Cardinality({n \in Name : dir'[n].exists}) <= MaxNames
    PROVE  Bounded'
<1>. DEFINE past == {n \in Name : dir[n].exists}
            new == {n \in Name : dir'[n].exists}
<1>1. ASSUME kind' = "profile", losses' = 0 PROVE Cardinality(new) <= MaxNames
    <2>1. kind = "profile" /\ losses = 0
        BY <1>1 DEF Counts
    <2>2. CASE \A n \in Name : dir'[n].exists => dir[n].exists
        <3>1. IsFiniteSet(past) /\ new \subseteq past
            BY <2>2, PackageAssumption, FS_Subset
        <3>2. /\ Cardinality(new) <= Cardinality(past)
              /\ Cardinality(new) \in Nat /\ Cardinality(past) \in Nat
            BY <3>1, FS_Subset, FS_CardinalityType
        <3>3. Cardinality(past) <= MaxNames
            BY <2>1 DEF PackageInv, Bounded
        <3>. HIDE DEF past, new
        <3>. QED BY <3>2, <3>3, Sizes
    <2>. QED BY <2>1, <2>2
<1>2. kind' = "profile" =>
         \A n \in Name : \A d \in images'[n] :
             Cardinality(Versions(d)) <= MaxVersions
    BY VersionsBounded
<1>. QED BY <1>1, <1>2 DEF Bounded, Versions

\* The installation p works on is the one it worked on, or a new one; what p
\* has read stood in a directory.
Owns(p) ==
    /\ step'[p] \in Owning =>
          \/ /\ step[p] \in Owning /\ job'[p].id = job[p].id
             /\ step'[p] \in Fresh => step[p] \in Fresh
          \/ job'[p].id = made + 1
    /\ \A k \in DOMAIN seen'[p] :
          \/ k \in DOMAIN seen[p] /\ seen'[p][k] = seen[p][k]
          \/ \E n \in Name : \E v \in Version : seen'[p][k] = dir[n].entry[v]

LEMMA DistinctKept ==
    ASSUME PackageInv, NEW p \in Proc, Others(p), Counts(p), Owns(p),
           Reading(p)'
    PROVE  Distinct'
<1>1. made \in Nat
    BY Sizes DEF PackageInv, CountTypes
<1>2. ASSUME NEW q \in Proc, step[q] \in Owning PROVE job[q].id \in 1..made
    BY <1>2 DEF PackageInv, JobTyped
<1>3. ASSUME NEW q \in Proc, NEW k \in DOMAIN seen[q]
      PROVE  seen[q][k] \in 1..made
    BY DEF PackageInv, Reading
<1>4. made + 1 \notin 1..made
    BY <1>1
<1>5. ASSUME NEW q \in Proc \ {p}, step'[p] \in Owning, step'[q] \in Owning
      PROVE  job'[p].id # job'[q].id
    <2>1. step[q] \in Owning /\ job'[q].id = job[q].id
        BY <1>5 DEF Others
    <2>. QED BY <1>2, <1>4, <1>5, <2>1 DEF Owns, PackageInv, Distinct
<1>6. ASSUME NEW q \in Proc \ {p}, step'[q] \in Fresh,
             NEW k \in DOMAIN seen'[p]
      PROVE  seen'[p][k] # job'[q].id
    <2>1. step[q] \in Fresh /\ job'[q].id = job[q].id
        BY <1>6 DEF Others
    <2>2. CASE k \in DOMAIN seen[p] /\ seen'[p][k] = seen[p][k]
        BY <2>1, <2>2 DEF PackageInv, Distinct
    <2>3. ASSUME NEW n \in Name, NEW v \in Version
          PROVE  dir[n].entry[v] # job[q].id
        BY <2>1 DEF PackageInv, AtWork, Unpublished, DiskTypes
    <2>. QED BY <2>1, <2>2, <2>3, <1>6 DEF Owns
<1>7. ASSUME NEW q \in Proc, step'[p] \in Fresh, NEW k \in DOMAIN seen'[q]
      PROVE  seen'[q][k] # job'[p].id
    <2>1. q # p
        <3>1. seen'[p] = << >>
            BY <1>7 DEF Reading, Fresh
        <3>. QED BY <1>7, <3>1
    <2>2. k \in DOMAIN seen[q] /\ seen'[q][k] = seen[q][k]
        BY <1>7, <2>1 DEF Others
    <2>3. step'[p] \in Owning
        BY <1>7 DEF Fresh, Owning
    <2>4. CASE step[p] \in Fresh /\ job'[p].id = job[p].id
        BY <2>2, <2>4 DEF PackageInv, Distinct
    <2>5. CASE job'[p].id = made + 1
        BY <1>3, <1>4, <2>2, <2>5
    <2>. QED BY <1>7, <2>3, <2>4, <2>5 DEF Owns
<1>8. ASSUME NEW q \in Proc \ {p}, NEW r \in Proc \ {p}
      PROVE  /\ q # r /\ step'[q] \in Owning /\ step'[r] \in Owning =>
                    job'[q].id # job'[r].id
             /\ step'[r] \in Fresh =>
                    \A k \in DOMAIN seen'[q] : seen'[q][k] # job'[r].id
    BY DEF Others, PackageInv, Distinct
<1>. QED BY <1>5, <1>6, <1>7, <1>8 DEF Distinct

\* What remains to be shown of each action of a process.
LEMMA ActionKeeps ==
    ASSUME PackageInv, NEW p \in Proc, Evolves(p), Others(p), Counts(p),
           Owns(p), LockKept', JobTyped(p)', AtWork(p)', Reading(p)', Durable',
           \/ \A n \in Name : dir'[n].exists => dir[n].exists
           \/ kind = "profile" =>
                  Cardinality({n \in Name : dir'[n].exists}) <= MaxNames
    PROVE  PackageInv'
<1>1. ProcessTypes' /\ DiskTypes' /\ CountTypes'
    BY DEF Others, Evolves, Counts
<1>2. EntriesMade' /\ Distinct' /\ Whole' /\ Bounded'
    BY EntriesMadeKept, DistinctKept, WholeKept, BoundedKept
<1>3. \A q \in Proc : JobTyped(q)' /\ AtWork(q)' /\ Reading(q)'
    BY OthersTyped, OthersWork, OthersRead
<1>. QED BY <1>1, <1>2, <1>3 DEF PackageInv

-----------------------------------------------------------------------------
(* The actions of a process.                                               *)

LEMMA DiskStill ==
    ASSUME PackageInv, NEW p \in Proc, dir' = dir, images' = images
    PROVE  Evolves(p) /\ \A n \in Name : dir'[n].exists => dir[n].exists
BY DEF PackageInv, Evolves, DiskTypes

LEMMA CountsStill ==
    ASSUME PackageInv, NEW p \in Proc, lock' \in Proc \cup {Nobody},
           kind' = kind, files' = files, synced' = synced, doomed' = doomed,
           reported' = reported, made' = made, losses' = losses
    PROVE  Counts(p)
BY Sizes DEF PackageInv, Counts, CountTypes

\* A directory is replaced by d, with no entry more than p publishes.
LEMMA BecomeEvolves ==
    ASSUME PackageInv, NEW p \in Proc, NEW n \in Name, NEW d \in Dirs,
           Packages!Become(n, d), step[p] \in LockedSteps,
           \A v \in Version :
              \/ d.entry[v] \in {Absent, dir[n].entry[v]}
              \/ /\ step[p] = "publish" /\ dir[n].entry[v] = Absent
                 /\ n = job[p].name /\ v = job[p].version
                 /\ d.entry[v] = job[p].id
    PROVE  /\ Evolves(p)
           /\ (d.exists => dir[n].exists) =>
                 \A m \in Name : dir'[m].exists => dir[m].exists
<1>1. /\ dir \in [Name -> Dirs] /\ images \in [Name -> SUBSET Dirs]
      /\ \A m \in Name : dir[m] \in images[m]
    BY DEF PackageInv, DiskTypes
<1>2. /\ dir' \in [Name -> Dirs] /\ dir'[n] = d
      /\ \A m \in Name \ {n} : dir'[m] = dir[m]
    BY <1>1 DEF Packages!Become
<1>3. /\ images' \in [Name -> SUBSET Dirs] /\ images'[n] = images[n] \cup {d}
      /\ \A m \in Name \ {n} : images'[m] = images[m]
    BY <1>1 DEF Packages!Become
<1>4. DiskTypes'
    BY <1>1, <1>2, <1>3 DEF DiskTypes
<1>5. \A m \in Name : images'[m] \subseteq images[m] \cup {dir'[m]}
    BY <1>2, <1>3
<1>6. ASSUME NEW m \in Name, NEW v \in Version
      PROVE  \/ dir'[m].entry[v] \in {Absent, dir[m].entry[v]}
             \/ /\ step[p] = "publish" /\ dir[m].entry[v] = Absent
                /\ m = job[p].name /\ v = job[p].version
                /\ dir'[m].entry[v] = job[p].id
    BY <1>2
<1>. QED BY <1>2, <1>4, <1>5, <1>6 DEF Evolves

LEMMA ReturnKeeps ==
    ASSUME PackageInv, NEW p \in Proc, Packages!Return(p), kind' = kind
    PROVE  /\ Others(p) /\ Owns(p) /\ lock' \in Proc \cup {Nobody} /\ LockKept'
           /\ JobTyped(p)' /\ AtWork(p)' /\ Reading(p)'
<1>1. /\ step \in [Proc -> Steps] /\ job \in [Proc -> Jobs]
      /\ seen \in [Proc -> Seq(Id)] /\ lock \in Proc \cup {Nobody}
    BY DEF PackageInv, ProcessTypes, CountTypes
<1>2. Packages!Idle \in Jobs /\ << >> \in Seq(Id) /\ "idle" \in Steps
    BY DEF Packages!Idle, Jobs, Steps
<1>3. /\ step' \in [Proc -> Steps] /\ step'[p] = "idle"
      /\ \A q \in Proc \ {p} : step'[q] = step[q]
    BY <1>1, <1>2 DEF Packages!Return
<1>4. /\ job' \in [Proc -> Jobs] /\ \A q \in Proc \ {p} : job'[q] = job[q]
    BY <1>1, <1>2 DEF Packages!Return
<1>5. /\ seen' \in [Proc -> Seq(Id)] /\ seen'[p] = << >>
      /\ \A q \in Proc \ {p} : seen'[q] = seen[q]
    BY <1>1, <1>2 DEF Packages!Return
<1>6. Others(p)
    BY <1>3, <1>4, <1>5 DEF Others, ProcessTypes
<1>7. JobTyped(p)' /\ AtWork(p)' /\ Reading(p)' /\ Owns(p)
    BY <1>3, <1>5 DEF JobTyped, AtWork, Reading, Owns, Named, Owning, Fresh
<1>8. lock' \in Proc \cup {Nobody} /\ LockKept'
    <2>1. lock' = IF lock = p THEN Nobody ELSE lock
        BY DEF Packages!Return
    <2>2. "idle" \notin LockedSteps
        BY DEF LockedSteps
    <2>3. LockKept
        BY DEF PackageInv
    <2>. QED BY <1>1, <1>3, <2>1, <2>2, <2>3, Sizes DEF LockKept
<1>. QED BY <1>6, <1>7, <1>8

\* An operation returns without a report.
LEMMA ReturnInv ==
    ASSUME PackageInv, NEW p \in Proc, Packages!Return(p), Evolves(p),
           \A n \in Name : dir'[n].exists => dir[n].exists,
           kind' = kind, files' = files, synced' = synced, doomed' = doomed,
           reported' = reported, made' = made, losses' = losses
    PROVE  PackageInv'
<1>1. /\ Others(p) /\ Owns(p) /\ lock' \in Proc \cup {Nobody} /\ LockKept'
      /\ JobTyped(p)' /\ AtWork(p)' /\ Reading(p)'
    BY ReturnKeeps
<1>2. Counts(p)
    BY <1>1, CountsStill
<1>3. Durable'
    BY <1>2, DurableKept
<1>. QED BY <1>1, <1>2, <1>3, ActionKeeps

\* The operation goes on and keeps its job.
LEMMA GotoKeeps ==
    ASSUME PackageInv, NEW p \in Proc, NEW place \in Steps,
           Packages!Goto(p, place), job' = job, seen' = seen, lock' = lock,
           kind' = kind, step[p] \in LockedSteps <=> place \in LockedSteps,
           place \in Owning => step[p] \in Owning,
           place \in Fresh => step[p] \in Fresh
    PROVE  Others(p) /\ Owns(p) /\ LockKept' /\ step'[p] = place
<1>1. /\ step' \in [Proc -> Steps] /\ step'[p] = place
      /\ \A q \in Proc \ {p} : step'[q] = step[q]
    BY DEF Packages!Goto, PackageInv, ProcessTypes
<1>2. Others(p)
    BY <1>1 DEF PackageInv, Others, ProcessTypes
<1>3. Owns(p)
    BY <1>1 DEF Owns
<1>4. LockKept'
    <2>1. LockKept /\ lock \in Proc \cup {Nobody}
        BY DEF PackageInv, CountTypes
    <2>. QED BY <1>1, <2>1 DEF LockKept
<1>. QED BY <1>1, <1>2, <1>3, <1>4

LEMMA BeginInv ==
    ASSUME PackageInv, NEW p \in Proc,
           NEW op \in {"install", "remove", "verify", "list"},
           NEW n \in Name \cup {Absent}, NEW v \in Version \cup {Absent},
           op # "list" => n \in Name /\ v \in Version,
           Packages!Begin(p, op, n, v)
    PROVE  PackageInv'
<1>. DEFINE j == [op |-> op, name |-> n, version |-> v, id |-> Absent]
<1>1. /\ step[p] = "idle" /\ job' = [job EXCEPT ![p] = j]
      /\ step' = [step EXCEPT ![p] = op]
      /\ kind' = kind /\ seen' = seen /\ dir' = dir /\ images' = images
      /\ files' = files /\ synced' = synced /\ doomed' = doomed
      /\ reported' = reported /\ made' = made /\ losses' = losses
    BY DEF Packages!Begin, Packages!Goto, Packages!disk, Packages!ghosts,
           Packages!counts
<1>2. op \in Steps /\ j \in Jobs
    BY DEF Steps, LockedSteps, Jobs
<1>3. /\ step' \in [Proc -> Steps] /\ step'[p] = op
      /\ \A q \in Proc \ {p} : step'[q] = step[q]
    BY <1>1, <1>2 DEF PackageInv, ProcessTypes
<1>4. /\ job' \in [Proc -> Jobs] /\ job'[p] = j
      /\ \A q \in Proc \ {p} : job'[q] = job[q]
    BY <1>1, <1>2 DEF PackageInv, ProcessTypes
<1>5. Others(p)
    BY <1>1, <1>3, <1>4 DEF PackageInv, Others, ProcessTypes
<1>6. lock' \in Proc \cup {Nobody} /\ LockKept'
    <2>1. LockKept /\ lock \in Proc \cup {Nobody}
        BY DEF PackageInv, CountTypes
    <2>2. CASE kind = "profile" /\ op # "verify"
        <3>1. lock = Nobody /\ lock' = p
            BY <2>2 DEF Packages!Begin, Packages!LockStore
        <3>2. op \in LockedSteps
            BY <2>2 DEF LockedSteps
        <3>. QED BY <1>1, <1>3, <2>1, <2>2, <3>1, <3>2, Sizes DEF LockKept
    <2>3. CASE ~(kind = "profile" /\ op # "verify")
        <3>1. lock' = lock
            BY <2>3 DEF Packages!Begin, Packages!LockStore
        <3>2. "verify" \notin LockedSteps /\ "idle" \notin LockedSteps
            BY DEF LockedSteps
        <3>. QED BY <1>1, <1>3, <2>1, <2>3, <3>1, <3>2 DEF LockKept
    <2>. QED BY <2>2, <2>3
<1>7. Counts(p) /\ Evolves(p)
      /\ \A m \in Name : dir'[m].exists => dir[m].exists
    BY <1>1, <1>6, CountsStill, DiskStill
<1>8. Durable'
    BY <1>1, <1>7, DurableKept
<1>9. JobTyped(p)' /\ AtWork(p)' /\ Owns(p)
    BY <1>1, <1>3, <1>4 DEF JobTyped, AtWork, Owns, Named, Steps, LockedSteps,
                            Owning, Fresh
<1>10. Reading(p)'
    <2>1. seen[p] = << >>
        BY <1>1 DEF PackageInv, Reading
    <2>. QED BY <1>1, <2>1 DEF Reading
<1>. QED BY <1>5, <1>6, <1>7, <1>8, <1>9, <1>10, ActionKeeps

\* A name's directory without any entry.
LEMMA BareDirectory ==
    /\ Packages!NoDir \in Dirs /\ ~Packages!NoDir.exists
    /\ [Packages!NoDir EXCEPT !.exists = TRUE] \in Dirs
    /\ \A v \in Version :
          /\ Packages!NoDir.entry[v] = Absent
          /\ [Packages!NoDir EXCEPT !.exists = TRUE].entry[v] = Absent
BY DEF Packages!NoDir, Dirs

\* The directory of the job is one of the store.
LEMMA HereTyped ==
    ASSUME PackageInv, NEW p \in Proc, step[p] \in Named
    PROVE  /\ job[p].name \in Name /\ job[p].version \in Version
           /\ Packages!Here(p) = dir[job[p].name] /\ Packages!Here(p) \in Dirs
           /\ Packages!Found(p) = dir[job[p].name].entry[job[p].version]
           /\ Packages!Found(p) \in Id \cup {Absent}
<1>1. job[p].name \in Name /\ job[p].version \in Version
    BY DEF PackageInv, JobTyped
<1>2. dir[job[p].name] \in Dirs
    BY <1>1 DEF PackageInv, DiskTypes
<1>3. dir[job[p].name].entry[job[p].version] \in Id \cup {Absent}
    BY <1>1, <1>2 DEF Dirs
<1>. QED BY <1>1, <1>2, <1>3 DEF Packages!Here, Packages!Found

LEMMA MakeNameInv ==
    ASSUME PackageInv, NEW p \in Proc, Packages!MakeName(p) PROVE PackageInv'
<1>. DEFINE n == job[p].name
<1>1. /\ step[p] = "install" /\ kind' = kind /\ doomed' = doomed
      /\ reported' = reported /\ made' = made /\ losses' = losses
      /\ files' = files /\ synced' = synced
    BY DEF Packages!MakeName, Packages!ghosts, Packages!counts, Packages!disk
<1>2. /\ n \in Name /\ job[p].version \in Version
      /\ Packages!Here(p) = dir[n] /\ step[p] \in LockedSteps
    BY <1>1, HereTyped DEF Named, Steps, LockedSteps
<1>3. CASE Packages!NameRefused(p)
    <2>1. Packages!Return(p) /\ dir' = dir /\ images' = images
        BY <1>3 DEF Packages!MakeName, Packages!disk
    <2>. QED BY <1>1, <2>1, DiskStill, ReturnInv
<1>4. CASE ~Packages!NameRefused(p)
    <2>1. /\ Packages!Goto(p, "check") /\ job' = job /\ seen' = seen
          /\ lock' = lock
          /\ IF dir[n].exists THEN dir' = dir /\ images' = images
             ELSE Packages!Become(n, [Packages!NoDir EXCEPT !.exists = TRUE])
        BY <1>4 DEF Packages!MakeName
    <2>2. /\ Others(p) /\ Owns(p) /\ LockKept' /\ step'[p] = "check"
        BY <1>1, <2>1, GotoKeeps DEF Steps, LockedSteps, Owning, Fresh
    <2>3. Counts(p)
        BY <1>1, <2>1, CountsStill DEF PackageInv, CountTypes
    <2>4. Evolves(p)
        <3>1. CASE dir[n].exists
            BY <2>1, <3>1, DiskStill
        <3>2. CASE ~dir[n].exists
            <4>. DEFINE d == [Packages!NoDir EXCEPT !.exists = TRUE]
            <4>1. d \in Dirs /\ \A v \in Version : d.entry[v] = Absent
                BY BareDirectory
            <4>2. Packages!Become(n, d)
                BY <2>1, <3>2
            <4>. HIDE DEF d, n
            <4>. QED BY <1>2, <4>1, <4>2, BecomeEvolves
        <3>. QED BY <3>1, <3>2
    <2>5. Durable'
        BY <1>1, <2>3, <2>4, DurableKept
    <2>6. JobTyped(p)' /\ AtWork(p)' /\ Reading(p)'
        <3>1. seen[p] = << >>
            BY <1>1 DEF PackageInv, Reading
        <3>. QED BY <1>2, <2>1, <2>2, <3>1
                 DEF JobTyped, AtWork, Reading, Owning, Fresh
    <2>7. \/ \A m \in Name : dir'[m].exists => dir[m].exists
          \/ kind = "profile" =>
                 Cardinality({m \in Name : dir'[m].exists}) <= MaxNames
        <3>1. CASE dir[n].exists
            BY <2>1, <3>1
        <3>2. CASE ~dir[n].exists /\ kind = "profile"
            <4>. DEFINE past == {m \in Name : dir[m].exists}
                        new == {m \in Name : dir'[m].exists}
            <4>1. dir' = [dir EXCEPT ![n] =
                             [Packages!NoDir EXCEPT !.exists = TRUE]]
                BY <2>1, <3>2 DEF Packages!Become
            <4>2. new \subseteq past \cup {n}
                BY <4>1 DEF PackageInv, DiskTypes
            <4>3. IsFiniteSet(past) /\ Cardinality(past) \in Nat
                BY PackageAssumption, FS_Subset, FS_CardinalityType
            <4>4. ~(Cardinality(past) >= MaxNames)
                BY <1>2, <1>4, <3>2, PackageCardinality DEF Packages!NameRefused
            <4>5. /\ IsFiniteSet(past \cup {n})
                  /\ Cardinality(past \cup {n})
                        \in {Cardinality(past), Cardinality(past) + 1}
                BY <4>3, FS_AddElement
            <4>6. /\ Cardinality(new) <= Cardinality(past \cup {n})
                  /\ Cardinality(new) \in Nat
                BY <4>2, <4>5, FS_Subset, FS_CardinalityType
            <4>7. Cardinality(new) <= MaxNames
                <5>. DEFINE c == Cardinality(past \cup {n})
                <5>1. /\ c \in {Cardinality(past), Cardinality(past) + 1}
                      /\ Cardinality(new) <= c
                    BY <4>5, <4>6
                <5>. HIDE DEF past, new, c
                <5>. QED BY <4>3, <4>4, <4>6, <5>1, Sizes
            <4>. QED BY <4>7
        <3>3. CASE ~dir[n].exists /\ kind # "profile"
            BY <3>3
        <3>. QED BY <3>1, <3>2, <3>3
    <2>. QED BY <2>2, <2>3, <2>4, <2>5, <2>6, <2>7, ActionKeeps
<1>. QED BY <1>3, <1>4

LEMMA MakeTempInv ==
    ASSUME PackageInv, NEW p \in Proc, Packages!MakeTemp(p) PROVE PackageInv'
<1>0. PICK i : i = made + 1
    OBVIOUS
<1>. DEFINE n == job[p].name
            d == [dir[n] EXCEPT !.hidden = @ \cup {i}]
<1>1. /\ step[p] = "check" /\ kind' = kind /\ doomed' = doomed
      /\ reported' = reported /\ losses' = losses /\ files' = files
      /\ synced' = synced
    BY DEF Packages!MakeTemp, Packages!ghosts, Packages!disk
<1>2. /\ n \in Name /\ job[p].version \in Version
      /\ Packages!Here(p) = dir[n] /\ dir[n] \in Dirs /\ step[p] \in LockedSteps
    BY <1>1, HereTyped DEF Named, Steps, LockedSteps
<1>3. CASE Packages!Refused(p)
    <2>1. Packages!Return(p) /\ dir' = dir /\ images' = images /\ made' = made
        BY <1>3 DEF Packages!MakeTemp, Packages!disk
    <2>. QED BY <1>1, <2>1, DiskStill, ReturnInv
<1>4. CASE ~Packages!Refused(p)
    <2>1. /\ made < MaxInstalls /\ made' = i /\ job' = [job EXCEPT ![p].id = i]
          /\ Packages!Become(n, d) /\ step' = [step EXCEPT ![p] = "write"]
          /\ seen' = seen /\ lock' = lock
        BY <1>0, <1>2, <1>4 DEF Packages!MakeTemp, Packages!Goto
    <2>2. made \in Nat /\ i \in Id /\ i \notin 1..made /\ i \in 1..made'
          /\ made' \in 0..MaxInstalls
        BY <1>0, <2>1, Sizes DEF PackageInv, CountTypes
    <2>3. /\ step' \in [Proc -> Steps] /\ step'[p] = "write"
          /\ \A q \in Proc \ {p} : step'[q] = step[q]
        BY <2>1 DEF PackageInv, ProcessTypes, Steps, LockedSteps
    <2>4. /\ job' \in [Proc -> Jobs] /\ job'[p].id = i
          /\ job'[p].name = n /\ job'[p].version = job[p].version
          /\ \A q \in Proc \ {p} : job'[q] = job[q]
        <3>1. job \in [Proc -> Jobs]
            BY DEF PackageInv, ProcessTypes
        <3>2. [job[p] EXCEPT !.id = i] \in Jobs
            BY <2>2, <3>1 DEF Jobs
        <3>3. job' = [job EXCEPT ![p] = [job[p] EXCEPT !.id = i]]
            BY <2>1
        <3>4. job'[p] = [job[p] EXCEPT !.id = i]
            BY <3>1, <3>3
        <3>. HIDE DEF n
        <3>. QED BY <3>1, <3>2, <3>3, <3>4 DEF Jobs, n
    <2>5. Others(p)
        BY <2>1, <2>3, <2>4 DEF PackageInv, Others, ProcessTypes
    <2>6. d \in Dirs /\ d.entry = dir[n].entry /\ d.exists = dir[n].exists
        BY <1>2, <2>2 DEF Dirs
    <2>7. /\ Evolves(p)
          /\ \A m \in Name : dir'[m].exists => dir[m].exists
        <3>1. Evolves(p)
            BY <1>2, <2>1, <2>6, BecomeEvolves
        <3>2. \A m \in Name : dir'[m].exists => dir[m].exists
            BY <2>1, <2>6 DEF Packages!Become, PackageInv, DiskTypes
        <3>. QED BY <3>1, <3>2
    <2>8. Counts(p)
        <3>1. made <= made' /\ 1..made \subseteq 1..made'
            BY <1>0, <2>1, <2>2
        <3>. QED BY <1>1, <2>1, <2>2, <3>1 DEF PackageInv, Counts, CountTypes
    <2>9. Durable'
        BY <1>1, <2>7, <2>8, DurableKept
    <2>10. Owns(p)
        BY <1>0, <2>1, <2>4 DEF Owns
    <2>11. LockKept'
        BY <1>1, <1>2, <2>1, <2>3, Sizes
        DEF PackageInv, LockKept, LockedSteps, CountTypes
    <2>12. JobTyped(p)' /\ Reading(p)'
        <3>1. seen[p] = << >>
            BY <1>1 DEF PackageInv, Reading
        <3>. QED BY <1>2, <2>1, <2>2, <2>3, <2>4, <3>1 DEF JobTyped, Reading
    <2>13. AtWork(p)'
        <3>1. Unpublished(i)'
            <4>1. i \notin doomed /\ i \notin reported /\ i # Absent
                BY <2>2, Sizes DEF PackageInv, CountTypes
            <4>2. ASSUME NEW m \in Name, NEW c \in images'[m], NEW w \in Version
                  PROVE  c.entry[w] # i
                <5>1. ASSUME NEW e \in images[m] PROVE e.entry[w] # i
                    BY <2>2, <4>1 DEF PackageInv, EntriesMade
                <5>. QED BY <1>1, <2>7, <4>1, <5>1, EntriesAfter
            <4>. QED BY <1>1, <4>1, <4>2 DEF Unpublished
        <3>2. kind = "profile" =>
                 Cardinality(Versions(dir'[n])) < MaxVersions
            <4>1. dir'[n] = d
                BY <1>2, <2>1 DEF Packages!Become, PackageInv, DiskTypes
            <4>2. Versions(dir'[n]) = Versions(dir[n])
                BY <2>6, <4>1 DEF Versions
            <4>3. kind = "profile" =>
                     ~(Cardinality(Versions(dir[n])) >= MaxVersions)
                BY <1>4, PackageCardinality
                DEF Packages!Refused, Packages!Installed, Versions
            <4>. QED BY <4>2, <4>3, VersionsFinite, Sizes
        <3>. QED BY <1>1, <2>3, <2>4, <3>1, <3>2 DEF AtWork, Versions
    <2>. QED BY <2>5, <2>7, <2>8, <2>9, <2>10, <2>11, <2>12, <2>13, ActionKeeps
<1>. QED BY <1>3, <1>4

LEMMA WriteInv ==
    ASSUME PackageInv, NEW p \in Proc, Packages!Write(p) PROVE PackageInv'
<1>. DEFINE i == job[p].id
<1>1. /\ step[p] = "write" /\ files[i] < Files
      /\ files' = [files EXCEPT ![i] = files[i] + 1]
      /\ step' = step /\ job' = job /\ seen' = seen /\ lock' = lock
      /\ kind' = kind /\ dir' = dir /\ images' = images /\ synced' = synced
      /\ doomed' = doomed /\ reported' = reported /\ made' = made
      /\ losses' = losses
    BY DEF Packages!Write, Packages!ghosts, Packages!counts
<1>2. i \in 1..made /\ i \in Id /\ files \in [Id -> 0..Files]
    BY <1>1, Sizes DEF PackageInv, JobTyped, Owning, CountTypes
<1>3. files' \in [Id -> 0..Files]
    <2>1. files[i] + 1 \in 0..Files
        BY <1>1, <1>2, Sizes
    <2>. QED BY <1>1, <1>2, <2>1
<1>4. Counts(p)
    <2>1. \A k \in Id : files'[k] = files[k] \/ (k = i /\ files[k] < Files)
        BY <1>1, <1>2
    <2>2. made <= made'
        BY <1>1, Sizes DEF PackageInv, CountTypes
    <2>. QED BY <1>1, <1>3, <2>1, <2>2 DEF PackageInv, Counts, CountTypes
<1>5. Evolves(p) /\ \A n \in Name : dir'[n].exists => dir[n].exists
    BY <1>1, DiskStill
<1>6. Others(p) /\ Owns(p) /\ LockKept' /\ JobTyped(p)' /\ Reading(p)'
    BY <1>1 DEF PackageInv, Others, ProcessTypes, Owns, LockKept, JobTyped,
                Reading
<1>7. AtWork(p)'
    BY <1>1 DEF PackageInv, AtWork, Unpublished, Versions
<1>8. Durable'
    BY <1>1, <1>4, <1>5, DurableKept
<1>. QED BY <1>4, <1>5, <1>6, <1>7, <1>8, ActionKeeps

LEMMA SyncTempInv ==
    ASSUME PackageInv, NEW p \in Proc, Packages!SyncTemp(p) PROVE PackageInv'
<1>. DEFINE i == job[p].id
<1>1. /\ step[p] = "write" /\ files[i] = Files /\ synced' = synced \cup {i}
      /\ Packages!Goto(p, "publish") /\ job' = job /\ seen' = seen
      /\ lock' = lock /\ kind' = kind /\ dir' = dir /\ images' = images
      /\ files' = files /\ doomed' = doomed /\ reported' = reported
      /\ made' = made /\ losses' = losses
    BY DEF Packages!SyncTemp, Packages!ghosts, Packages!counts
<1>2. i \in 1..made
    BY <1>1 DEF PackageInv, JobTyped, Owning
<1>3. Counts(p)
    <2>1. made <= made'
        BY <1>1, Sizes DEF PackageInv, CountTypes
    <2>. QED BY <1>1, <1>2, <2>1 DEF PackageInv, Counts, CountTypes
<1>4. Others(p) /\ Owns(p) /\ LockKept' /\ step'[p] = "publish"
    BY <1>1, GotoKeeps DEF Steps, LockedSteps, Owning, Fresh
<1>5. Evolves(p) /\ \A n \in Name : dir'[n].exists => dir[n].exists
    BY <1>1, DiskStill
<1>6. JobTyped(p)' /\ Reading(p)'
    BY <1>1, <1>4 DEF PackageInv, JobTyped, Reading, Named, Steps,
                      LockedSteps, Owning
<1>7. AtWork(p)'
    BY <1>1, <1>4 DEF PackageInv, AtWork, Unpublished, Versions, Fresh
<1>8. Durable'
    BY <1>1, <1>3, <1>5, DurableKept
<1>. QED BY <1>3, <1>4, <1>5, <1>6, <1>7, <1>8, ActionKeeps

\* The temporary directory, or the tombstone, is gone from its directory.
LEMMA Unhide ==
    ASSUME PackageInv, NEW p \in Proc, step[p] \in Named,
           step[p] \in LockedSteps, NEW i,
           Packages!Become(job[p].name,
                           [Packages!Here(p) EXCEPT !.hidden = @ \ {i}])
    PROVE  Evolves(p) /\ \A m \in Name : dir'[m].exists => dir[m].exists
<1>. DEFINE n == job[p].name
            d == [dir[n] EXCEPT !.hidden = @ \ {i}]
<1>1. n \in Name /\ dir[n] \in Dirs /\ Packages!Become(n, d)
    BY HereTyped
<1>2. d \in Dirs /\ d.entry = dir[n].entry /\ d.exists = dir[n].exists
    BY <1>1 DEF Dirs
<1>3. Evolves(p)
    <2>. HIDE DEF n, d
    <2>. QED BY <1>1, <1>2, BecomeEvolves
<1>4. \A m \in Name : dir'[m].exists => dir[m].exists
    BY <1>1, <1>2 DEF Packages!Become, PackageInv, DiskTypes
<1>. QED BY <1>3, <1>4

LEMMA PublishInv ==
    ASSUME PackageInv, NEW p \in Proc, Packages!Publish(p) PROVE PackageInv'
<1>. DEFINE n == job[p].name
            v == job[p].version
            i == job[p].id
            d == [dir[n] EXCEPT !.entry[v] = i, !.hidden = @ \ {i}]
<1>1. /\ step[p] = "publish" /\ kind' = kind /\ files' = files
      /\ synced' = synced /\ doomed' = doomed /\ reported' = reported
      /\ made' = made /\ losses' = losses
    BY DEF Packages!Publish, Packages!ghosts, Packages!counts
<1>2. /\ n \in Name /\ v \in Version /\ dir[n] \in Dirs
      /\ Packages!Here(p) = dir[n] /\ Packages!Found(p) = dir[n].entry[v]
      /\ step[p] \in LockedSteps /\ step[p] \in Named
    BY <1>1, HereTyped DEF Named, Steps, LockedSteps
<1>3. i \in 1..made /\ i \in Id /\ Unpublished(i)
    BY <1>1, Sizes DEF PackageInv, JobTyped, AtWork, Owning, Fresh, CountTypes
<1>4. CASE Packages!Found(p) # Absent
    BY <1>1, <1>2, <1>4, Unhide, ReturnInv DEF Packages!Publish
<1>5. CASE Packages!Found(p) = Absent
    <2>1. /\ Packages!Become(n, d) /\ Packages!Goto(p, "settle")
          /\ job' = job /\ seen' = seen /\ lock' = lock
        BY <1>2, <1>5 DEF Packages!Publish
    <2>2. /\ d \in Dirs /\ d.entry[v] = i /\ d.exists = dir[n].exists
          /\ \A w \in Version \ {v} : d.entry[w] = dir[n].entry[w]
        BY <1>2, <1>3 DEF Dirs
    <2>3. Evolves(p)
        <3>1. \A w \in Version : d.entry[w] = dir[n].entry[w]
                 \/ (w = v /\ d.entry[w] = i /\ dir[n].entry[w] = Absent)
            BY <1>2, <1>5, <2>2
        <3>. HIDE DEF d
        <3>. QED BY <1>1, <1>2, <2>1, <2>2, <3>1, BecomeEvolves
    <2>4. /\ dir'[n] = d /\ \A m \in Name \ {n} : dir'[m] = dir[m]
        BY <1>2, <2>1 DEF Packages!Become, PackageInv, DiskTypes
    <2>5. \A m \in Name : dir'[m].exists => dir[m].exists
        BY <2>2, <2>4
    <2>6. Others(p) /\ Owns(p) /\ LockKept' /\ step'[p] = "settle"
        BY <1>1, <2>1, GotoKeeps DEF Steps, LockedSteps, Owning, Fresh
    <2>7. Counts(p)
        BY <1>1, <2>1, CountsStill DEF PackageInv, CountTypes
    <2>8. JobTyped(p)' /\ Reading(p)'
        BY <1>1, <1>2, <1>3, <2>1, <2>6 DEF PackageInv, JobTyped, Reading
    <2>9. AtWork(p)'
        <3>1. ASSUME NEW m \in Name \ {n}, NEW w \in Version
              PROVE  dir'[m].entry[w] # i
            BY <1>3, <2>4 DEF Unpublished, PackageInv, DiskTypes
        <3>. QED BY <2>1, <2>6, <3>1 DEF AtWork, Fresh
    <2>10. Durable'
        BY <1>1, <2>3, <2>7, DurableKept
    <2>. QED BY <2>3, <2>5, <2>6, <2>7, <2>8, <2>9, <2>10, ActionKeeps
<1>. QED BY <1>4, <1>5

\* A success is reported once no other directory of the name may survive.
LEMMA SettleInv ==
    ASSUME PackageInv, NEW p \in Proc, Packages!Settle(p) PROVE PackageInv'
<1>. DEFINE n == job[p].name
            i == job[p].id
<1>1. /\ step[p] = "settle" /\ Packages!SyncName(n) /\ Packages!Return(p)
      /\ reported' = reported \cup {i} /\ kind' = kind /\ dir' = dir
      /\ files' = files /\ synced' = synced /\ doomed' = doomed
      /\ made' = made /\ losses' = losses
    BY DEF Packages!Settle, Packages!counts
<1>2. n \in Name /\ step[p] \in LockedSteps /\ i \in 1..made
    BY <1>1, HereTyped DEF Named, Steps, LockedSteps, PackageInv, JobTyped,
                           Owning
<1>3. /\ images' \in [Name -> SUBSET Dirs]
      /\ \A d \in images'[n] : d = dir[n] \/ (d \in images[n] /\ ~d.exists)
      /\ dir[n] \in images'[n]
      /\ \A m \in Name \ {n} : images'[m] = images[m]
    BY <1>1, <1>2 DEF Packages!SyncName, PackageInv, DiskTypes
<1>4. Evolves(p)
    <2>1. DiskTypes'
        BY <1>1, <1>3 DEF PackageInv, DiskTypes
    <2>2. \A m \in Name : images'[m] \subseteq images[m] \cup {dir'[m]}
        BY <1>1, <1>3
    <2>. QED BY <1>1, <1>2, <2>1, <2>2 DEF Evolves
<1>5. /\ Others(p) /\ Owns(p) /\ lock' \in Proc \cup {Nobody} /\ LockKept'
      /\ JobTyped(p)' /\ AtWork(p)' /\ Reading(p)'
    BY <1>1, ReturnKeeps
<1>6. Counts(p)
    <2>1. made <= made'
        BY <1>1, Sizes DEF PackageInv, CountTypes
    <2>. QED BY <1>1, <1>2, <1>5, <2>1 DEF PackageInv, Counts, CountTypes
<1>7. Durable'
    <2>. SUFFICES ASSUME NEW m \in Name, NEW v \in Version,
                         dir[m].entry[v] \in reported' \ doomed,
                         NEW d \in images'[m], d.exists
                  PROVE  d.entry[v] = dir[m].entry[v]
        BY <1>1 DEF Durable
    <2>1. CASE m = n
        BY <1>3, <2>1
    <2>2. CASE m # n
        <3>1. dir[m].entry[v] # i
            BY <1>1, <2>2 DEF PackageInv, AtWork
        <3>. QED BY <1>1, <1>3, <2>2, <3>1 DEF PackageInv, Durable
    <2>. QED BY <2>1, <2>2
<1>. QED BY <1>1, <1>4, <1>5, <1>6, <1>7, ActionKeeps

LEMMA IsolateInv ==
    ASSUME PackageInv, NEW p \in Proc, Packages!Isolate(p) PROVE PackageInv'
<1>0. PICK n, v, i : /\ n = job[p].name /\ v = job[p].version
                     /\ i = Packages!Found(p)
    OBVIOUS
<1>. DEFINE d == [dir[n] EXCEPT !.entry[v] = Absent, !.hidden = @ \cup {i}]
<1>1. /\ step[p] = "remove" /\ kind' = kind /\ reported' = reported
      /\ made' = made /\ losses' = losses /\ files' = files /\ synced' = synced
    BY DEF Packages!Isolate, Packages!counts, Packages!disk
<1>2. /\ n \in Name /\ v \in Version /\ dir[n] \in Dirs
      /\ Packages!Here(p) = dir[n] /\ i = dir[n].entry[v]
      /\ i \in Id \cup {Absent}
      /\ step[p] \in LockedSteps /\ step[p] \in Named
    BY <1>0, <1>1, HereTyped DEF Named, Steps, LockedSteps
<1>3. CASE i = Absent
    <2>1. /\ Packages!Return(p) /\ dir' = dir /\ images' = images
          /\ doomed' = doomed
        BY <1>0, <1>3 DEF Packages!Isolate, Packages!disk
    <2>. QED BY <1>1, <2>1, DiskStill, ReturnInv
<1>4. CASE i # Absent
    <2>1. /\ job' = [job EXCEPT ![p].id = i] /\ doomed' = doomed \cup {i}
          /\ Packages!Become(n, d) /\ step' = [step EXCEPT ![p] = "delete"]
          /\ seen' = seen /\ lock' = lock
        BY <1>0, <1>2, <1>4 DEF Packages!Isolate, Packages!Goto
    <2>2. i \in Id /\ i \in 1..made
        BY <1>2, <1>4 DEF PackageInv, DiskTypes, EntriesMade
    <2>3. /\ step' \in [Proc -> Steps] /\ step'[p] = "delete"
          /\ \A q \in Proc \ {p} : step'[q] = step[q]
        BY <2>1 DEF PackageInv, ProcessTypes, Steps, LockedSteps
    <2>4. /\ job' \in [Proc -> Jobs] /\ job'[p].id = i
          /\ job'[p].name = n /\ job'[p].version = v
          /\ \A q \in Proc \ {p} : job'[q] = job[q]
        <3>1. job \in [Proc -> Jobs]
            BY DEF PackageInv, ProcessTypes
        <3>2. [job[p] EXCEPT !.id = i] \in Jobs
            BY <2>2, <3>1 DEF Jobs
        <3>3. job' = [job EXCEPT ![p] = [job[p] EXCEPT !.id = i]]
            BY <2>1
        <3>4. job'[p] = [job[p] EXCEPT !.id = i]
            BY <3>1, <3>3
        <3>. QED BY <1>0, <3>1, <3>2, <3>3, <3>4 DEF Jobs
    <2>5. Others(p)
        BY <2>1, <2>3, <2>4 DEF PackageInv, Others, ProcessTypes
    <2>6. /\ d \in Dirs /\ d.entry[v] = Absent /\ d.exists = dir[n].exists
          /\ \A w \in Version \ {v} : d.entry[w] = dir[n].entry[w]
        BY <1>2, <2>2 DEF Dirs
    <2>7. Evolves(p)
        <3>1. \A w \in Version : d.entry[w] \in {Absent, dir[n].entry[w]}
            BY <2>6
        <3>. HIDE DEF d
        <3>. QED BY <1>2, <2>1, <2>6, <3>1, BecomeEvolves
    <2>8. \A m \in Name : dir'[m].exists => dir[m].exists
        BY <2>1, <2>6 DEF Packages!Become, PackageInv, DiskTypes
    <2>9. Counts(p)
        <3>1. made <= made'
            BY <1>1, Sizes DEF PackageInv, CountTypes
        <3>2. \A k \in doomed' \ doomed :
                 \E m \in Name : \E w \in Version : dir[m].entry[w] = k
            BY <1>2, <2>1
        <3>. QED BY <1>1, <2>1, <2>2, <3>1, <3>2
                 DEF PackageInv, Counts, CountTypes
    <2>10. Durable'
        BY <1>1, <2>7, <2>9, DurableKept
    <2>11. Owns(p)
        BY <2>1, <2>3 DEF Owns, Owning
    <2>12. LockKept'
        BY <1>1, <1>2, <2>1, <2>3, Sizes
        DEF PackageInv, LockKept, LockedSteps, CountTypes
    <2>13. JobTyped(p)' /\ Reading(p)' /\ AtWork(p)'
        <3>1. seen[p] = << >>
            BY <1>1 DEF PackageInv, Reading
        <3>2. i \in 1..made' /\ i \in doomed'
            BY <1>1, <2>1, <2>2
        <3>. QED BY <1>2, <2>1, <2>3, <2>4, <3>1, <3>2
                 DEF JobTyped, Reading, AtWork, Fresh
    <2>. QED BY <2>5, <2>7, <2>8, <2>9, <2>10, <2>11, <2>12, <2>13, ActionKeeps
<1>. QED BY <1>3, <1>4

LEMMA DeleteInv ==
    ASSUME PackageInv, NEW p \in Proc, Packages!Delete(p) PROVE PackageInv'
<1>. DEFINE i == job[p].id
<1>1. /\ step[p] = "delete" /\ kind' = kind /\ job' = job /\ seen' = seen
      /\ lock' = lock /\ synced' = synced /\ doomed' = doomed
      /\ reported' = reported /\ made' = made /\ losses' = losses
    BY DEF Packages!Delete, Packages!ghosts, Packages!counts
<1>2. /\ i \in 1..made /\ i \in Id /\ i \in doomed /\ made <= made'
      /\ files \in [Id -> 0..Files]
    BY <1>1, Sizes DEF PackageInv, JobTyped, AtWork, CountTypes
<1>3. step[p] \in LockedSteps /\ step[p] \in Named
    BY <1>1 DEF Named, Steps, LockedSteps
<1>4. CASE files[i] > 0
    <2>1. /\ files' = [files EXCEPT ![i] = files[i] - 1] /\ step' = step
          /\ dir' = dir /\ images' = images
        BY <1>4 DEF Packages!Delete
    <2>2. files[i] - 1 \in 0..Files
        BY <1>2, <1>4, Sizes
    <2>3. /\ files' \in [Id -> 0..Files]
          /\ \A k \in Id : k # i => files'[k] = files[k]
        BY <1>2, <2>1, <2>2
    <2>4. Counts(p)
        BY <1>1, <1>2, <2>3 DEF PackageInv, Counts, CountTypes
    <2>5. Evolves(p) /\ \A n \in Name : dir'[n].exists => dir[n].exists
        BY <2>1, DiskStill
    <2>6. /\ Others(p) /\ Owns(p) /\ LockKept' /\ JobTyped(p)' /\ Reading(p)'
          /\ AtWork(p)'
        BY <1>1, <2>1 DEF PackageInv, Others, ProcessTypes, Owns, LockKept,
                          JobTyped, Reading, AtWork, Owning, Fresh
    <2>7. Durable'
        BY <1>1, <2>4, <2>5, DurableKept
    <2>. QED BY <2>4, <2>5, <2>6, <2>7, ActionKeeps
<1>5. CASE ~(files[i] > 0)
    <2>1. /\ Packages!Become(job[p].name,
                             [Packages!Here(p) EXCEPT !.hidden = @ \ {i}])
          /\ Packages!Goto(p, "prune") /\ files' = files
        BY <1>5 DEF Packages!Delete
    <2>2. Evolves(p) /\ \A n \in Name : dir'[n].exists => dir[n].exists
        BY <1>3, <2>1, Unhide
    <2>3. Counts(p)
        BY <1>1, <2>1, CountsStill DEF PackageInv, CountTypes
    <2>4. Others(p) /\ Owns(p) /\ LockKept' /\ step'[p] = "prune"
        BY <1>1, <2>1, GotoKeeps DEF Steps, LockedSteps, Owning, Fresh
    <2>5. JobTyped(p)' /\ Reading(p)' /\ AtWork(p)'
        BY <1>1, <1>3, <2>4 DEF PackageInv, JobTyped, Reading, AtWork, Owning,
                                Fresh
    <2>6. Durable'
        BY <1>1, <2>2, <2>3, DurableKept
    <2>. QED BY <2>2, <2>3, <2>4, <2>5, <2>6, ActionKeeps
<1>. QED BY <1>4, <1>5

LEMMA PruneInv ==
    ASSUME PackageInv, NEW p \in Proc, Packages!Prune(p) PROVE PackageInv'
<1>1. /\ step[p] = "prune" /\ kind' = kind /\ job' = job /\ seen' = seen
      /\ lock' = lock /\ files' = files /\ synced' = synced /\ doomed' = doomed
      /\ reported' = reported /\ made' = made /\ losses' = losses
      /\ Packages!Goto(p, "removed")
    BY DEF Packages!Prune, Packages!ghosts, Packages!counts
<1>2. /\ step[p] \in LockedSteps /\ step[p] \in Named /\ job[p].name \in Name
    BY <1>1, HereTyped DEF Named, Steps, LockedSteps
<1>3. Evolves(p) /\ \A n \in Name : dir'[n].exists => dir[n].exists
    <2>1. CASE dir' = dir /\ images' = images
        BY <2>1, DiskStill
    <2>2. CASE Packages!Become(job[p].name, Packages!NoDir)
        <3>1. Evolves(p)
            BY <1>2, <2>2, BareDirectory, BecomeEvolves
        <3>2. \A n \in Name : dir'[n].exists => dir[n].exists
            BY <2>2, BareDirectory DEF Packages!Become, PackageInv, DiskTypes
        <3>. QED BY <3>1, <3>2
    <2>. QED BY <2>1, <2>2 DEF Packages!Prune
<1>4. Counts(p)
    BY <1>1, CountsStill DEF PackageInv, CountTypes
<1>5. Others(p) /\ Owns(p) /\ LockKept' /\ step'[p] = "removed"
    BY <1>1, GotoKeeps DEF Steps, LockedSteps, Owning, Fresh
<1>6. JobTyped(p)' /\ Reading(p)' /\ AtWork(p)'
    BY <1>1, <1>2, <1>5 DEF PackageInv, JobTyped, Reading, AtWork, Owning, Fresh
<1>7. Durable'
    BY <1>1, <1>3, <1>4, DurableKept
<1>. QED BY <1>3, <1>4, <1>5, <1>6, <1>7, ActionKeeps

LEMMA FinishRemovalInv ==
    ASSUME PackageInv, NEW p \in Proc, Packages!FinishRemoval(p)
    PROVE  PackageInv'
<1>1. /\ step[p] = "removed" /\ Packages!SyncStore /\ Packages!Return(p)
      /\ kind' = kind /\ dir' = dir /\ files' = files /\ synced' = synced
      /\ doomed' = doomed /\ reported' = reported /\ made' = made
      /\ losses' = losses
    BY DEF Packages!FinishRemoval, Packages!ghosts, Packages!counts
<1>2. /\ images' \in [Name -> SUBSET Dirs]
      /\ \A n \in Name : images'[n] \subseteq images[n] /\ dir[n] \in images'[n]
    BY <1>1 DEF Packages!SyncStore, PackageInv, DiskTypes
<1>3. Evolves(p) /\ \A n \in Name : dir'[n].exists => dir[n].exists
    <2>1. DiskTypes'
        BY <1>1, <1>2 DEF PackageInv, DiskTypes
    <2>. QED BY <1>1, <1>2, <2>1 DEF Evolves, LockedSteps
<1>. QED BY <1>1, <1>3, ReturnInv

LEMMA LookInv ==
    ASSUME PackageInv, NEW p \in Proc, Packages!Look(p) PROVE PackageInv'
<1>1. /\ step[p] = "verify" /\ kind' = kind /\ dir' = dir /\ images' = images
      /\ files' = files /\ synced' = synced /\ doomed' = doomed
      /\ reported' = reported /\ made' = made /\ losses' = losses
    BY DEF Packages!Look, Packages!ghosts, Packages!counts, Packages!disk
<1>2. Evolves(p) /\ \A n \in Name : dir'[n].exists => dir[n].exists
    BY <1>1, DiskStill
<1>3. CASE Packages!Return(p)
    BY <1>1, <1>2, <1>3, ReturnInv
<1>4. CASE ~Packages!Return(p)
    <2>0. PICK i : i = Packages!Found(p)
        OBVIOUS
    <2>1. /\ seen' = [seen EXCEPT ![p] = Append(seen[p], i)]
          /\ step' = step /\ job' = job /\ lock' = lock /\ i # Absent
        BY <1>4, <2>0 DEF Packages!Look, Packages!Opened,
                    Packages!ManifestRead, Packages!PackageRead
    <2>2. /\ job[p].name \in Name /\ job[p].version \in Version
          /\ i = dir[job[p].name].entry[job[p].version] /\ i \in Id
        BY <1>1, <2>0, <2>1, HereTyped DEF Named, Steps, LockedSteps
    <2>3. i \in 1..made
        BY <2>1, <2>2 DEF PackageInv, DiskTypes, EntriesMade
    <2>4. seen[p] \in Seq(Id) /\ seen \in [Proc -> Seq(Id)]
        BY DEF PackageInv, ProcessTypes
    <2>5. /\ seen' \in [Proc -> Seq(Id)] /\ seen'[p] = Append(seen[p], i)
          /\ \A q \in Proc \ {p} : seen'[q] = seen[q]
        BY <2>1, <2>2, <2>4
    <2>6. \A k \in DOMAIN seen'[p] :
             \/ k \in DOMAIN seen[p] /\ seen'[p][k] = seen[p][k]
             \/ seen'[p][k] = i
        BY <2>2, <2>4, <2>5
    <2>7. Others(p)
        BY <2>1, <2>5 DEF PackageInv, Others, ProcessTypes
    <2>8. Counts(p)
        BY <1>1, <2>1, CountsStill DEF PackageInv, CountTypes
    <2>9. Owns(p)
        BY <1>1, <2>1, <2>2, <2>6 DEF Owns, Owning
    <2>10. LockKept' /\ JobTyped(p)' /\ AtWork(p)'
        BY <1>1, <2>1 DEF PackageInv, LockKept, JobTyped, AtWork, Fresh, Owning
    <2>11. Reading(p)'
        <3>1. 1 \in DOMAIN seen[p] => seen'[p][1] = seen[p][1]
            BY <2>2, <2>4, <2>5
        <3>2. 1 \notin DOMAIN seen[p] => DOMAIN seen[p] = {}
            BY <2>4
        <3>3. 1 \notin DOMAIN seen[p] => seen'[p][1] = i
            BY <2>2, <2>4, <2>5
        <3>4. ASSUME NEW k \in DOMAIN seen'[p], seen'[p][k] # seen'[p][1]
              PROVE  i # seen'[p][1]
            <4>1. CASE seen'[p][k] = i
                BY <3>4, <4>1
            <4>2. CASE k \in DOMAIN seen[p] /\ seen'[p][k] = seen[p][k]
                <5>1. 1 \in DOMAIN seen[p]
                    BY <3>2, <4>2
                <5>. QED BY <1>1, <2>2, <3>1, <3>4, <4>2, <5>1
                         DEF PackageInv, Reading
            <4>. QED BY <2>6, <4>1, <4>2
        <3>5. \A k \in DOMAIN seen'[p] : seen'[p][k] \in 1..made
            BY <2>3, <2>6 DEF PackageInv, Reading
        <3>. QED BY <1>1, <2>1, <2>2, <3>4, <3>5 DEF Reading
    <2>12. Durable'
        BY <1>1, <1>2, <2>8, DurableKept
    <2>. QED BY <1>2, <2>7, <2>8, <2>9, <2>10, <2>11, <2>12, ActionKeeps
<1>. QED BY <1>3, <1>4

\* The end of a verification, and the list.
LEMMA VerifyInv ==
    ASSUME PackageInv, NEW p \in Proc, Packages!Verify(p) \/ Packages!List(p)
    PROVE  PackageInv'
<1>1. /\ step[p] \in {"verify", "list"} /\ kind' = kind /\ dir' = dir
      /\ images' = images /\ files' = files /\ synced' = synced
      /\ doomed' = doomed /\ reported' = reported /\ made' = made
      /\ losses' = losses
    BY DEF Packages!Verify, Packages!List, Packages!ghosts, Packages!counts,
           Packages!disk
<1>2. Evolves(p) /\ \A n \in Name : dir'[n].exists => dir[n].exists
    BY <1>1, DiskStill
<1>3. CASE Packages!Return(p)
    BY <1>1, <1>2, <1>3, ReturnInv
<1>4. CASE ~Packages!Return(p)
    <2>1. /\ job' = job /\ seen' = seen /\ lock' = lock
          /\ \/ /\ step[p] = "verify" /\ Packages!Goto(p, "verified")
                /\ Packages!Found(p) = seen[p][1]
             \/ step[p] = "list" /\ Packages!Goto(p, "listed")
        BY <1>4 DEF Packages!Verify, Packages!List, Packages!Confirm
    <2>2. /\ Others(p) /\ Owns(p) /\ LockKept'
          /\ step'[p] = IF step[p] = "verify" THEN "verified" ELSE "listed"
        BY <1>1, <2>1, GotoKeeps DEF Steps, LockedSteps, Owning, Fresh
    <2>3. Counts(p)
        BY <1>1, <2>1, CountsStill DEF PackageInv, CountTypes
    <2>4. JobTyped(p)' /\ AtWork(p)'
        BY <2>1, <2>2 DEF PackageInv, JobTyped, AtWork, Named, Steps,
                          LockedSteps, Owning, Fresh
    <2>5. Reading(p)'
        <3>1. CASE step[p] = "verify"
            <4>1. Packages!Found(p) = dir[job[p].name].entry[job[p].version]
                BY <3>1, HereTyped DEF Named, Steps, LockedSteps
            <4>2. \A k \in DOMAIN seen[p] : seen[p][k] = seen[p][1]
                BY <2>1, <3>1, <4>1 DEF PackageInv, Reading
            <4>. QED BY <1>1, <2>1, <2>2, <3>1, <4>2 DEF PackageInv, Reading
        <3>2. CASE step[p] = "list"
            BY <1>1, <2>1, <2>2, <3>2 DEF PackageInv, Reading
        <3>. QED BY <1>1, <3>1, <3>2
    <2>6. Durable'
        BY <1>1, <1>2, <2>3, DurableKept
    <2>. QED BY <1>2, <2>2, <2>3, <2>4, <2>5, <2>6, ActionKeeps
<1>. QED BY <1>3, <1>4

\* A report, an error, a kill.
LEMMA EndInv ==
    ASSUME PackageInv, NEW p \in Proc,
           Packages!Report(p) \/ Packages!Fail(p) \/ Packages!Kill(p)
    PROVE  PackageInv'
<1>1. /\ Packages!Return(p) /\ kind' = kind /\ files' = files
      /\ synced' = synced /\ doomed' = doomed /\ reported' = reported
      /\ made' = made /\ losses' = losses
    BY DEF Packages!Report, Packages!Fail, Packages!Kill, Packages!ghosts,
           Packages!counts, Packages!disk
<1>2. Evolves(p) /\ \A n \in Name : dir'[n].exists => dir[n].exists
    <2>1. CASE dir' = dir /\ images' = images
        BY <2>1, DiskStill
    <2>2. CASE ~(dir' = dir /\ images' = images)
        <3>1. /\ step[p] \in {"write", "publish"}
              /\ Packages!Become(job[p].name,
                     [Packages!Here(p) EXCEPT !.hidden = @ \ {job[p].id}])
            BY <2>2 DEF Packages!Report, Packages!Fail, Packages!Kill,
                        Packages!disk
        <3>2. step[p] \in Named /\ step[p] \in LockedSteps
            BY <3>1 DEF Named, Steps, LockedSteps
        <3>. QED BY <3>1, <3>2, Unhide
    <2>. QED BY <2>1, <2>2
<1>. QED BY <1>1, <1>2, ReturnInv

\* What a power loss leaves satisfies what every image did.
LEMMA PowerLossInv ==
    ASSUME PackageInv, Packages!PowerLoss PROVE PackageInv'
<1>1. /\ step' = [p \in Proc |-> "idle"]
      /\ job' = [p \in Proc |-> Packages!Idle]
      /\ seen' = [p \in Proc |-> << >>] /\ lock' = Nobody
      /\ losses' = losses + 1 /\ kind' = kind /\ synced' = synced
      /\ doomed' = doomed /\ reported' = reported /\ made' = made
      /\ images' = [n \in Name |-> {dir'[n]}]
    BY DEF Packages!PowerLoss, Packages!ghosts
<1>2. /\ dir' \in [Name -> Dirs] /\ \A n \in Name : dir'[n] \in images[n]
    BY DEF Packages!PowerLoss, PackageInv, DiskTypes
<1>3. /\ files' \in [Id -> 0..Files]
      /\ \A i \in Id : i \in synced => files'[i] = files[i]
    <2>1. CASE files' = files
        BY <2>1 DEF PackageInv, CountTypes
    <2>2. CASE files' = [i \in Id |-> IF i \in synced THEN files[i] ELSE 0]
        BY <2>2, Sizes DEF PackageInv, CountTypes
    <2>. QED BY <2>1, <2>2 DEF Packages!PowerLoss, Id
<1>4. ProcessTypes'
    <2>1. Packages!Idle \in Jobs /\ << >> \in Seq(Id) /\ "idle" \in Steps
        BY DEF Packages!Idle, Jobs, Steps
    <2>. QED BY <1>1, <2>1 DEF ProcessTypes
<1>5. DiskTypes'
    BY <1>1, <1>2 DEF DiskTypes
<1>6. CountTypes'
    BY <1>1, <1>3 DEF PackageInv, CountTypes
<1>7. EntriesMade'
    BY <1>1, <1>2 DEF PackageInv, EntriesMade
<1>8. LockKept' /\ Distinct'
    BY <1>1 DEF LockKept, Distinct, LockedSteps, Owning, Fresh
<1>9. ASSUME NEW p \in Proc PROVE JobTyped(p)' /\ AtWork(p)' /\ Reading(p)'
    BY <1>1 DEF JobTyped, AtWork, Reading, Named, Owning, Fresh
<1>10. Whole'
    <2>. SUFFICES ASSUME NEW n \in Name, NEW v \in Version,
                         dir'[n].entry[v] # Absent,
                         dir'[n].entry[v] \notin doomed
                  PROVE  /\ dir'[n].entry[v] \in synced
                         /\ files'[dir'[n].entry[v]] = Files
        BY <1>1 DEF Whole, Packages!InstallationsWhole
    <2>1. /\ dir'[n].entry[v] \in synced /\ files[dir'[n].entry[v]] = Files
        BY <1>2 DEF PackageInv, Whole, Packages!InstallationsWhole
    <2>2. dir'[n].entry[v] \in Id
        <3>1. synced \subseteq Id
            BY Sizes DEF PackageInv, CountTypes
        <3>. QED BY <2>1, <3>1
    <2>. QED BY <1>3, <2>1, <2>2
<1>11. Bounded'
    <2>1. losses' # 0
        BY <1>1 DEF PackageInv, CountTypes
    <2>2. kind = "profile" => \A n \in Name :
             Cardinality(Versions(dir'[n])) <= MaxVersions
        BY <1>2 DEF PackageInv, Bounded
    <2>. QED BY <1>1, <2>1, <2>2 DEF Bounded, Versions
<1>12. Durable'
    BY <1>1 DEF Durable
<1>. QED BY <1>4, <1>5, <1>6, <1>7, <1>8, <1>9, <1>10, <1>11, <1>12
         DEF PackageInv

-----------------------------------------------------------------------------
(* The theorems about the package stores.                                  *)

LEMMA PackageInit == StateInit => PackageInv
<1>. SUFFICES ASSUME Packages!Init PROVE PackageInv
    BY DEF StateInit
<1>1. Packages!Idle \in Jobs /\ << >> \in Seq(Id) /\ "idle" \in Steps
    BY DEF Packages!Idle, Jobs, Steps
<1>2. ProcessTypes /\ DiskTypes
    BY <1>1, BareDirectory DEF Packages!Init, ProcessTypes, DiskTypes
<1>3. CountTypes
    BY Sizes DEF Packages!Init, CountTypes, Id
<1>4. EntriesMade
    BY BareDirectory DEF Packages!Init, EntriesMade
<1>5. LockKept /\ Distinct
    BY DEF Packages!Init, LockKept, Distinct, LockedSteps, Owning, Fresh
<1>6. ASSUME NEW p \in Proc PROVE JobTyped(p) /\ AtWork(p) /\ Reading(p)
    BY DEF Packages!Init, JobTyped, AtWork, Reading, Named, Owning, Fresh
<1>7. Whole /\ Durable
    BY BareDirectory DEF Packages!Init, Whole, Packages!InstallationsWhole,
                         Durable
<1>8. Bounded
    <2>1. Versions(Packages!NoDir) = {}
        BY BareDirectory DEF Versions
    <2>2. {n \in Name : dir[n].exists} = {}
        BY BareDirectory DEF Packages!Init
    <2>3. Cardinality({}) = 0
        BY FS_EmptySet
    <2>4. \A n \in Name : \A d \in images[n] : Versions(d) = {}
        BY <2>1 DEF Packages!Init
    <2>5. \A n \in Name : \A d \in images[n] :
             Cardinality(Versions(d)) <= MaxVersions
        BY <2>3, <2>4, Sizes
    <2>6. Cardinality({n \in Name : dir[n].exists}) <= MaxNames
        <3>1. Cardinality({n \in Name : dir[n].exists}) = 0
            BY ONLY <2>2, <2>3, Zenon
        <3>. QED BY <3>1, Sizes
    <2>. QED BY <2>5, <2>6 DEF Bounded
<1>. QED BY <1>2, <1>3, <1>4, <1>5, <1>6, <1>7, <1>8 DEF PackageInv

LEMMA PackageStep == PackageInv /\ [StateNext]_everything => PackageInv'
<1>. SUFFICES ASSUME PackageInv, [StateNext]_everything PROVE PackageInv'
    OBVIOUS
<1>1. CASE UNCHANGED packages
    <2>1. /\ ProcessTypes' /\ DiskTypes' /\ CountTypes' /\ EntriesMade'
          /\ LockKept' /\ Distinct' /\ Whole' /\ Bounded' /\ Durable'
        BY <1>1 DEF packages, PackageInv, ProcessTypes, DiskTypes, CountTypes,
           EntriesMade, LockKept, Distinct, Whole,
           Packages!InstallationsWhole, Bounded, Durable
    <2>2. ASSUME NEW p \in Proc PROVE JobTyped(p)' /\ Reading(p)'
        BY <1>1 DEF packages, PackageInv, JobTyped, Reading
    <2>3. ASSUME NEW p \in Proc PROVE AtWork(p)'
        <3>1. AtWork(p)
            BY DEF PackageInv
        <3>. QED BY <1>1, <3>1 DEF packages, AtWork, Unpublished, Versions
    <2>. QED BY <2>1, <2>2, <2>3 DEF PackageInv
<1>2. CASE Packages!Next
    <2>1. ASSUME NEW p \in Proc,
                 \/ \E op \in {"install", "remove", "verify"}, n \in Name,
                       v \in Version : Packages!Begin(p, op, n, v)
                 \/ Packages!Begin(p, "list", Absent, Absent)
          PROVE  PackageInv'
        BY <2>1, BeginInv
    <2>. QED BY <1>2, <2>1, MakeNameInv, MakeTempInv, WriteInv, SyncTempInv,
                PublishInv, SettleInv, IsolateInv, DeleteInv, PruneInv,
                FinishRemovalInv, LookInv, VerifyInv, EndInv, PowerLossInv
             DEF Packages!Next
<1>. QED BY <1>1, <1>2 DEF StateNext, everything

LEMMA PackageInvariant == StateSpec => []PackageInv
BY PackageInit, PackageStep, PTL DEF StateSpec

\* What stands at an installed path is whole, also after a power loss at any
\* moment, the profile store keeps its limits, and a verification that
\* succeeded has read one installation from beginning to end.
THEOREM InstalledPackagesSafe == StateSpec => []InstallationsSafe
<1>1. PackageInv => InstallationsSafe
    <2>. SUFFICES ASSUME PackageInv PROVE InstallationsSafe OBVIOUS
    <2>1. Packages!LimitsHold
        <3>1. \A n \in Name : Packages!Installed(n) = Versions(dir[n])
            BY DEF Packages!Installed, Versions
        <3>. QED BY <3>1, PackageCardinality
                 DEF PackageInv, Bounded, DiskTypes, Packages!LimitsHold
    <2>2. Packages!VerifiedIsOpened
        BY DEF PackageInv, Reading, Packages!VerifiedIsOpened
    <2>. QED BY <2>1, <2>2 DEF PackageInv, Whole, InstallationsSafe,
                               Packages!InstallationsSafe
<1>. QED BY <1>1, PackageInvariant, PTL

\* A power loss leaves what was reported, and no other step puts one
\* installation in the place of another.
LEMMA PackageStepKeeps ==
    ASSUME PackageInv, [StateNext]_everything
    PROVE  /\ losses' # losses =>
                \A n \in Name, v \in Version :
                    dir[n].entry[v] \in reported \ doomed /\ dir'[n].exists
                        => dir'[n].entry[v] = dir[n].entry[v]
           /\ losses' = losses =>
                \A n \in Name, v \in Version :
                    dir[n].entry[v] # Absent
                        => dir'[n].entry[v] \in {Absent, dir[n].entry[v]}
<1>1. ASSUME losses' # losses, NEW n \in Name, NEW v \in Version,
             dir[n].entry[v] \in reported \ doomed, dir'[n].exists
      PROVE  dir'[n].entry[v] = dir[n].entry[v]
    <2>1. Packages!PowerLoss
        BY <1>1 DEF StateNext, everything, packages, Packages!Next,
           Packages!Begin, Packages!MakeName, Packages!MakeTemp,
           Packages!Write, Packages!SyncTemp, Packages!Publish,
           Packages!Settle, Packages!Isolate, Packages!Delete,
           Packages!Prune, Packages!FinishRemoval, Packages!Look,
           Packages!Verify, Packages!List, Packages!Report, Packages!Fail,
           Packages!Kill, Packages!counts
    <2>2. dir'[n] \in images[n]
        BY <2>1 DEF Packages!PowerLoss
    <2>. QED BY <1>1, <2>2 DEF PackageInv, Durable
<1>2. ASSUME losses' = losses, NEW n \in Name, NEW v \in Version,
             dir[n].entry[v] # Absent
      PROVE  dir'[n].entry[v] \in {Absent, dir[n].entry[v]}
    <2>1. ~Packages!PowerLoss
        BY <1>2 DEF Packages!PowerLoss, PackageInv, CountTypes
    <2>2. dir \in [Name -> Dirs]
        BY DEF PackageInv, DiskTypes
    <2>3. ASSUME NEW p \in Proc, NEW d, Packages!Become(job[p].name, d),
                 job[p].name = n =>
                     d.entry[v] \in {Absent, Packages!Here(p).entry[v]}
          PROVE  dir'[n].entry[v] \in {Absent, dir[n].entry[v]}
        BY <2>2, <2>3 DEF Packages!Become, Packages!Here
    <2>4. CASE dir' = dir
        BY <2>4
    <2>5. CASE dir' # dir
        <3>1. PICK p \in Proc :
                  \/ Packages!MakeName(p) \/ Packages!MakeTemp(p)
                  \/ Packages!Publish(p) \/ Packages!Isolate(p)
                  \/ Packages!Delete(p) \/ Packages!Prune(p)
                  \/ Packages!Fail(p)
            BY <2>1, <2>5 DEF StateNext, everything, packages, Packages!Next,
               Packages!Begin, Packages!Write, Packages!SyncTemp,
               Packages!Settle, Packages!FinishRemoval, Packages!Look,
               Packages!Verify, Packages!List, Packages!Report,
               Packages!Kill, Packages!disk
        <3>2. JobTyped(p)
            BY DEF PackageInv
        <3>3. job[p].name \in Name => Packages!Here(p) \in Dirs
            BY <2>2 DEF Packages!Here
        <3>4. CASE Packages!MakeName(p)
            BY <2>3, <2>5, <3>4, BareDirectory
               DEF Packages!MakeName, Packages!NoDir, Packages!disk
        <3>5. CASE Packages!MakeTemp(p)
            BY <2>3, <2>5, <3>3, <3>5
               DEF Packages!MakeTemp, Packages!disk, Dirs
        <3>6. CASE Packages!Publish(p)
            <4>1. CASE Packages!Found(p) = Absent
                <5>1. ~(job[p].name = n /\ job[p].version = v)
                    BY <1>2, <4>1 DEF Packages!Found, Packages!Here
                <5>. QED BY <2>3, <3>3, <3>6, <4>1, <5>1
                         DEF Packages!Publish, Dirs
            <4>2. CASE Packages!Found(p) # Absent
                BY <2>3, <3>3, <3>6, <4>2 DEF Packages!Publish, Dirs
            <4>. QED BY <4>1, <4>2
        <3>7. CASE Packages!Isolate(p)
            BY <2>3, <2>5, <3>3, <3>7
               DEF Packages!Isolate, Packages!disk, Dirs
        <3>8. CASE Packages!Delete(p)
            BY <2>3, <2>5, <3>3, <3>8 DEF Packages!Delete, Dirs
        <3>9. CASE Packages!Prune(p)
            BY <2>3, <2>5, <3>9 DEF Packages!Prune, Packages!NoDir
        <3>10. CASE Packages!Fail(p)
            BY <2>3, <2>5, <3>3, <3>10 DEF Packages!Fail, Dirs
        <3>. QED BY <3>1, <3>4, <3>5, <3>6, <3>7, <3>8, <3>9, <3>10
    <2>. QED BY <2>4, <2>5
<1>. QED BY <1>1, <1>2

\* A power loss leaves every installation that was reported, or takes the
\* directory of its name, and nothing else puts another installation in the
\* place of one.
THEOREM PublicationsAreKept == StateSpec => PublicationKept
<1>1. PackageInv /\ [StateNext]_everything =>
        /\ [losses' # losses =>
              \A n \in Name, v \in Version :
                 dir[n].entry[v] \in reported \ doomed /\ dir'[n].exists
                     => dir'[n].entry[v] = dir[n].entry[v]]_Packages!vars
        /\ [losses' = losses =>
              \A n \in Name, v \in Version :
                 dir[n].entry[v] # Absent
                     => dir'[n].entry[v]
                            \in {Absent, dir[n].entry[v]}]_Packages!vars
    BY PackageStepKeeps
<1>. QED BY <1>1, PackageInvariant, PTL
         DEF StateSpec, PublicationKept, Packages!PublicationKept,
             Packages!ReportedDurable, Packages!NoOverwrite

-----------------------------------------------------------------------------
(* The removal: the inductive invariant.                                   *)

Root  == Removal!Root
Roots == Removal!Roots
Inode == Removal!Inode

Early     == {"idle", "plan", "check", "validate", "lock"}
Isolating == {"rename", "inspect", "rollback"}
Removed   == {"delete", "removed", "killed"}
Phases == Early \cup Isolating \cup Removed
              \cup {"refused", "rolled back", "incomplete"}
Moved  == {<< >>, <<"data">>, <<"config">>, <<"data", "config">>}
In(m)  == {m[k] : k \in DOMAIN m}

RemoverTypes ==
    /\ phase \in [Remover -> Phases] /\ next \in [Remover -> {1, 2}]
    /\ held \in [Remover -> [Root -> Inode \cup {Absent}]]
    /\ moved \in [Remover -> Moved]
    /\ early \in [Remover -> SUBSET Run] /\ running \subseteq Run

PlaceTypes ==
    /\ inodes \in 2..MaxInodes
    /\ path \in [Root -> 1..inodes \cup {Absent}]
    /\ tomb \subseteq Remover \X Root \X (1..inodes)
    /\ deleted \subseteq 1..inodes /\ lockfile \subseteq 1..inodes

\* A directory is in one place, and a root has one tombstone of a process.
OnePlace ==
    /\ \A r, q \in Root : path[r] = path[q] /\ path[r] # Absent => r = q
    /\ \A u \in Remover : \A r, q \in Root : <<u, r, path[q]>> \notin tomb
    /\ \A u, v \in Remover : \A r, q \in Root : \A i, j \in Inode :
          /\ <<u, r, i>> \in tomb /\ <<v, q, j>> \in tomb
          /\ i = j \/ (u = v /\ r = q)
          => u = v /\ r = q /\ i = j

\* How far a process is: what it has isolated is what it had opened, and no
\* tombstone of it is overlooked.
Progress(u) ==
    /\ phase[u] \in Early => moved[u] = << >>
    /\ phase[u] \in Isolating =>
          moved[u] = << >> \/ (next[u] = 2 /\ moved[u] = <<"data">>)
    /\ phase[u] \in Early \cup Isolating =>
          \A r \in Root : \A i \in Inode : <<u, r, i>> \in tomb =>
              \/ r \in In(moved[u])
              \/ phase[u] \in {"inspect", "rollback"} /\ r = Roots[next[u]]
    /\ phase[u] \in Isolating \cup {"delete"} =>
          \A r \in In(moved[u]) : <<u, r, held[u][r]>> \in tomb
    /\ phase[u] = "inspect" =>
          \E i \in Inode : <<u, Roots[next[u]], i>> \in tomb

\* Nothing is lost.
Accounted ==
    \A i \in 1..inodes :
        \/ i \in deleted
        \/ \E r \in Root : path[r] = i
        \/ \E u \in Remover : \E r \in Root : <<u, r, i>> \in tomb

DeletedWasHeld ==
    \A i \in deleted : \E u \in Remover :
        phase[u] \in Removed /\ \E r \in Root : held[u][r] = i

\* A process that saw a session goes no further.
SawNobody ==
    /\ \A u \in Remover : early[u] # {} => phase[u] = "refused"
    /\ \A w \in harmed : w[1] \in Remover /\ phase[w[1]] \in Removed

RemovalInv ==
    /\ RemoverTypes /\ PlaceTypes /\ OnePlace
    /\ \A u \in Remover : Progress(u)
    /\ Accounted /\ DeletedWasHeld /\ SawNobody

LEMMA RemovalSizes ==
    /\ MaxInodes \in Nat /\ 2 <= MaxInodes /\ Inode = 1..MaxInodes
    /\ Absent \notin Inode
    /\ Root = {"data", "config"} /\ Roots[1] = "data" /\ Roots[2] = "config"
    /\ Len(Roots) = 2 /\ Removal!Len(Roots) = 2
<1>1. DOMAIN Roots = {1, 2}
    BY DEF Roots, Removal!Roots
<1>. QED BY <1>1, RemovalAssumption
         DEF Root, Roots, Inode, Removal!Root, Removal!Roots, Removal!Inode

LEMMA MovedFacts ==
    /\ In(<< >>) = {} /\ In(<<"data">>) = {"data"}
    /\ In(<<"config">>) = {"config"}
    /\ In(<<"data", "config">>) = {"data", "config"}
BY DEF In

LEMMA MovedSteps ==
    ASSUME NEW S, NEW q \in S, NEW r \in S
    PROVE  /\ Append(<< >>, r) = <<r>> /\ Append(<<q>>, r) = <<q, r>>
           /\ SubSeq(<<r>>, 1, Len(<<r>>) - 1) = << >>
           /\ Tail(<<r>>) = << >> /\ Tail(<<q, r>>) = <<r>>
           /\ Head(<<r>>) = r /\ Head(<<q, r>>) = q
           /\ <<r>>[Len(<<r>>)] = r
<1>1. Append(<< >>, r) = <<r>> /\ <<r>> \in Seq(S)
    OBVIOUS
<1>2. Append(<<q>>, r) = <<q, r>>
    <2>1. /\ Len(<<q, r>>) = 2 /\ <<q, r>>[1] = q /\ <<q, r>>[2] = r
          /\ <<q, r>> \in Seq(S) /\ <<q>> \in Seq(S) /\ Len(<<q>>) = 1
        OBVIOUS
    <2>2. /\ Len(Append(<<q>>, r)) = 2 /\ Append(<<q>>, r)[1] = q
          /\ Append(<<q>>, r)[2] = r /\ Append(<<q>>, r) \in Seq(S)
        BY <2>1, AppendProperties
    <2>3. \A k \in 1..2 : Append(<<q>>, r)[k] = <<q, r>>[k]
        BY <2>1, <2>2
    <2>4. PICK s \in Seq(S) : s = Append(<<q>>, r)
        BY <2>2
    <2>5. PICK t \in Seq(S) : t = <<q, r>>
        BY <2>1
    <2>6. Len(s) = Len(t) /\ \A k \in 1..Len(s) : s[k] = t[k]
        BY <2>1, <2>2, <2>3, <2>4, <2>5
    <2>7. s = t
        BY <2>6, SeqEqual
    <2>. QED BY <2>4, <2>5, <2>7
<1>3. Len(<<r>>) = 1 /\ <<r>>[1] = r
    OBVIOUS
<1>4. SubSeq(<<r>>, 1, 0) = << >>
    BY <1>1
<1>5. Tail(<<r>>) = << >>
    OBVIOUS
<1>6. Tail(<<q, r>>) = <<r>>
    OBVIOUS
<1>7. Head(<<r>>) = r /\ Head(<<q, r>>) = q
    OBVIOUS
<1>. QED BY <1>1, <1>2, <1>3, <1>4, <1>5, <1>6, <1>7

-----------------------------------------------------------------------------
(* Steps of the removal.                                                   *)

\* Only process u moves, and only its own tombstones change.
Alone(u) ==
    /\ RemoverTypes'
    /\ \A v \in Remover \ {u} :
          /\ phase'[v] = phase[v] /\ next'[v] = next[v] /\ held'[v] = held[v]
          /\ moved'[v] = moved[v] /\ early'[v] = early[v]
          /\ \A r \in Root : \A i \in Inode :
                <<v, r, i>> \in tomb' <=> <<v, r, i>> \in tomb

LEMMA OthersProgress ==
    ASSUME RemovalInv, NEW u \in Remover, Alone(u), NEW v \in Remover \ {u}
    PROVE  Progress(v)'
<1>1. Progress(v)
    BY DEF RemovalInv
<1>2. ASSUME NEW r \in Root, NEW x
      PROVE  <<v, r, x>> \in tomb => <<v, r, x>> \in tomb'
    BY RemovalSizes DEF RemovalInv, PlaceTypes, Alone
<1>3. In(moved[v]) \subseteq Root
    BY MovedFacts, RemovalSizes DEF RemovalInv, RemoverTypes, Moved
<1>4. /\ phase'[v] = phase[v] /\ next'[v] = next[v] /\ held'[v] = held[v]
      /\ moved'[v] = moved[v] /\ Roots' = Roots
    BY DEF Alone
<1>5. \A r \in Root : \A i \in Inode :
        <<v, r, i>> \in tomb' <=> <<v, r, i>> \in tomb
    BY DEF Alone
<1>6. phase[v] \in Isolating \cup {"delete"} =>
        \A r \in In(moved[v]) : <<v, r, held[v][r]>> \in tomb'
    BY <1>1, <1>2, <1>3 DEF Progress
<1>7. phase[v] = "inspect" =>
        \E i \in Inode : <<v, Roots[next[v]], i>> \in tomb'
    <2>1. Roots[next[v]] \in Root
        BY RemovalSizes DEF RemovalInv, RemoverTypes
    <2>. QED BY <1>1, <1>5, <2>1 DEF Progress
<1>. QED BY <1>1, <1>4, <1>5, <1>6, <1>7 DEF Progress

\* What is deleted, harmed and seen, when a process that is not yet deleting
\* moves on and deletes nothing.
LEMMA PastKept ==
    ASSUME RemovalInv, NEW u \in Remover, Alone(u), deleted' = deleted,
           harmed' = harmed, phase[u] \notin Removed \/ held'[u] = held[u],
           phase[u] \in Removed => phase'[u] \in Removed,
           early'[u] # {} => phase'[u] = "refused"
    PROVE  DeletedWasHeld' /\ SawNobody'
<1>1. ASSUME NEW v \in Remover, phase[v] \in Removed
      PROVE  phase'[v] \in Removed /\ held'[v] = held[v]
    BY <1>1 DEF Alone
<1>2. DeletedWasHeld'
    BY <1>1 DEF RemovalInv, DeletedWasHeld
<1>3. \A w \in harmed' : w[1] \in Remover /\ phase'[w[1]] \in Removed
    BY <1>1 DEF RemovalInv, SawNobody
<1>4. \A v \in Remover : early'[v] # {} => phase'[v] = "refused"
    BY DEF Alone, RemovalInv, SawNobody
<1>. QED BY <1>2, <1>3, <1>4 DEF SawNobody

\* A step that leaves the directories where they are.
Still == path' = path /\ tomb' = tomb /\ inodes' = inodes

LEMMA StillPlaces ==
    ASSUME RemovalInv, Still, deleted' = deleted,
           lockfile' \subseteq 1..inodes
    PROVE  PlaceTypes' /\ OnePlace' /\ Accounted'
<1>1. PlaceTypes'
    BY DEF RemovalInv, Still, PlaceTypes
<1>2. OnePlace'
    BY DEF RemovalInv, Still, OnePlace
<1>3. Accounted'
    BY DEF RemovalInv, Still, Accounted
<1>. QED BY <1>1, <1>2, <1>3

LEMMA PlanInv ==
    ASSUME RemovalInv, NEW u \in Remover,
           Removal!Plan(u) \/ Removal!Confirm(u) \/ Removal!Check(u)
    PROVE  RemovalInv'
<1>1. /\ phase[u] \in {"idle", "plan", "check"}
      /\ Still /\ deleted' = deleted /\ lockfile' = lockfile /\ harmed' = harmed
      /\ next' = next /\ held' = held /\ moved' = moved
      /\ \E p \in Phases \ (Isolating \cup Removed) :
            phase' = [phase EXCEPT ![u] = p]
      /\ \/ early' = early /\ running' = running
         \/ /\ early' = [early EXCEPT ![u] = running] /\ running' = running
            /\ running # {} => phase' = [phase EXCEPT ![u] = "refused"]
    BY DEF Removal!Plan, Removal!Confirm, Removal!Check, Removal!Goto,
           Removal!fs, Removal!locks, Removal!usage, Still, Phases, Early,
           Isolating, Removed
<1>2. Alone(u)
    BY <1>1 DEF RemovalInv, RemoverTypes, Alone, Still
<1>3. Progress(u)'
    <2>1. phase'[u] \notin Isolating \cup Removed
        BY <1>1 DEF RemovalInv, RemoverTypes
    <2>2. moved[u] = << >> /\ \A r \in Root : \A i \in Inode :
                                  <<u, r, i>> \notin tomb
        BY <1>1, MovedFacts DEF RemovalInv, Progress, Early
    <2>. QED BY <1>1, <2>1, <2>2 DEF Progress, Still, Isolating, Removed
<1>4. DeletedWasHeld' /\ SawNobody'
    <2>1. early'[u] # {} => phase'[u] = "refused"
        BY <1>1 DEF RemovalInv, RemoverTypes, SawNobody
    <2>. QED BY <1>1, <1>2, <2>1, PastKept DEF Removed
<1>. QED BY <1>1, <1>2, <1>3, <1>4, OthersProgress, StillPlaces
         DEF RemovalInv, Alone, PlaceTypes

LEMMA ValidateInv ==
    ASSUME RemovalInv, NEW u \in Remover, Removal!Validate(u)
    PROVE  RemovalInv'
<1>1. /\ phase[u] = "validate"
      /\ Still /\ deleted' = deleted /\ lockfile' = lockfile /\ harmed' = harmed
      /\ early' = early /\ running' = running /\ moved' = moved
    BY DEF Removal!Validate, Removal!fs, Removal!locks, Removal!usage, Still
<1>2. next[u] \in {1, 2} /\ Roots[next[u]] \in Root
    BY RemovalSizes DEF RemovalInv, RemoverTypes
<1>3. \E x \in Inode \cup {Absent} :
          held' = [held EXCEPT ![u] = [held[u] EXCEPT ![Roots[next[u]]] = x]]
    <2>1. path[Roots[next[u]]] \in Inode \cup {Absent}
        BY <1>2, RemovalSizes DEF RemovalInv, PlaceTypes
    <2>. QED BY <2>1 DEF Removal!Validate, Roots
<1>4. \/ /\ phase' = [phase EXCEPT ![u] = "lock"]
         /\ next' = [next EXCEPT ![u] = 1]
      \/ phase' = phase /\ next' = [next EXCEPT ![u] = 2]
    BY <1>2, RemovalSizes
       DEF Removal!Validate, Removal!Goto, RemovalInv, RemoverTypes, Roots
<1>5. Alone(u)
    <2>1. held' \in [Remover -> [Root -> Inode \cup {Absent}]]
        BY <1>2, <1>3 DEF RemovalInv, RemoverTypes
    <2>2. phase' \in [Remover -> Phases] /\ next' \in [Remover -> {1, 2}]
        BY <1>4 DEF RemovalInv, RemoverTypes, Phases, Early
    <2>3. ASSUME NEW v \in Remover \ {u}
          PROVE  phase'[v] = phase[v] /\ next'[v] = next[v]
                    /\ held'[v] = held[v]
        BY <1>3, <1>4 DEF RemovalInv, RemoverTypes
    <2>. QED BY <1>1, <2>1, <2>2, <2>3
             DEF RemovalInv, RemoverTypes, Alone, Still
<1>6. Progress(u)'
    <2>1. phase'[u] \in {"validate", "lock"}
        BY <1>1, <1>4 DEF RemovalInv, RemoverTypes
    <2>2. moved[u] = << >> /\ \A r \in Root : \A i \in Inode :
                                  <<u, r, i>> \notin tomb
        BY <1>1, MovedFacts DEF RemovalInv, Progress, Early
    <2>. QED BY <1>1, <2>1, <2>2 DEF Progress, Still, Isolating
<1>7. DeletedWasHeld' /\ SawNobody'
    <2>1. early'[u] = {}
        BY <1>1 DEF RemovalInv, SawNobody
    <2>. QED BY <1>1, <1>5, <2>1, PastKept DEF Removed
<1>. QED BY <1>1, <1>5, <1>6, <1>7, OthersProgress, StillPlaces
         DEF RemovalInv, Alone, PlaceTypes

LEMMA LockInv ==
    ASSUME RemovalInv, NEW u \in Remover, Removal!Lock(u)
    PROVE  RemovalInv'
<1>1. /\ phase[u] = "lock"
      /\ Still /\ deleted' = deleted /\ lockfile' = lockfile /\ harmed' = harmed
      /\ early' = early /\ running' = running /\ moved' = moved
      /\ next' = next /\ held' = held
      /\ \E p \in {"rename", "refused"} : phase' = [phase EXCEPT ![u] = p]
    BY DEF Removal!Lock, Removal!Goto, Removal!fs, Removal!usage, Still
<1>2. Alone(u)
    BY <1>1 DEF RemovalInv, RemoverTypes, Alone, Still, Phases, Isolating
<1>3. Progress(u)'
    <2>1. phase'[u] \in {"rename", "refused"}
        BY <1>1 DEF RemovalInv, RemoverTypes
    <2>2. moved[u] = << >> /\ \A r \in Root : \A i \in Inode :
                                  <<u, r, i>> \notin tomb
        BY <1>1, MovedFacts DEF RemovalInv, Progress, Early
    <2>. QED BY <1>1, <2>1, <2>2, MovedFacts
             DEF Progress, Still, Isolating, Early
<1>4. DeletedWasHeld' /\ SawNobody'
    <2>1. early'[u] = {}
        BY <1>1 DEF RemovalInv, SawNobody
    <2>. QED BY <1>1, <1>2, <2>1, PastKept DEF Removed
<1>. QED BY <1>1, <1>2, <1>3, <1>4, OthersProgress, StillPlaces
         DEF RemovalInv, Alone, PlaceTypes

\* A directory goes from its path to a tombstone.
LEMMA Bury ==
    ASSUME RemovalInv, NEW u \in Remover, NEW r \in Root, path[r] # Absent,
           \A i \in Inode : <<u, r, i>> \notin tomb,
           path' = [path EXCEPT ![r] = Absent],
           tomb' = tomb \cup {<<u, r, path[r]>>},
           deleted' = deleted, lockfile' = lockfile, inodes' = inodes
    PROVE  PlaceTypes' /\ OnePlace' /\ Accounted'
<1>1. path[r] \in 1..inodes /\ 1..inodes \subseteq Inode
    BY RemovalSizes DEF RemovalInv, PlaceTypes
<1>2. path \in [Root -> 1..inodes \cup {Absent}] /\ Absent \notin 1..inodes
    BY <1>1, RemovalSizes DEF RemovalInv, PlaceTypes
<1>3. PlaceTypes'
    BY <1>1, <1>2 DEF RemovalInv, PlaceTypes
<1>4. OnePlace'
    <2>1. \A q, t \in Root : path'[q] = path'[t] /\ path'[q] # Absent => q = t
        BY <1>2 DEF RemovalInv, OnePlace
    <2>2. ASSUME NEW v \in Remover, NEW q \in Root, NEW t \in Root
          PROVE  <<v, q, path'[t]>> \notin tomb'
        <3>1. CASE t = r
            <4>1. path'[t] = Absent
                BY <1>2, <3>1
            <4>. QED BY <1>1, <1>2, <4>1 DEF RemovalInv, PlaceTypes
        <3>2. CASE t # r
            <4>1. path'[t] = path[t] /\ path[t] # path[r]
                BY <1>2, <3>2 DEF RemovalInv, OnePlace
            <4>. QED BY <4>1 DEF RemovalInv, OnePlace
        <3>. QED BY <3>1, <3>2
    <2>3. ASSUME NEW v \in Remover, NEW w \in Remover, NEW q \in Root,
                 NEW t \in Root, NEW i \in Inode, NEW j \in Inode,
                 <<v, q, i>> \in tomb', <<w, t, j>> \in tomb',
                 i = j \/ (v = w /\ q = t)
          PROVE  v = w /\ q = t /\ i = j
        <3>1. ASSUME NEW x \in Remover, NEW y \in Root, NEW k \in Inode,
                     <<x, y, k>> \in tomb
              PROVE  k # path[r] /\ ~(x = u /\ y = r)
            BY <3>1 DEF RemovalInv, OnePlace
        <3>2. <<v, q, i>> \in tomb \/ (v = u /\ q = r /\ i = path[r])
            BY <2>3
        <3>3. <<w, t, j>> \in tomb \/ (w = u /\ t = r /\ j = path[r])
            BY <2>3
        <3>. QED BY <2>3, <3>1, <3>2, <3>3 DEF RemovalInv, OnePlace
    <2>. QED BY <2>1, <2>2, <2>3 DEF OnePlace
<1>5. Accounted'
    BY <1>2 DEF RemovalInv, Accounted
<1>. QED BY <1>3, <1>4, <1>5

\* A directory goes back from a tombstone to its path.
LEMMA Unbury ==
    ASSUME RemovalInv, NEW u \in Remover, NEW r \in Root, NEW i \in Inode,
           path[r] = Absent, <<u, r, i>> \in tomb,
           path' = [path EXCEPT ![r] = i],
           tomb' = tomb \ {<<u, r, i>>},
           deleted' = deleted, lockfile' = lockfile, inodes' = inodes
    PROVE  PlaceTypes' /\ OnePlace' /\ Accounted'
<1>1. i \in 1..inodes /\ 1..inodes \subseteq Inode
    BY RemovalSizes DEF RemovalInv, PlaceTypes
<1>2. path \in [Root -> 1..inodes \cup {Absent}] /\ Absent \notin 1..inodes
    BY <1>1, RemovalSizes DEF RemovalInv, PlaceTypes
<1>3. PlaceTypes'
    BY <1>1, <1>2 DEF RemovalInv, PlaceTypes
<1>4. OnePlace'
    <2>1. \A q \in Root : path[q] # i
        BY DEF RemovalInv, OnePlace
    <2>2. \A q, t \in Root : path'[q] = path'[t] /\ path'[q] # Absent => q = t
        BY <1>2, <2>1 DEF RemovalInv, OnePlace
    <2>3. ASSUME NEW v \in Remover, NEW q \in Root, NEW t \in Root
          PROVE  <<v, q, path'[t]>> \notin tomb'
        <3>1. CASE t = r
            <4>1. path'[t] = i
                BY <1>2, <3>1
            <4>2. <<v, q, i>> \in tomb => v = u /\ q = r
                BY DEF RemovalInv, OnePlace
            <4>. QED BY <4>1, <4>2
        <3>2. CASE t # r
            BY <1>2, <3>2 DEF RemovalInv, OnePlace
        <3>. QED BY <3>1, <3>2
    <2>4. tomb' \subseteq tomb
        OBVIOUS
    <2>. QED BY <2>2, <2>3, <2>4 DEF RemovalInv, OnePlace
<1>5. Accounted'
    <2>. SUFFICES ASSUME NEW j \in 1..inodes, j \notin deleted
                  PROVE  \/ \E q \in Root : path'[q] = j
                         \/ \E v \in Remover : \E q \in Root :
                               <<v, q, j>> \in tomb'
        BY DEF Accounted
    <2>1. CASE j = i
        BY <1>2, <2>1
    <2>2. CASE \E q \in Root : path[q] = j
        BY <1>1, <1>2, <2>2
    <2>3. CASE j # i /\ \E v \in Remover : \E q \in Root : <<v, q, j>> \in tomb
        BY <2>3
    <2>. QED BY <2>1, <2>2, <2>3 DEF RemovalInv, Accounted
<1>. QED BY <1>3, <1>4, <1>5

\* The tombstone of a root holds what was put there.
LEMMA TombstoneIs ==
    ASSUME RemovalInv, NEW u \in Remover, NEW r \in Root, NEW i \in Inode,
           <<u, r, i>> \in tomb
    PROVE  Removal!Tombstone(u, r) = i
BY DEF RemovalInv, OnePlace, Removal!Tombstone, Inode

\* Where a process that isolates is.
LEMMA AtRoot ==
    ASSUME RemovalInv, NEW u \in Remover, phase[u] \in Isolating
    PROVE  /\ \/ next[u] = 1 /\ Roots[next[u]] = "data"
              \/ next[u] = 2 /\ Roots[next[u]] = "config"
           /\ Roots[next[u]] \in Root /\ Roots[next[u]] \notin In(moved[u])
           /\ moved[u] = << >> \/ (next[u] = 2 /\ moved[u] = <<"data">>)
           /\ \A r \in In(moved[u]) :
                 /\ r \in Root /\ held[u][r] \in Inode
                 /\ <<u, r, held[u][r]>> \in tomb
<1>1. Progress(u)
    BY DEF RemovalInv
<1>2. /\ \/ next[u] = 1 /\ Roots[next[u]] = "data"
         \/ next[u] = 2 /\ Roots[next[u]] = "config"
      /\ Roots[next[u]] \in Root
    BY RemovalSizes DEF RemovalInv, RemoverTypes
<1>3. moved[u] = << >> \/ (next[u] = 2 /\ moved[u] = <<"data">>)
    BY <1>1 DEF Progress
<1>4. ASSUME NEW r \in In(moved[u])
      PROVE  r \in Root /\ held[u][r] \in Inode /\ <<u, r, held[u][r]>> \in tomb
    <2>1. r \in Root
        BY <1>3, MovedFacts, RemovalSizes
    <2>2. <<u, r, held[u][r]>> \in tomb
        BY <1>1 DEF Progress
    <2>. QED BY <2>1, <2>2, RemovalSizes DEF RemovalInv, PlaceTypes
<1>. QED BY <1>2, <1>3, <1>4, MovedFacts

LEMMA Advancing ==
    ASSUME RemovalInv, NEW u \in Remover, Removal!Advance(u)
    PROVE  \/ /\ next[u] = 2 /\ phase' = [phase EXCEPT ![u] = "delete"]
              /\ next' = [next EXCEPT ![u] = 1]
           \/ /\ next[u] = 1 /\ phase' = [phase EXCEPT ![u] = "rename"]
              /\ next' = [next EXCEPT ![u] = 2]
BY RemovalSizes
   DEF Removal!Advance, Removal!Goto, RemovalInv, RemoverTypes, Roots

LEMMA RenameInv ==
    ASSUME RemovalInv, NEW u \in Remover, Removal!Rename(u)
    PROVE  RemovalInv'
<1>. DEFINE r == Roots[next[u]]
<1>1. /\ phase[u] = "rename" /\ deleted' = deleted /\ lockfile' = lockfile
      /\ harmed' = harmed /\ inodes' = inodes /\ early' = early
      /\ running' = running /\ moved' = moved /\ held' = held
    BY DEF Removal!Rename, Removal!locks, Removal!usage
<1>2. /\ next[u] = 1 \/ next[u] = 2
      /\ r \in Root /\ r \notin In(moved[u])
      /\ moved[u] = << >> \/ (next[u] = 2 /\ moved[u] = <<"data">>)
      /\ \A q \in In(moved[u]) : <<u, q, held[u][q]>> \in tomb
    BY <1>1, AtRoot DEF Isolating
<1>3. \A q \in Root : \A i \in Inode :
          <<u, q, i>> \in tomb => q \in In(moved[u])
    BY <1>1 DEF RemovalInv, Progress, Isolating
<1>4. early'[u] = {}
    BY <1>1 DEF RemovalInv, SawNobody
<1>5. CASE /\ held[u][r] = Absent /\ Removal!Advance(u)
           /\ path' = path /\ tomb' = tomb
    <2>1. Alone(u)
        BY <1>1, <1>5, Advancing
           DEF RemovalInv, RemoverTypes, Alone, Phases, Isolating, Removed
    <2>2. \/ phase'[u] = "delete"
          \/ /\ phase'[u] = "rename" /\ next'[u] = 2 /\ moved[u] = << >>
        BY <1>2, <1>5, Advancing DEF RemovalInv, RemoverTypes
    <2>3. Progress(u)'
        BY <1>1, <1>2, <1>3, <1>5, <2>2 DEF Progress, Early, Isolating
    <2>4. DeletedWasHeld' /\ SawNobody'
        BY <1>1, <1>4, <2>1, PastKept DEF Removed
    <2>. QED BY <1>1, <1>5, <2>1, <2>3, <2>4, OthersProgress, StillPlaces
             DEF RemovalInv, Alone, PlaceTypes, Still
<1>6. CASE /\ phase' = [phase EXCEPT ![u] = "rollback"]
           /\ next' = next /\ path' = path /\ tomb' = tomb
    <2>1. Alone(u)
        BY <1>1, <1>6 DEF RemovalInv, RemoverTypes, Alone, Phases, Isolating
    <2>2. phase'[u] = "rollback"
        BY <1>6 DEF RemovalInv, RemoverTypes
    <2>3. Progress(u)'
        BY <1>1, <1>2, <1>3, <1>6, <2>2 DEF Progress, Early, Isolating
    <2>4. DeletedWasHeld' /\ SawNobody'
        BY <1>1, <1>4, <2>1, PastKept DEF Removed
    <2>. QED BY <1>1, <1>6, <2>1, <2>3, <2>4, OthersProgress, StillPlaces
             DEF RemovalInv, Alone, PlaceTypes, Still
<1>7. CASE /\ path[r] # Absent
           /\ path' = [path EXCEPT ![r] = Absent]
           /\ tomb' = tomb \cup {<<u, r, path[r]>>}
           /\ phase' = [phase EXCEPT ![u] = "inspect"] /\ next' = next
    <2>1. Alone(u)
        BY <1>1, <1>7 DEF RemovalInv, RemoverTypes, Alone, Phases, Isolating
    <2>2. phase'[u] = "inspect" /\ path[r] \in Inode
        BY <1>2, <1>7, RemovalSizes DEF RemovalInv, RemoverTypes, PlaceTypes
    <2>3. Progress(u)'
        <3>1. \A q \in Root : \A i \in Inode : <<u, q, i>> \in tomb' =>
                  q \in In(moved[u]) \/ q = r
            BY <1>3, <1>7
        <3>2. \A q \in In(moved[u]) : <<u, q, held[u][q]>> \in tomb'
            BY <1>2, <1>7
        <3>3. \E i \in Inode : <<u, r, i>> \in tomb'
            BY <1>7, <2>2
        <3>. QED BY <1>1, <1>2, <1>7, <2>2, <3>1, <3>2, <3>3
                 DEF Progress, Early, Isolating
    <2>4. DeletedWasHeld' /\ SawNobody'
        BY <1>1, <1>4, <2>1, PastKept DEF Removed
    <2>5. PlaceTypes' /\ OnePlace' /\ Accounted'
        <3>1. \A i \in Inode : <<u, r, i>> \notin tomb
            BY <1>2, <1>3
        <3>. QED BY <1>1, <1>2, <1>7, <3>1, Bury
    <2>. QED BY <2>1, <2>3, <2>4, <2>5, OthersProgress DEF RemovalInv, Alone
<1>. QED BY <1>5, <1>6, <1>7 DEF Removal!Rename, Removal!Goto, Roots

LEMMA InspectInv ==
    ASSUME RemovalInv, NEW u \in Remover, Removal!Inspect(u)
    PROVE  RemovalInv'
<1>. DEFINE r == Roots[next[u]]
<1>1. /\ phase[u] = "inspect" /\ deleted' = deleted /\ lockfile' = lockfile
      /\ harmed' = harmed /\ inodes' = inodes /\ early' = early
      /\ running' = running /\ held' = held
    BY DEF Removal!Inspect, Removal!locks, Removal!usage
<1>2. /\ \/ next[u] = 1 /\ r = "data"
         \/ next[u] = 2 /\ r = "config"
      /\ r \in Root /\ r \notin In(moved[u])
      /\ moved[u] = << >> \/ (next[u] = 2 /\ moved[u] = <<"data">>)
      /\ \A q \in In(moved[u]) : <<u, q, held[u][q]>> \in tomb
    BY <1>1, AtRoot DEF Isolating
<1>3. \A q \in Root : \A j \in Inode :
          <<u, q, j>> \in tomb => q \in In(moved[u]) \/ q = r
    BY <1>1 DEF RemovalInv, Progress, Isolating
<1>4. early'[u] = {}
    BY <1>1 DEF RemovalInv, SawNobody
<1>5. PICK i \in Inode : <<u, r, i>> \in tomb
    BY <1>1 DEF RemovalInv, Progress
<1>6. Removal!Tombstone(u, r) = i
    BY <1>2, <1>5, TombstoneIs
<1>7. CASE /\ i = held[u][r] /\ moved' = [moved EXCEPT ![u] = Append(@, r)]
           /\ Removal!Advance(u) /\ path' = path /\ tomb' = tomb
    <2>1. \/ /\ r = "data" /\ Append(moved[u], r) = <<"data">>
             /\ moved[u] = << >>
          \/ /\ r = "config" /\ moved[u] = << >>
             /\ Append(moved[u], r) = <<"config">>
          \/ /\ r = "config" /\ moved[u] = <<"data">>
             /\ Append(moved[u], r) = <<"data", "config">>
        <3>1. /\ Append(<< >>, "data") = <<"data">>
              /\ Append(<< >>, "config") = <<"config">>
              /\ Append(<<"data">>, "config") = <<"data", "config">>
            <4>1. "data" \in Root /\ "config" \in Root
                BY RemovalSizes
            <4>. QED BY <4>1, MovedSteps
        <3>2. CASE r = "data" /\ moved[u] = << >>
            BY <3>1, <3>2
        <3>3. CASE r = "config" /\ moved[u] = << >>
            BY <3>1, <3>3
        <3>4. CASE r = "config" /\ moved[u] = <<"data">>
            BY <3>1, <3>4
        <3>. QED BY <1>2, <3>2, <3>3, <3>4
    <2>2. Append(moved[u], r) \in Moved
        BY <2>1 DEF Moved
    <2>3. In(Append(moved[u], r)) = In(moved[u]) \cup {r}
        BY <2>1, MovedFacts
    <2>4. Alone(u)
        <3>1. phase' \in [Remover -> Phases] /\ next' \in [Remover -> {1, 2}]
            BY <1>7, Advancing
               DEF RemovalInv, RemoverTypes, Phases, Isolating, Removed
        <3>2. moved' \in [Remover -> Moved]
            BY <1>7, <2>2 DEF RemovalInv, RemoverTypes
        <3>3. RemoverTypes'
            BY <1>1, <3>1, <3>2 DEF RemovalInv, RemoverTypes
        <3>. QED BY <1>1, <1>7, <3>3, Advancing
                 DEF RemovalInv, RemoverTypes, Alone
    <2>5. moved'[u] = Append(moved[u], r)
        BY <1>7 DEF RemovalInv, RemoverTypes
    <2>6. \/ phase'[u] = "delete"
          \/ /\ phase'[u] = "rename" /\ next'[u] = 2 /\ next[u] = 1
        BY <1>7, Advancing DEF RemovalInv, RemoverTypes
    <2>7. Progress(u)'
        <3>1. \A q \in In(moved'[u]) : <<u, q, held[u][q]>> \in tomb'
            BY <1>2, <1>5, <1>7, <2>3, <2>5
        <3>2. \A q \in Root : \A j \in Inode :
                 <<u, q, j>> \in tomb' => q \in In(moved'[u])
            BY <1>3, <1>7, <2>3, <2>5
        <3>3. phase'[u] = "rename" => moved'[u] = <<"data">> /\ next'[u] = 2
            BY <1>2, <2>1, <2>5, <2>6
        <3>. QED BY <1>1, <2>6, <3>1, <3>2, <3>3 DEF Progress, Early, Isolating
    <2>8. DeletedWasHeld' /\ SawNobody'
        BY <1>1, <1>4, <2>4, PastKept DEF Removed
    <2>. QED BY <1>1, <1>7, <2>4, <2>7, <2>8, OthersProgress, StillPlaces
             DEF RemovalInv, Alone, PlaceTypes, Still
<1>8. CASE /\ phase' = [phase EXCEPT ![u] = "rollback"]
           /\ next' = next /\ moved' = moved
           /\ \/ /\ path[r] = Absent /\ path' = [path EXCEPT ![r] = i]
                 /\ tomb' = tomb \ {<<u, r, i>>}
              \/ path' = path /\ tomb' = tomb
    <2>1. Alone(u)
        BY <1>1, <1>8 DEF RemovalInv, RemoverTypes, Alone, Phases, Isolating
    <2>2. phase'[u] = "rollback"
        BY <1>8 DEF RemovalInv, RemoverTypes
    <2>3. Progress(u)'
        <3>1. \A q \in In(moved[u]) : <<u, q, held[u][q]>> \in tomb'
            BY <1>2, <1>8
        <3>2. tomb' \subseteq tomb
            BY <1>8
        <3>. QED BY <1>1, <1>2, <1>3, <1>8, <2>2, <3>1, <3>2
                 DEF Progress, Early, Isolating
    <2>4. DeletedWasHeld' /\ SawNobody'
        BY <1>1, <1>4, <2>1, PastKept DEF Removed
    <2>5. PlaceTypes' /\ OnePlace' /\ Accounted'
        <3>1. CASE path' = path /\ tomb' = tomb
            BY <1>1, <3>1, StillPlaces DEF Still, RemovalInv, PlaceTypes
        <3>2. CASE /\ path[r] = Absent /\ path' = [path EXCEPT ![r] = i]
                   /\ tomb' = tomb \ {<<u, r, i>>}
            BY <1>1, <1>2, <1>5, <3>2, Unbury
        <3>. QED BY <1>8, <3>1, <3>2
    <2>. QED BY <2>1, <2>3, <2>4, <2>5, OthersProgress DEF RemovalInv, Alone
<1>. QED BY <1>6, <1>7, <1>8 DEF Removal!Inspect, Removal!Goto, Roots

\* A process that ends, fails or is killed leaves the directories alone.
LEMMA LeaveInv ==
    ASSUME RemovalInv, NEW u \in Remover,
           Removal!FailIsolation(u) \/ Removal!Exit(u)
    PROVE  RemovalInv'
<1>1. /\ Still /\ deleted' = deleted /\ lockfile' = lockfile /\ harmed' = harmed
      /\ early' = early /\ running' = running /\ moved' = moved
      /\ next' = next /\ held' = held
    BY DEF Removal!FailIsolation, Removal!Exit, Removal!fs, Removal!usage,
           Removal!locks, Still
<1>2. \/ phase' = phase
      \/ /\ phase[u] \in {"rename", "inspect"}
         /\ phase' = [phase EXCEPT ![u] = "rollback"]
      \/ /\ phase[u] # "refused"
         /\ phase' = [phase EXCEPT ![u] = "killed"]
    BY DEF Removal!FailIsolation, Removal!Exit, Removal!Goto, Removal!Over
<1>3. Alone(u)
    BY <1>1, <1>2
       DEF RemovalInv, RemoverTypes, Alone, Still, Phases, Isolating, Removed
<1>4. Progress(u)'
    <2>1. Progress(u)
        BY DEF RemovalInv
    <2>2. CASE phase' = phase
        BY <1>1, <2>1, <2>2 DEF Progress, Still
    <2>3. CASE /\ phase[u] \in {"rename", "inspect"}
               /\ phase' = [phase EXCEPT ![u] = "rollback"]
        <3>1. phase'[u] = "rollback"
            BY <2>3 DEF RemovalInv, RemoverTypes
        <3>. QED BY <1>1, <2>1, <2>3, <3>1 DEF Progress, Still, Early, Isolating
    <2>4. CASE phase' = [phase EXCEPT ![u] = "killed"]
        <3>1. phase'[u] = "killed"
            BY <2>4 DEF RemovalInv, RemoverTypes
        <3>. QED BY <3>1 DEF Progress, Early, Isolating
    <2>. QED BY <1>2, <2>2, <2>3, <2>4
<1>5. DeletedWasHeld' /\ SawNobody'
    <2>1. early'[u] # {} => phase'[u] = "refused"
        BY <1>1, <1>2 DEF RemovalInv, RemoverTypes, SawNobody
    <2>2. phase[u] \in Removed => phase'[u] \in Removed
        BY <1>2 DEF RemovalInv, RemoverTypes, Removed
    <2>. QED BY <1>1, <1>3, <2>1, <2>2, PastKept
<1>. QED BY <1>1, <1>3, <1>4, <1>5, OthersProgress, StillPlaces
         DEF RemovalInv, Alone, PlaceTypes

LEMMA RollbackInv ==
    ASSUME RemovalInv, NEW u \in Remover, Removal!Rollback(u)
    PROVE  RemovalInv'
<1>1. /\ phase[u] = "rollback" /\ deleted' = deleted /\ lockfile' = lockfile
      /\ harmed' = harmed /\ inodes' = inodes /\ early' = early
      /\ running' = running /\ held' = held /\ next' = next
    BY DEF Removal!Rollback, Removal!locks, Removal!usage
<1>2. /\ Roots[next[u]] \in Root /\ Roots[next[u]] \notin In(moved[u])
      /\ moved[u] = << >> \/ (next[u] = 2 /\ moved[u] = <<"data">>)
      /\ \A q \in In(moved[u]) :
            /\ q \in Root /\ held[u][q] \in Inode
            /\ <<u, q, held[u][q]>> \in tomb
    BY <1>1, AtRoot DEF Isolating
<1>3. \A q \in Root : \A j \in Inode :
          <<u, q, j>> \in tomb => q \in In(moved[u]) \/ q = Roots[next[u]]
    BY <1>1 DEF RemovalInv, Progress, Isolating
<1>4. early'[u] = {}
    BY <1>1 DEF RemovalInv, SawNobody
<1>5. CASE /\ path' = path /\ tomb' = tomb /\ moved' = moved
           /\ \E p \in {"rolled back", "incomplete"} :
                 phase' = [phase EXCEPT ![u] = p]
    <2>1. Alone(u)
        BY <1>1, <1>5 DEF RemovalInv, RemoverTypes, Alone, Phases
    <2>2. phase'[u] \in {"rolled back", "incomplete"}
        BY <1>5 DEF RemovalInv, RemoverTypes
    <2>3. Progress(u)'
        BY <2>2 DEF Progress, Early, Isolating
    <2>4. DeletedWasHeld' /\ SawNobody'
        BY <1>1, <1>4, <2>1, PastKept DEF Removed
    <2>. QED BY <1>1, <1>5, <2>1, <2>3, <2>4, OthersProgress, StillPlaces
             DEF RemovalInv, Alone, PlaceTypes, Still
<1>6. CASE moved[u] = <<"data">> /\ phase' = phase
    <2>. DEFINE i == held[u]["data"]
    <2>1. "data" \in Root /\ i \in Inode /\ <<u, "data", i>> \in tomb
        BY <1>2, <1>6, MovedFacts
    <2>2. Removal!Tombstone(u, "data") = i
        BY <2>1, TombstoneIs
    <2>3. /\ moved[u][Len(moved[u])] = "data" /\ moved[u] # << >>
          /\ SubSeq(moved[u], 1, Len(moved[u]) - 1) = << >>
        <3>1. <<"data">> # << >>
            OBVIOUS
        <3>. QED BY <1>6, <2>1, <3>1, MovedSteps
    <2>4. "incomplete" # "rollback"
        OBVIOUS
    <2>5. /\ path["data"] = Absent
          /\ path' = [path EXCEPT !["data"] = i]
          /\ tomb' = tomb \ {<<u, "data", i>>}
          /\ moved' = [moved EXCEPT ![u] = << >>]
        BY <1>1, <1>6, <2>2, <2>3, <2>4
           DEF Removal!Rollback, Removal!Goto, RemovalInv, RemoverTypes
    <2>6. Alone(u)
        BY <1>1, <1>6, <2>5 DEF RemovalInv, RemoverTypes, Alone, Moved
    <2>7. Progress(u)'
        <3>1. moved'[u] = << >>
            BY <2>5 DEF RemovalInv, RemoverTypes
        <3>2. ASSUME NEW q \in Root, NEW j \in Inode, <<u, q, j>> \in tomb'
              PROVE  q = Roots[next[u]]
            <4>1. <<u, q, j>> \in tomb /\ ~(q = "data" /\ j = i)
                BY <2>5, <3>2
            <4>2. q # "data"
                BY <2>1, <4>1 DEF RemovalInv, OnePlace
            <4>. QED BY <1>3, <1>6, <4>1, <4>2, MovedFacts
        <3>. QED BY <1>1, <1>6, <3>1, <3>2, MovedFacts
                 DEF Progress, Early, Isolating
    <2>8. DeletedWasHeld' /\ SawNobody'
        BY <1>1, <1>4, <2>6, PastKept DEF Removed
    <2>9. PlaceTypes' /\ OnePlace' /\ Accounted'
        BY <1>1, <2>1, <2>5, Unbury
    <2>. QED BY <2>6, <2>7, <2>8, <2>9, OthersProgress DEF RemovalInv, Alone
<1>7. \/ /\ path' = path /\ tomb' = tomb /\ moved' = moved
         /\ \E p \in {"rolled back", "incomplete"} :
               phase' = [phase EXCEPT ![u] = p]
      \/ moved[u] # << >> /\ phase' = phase
    BY DEF Removal!Rollback, Removal!Goto
<1>. QED BY <1>2, <1>5, <1>6, <1>7

LEMMA DeleteRootsInv ==
    ASSUME RemovalInv, NEW u \in Remover, Removal!Delete(u)
    PROVE  RemovalInv'
<1>1. /\ phase[u] = "delete" /\ lockfile' = lockfile /\ path' = path
      /\ inodes' = inodes /\ early' = early
      /\ running' = running /\ held' = held /\ next' = next
    BY DEF Removal!Delete, Removal!locks, Removal!usage
<1>2. early'[u] = {}
    BY <1>1 DEF RemovalInv, SawNobody
<1>3. CASE moved[u] = << >>
    <2>1. /\ tomb' = tomb /\ moved' = moved /\ deleted' = deleted
          /\ harmed' = harmed /\ phase' = [phase EXCEPT ![u] = "removed"]
        BY <1>3 DEF Removal!Delete, Removal!Goto
    <2>2. Alone(u)
        BY <1>1, <2>1 DEF RemovalInv, RemoverTypes, Alone, Phases, Removed
    <2>3. phase'[u] = "removed"
        BY <2>1 DEF RemovalInv, RemoverTypes
    <2>4. Progress(u)'
        BY <2>3 DEF Progress, Early, Isolating
    <2>5. DeletedWasHeld' /\ SawNobody'
        BY <1>1, <1>2, <2>1, <2>2, <2>3, PastKept DEF Removed
    <2>. QED BY <1>1, <2>1, <2>2, <2>4, <2>5, OthersProgress, StillPlaces
             DEF RemovalInv, Alone, PlaceTypes, Still
<1>4. CASE moved[u] # << >>
    <2>1. PICK r \in Root : r = Head(moved[u]) /\ r \in In(moved[u])
                            /\ Tail(moved[u]) \in Moved
                            /\ In(Tail(moved[u])) = In(moved[u]) \ {r}
        <3>1. "data" \in Root /\ "config" \in Root
            BY RemovalSizes
        <3>2. CASE moved[u] = <<"data">>
            BY <3>1, <3>2, MovedSteps, MovedFacts DEF Moved
        <3>3. CASE moved[u] = <<"config">>
            BY <3>1, <3>3, MovedSteps, MovedFacts DEF Moved
        <3>4. CASE moved[u] = <<"data", "config">>
            <4>1. /\ Head(moved[u]) = "data" /\ Tail(moved[u]) = <<"config">>
                  /\ In(moved[u]) = {"data", "config"}
                  /\ In(Tail(moved[u])) = {"config"}
                BY <3>1, <3>4, MovedSteps, MovedFacts
            <4>. QED BY <3>1, <4>1 DEF Moved
        <3>. QED BY <1>4, <3>2, <3>3, <3>4 DEF RemovalInv, RemoverTypes, Moved
    <2>2. PICK i \in Inode : i = held[u][r] /\ <<u, r, i>> \in tomb
        <3>1. <<u, r, held[u][r]>> \in tomb
            BY <1>1, <2>1 DEF RemovalInv, Progress
        <3>. QED BY <3>1, RemovalSizes DEF RemovalInv, PlaceTypes
    <2>3. Removal!Tombstone(u, r) = i
        BY <2>2, TombstoneIs
    <2>4. /\ deleted' = deleted \cup {i}
          /\ harmed' = harmed \cup {<<u, s>> : s \in users[i]}
          /\ tomb' = tomb \/ tomb' = tomb \ {<<u, r, i>>}
          /\ moved' = [moved EXCEPT ![u] = Tail(moved[u])]
          /\ phase' = phase
        BY <1>4, <2>1, <2>3 DEF Removal!Delete
    <2>5. Alone(u)
        BY <1>1, <2>1, <2>4 DEF RemovalInv, RemoverTypes, Alone
    <2>6. Progress(u)'
        <3>1. In(moved'[u]) = In(moved[u]) \ {r}
            BY <2>1, <2>4 DEF RemovalInv, RemoverTypes
        <3>2. \A q \in In(moved'[u]) : <<u, q, held[u][q]>> \in tomb'
            BY <1>1, <2>4, <3>1 DEF RemovalInv, Progress
        <3>. QED BY <1>1, <2>4, <3>2 DEF Progress, Early, Isolating
    <2>7. PlaceTypes'
        <3>1. i \in 1..inodes
            BY <2>2 DEF RemovalInv, PlaceTypes
        <3>. QED BY <1>1, <2>4, <3>1 DEF RemovalInv, PlaceTypes
    <2>8. OnePlace'
        <3>1. tomb' \subseteq tomb
            BY <2>4
        <3>. QED BY <1>1, <3>1 DEF RemovalInv, OnePlace
    <2>9. Accounted'
        <3>1. ASSUME NEW j \in 1..inodes, j # i, NEW v \in Remover,
                     NEW q \in Root, <<v, q, j>> \in tomb
              PROVE  <<v, q, j>> \in tomb'
            BY <2>4, <3>1
        <3>. QED BY <1>1, <2>4, <3>1 DEF RemovalInv, Accounted
    <2>10. DeletedWasHeld'
        BY <1>1, <2>1, <2>2, <2>4 DEF RemovalInv, DeletedWasHeld, Removed
    <2>11. SawNobody'
        <3>1. \A w \in harmed' : w \in harmed \/ w[1] = u
            BY <2>4
        <3>. QED BY <1>1, <2>4, <3>1 DEF RemovalInv, SawNobody, Removed
    <2>. QED BY <2>5, <2>6, <2>7, <2>8, <2>9, <2>10, <2>11, OthersProgress
             DEF RemovalInv, Alone
<1>. QED BY <1>3, <1>4

\* Sessions touch no process and no tombstone.
LEMMA SessionInv ==
    ASSUME RemovalInv, NEW s \in Run,
           \/ Removal!Start(s) \/ Removal!Use(s) \/ Removal!TakeLock(s)
           \/ Removal!DropLock(s) \/ Removal!End(s)
    PROVE  RemovalInv'
<1>. USE DEF Removal!fs, Removal!locks, Removal!usage
<1>1. /\ phase' = phase /\ next' = next /\ held' = held /\ moved' = moved
      /\ early' = early /\ tomb' = tomb /\ deleted' = deleted
      /\ harmed' = harmed
      /\ running' = running \/ running' = running \cup {s}
            \/ running' = running \ {s}
    BY DEF Removal!Start, Removal!Use, Removal!TakeLock, Removal!DropLock,
           Removal!End
<1>2. "data" \in Root
    BY RemovalSizes
<1>3. \/ /\ path' = path /\ inodes' = inodes
         /\ \/ lockfile' = lockfile
            \/ /\ path["data"] # Absent
               /\ lockfile' = lockfile \cup {path["data"]}
      \/ /\ path["data"] = Absent /\ inodes < MaxInodes
         /\ inodes' = inodes + 1 /\ lockfile' = lockfile
         /\ path' = [path EXCEPT !["data"] = inodes + 1]
    BY DEF Removal!Start, Removal!Use, Removal!TakeLock, Removal!DropLock,
           Removal!End
<1>4. RemoverTypes'
    BY <1>1 DEF RemovalInv, RemoverTypes
<1>5. ASSUME NEW u \in Remover PROVE Progress(u)'
    BY <1>1 DEF RemovalInv, Progress
<1>6. DeletedWasHeld' /\ SawNobody'
    BY <1>1 DEF RemovalInv, DeletedWasHeld, SawNobody
<1>7. PlaceTypes' /\ OnePlace' /\ Accounted'
    <2>1. CASE path' = path /\ inodes' = inodes
        <3>1. lockfile' \subseteq 1..inodes
            BY <1>2, <1>3, <2>1, RemovalSizes DEF RemovalInv, PlaceTypes
        <3>. QED BY <1>1, <2>1, <3>1, StillPlaces DEF Still
    <2>2. CASE /\ path["data"] = Absent /\ inodes < MaxInodes
               /\ inodes' = inodes + 1 /\ lockfile' = lockfile
               /\ path' = [path EXCEPT !["data"] = inodes + 1]
        <3>. DEFINE i == inodes + 1
        <3>1. /\ i \in 1..i /\ 1..inodes \subseteq 1..i /\ i \notin 1..inodes
              /\ i \in 2..MaxInodes /\ i \in Inode
              /\ \A j \in 1..i : j = i \/ j \in 1..inodes
            BY <2>2, RemovalSizes DEF RemovalInv, PlaceTypes
        <3>2. Absent # i
            BY <3>1, RemovalSizes
        <3>3. inodes' = i /\ path' = [path EXCEPT !["data"] = i]
            BY <2>2
        <3>4. path \in [Root -> 1..inodes \cup {Absent}]
            BY DEF RemovalInv, PlaceTypes
        <3>. HIDE DEF i
        <3>5. PlaceTypes'
            <4>1. path' \in [Root -> 1..i \cup {Absent}]
                BY <3>1, <3>3, <3>4
            <4>2. tomb' \subseteq Remover \X Root \X (1..i)
                BY <1>1, <3>1 DEF RemovalInv, PlaceTypes
            <4>3. deleted' \subseteq 1..i /\ lockfile' \subseteq 1..i
                BY <1>1, <2>2, <3>1 DEF RemovalInv, PlaceTypes
            <4>. QED BY <3>1, <3>3, <4>1, <4>2, <4>3 DEF PlaceTypes
        <3>6. OnePlace'
            <4>1. \A r \in Root : path[r] # i
                BY <3>1, <3>2, <3>4
            <4>2. \A r, q \in Root :
                     path'[r] = path'[q] /\ path'[r] # Absent => r = q
                BY <3>3, <3>4, <4>1 DEF RemovalInv, OnePlace
            <4>3. \A u \in Remover : \A r, q \in Root :
                     <<u, r, path'[q]>> \notin tomb
                BY <3>1, <3>3, <3>4 DEF RemovalInv, OnePlace, PlaceTypes
            <4>. QED BY <1>1, <4>2, <4>3 DEF RemovalInv, OnePlace
        <3>7. Accounted'
            <4>. SUFFICES ASSUME NEW j \in 1..i, j \notin deleted
                          PROVE  \/ \E q \in Root : path'[q] = j
                                 \/ \E v \in Remover : \E q \in Root :
                                       <<v, q, j>> \in tomb
                BY <1>1, <3>3 DEF Accounted
            <4>1. CASE j = i
                BY <1>2, <3>3, <3>4, <4>1
            <4>2. CASE j \in 1..inodes
                <5>1. CASE \E q \in Root : path[q] = j
                    <6>1. j # Absent
                        BY <4>2, RemovalSizes DEF RemovalInv, PlaceTypes
                    <6>. QED BY <2>2, <3>3, <3>4, <5>1, <6>1
                <5>. QED BY <4>2, <5>1 DEF RemovalInv, Accounted
            <4>. QED BY <3>1, <4>1, <4>2
        <3>. QED BY <3>5, <3>6, <3>7
    <2>. QED BY <1>3, <2>1, <2>2
<1>. QED BY <1>4, <1>5, <1>6, <1>7 DEF RemovalInv

-----------------------------------------------------------------------------
(* The theorems about the removal.                                         *)

LEMMA RemovalInit == StateInit => RemovalInv
<1>. SUFFICES ASSUME Removal!Init PROVE RemovalInv
    BY DEF StateInit
<1>1. /\ phase = [u \in Remover |-> "idle"] /\ next = [u \in Remover |-> 1]
      /\ held = [u \in Remover |-> [r \in Root |-> Absent]]
      /\ moved = [u \in Remover |-> << >>]
      /\ path = [r \in Root |-> IF r = "data" THEN 1 ELSE 2]
      /\ tomb = {} /\ deleted = {} /\ lockfile = {} /\ harmed = {}
      /\ running = {} /\ early = [u \in Remover |-> {}] /\ inodes = 2
    BY DEF Removal!Init, Root
<1>2. RemoverTypes
    BY <1>1 DEF RemoverTypes, Phases, Early, Moved
<1>3. PlaceTypes
    BY <1>1, RemovalSizes DEF PlaceTypes
<1>4. OnePlace
    BY <1>1, RemovalSizes DEF OnePlace
<1>5. ASSUME NEW u \in Remover PROVE Progress(u)
    BY <1>1 DEF Progress, Isolating, Early
<1>6. Accounted
    BY <1>1, RemovalSizes DEF Accounted
<1>7. DeletedWasHeld /\ SawNobody
    BY <1>1 DEF DeletedWasHeld, SawNobody
<1>. QED BY <1>2, <1>3, <1>4, <1>5, <1>6, <1>7 DEF RemovalInv

LEMMA RemovalStep == RemovalInv /\ [StateNext]_everything => RemovalInv'
<1>. SUFFICES ASSUME RemovalInv, [StateNext]_everything PROVE RemovalInv'
    OBVIOUS
<1>1. CASE UNCHANGED removal
    <2>1. PlaceTypes' /\ OnePlace' /\ Accounted'
        BY <1>1, StillPlaces DEF removal, Still, RemovalInv, PlaceTypes
    <2>2. RemoverTypes'
        BY <1>1 DEF removal, RemovalInv, RemoverTypes
    <2>3. DeletedWasHeld' /\ SawNobody'
        BY <1>1 DEF removal, RemovalInv, DeletedWasHeld, SawNobody
    <2>4. ASSUME NEW u \in Remover PROVE Progress(u)'
        BY <1>1 DEF removal, RemovalInv, Progress
    <2>. QED BY <2>1, <2>2, <2>3, <2>4 DEF RemovalInv
<1>2. CASE Removal!Next
    BY <1>2, SessionInv, PlanInv, ValidateInv, LockInv, RenameInv, InspectInv,
       LeaveInv, RollbackInv, DeleteRootsInv DEF Removal!Next
<1>. QED BY <1>1, <1>2 DEF StateNext, everything

LEMMA RemovalInvariant == StateSpec => []RemovalInv
BY RemovalInit, RemovalStep, PTL DEF StateSpec

\* Uninstall deletes nothing but what it had opened, and only once every root
\* it opened is isolated; no directory is lost; and no session that it could
\* see loses a file.
THEOREM OnlyValidatedIsRemoved == StateSpec => []RemovalSafe
<1>1. RemovalInv => RemovalSafe
    <2>. SUFFICES ASSUME RemovalInv PROVE RemovalSafe OBVIOUS
    <2>1. Removal!OnlyValidatedDeleted
        <3>. SUFFICES ASSUME NEW i \in 1..inodes
                      PROVE  \/ /\ i \notin deleted
                                /\ \/ \E r \in Root : path[r] = i
                                   \/ \E t \in tomb : t[3] = i
                             \/ /\ i \in deleted
                                /\ \E u \in Remover :
                                      /\ phase[u] \in Removed
                                      /\ \E r \in Root : held[u][r] = i
            BY DEF Removal!OnlyValidatedDeleted, Root, Removed
        <3>1. CASE i \in deleted
            BY <3>1 DEF RemovalInv, DeletedWasHeld
        <3>2. ASSUME NEW u \in Remover, NEW r \in Root, <<u, r, i>> \in tomb
              PROVE  \E t \in tomb : t[3] = i
            BY <3>2
        <3>. QED BY <3>1, <3>2 DEF RemovalInv, Accounted
    <2>2. Removal!EarlySessionsSafe
        BY DEF RemovalInv, SawNobody, Removal!EarlySessionsSafe, Removed
    <2>. QED BY <2>1, <2>2 DEF RemovalSafe, Removal!RemovalSafe
<1>. QED BY <1>1, RemovalInvariant, PTL

LEMMA TombShape ==
    ASSUME RemovalInv, NEW t \in tomb
    PROVE  /\ t = <<t[1], t[2], t[3]>> /\ t[1] \in Remover
           /\ t[2] \in Root /\ t[3] \in Inode
<1>1. t \in Remover \X Root \X (1..inodes)
    BY DEF RemovalInv, PlaceTypes
<1>2. 1..inodes \subseteq Inode
    BY RemovalSizes DEF RemovalInv, PlaceTypes
<1>. QED BY <1>1, <1>2

\* A rollback that reports success has put back every root it had isolated:
\* the only tombstone it may leave is the one it could not inspect or rename
\* back.
THEOREM RollbacksAreExact == StateSpec => RollbackExact
<1>1. RemovalInv /\ [StateNext]_everything =>
        [\A u \in Remover :
            phase[u] = "rollback" /\ phase'[u] = "rolled back"
                => \A t \in tomb :
                      t[1] = u => t[2] = Removal!Roots[next[u]]]_Removal!vars
    <2>. SUFFICES ASSUME RemovalInv, [StateNext]_everything,
                         NEW u \in Remover, phase[u] = "rollback",
                         phase'[u] = "rolled back", NEW t \in tomb, t[1] = u
                  PROVE  t[2] = Roots[next[u]]
        BY DEF Roots
    <2>1. moved[u] = << >>
        <3>1. PICK v \in Remover : Removal!Rollback(v) /\ (v = u)
            BY DEF StateNext, everything, removal, Removal!Next,
               Removal!Start, Removal!Use, Removal!TakeLock,
               Removal!DropLock, Removal!End, Removal!Plan, Removal!Confirm,
               Removal!Check, Removal!Validate, Removal!Lock, Removal!Rename,
               Removal!Inspect, Removal!FailIsolation, Removal!Rollback,
               Removal!Delete, Removal!Exit, Removal!Goto, Removal!Advance,
               RemovalInv, RemoverTypes
        <3>. QED BY <3>1 DEF Removal!Rollback, Removal!Goto, RemovalInv,
                             RemoverTypes
    <2>2. <<u, t[2], t[3]>> \in tomb /\ t[2] \in Root /\ t[3] \in Inode
        BY TombShape
    <2>3. Progress(u)
        BY DEF RemovalInv
    <2>4. t[2] \in In(moved[u]) \/ t[2] = Roots[next[u]]
        BY <2>2, <2>3 DEF Progress, Isolating
    <2>. QED BY <2>1, <2>4, MovedFacts
<1>. QED BY <1>1, RemovalInvariant, PTL
         DEF StateSpec, RollbackExact, Removal!RollbackExact

LEMMA RemovalCardinality == \A S : Removal!Cardinality(S) = Cardinality(S)
BY DEF Cardinality, Removal!Cardinality

LEMMA AtMostOne ==
    ASSUME NEW S, \A x, y \in S : x = y PROVE Cardinality(S) <= 1
<1>1. CASE S = {}
    BY <1>1, FS_EmptySet
<1>2. ASSUME NEW x \in S PROVE Cardinality(S) <= 1
    <2>1. S = {x}
        OBVIOUS
    <2>. QED BY <2>1, FS_Singleton
<1>. QED BY <1>1, <1>2

LEMMA RemovalTypes == RemovalInv => Removal!TypeOK
<1>. SUFFICES ASSUME RemovalInv PROVE Removal!TypeOK OBVIOUS
<1>1. ASSUME NEW i \in 1..inodes
      PROVE  Cardinality({r \in Root : path[r] = i}
                             \cup {t \in tomb : t[3] = i}) <= 1
    <2>. DEFINE S == {r \in Root : path[r] = i}
                T == {t \in tomb : t[3] = i}
    <2>1. i # Absent /\ i \in Inode
        BY RemovalSizes DEF RemovalInv, PlaceTypes
    <2>2. ASSUME NEW t \in T
          PROVE  \E u \in Remover, r \in Root :
                     t = <<u, r, i>> /\ <<u, r, i>> \in tomb
        BY DEF RemovalInv, PlaceTypes
    <2>3. \A x, y \in S : x = y
        BY <2>1 DEF RemovalInv, OnePlace
    <2>4. \A x \in S, y \in T : FALSE
        BY <2>2 DEF RemovalInv, OnePlace
    <2>5. ASSUME NEW x \in T, NEW y \in T PROVE x = y
        <3>1. PICK u \in Remover, r \in Root :
                  x = <<u, r, i>> /\ <<u, r, i>> \in tomb
            BY <2>2
        <3>2. PICK v \in Remover, q \in Root :
                  y = <<v, q, i>> /\ <<v, q, i>> \in tomb
            BY <2>2
        <3>3. u = v /\ r = q
            BY <2>1, <3>1, <3>2 DEF RemovalInv, OnePlace
        <3>. QED BY <3>1, <3>2, <3>3
    <2>. HIDE DEF S, T
    <2>6. \A x, y \in S \cup T : x = y
        BY <2>3, <2>4, <2>5
    <2>7. Cardinality(S \cup T) <= 1
        BY <2>6, AtMostOne
    <2>. QED BY <2>7 DEF S, T
<1>2. /\ \A r \in Root : path[r] \in 1..inodes \cup {Absent}
      /\ deleted \subseteq 1..inodes /\ lockfile \subseteq 1..inodes
    BY DEF RemovalInv, PlaceTypes
<1>. QED BY <1>1, <1>2, RemovalCardinality DEF Removal!TypeOK, Root

LEMMA StageStep ==
    ASSUME AnyAge = FALSE
    PROVE  /\ StateInit => IInv
           /\ IInv /\ [StateNext]_everything => IInv'
<1>1. StateInit => IInv
    BY InitInvariant DEF StateInit
<1>2. [StateNext]_everything => [Next]_vars
    BY DEF StateNext, everything
<1>. QED BY <1>1, <1>2, NextInvariant

LEMMA PackageTypes == PackageInv => Packages!TypeOK
<1>. SUFFICES ASSUME PackageInv PROVE Packages!TypeOK OBVIOUS
<1>1. /\ lock \in Proc \cup {Nobody}
      /\ synced \cup doomed \cup reported \subseteq 1..made
      /\ \A i \in Id : files[i] \in 0..Files
    BY DEF PackageInv, CountTypes
<1>2. lock # Nobody => kind = "profile" /\ step[lock] \notin {"idle", "verify"}
    BY DEF PackageInv, LockKept, LockedSteps
<1>3. \A n \in Name : dir[n] \in images[n]
    BY DEF PackageInv, DiskTypes
<1>. QED BY <1>1, <1>2, <1>3 DEF Packages!TypeOK, Id

\* The three components keep their types: a lock of the package store has a
\* holder at work, every directory of the removal is in one place.
THEOREM TypesHold == ASSUME AnyAge = FALSE PROVE StateSpec => []TypesOK
<1>1. StateInit => IInv
    BY StageStep
<1>2. IInv /\ [StateNext]_everything => IInv'
    BY StageStep
<1>3. IInv /\ PackageInv /\ RemovalInv => TypesOK
    BY PackageTypes, RemovalTypes DEF TypesOK, IInv
<1>. QED BY <1>1, <1>2, <1>3, PackageInvariant, RemovalInvariant, PTL
         DEF StateSpec

=============================================================================
