-------------------------- MODULE UserStoresProofs --------------------------
(***************************************************************************)
(* What a user's runs remember, for any number of processes, hosts, runs   *)
(* and power losses.                                                       *)
(*                                                                         *)
(* The remembered-decision file is an atomic map (it implements            *)
(* DecisionMap), it never becomes unreadable, and a reported change        *)
(* survives a power loss.  The lock alone does not make the read and the   *)
(* rename one step: the inductive invariant says that what the lock holder *)
(* read is still the file (Fresh), which needs that only the holder is     *)
(* past the lock (Held).                                                   *)
(*                                                                         *)
(* The token of guard grok is fresh, since it is compared in the step in   *)
(* which it is taken, and a forced login cannot be replaced by a silent    *)
(* refresh (CredentialInv).                                                *)
(*                                                                         *)
(* The conversations of guard grok have no lock.  While publications do    *)
(* not overlap, the one that is sweeping has synced the pointer, so that   *)
(* CURRENT can name nothing but its snapshot, which it does not remove     *)
(* (OnePublishes).  While runs do not overlap, what was reported is handed *)
(* on from the snapshot to the list, the copy and the next snapshot        *)
(* (OneRuns).                                                              *)
(***************************************************************************)
EXTENDS MCUserStores, TLAPS

-----------------------------------------------------------------------------
(* The remembered decisions.                                               *)

\* Exactly the lock holder is between the lock and its release.
Held == \A p \in Process : pc[p] \in Locked <=> locker = p

\* Until the rename, the file is what the writer read, and there is something
\* to write.
Fresh ==
    \A p \in Process :
        /\ pc[p] \in {"read", "synced"} => found[p] = file
        /\ pc[p] \in {"read", "synced", "renamed"} => op[p] # Opening

IInv == TypeOK /\ Held /\ Fresh /\ ReportedIsDurable

\* An operation makes a document of a document.
LEMMA EffectIsDocument ==
    ASSUME NEW o \in Operations, NEW d \in Documents
    PROVE  Effect(o, d) \in Documents
<1>. USE DEF Documents, Effect, Abstract!Documents, Abstract!Remembered
<1>1. CASE o = Opening
    BY <1>1 DEF Opening, Abstract!Effect
<1>2. CASE o \in Abstract!Remembers
    BY <1>2 DEF Abstract!Effect, Abstract!Remembers
<1>3. CASE o \in Abstract!Forgets
    BY <1>3 DEF Abstract!Effect, Abstract!Forgets
<1>4. CASE o = [kind |-> "clear"]
    BY <1>4 DEF Abstract!Effect
<1>. QED
    BY <1>1, <1>2, <1>3, <1>4 DEF Operations, Abstract!Updates

\* DecisionStore::open writes nothing.
LEMMA OpeningChangesNothing ==
    ASSUME NEW d \in Documents PROVE ~Changes(Opening, d)
BY DEF Changes, Opening, Effect, Documents, Abstract!Effect,
       Abstract!Documents

LEMMA NoDocumentIsDocument == NoDocument \in Documents
BY DEF NoDocument, Documents, Abstract!Documents, Abstract!Remembered

LEMMA InitInvariant == Init => IInv
BY NoDocumentIsDocument, NobodyAssumption
   DEF Init, IInv, TypeOK, Held, Fresh, ReportedIsDurable, Steps, Locked,
       Operations

\* Every step preserves the inductive invariant.
LEMMA NextInvariant == IInv /\ [Next]_vars => IInv'
<1>. SUFFICES ASSUME IInv, [Next]_vars PROVE IInv'
    OBVIOUS
<1>. USE DEF IInv
<1>. USE DEF Steps, Locked
<1>1. ASSUME NEW p \in Process, NEW o \in Operations, Begin(p, o)
      PROVE  IInv'
    <2>1. TypeOK' BY <1>1 DEF Begin, Goto, TypeOK
    <2>2. Held' BY <1>1 DEF Begin, Goto, TypeOK, Held
    <2>3. Fresh' BY <1>1 DEF Begin, Goto, TypeOK, Fresh
    <2>4. ReportedIsDurable'
        BY <1>1 DEF Begin, Goto, TypeOK, ReportedIsDurable
    <2>. QED BY <2>1, <2>2, <2>3, <2>4
<1>2. ASSUME NEW p \in Process, Lock(p) PROVE IInv'
    <2>1. TypeOK' BY <1>2 DEF Lock, Goto, TypeOK
    <2>2. Held' BY <1>2, NobodyAssumption DEF Lock, Goto, TypeOK, Held
    <2>3. Fresh' BY <1>2 DEF Lock, Goto, TypeOK, Fresh
    <2>4. ReportedIsDurable'
        BY <1>2 DEF Lock, Goto, TypeOK, ReportedIsDurable
    <2>. QED BY <2>1, <2>2, <2>3, <2>4
<1>3. ASSUME NEW p \in Process, LockFails(p) PROVE IInv'
    <2>. USE <1>3 DEF LockFails, Return, Goto, AfterFailure
    <2>1. TypeOK' BY NoDocumentIsDocument DEF TypeOK, Operations
    <2>2. Held' BY DEF TypeOK, Held
    <2>3. Fresh' BY DEF TypeOK, Fresh
    <2>4. ReportedIsDurable' BY DEF TypeOK, ReportedIsDurable
    <2>. QED BY <2>1, <2>2, <2>3, <2>4
<1>4. ASSUME NEW p \in Process, Read(p) PROVE IInv'
    <2>1. TypeOK' BY <1>4 DEF Read, Goto, TypeOK
    <2>2. Held' BY <1>4 DEF Read, Goto, TypeOK, Held
    <2>3. Fresh'
        BY <1>4, OpeningChangesNothing DEF Read, Goto, TypeOK, Fresh
    <2>4. ReportedIsDurable'
        BY <1>4 DEF Read, Goto, TypeOK, ReportedIsDurable
    <2>. QED BY <2>1, <2>2, <2>3, <2>4
<1>5. ASSUME NEW p \in Process, WriteTemporary(p) PROVE IInv'
    <2>1. TypeOK' BY <1>5 DEF WriteTemporary, Goto, TypeOK
    <2>2. Held' BY <1>5 DEF WriteTemporary, Goto, TypeOK, Held
    <2>3. Fresh' BY <1>5 DEF WriteTemporary, Goto, TypeOK, Fresh
    <2>4. ReportedIsDurable'
        BY <1>5 DEF WriteTemporary, Goto, TypeOK, ReportedIsDurable
    <2>. QED BY <2>1, <2>2, <2>3, <2>4
<1>6. ASSUME NEW p \in Process, Publish(p) PROVE IInv'
    <2>1. TypeOK' BY <1>6, EffectIsDocument DEF Publish, Goto, TypeOK
    <2>2. Held' BY <1>6 DEF Publish, Goto, TypeOK, Held
    <2>3. \A q \in Process : q # p => pc[q] \notin Locked
        BY <1>6 DEF Publish, Held, TypeOK
    <2>4. Fresh' BY <1>6, <2>3 DEF Publish, Goto, TypeOK, Fresh
    <2>5. ReportedIsDurable'
        BY <1>6, <2>3 DEF Publish, Goto, TypeOK, ReportedIsDurable
    <2>. QED BY <2>1, <2>2, <2>4, <2>5
<1>7. ASSUME NEW p \in Process, SyncDirectory(p) PROVE IInv'
    <2>1. TypeOK' BY <1>7 DEF SyncDirectory, Goto, TypeOK
    <2>2. Held' BY <1>7 DEF SyncDirectory, Goto, TypeOK, Held
    <2>3. Fresh' BY <1>7 DEF SyncDirectory, Goto, TypeOK, Fresh
    <2>4. ReportedIsDurable'
        BY <1>7 DEF SyncDirectory, Goto, TypeOK, ReportedIsDurable
    <2>. QED BY <2>1, <2>2, <2>3, <2>4
<1>8. ASSUME NEW p \in Process, Fail(p) PROVE IInv'
    <2>1. TypeOK' BY <1>8 DEF Fail, Goto, TypeOK
    <2>2. Held' BY <1>8 DEF Fail, Goto, TypeOK, Held
    <2>3. Fresh' BY <1>8 DEF Fail, Goto, TypeOK, Fresh
    <2>4. ReportedIsDurable'
        BY <1>8 DEF Fail, Goto, TypeOK, ReportedIsDurable
    <2>. QED BY <2>1, <2>2, <2>3, <2>4
<1>9. ASSUME NEW p \in Process, Unlock(p) PROVE IInv'
    <2>. USE <1>9 DEF Unlock, Return, Goto, AfterFailure
    <2>1. TypeOK' BY NoDocumentIsDocument DEF TypeOK, Operations
    <2>2. Held' BY NobodyAssumption DEF TypeOK, Held
    <2>3. Fresh' BY DEF TypeOK, Fresh
    <2>4. ReportedIsDurable' BY DEF TypeOK, ReportedIsDurable
    <2>. QED BY <2>1, <2>2, <2>3, <2>4
<1>10. ASSUME NEW p \in Process, Exit(p) PROVE IInv'
    <2>. USE <1>10 DEF Exit, Return, Goto
    <2>1. TypeOK' BY NoDocumentIsDocument DEF TypeOK, Operations
    <2>2. Held' BY NobodyAssumption DEF TypeOK, Held
    <2>3. Fresh' BY DEF TypeOK, Fresh
    <2>4. ReportedIsDurable' BY DEF TypeOK, ReportedIsDurable
    <2>. QED BY <2>1, <2>2, <2>3, <2>4
<1>11. CASE PowerLoss
    <2>. USE <1>11 DEF PowerLoss
    <2>1. TypeOK' BY NoDocumentIsDocument DEF TypeOK, Operations
    <2>2. Held' BY NobodyAssumption DEF TypeOK, Held
    <2>3. Fresh' BY DEF TypeOK, Fresh
    <2>4. ReportedIsDurable' BY DEF TypeOK, ReportedIsDurable
    <2>. QED BY <2>1, <2>2, <2>3, <2>4
<1>12. CASE UNCHANGED vars
    BY <1>12 DEF vars, TypeOK, Held, Fresh, ReportedIsDurable
<1>. QED
    BY <1>1, <1>2, <1>3, <1>4, <1>5, <1>6, <1>7, <1>8, <1>9, <1>10, <1>11,
       <1>12
    DEF Next, Step

\* The file is always a whole document, whatever crashes: type correctness
\* and the inductive invariant of the decision store.
THEOREM Invariance == Spec => []IInv
BY InitInvariant, NextInvariant, PTL DEF Spec

\* The state keeps its type; in particular a power loss never leaves a file
\* that read_decisions refuses.
THEOREM TypeCorrect == Spec => []TypeOK
<1>1. IInv => TypeOK BY DEF IInv
<1>. QED BY <1>1, Invariance, PTL

\* A change that remember, forget or clear reported survives a power loss.
THEOREM Durability == Spec => []ReportedIsDurable
<1>1. IInv => ReportedIsDurable BY DEF IInv
<1>. QED BY <1>1, Invariance, PTL

\* A step of the store is a step of the atomic map, or leaves it alone.
LEMMA StepRefines ==
    IInv /\ [Next]_vars => [Abstract!Next]_<<file, survivors>>
<1>. SUFFICES ASSUME IInv, Next, ~UNCHANGED <<file, survivors>>
              PROVE  Abstract!Next
    BY DEF vars
<1>1. CASE PowerLoss
    BY <1>1 DEF PowerLoss, Abstract!Next, Abstract!PowerLoss
<1>2. ASSUME NEW p \in Process, Publish(p) PROVE Abstract!Next
    <2>1. found[p] = file /\ op[p] # Opening
        BY <1>2 DEF IInv, Fresh, Publish
    <2>2. op[p] \in Abstract!Updates
        BY <2>1 DEF IInv, TypeOK, Operations
    <2>3. Abstract!Update(op[p])
        BY <1>2, <2>1 DEF Publish, Effect, Abstract!Update
    <2>. QED BY <2>2, <2>3 DEF Abstract!Next
<1>3. ASSUME NEW p \in Process, SyncDirectory(p) PROVE Abstract!Next
    BY <1>3 DEF SyncDirectory, Abstract!Next, Abstract!Settle
<1>. QED
    BY <1>1, <1>2, <1>3
    DEF Next, Step, Begin, Lock, LockFails, Read, WriteTemporary, Fail,
        Unlock, Exit

\* The decision store implements the atomic map: no update of one process is
\* lost to another's, and none is half applied.
THEOREM StoreIsAtomic == Spec => Atomic
<1>1. Init => Abstract!Init
    BY DEF Init, Abstract!Init, Documents
<1>. QED
    BY <1>1, Invariance, StepRefines, PTL
    DEF Spec, Atomic, Abstract!Spec

-----------------------------------------------------------------------------
(* The token of guard grok.                                                *)

\* A forced login is never replaced by a silent refresh.
CredentialInv ==
    /\ Credential!CredentialFresh
    /\ began \in Times /\ force \in BOOLEAN /\ terminal \in BOOLEAN
    /\ asking = "none" => ~logins
    /\ asking = "silent" => ~force
    /\ asking = "reload" /\ force => logins

LEMMA CredentialInit == Credential!Init => CredentialInv
BY TimeAssumption
   DEF Credential!Init, CredentialInv, Credential!CredentialFresh,
       Credential!TypeOK, Credential!File

\* Only a token that was compared in the same step is taken.
LEMMA CredentialStep ==
    CredentialInv /\ [Credential!Next]_credential => CredentialInv'
<1>. SUFFICES ASSUME CredentialInv, [Credential!Next]_credential
              PROVE  CredentialInv'
    OBVIOUS
<1>. USE TimeAssumption
     DEF CredentialInv, Credential!CredentialFresh, Credential!TypeOK,
         Credential!File, Credential!Goto, Credential!Accept, Credential!given
<1>1. CASE Credential!Begin
    BY <1>1 DEF Credential!Begin
<1>2. CASE Credential!Load
    BY <1>2 DEF Credential!Load
<1>3. CASE Credential!Refresh
    BY <1>3 DEF Credential!Refresh
<1>4. CASE Credential!Silent
    BY <1>4 DEF Credential!Silent
<1>5. CASE Credential!Login
    BY <1>5 DEF Credential!Login
<1>6. CASE Credential!Reload
    BY <1>6 DEF Credential!Reload
<1>7. CASE Credential!Pass
    BY <1>7 DEF Credential!Pass
<1>8. CASE Credential!HostWrites
    BY <1>8 DEF Credential!HostWrites
<1>9. CASE UNCHANGED credential
    BY <1>9 DEF credential
<1>. QED
    BY <1>1, <1>2, <1>3, <1>4, <1>5, <1>6, <1>7, <1>8, <1>9
       DEF Credential!Next

\* For any times and minimum: a run of guard grok gets only a token that
\* outlasts its beginning by the profile's minimum, whoever rewrote the auth
\* file meanwhile, after a forced login only behind one, and nobody is asked to
\* log in without a terminal.
THEOREM TokensAreFresh == StoresSpec => []CredentialFresh
<1>1. StoresInit => CredentialInv
    BY CredentialInit DEF StoresInit
<1>2. CredentialInv /\ [StoresNext]_everything => CredentialInv'
    <2>1. [StoresNext]_everything => [Credential!Next]_credential
        BY DEF StoresNext, everything
    <2>. QED BY <2>1, CredentialStep
<1>3. CredentialInv => CredentialFresh
    BY DEF CredentialInv, CredentialFresh
<1>. QED BY <1>1, <1>2, <1>3, PTL DEF StoresSpec

-----------------------------------------------------------------------------
(* The conversations of guard grok.                                        *)

SessionSteps == {"idle", "opened", "copying", "loaded", "ran", "placed",
                 "named", "activated", "sweeping", "done", "failed", "killed"}

Conversations == SUBSET Grok
Snapshots     == Conversations \cup {Sessions!Gone}

SessionTypes ==
    /\ doing \in [Grok -> SessionSteps]
    /\ previous \in [Grok -> {0} \cup Grok]
    /\ listed \in [Grok -> Conversations] /\ copied \in [Grok -> Conversations]
    /\ snapshot \in [Grok -> Snapshots] /\ published \in [Grok -> Snapshots]
    /\ current \in {0} \cup Grok
    /\ outcomes \subseteq {0} \cup Grok /\ current \in outcomes
    /\ sweep \in [Grok -> SUBSET Grok]
    /\ overlapped \in BOOLEAN /\ raced \in BOOLEAN

\* While publications do not overlap, one run at most is publishing, its
\* snapshot is whole, and once it has synced the pointer nothing else can be
\* what CURRENT names; its own snapshot is not among those it removes.
OnePublishes ==
    ~raced =>
        \A p \in Grok : Sessions!Publishing(p) =>
            /\ \A q \in Grok : Sessions!Publishing(q) => q = p
            /\ snapshot[p] = published[p]
            /\ doing[p] = "activated" => current = p
            /\ doing[p] = "sweeping" => outcomes = {p} /\ p \notin sweep[p]

\* While runs do not overlap, one at most is active, and what it has loaded so
\* far leads on to everything that was reported before it.
Carries(q, p) ==
    /\ doing[q] \in {"copying", "loaded"} => p \in listed[q]
    /\ doing[q] = "ran" => p \in copied[q]
    /\ Sessions!Publishing(q) => p \in snapshot[q]

OneRuns ==
    ~overlapped =>
        /\ ~raced
        /\ \A q \in Grok : Sessions!Active(q) =>
              /\ \A p \in Grok : Sessions!Active(p) => p = q
              /\ doing[q] = "opened" => previous[q] \in outcomes
              /\ doing[q] = "ran" => q \in copied[q]
              /\ Sessions!Publishing(q) => q \in snapshot[q]
              /\ \A p \in Grok : doing[p] = "done" => Carries(q, p)

SessionsInv ==
    /\ SessionTypes /\ OnePublishes /\ OneRuns
    /\ Sessions!CurrentWhole /\ Sessions!LoadedAsListed
    /\ Sessions!ReportedKept

LEMMA SessionsInit == Sessions!Init => SessionsInv
BY DEF Sessions!Init, SessionsInv, SessionTypes, SessionSteps, Conversations,
       Snapshots, OnePublishes, OneRuns, Sessions!Publishing, Sessions!Active,
       Sessions!CurrentWhole, Sessions!LoadedAsListed, Sessions!ReportedKept

\* Every step of a run, a kill and a power loss keep the invariant.
LEMMA SessionsStep == SessionsInv /\ [Sessions!Next]_sessions => SessionsInv'
<1>. SUFFICES ASSUME SessionsInv, [Sessions!Next]_sessions
              PROVE  SessionsInv'
    OBVIOUS
<1>. USE GrokAssumption
     DEF SessionsInv, SessionSteps, Sessions!own, Sessions!disk,
         Sessions!Become
<1>1. ASSUME NEW p \in Grok, Sessions!Open(p) PROVE SessionsInv'
    <2>. USE <1>1 DEF Sessions!Open
    <2>1. SessionTypes'
        BY DEF SessionTypes
    <2>2. OnePublishes'
        BY DEF SessionTypes, OnePublishes, Sessions!Publishing
    <2>3. OneRuns'
        <3>. SUFFICES ASSUME ~overlapped' PROVE OneRuns'
            BY DEF OneRuns
        <3>1. ~overlapped /\ \A q \in Grok : ~Sessions!Active(q)
            OBVIOUS
        <3>2. \A q \in Grok : Sessions!Active(q)' => q = p
            BY <3>1 DEF Sessions!Active
        <3>3. /\ doing'[p] = "opened" /\ previous'[p] = current
              /\ outcomes' = outcomes /\ raced' = raced /\ ~raced
            BY DEF SessionTypes, OneRuns
        <3>. QED
            BY <3>2, <3>3
               DEF SessionTypes, OneRuns, Carries, Sessions!Publishing
    <2>4. Sessions!CurrentWhole'
        BY DEF Sessions!CurrentWhole
    <2>5. Sessions!LoadedAsListed'
        BY DEF Sessions!LoadedAsListed
    <2>6. Sessions!ReportedKept'
        BY DEF SessionTypes, Sessions!ReportedKept
    <2>. QED BY <2>1, <2>2, <2>3, <2>4, <2>5, <2>6
<1>2. ASSUME NEW p \in Grok, Sessions!List(p) PROVE SessionsInv'
    <2>. USE <1>2 DEF Sessions!List
    <2>1. SessionTypes'
        BY DEF SessionTypes, Conversations, Snapshots, Sessions!Stored
    <2>2. OnePublishes'
        BY DEF SessionTypes, OnePublishes, Sessions!Publishing
    <2>3. OneRuns'
        <3>. SUFFICES ASSUME ~overlapped PROVE OneRuns'
            BY DEF OneRuns
        <3>1. /\ ~raced /\ previous[p] \in outcomes
              /\ \A q \in Grok : Sessions!Active(q) => q = p
            BY DEF OneRuns, Sessions!Active
        <3>2. \A q \in Grok : Sessions!Active(q)' => q = p
            BY <3>1 DEF SessionTypes, Sessions!Active
        <3>3. ASSUME NEW q \in Grok, doing'[q] = "done", doing'[p] = "copying"
              PROVE  q \in listed'[p]
            <4>1. doing[q] = "done"
                BY <3>3 DEF SessionTypes
            <4>2. previous[p] # 0 /\ q \in snapshot[previous[p]]
                BY <3>1, <4>1 DEF Sessions!ReportedKept
            <4>. QED BY <3>3, <4>2 DEF SessionTypes
        <3>4. doing'[p] \in {"copying", "failed"} /\ raced' = raced
            BY DEF SessionTypes
        <3>. QED
            BY <3>1, <3>2, <3>3, <3>4
               DEF OneRuns, Carries, Sessions!Publishing
    <2>4. Sessions!CurrentWhole'
        BY DEF Sessions!CurrentWhole
    <2>5. Sessions!LoadedAsListed'
        BY DEF SessionTypes, Sessions!LoadedAsListed
    <2>6. Sessions!ReportedKept'
        BY DEF SessionTypes, Sessions!ReportedKept
    <2>. QED BY <2>1, <2>2, <2>3, <2>4, <2>5, <2>6
<1>3. ASSUME NEW p \in Grok, Sessions!Copy(p) PROVE SessionsInv'
    <2>. USE <1>3 DEF Sessions!Copy
    <2>1. SessionTypes'
        BY DEF SessionTypes, Conversations
    <2>2. OnePublishes'
        BY DEF SessionTypes, OnePublishes, Sessions!Publishing
    <2>3. OneRuns'
        BY DEF SessionTypes, OneRuns, Carries, Sessions!Active,
               Sessions!Publishing
    <2>4. Sessions!CurrentWhole'
        BY DEF Sessions!CurrentWhole
    <2>5. Sessions!LoadedAsListed'
        BY DEF SessionTypes, Sessions!LoadedAsListed
    <2>6. Sessions!ReportedKept'
        BY DEF SessionTypes, Sessions!ReportedKept
    <2>. QED BY <2>1, <2>2, <2>3, <2>4, <2>5, <2>6
<1>4. ASSUME NEW p \in Grok, Sessions!Prepared(p) PROVE SessionsInv'
    <2>. USE <1>4 DEF Sessions!Prepared
    <2>1. SessionTypes'
        BY DEF SessionTypes
    <2>2. OnePublishes'
        BY DEF SessionTypes, OnePublishes, Sessions!Publishing
    <2>3. OneRuns'
        BY DEF SessionTypes, OneRuns, Carries, Sessions!Active,
               Sessions!Publishing
    <2>4. Sessions!CurrentWhole'
        BY DEF Sessions!CurrentWhole
    <2>5. Sessions!LoadedAsListed'
        BY DEF SessionTypes, Sessions!LoadedAsListed
    <2>6. Sessions!ReportedKept'
        BY DEF SessionTypes, Sessions!ReportedKept
    <2>. QED BY <2>1, <2>2, <2>3, <2>4, <2>5, <2>6
<1>5. ASSUME NEW p \in Grok, Sessions!Converse(p) PROVE SessionsInv'
    <2>. USE <1>5 DEF Sessions!Converse
    <2>1. SessionTypes'
        BY DEF SessionTypes, Conversations
    <2>2. OnePublishes'
        BY DEF SessionTypes, OnePublishes, Sessions!Publishing
    <2>3. OneRuns'
        BY DEF SessionTypes, OneRuns, Carries, Sessions!Active,
               Sessions!Publishing, Sessions!LoadedAsListed
    <2>4. Sessions!CurrentWhole'
        BY DEF Sessions!CurrentWhole
    <2>5. Sessions!LoadedAsListed'
        BY DEF SessionTypes, Sessions!LoadedAsListed
    <2>6. Sessions!ReportedKept'
        BY DEF SessionTypes, Sessions!ReportedKept
    <2>. QED BY <2>1, <2>2, <2>3, <2>4, <2>5, <2>6
<1>6. ASSUME NEW p \in Grok, Sessions!Place(p) PROVE SessionsInv'
    <2>. USE <1>6 DEF Sessions!Place
    <2>1. SessionTypes'
        BY DEF SessionTypes, Snapshots
    <2>2. OnePublishes'
        BY DEF SessionTypes, OnePublishes, Sessions!Publishing
    <2>3. OneRuns'
        BY DEF SessionTypes, OneRuns, Carries, Sessions!Active,
               Sessions!Publishing
    <2>4. Sessions!CurrentWhole'
        BY DEF SessionTypes, Sessions!CurrentWhole
    <2>5. Sessions!LoadedAsListed'
        BY DEF Sessions!LoadedAsListed
    <2>6. Sessions!ReportedKept'
        BY DEF OneRuns, Carries, Sessions!Active, Sessions!ReportedKept
    <2>. QED BY <2>1, <2>2, <2>3, <2>4, <2>5, <2>6
<1>7. ASSUME NEW p \in Grok, Sessions!WritePointer(p) PROVE SessionsInv'
    <2>. USE <1>7 DEF Sessions!WritePointer
    <2>1. SessionTypes'
        BY DEF SessionTypes
    <2>2. OnePublishes'
        BY DEF OnePublishes, Sessions!Publishing
    <2>3. OneRuns'
        BY DEF SessionTypes, OneRuns, Carries, Sessions!Active,
               Sessions!Publishing
    <2>4. Sessions!CurrentWhole'
        BY DEF Sessions!CurrentWhole
    <2>5. Sessions!LoadedAsListed'
        BY DEF SessionTypes, Sessions!LoadedAsListed
    <2>6. Sessions!ReportedKept'
        BY DEF Sessions!ReportedKept
    <2>. QED BY <2>1, <2>2, <2>3, <2>4, <2>5, <2>6
<1>8. ASSUME NEW p \in Grok, Sessions!Rename(p) PROVE SessionsInv'
    <2>. USE <1>8 DEF Sessions!Rename
    <2>1. SessionTypes'
        BY DEF SessionTypes
    <2>2. OnePublishes'
        BY DEF SessionTypes, OnePublishes, Sessions!Publishing
    <2>3. OneRuns'
        BY DEF OneRuns, Carries, Sessions!Active, Sessions!Publishing
    <2>4. Sessions!CurrentWhole'
        BY DEF OnePublishes, Sessions!Publishing, Sessions!CurrentWhole
    <2>5. Sessions!LoadedAsListed'
        BY DEF SessionTypes, Sessions!LoadedAsListed
    <2>6. Sessions!ReportedKept'
        BY DEF SessionTypes, OneRuns, Carries, Sessions!Active,
               Sessions!Publishing, Sessions!ReportedKept
    <2>. QED BY <2>1, <2>2, <2>3, <2>4, <2>5, <2>6
<1>9. ASSUME NEW p \in Grok, Sessions!SyncStore(p) PROVE SessionsInv'
    <2>. USE <1>9 DEF Sessions!SyncStore, Sessions!Found
    <2>1. SessionTypes'
        BY DEF SessionTypes
    <2>2. OnePublishes'
        BY DEF SessionTypes, OnePublishes, Sessions!Publishing
    <2>3. OneRuns'
        BY DEF OneRuns, Carries, Sessions!Active, Sessions!Publishing
    <2>4. Sessions!CurrentWhole'
        BY DEF OnePublishes, Sessions!Publishing, Sessions!CurrentWhole
    <2>5. Sessions!LoadedAsListed'
        BY DEF SessionTypes, Sessions!LoadedAsListed
    <2>6. Sessions!ReportedKept'
        BY DEF OnePublishes, OneRuns, Carries, Sessions!Active,
               Sessions!Publishing, Sessions!ReportedKept
    <2>. QED BY <2>1, <2>2, <2>3, <2>4, <2>5, <2>6
<1>10. ASSUME NEW p \in Grok, Sessions!Sweep(p) PROVE SessionsInv'
    <2>. USE <1>10 DEF Sessions!Sweep
    <2>1. SessionTypes'
        BY DEF SessionTypes, Conversations, Snapshots
    <2>2. OnePublishes'
        BY DEF SessionTypes, OnePublishes, Sessions!Publishing
    <2>3. OneRuns'
        BY DEF SessionTypes, OnePublishes, OneRuns, Carries, Sessions!Active,
               Sessions!Publishing
    <2>4. Sessions!CurrentWhole'
        BY DEF SessionTypes, OnePublishes, Sessions!Publishing,
               Sessions!CurrentWhole
    <2>5. Sessions!LoadedAsListed'
        BY DEF Sessions!LoadedAsListed
    <2>6. Sessions!ReportedKept'
        BY DEF SessionTypes, OnePublishes, OneRuns, Sessions!Publishing,
               Sessions!ReportedKept
    <2>. QED BY <2>1, <2>2, <2>3, <2>4, <2>5, <2>6
<1>11. ASSUME NEW p \in Grok, Sessions!Report(p) PROVE SessionsInv'
    <2>. USE <1>11 DEF Sessions!Report
    <2>1. SessionTypes'
        BY DEF SessionTypes
    <2>2. OnePublishes'
        BY DEF OnePublishes, Sessions!Publishing
    <2>3. OneRuns'
        BY DEF SessionTypes, OneRuns, Carries, Sessions!Active,
               Sessions!Publishing, Sessions!LoadedAsListed
    <2>4. Sessions!CurrentWhole'
        BY DEF Sessions!CurrentWhole
    <2>5. Sessions!LoadedAsListed'
        BY DEF SessionTypes, Sessions!LoadedAsListed
    <2>6. Sessions!ReportedKept'
        BY DEF OnePublishes, OneRuns, Sessions!Active, Sessions!Publishing,
               Sessions!ReportedKept
    <2>. QED BY <2>1, <2>2, <2>3, <2>4, <2>5, <2>6
<1>12. ASSUME NEW p \in Grok, Sessions!Fail(p) PROVE SessionsInv'
    <2>. USE <1>12 DEF Sessions!Fail
    <2>1. SessionTypes'
        BY DEF SessionTypes
    <2>2. OnePublishes'
        BY DEF OnePublishes, Sessions!Publishing
    <2>3. OneRuns'
        BY DEF OneRuns, Carries, Sessions!Active, Sessions!Publishing
    <2>4. Sessions!CurrentWhole'
        BY DEF Sessions!CurrentWhole
    <2>5. Sessions!LoadedAsListed'
        BY DEF Sessions!LoadedAsListed
    <2>6. Sessions!ReportedKept'
        BY DEF SessionTypes, Sessions!ReportedKept
    <2>. QED BY <2>1, <2>2, <2>3, <2>4, <2>5, <2>6
<1>13. ASSUME NEW p \in Grok, Sessions!Kill(p) PROVE SessionsInv'
    <2>. USE <1>13 DEF Sessions!Kill, Sessions!Active
    <2>1. SessionTypes'
        BY DEF SessionTypes
    <2>2. OnePublishes'
        BY DEF OnePublishes, Sessions!Publishing
    <2>3. OneRuns'
        BY DEF OneRuns, Carries, Sessions!Publishing
    <2>4. Sessions!CurrentWhole'
        BY DEF Sessions!CurrentWhole
    <2>5. Sessions!LoadedAsListed'
        BY DEF Sessions!LoadedAsListed
    <2>6. Sessions!ReportedKept'
        BY DEF SessionTypes, Sessions!ReportedKept
    <2>. QED BY <2>1, <2>2, <2>3, <2>4, <2>5, <2>6
<1>14. CASE Sessions!PowerLoss
    <2>. USE <1>14 DEF Sessions!PowerLoss
    <2>1. SessionTypes' BY DEF SessionTypes
    <2>2. OnePublishes'
        BY DEF OnePublishes, Sessions!Publishing, Sessions!Active
    <2>3. OneRuns' BY DEF OneRuns, Sessions!Active
    <2>4. Sessions!CurrentWhole' BY DEF Sessions!CurrentWhole
    <2>5. Sessions!LoadedAsListed' BY DEF Sessions!LoadedAsListed
    <2>6. Sessions!ReportedKept' BY DEF Sessions!ReportedKept
    <2>. QED BY <2>1, <2>2, <2>3, <2>4, <2>5, <2>6
<1>15. CASE UNCHANGED sessions
    BY <1>15
       DEF sessions, SessionTypes, OnePublishes, OneRuns, Carries,
           Sessions!Publishing, Sessions!Active, Sessions!CurrentWhole,
           Sessions!LoadedAsListed, Sessions!ReportedKept
<1>. QED
    BY <1>1, <1>2, <1>3, <1>4, <1>5, <1>6, <1>7, <1>8, <1>9, <1>10, <1>11,
       <1>12, <1>13, <1>14, <1>15
       DEF Sessions!Next

\* For any runs and power losses, failures and kills at any step: CURRENT names
\* a snapshot that is all there unless two publications overlapped, a run works
\* only on all the conversations it found, and without overlapping runs what a
\* run of guard grok reported as stored is in every snapshot CURRENT may name
\* from then on.
THEOREM SnapshotsAreSafe == StoresSpec => []SnapshotsSafe
<1>1. StoresInit => SessionsInv
    BY SessionsInit DEF StoresInit
<1>2. SessionsInv /\ [StoresNext]_everything => SessionsInv'
    <2>1. [StoresNext]_everything => [Sessions!Next]_sessions
        BY DEF StoresNext, everything
    <2>. QED BY <2>1, SessionsStep
<1>3. SessionsInv => SnapshotsSafe
    BY DEF SessionsInv, SessionTypes, SessionSteps, Conversations,
           SnapshotsSafe, Sessions!SnapshotsSafe, Sessions!TypeOK
<1>. QED BY <1>1, <1>2, <1>3, PTL DEF StoresSpec

=============================================================================
