------------------------- MODULE EgressBrokerProofs -------------------------
(***************************************************************************)
(* For any number of connections, hosts, slots and prompts: every open     *)
(* tunnel was authorized, the session's decisions are consistent and       *)
(* final, and slots and prompts stay within their limits.                  *)
(*                                                                         *)
(* The prompt lock carries the argument.  While a thread waits for its     *)
(* answer no other one can settle a host, so what the thread found under   *)
(* the lock (its host is undecided, the last id is its own) is still true  *)
(* when the answer comes (Waiting).  What was permitted stays provable     *)
(* from the pipes, which only grow (Granted).                              *)
(***************************************************************************)
EXTENDS EgressBroker, FiniteSetTheorems, SequenceTheorems, TLAPS

Busy == {c \in Conn : pc[c] \notin {"idle", "gone"}}

\* The slots in use are the running threads.
Slots == IsFiniteSet(Busy) /\ active = Cardinality(Busy)

\* Only the holder of the prompt lock is past it.
Exclusive == \A c \in Conn : pc[c] \in {"recheck", "wait"} => lock = c

\* Every request has an id of its own, and only unlisted hosts are asked about.
Asking ==
    /\ Len(asked) <= MaxPrompts /\ Len(asked) < nextId
    /\ \A c \in Conn : pc[c] \in Approving => host[c] \in Unlisted
    /\ ctl \in {"dialog", "remember", "reply"} => taken > 0

\* A waiting thread has written the last id, and its host is undecided.
Waiting ==
    \A c \in Conn : pc[c] = "wait" =>
        /\ host[c] \notin allowed \cup denied
        /\ \E i \in DOMAIN asked :
              asked[i] = [id |-> nextId - 1, host |-> host[c], conn |-> c]

\* Some request for host h was answered for the session.
Settled(h) ==
    \E i \in DOMAIN asked :
        /\ asked[i].host = h
        /\ Answered(asked[i], "session") \/ Answered(asked[i], "always")

Granted == \A h \in allowed : Settled(h)

\* Connection c has its authorization, as OpenIsAuthorized demands it.
Authorized(c) ==
    \/ host[c] \in Allowlist
    \/ \E i \in DOMAIN asked :
          /\ asked[i].host = host[c]
          /\ \/ Answered(asked[i], "session")
             \/ Answered(asked[i], "always")
             \/ asked[i].conn = c /\ Answered(asked[i], "once")

IInv ==
    /\ TypeOK /\ Slots /\ Exclusive /\ Asking /\ Waiting /\ Granted
    /\ OpenIsAuthorized /\ SessionConsistent

\* The invariant holds of the initial states.
LEMMA InitInvariant == Init => IInv
<1>. SUFFICES ASSUME Init PROVE IInv OBVIOUS
<1>. USE DEF Init
<1>1. TypeOK
    BY ListAssumption, LimitAssumption DEF TypeOK, Steps, Remembered, Decisions
<1>2. Slots
    <2>1. Busy = {} BY DEF Busy
    <2>. QED BY <2>1, FS_EmptySet DEF Slots
<1>3. Exclusive /\ Asking /\ Waiting
    BY LimitAssumption DEF Exclusive, Asking, Waiting, Approving
<1>4. Granted /\ OpenIsAuthorized /\ SessionConsistent
    BY DEF Granted, OpenIsAuthorized, SessionConsistent, Open
<1>. QED BY <1>1, <1>2, <1>3, <1>4 DEF IInv

-----------------------------------------------------------------------------
(* Slots.                                                                  *)

\* A thread that stays busy leaves the slots as they are.
LEMMA SlotsKept ==
    ASSUME TypeOK, Slots, NEW c \in Conn, NEW l \in Steps \ {"idle", "gone"},
           pc[c] \notin {"idle", "gone"}, Goto(c, l), active' = active
    PROVE  Slots'
<1>1. Busy' = Busy BY DEF Busy, Goto, TypeOK
<1>. QED BY <1>1 DEF Slots

-----------------------------------------------------------------------------
(* Pipes.                                                                  *)

\* t has all that s has.
Grown(s, t) == /\ DOMAIN s \subseteq DOMAIN t
               /\ \A i \in DOMAIN s : t[i] = s[i]

\* Writing to a pipe leaves what was written.
LEMMA AppendGrows ==
    ASSUME NEW S, NEW s \in Seq(S), NEW x \in S
    PROVE  /\ Append(s, x) \in Seq(S) /\ Grown(s, Append(s, x))
           /\ Len(Append(s, x)) = Len(s) + 1
           /\ Len(s) + 1 \in DOMAIN Append(s, x)
           /\ Append(s, x)[Len(s) + 1] = x
BY DEF Grown

\* What is provable from the pipes stays so while they grow.
LEMMA StaysJustified ==
    ASSUME host' = host, Grown(asked, asked'), Grown(answers, answers')
    PROVE  /\ \A c \in Conn : Authorized(c) => Authorized(c)'
           /\ \A h : Settled(h) => Settled(h)'
<1>1. ASSUME NEW i \in DOMAIN asked, NEW d, Answered(asked[i], d)
      PROVE  Answered(asked[i], d)'
    BY <1>1 DEF Answered, Grown
<1>. QED BY <1>1 DEF Authorized, Settled, Grown

\* OpenIsAuthorized in terms of Authorized.
LEMMA OpenMeansAuthorized ==
    /\ OpenIsAuthorized <=> \A c \in Conn : pc[c] \in Open => Authorized(c)
    /\ OpenIsAuthorized' <=> \A c \in Conn : pc'[c] \in Open => Authorized(c)'
BY DEF OpenIsAuthorized, Authorized

-----------------------------------------------------------------------------
(* The threads.                                                            *)

\* A thread moves without a prompt: it asks nothing, and what it opens was
\* authorized before.  It may give the prompt lock back.
LEMMA Moves ==
    ASSUME IInv, NEW c \in Conn, NEW l \in Steps \ {"recheck", "wait"},
           Goto(c, l), Slots', active' \in 0..MaxConn, relaying' \subseteq Conn,
           \/ lock' = lock
           \/ pc[c] \in {"recheck", "wait"} /\ lock' = Nobody,
           UNCHANGED <<host, allowed, denied, asked, taken, answers, trusted>>,
           nextId' = nextId \/ (pc[c] = "recheck" /\ nextId' = nextId + 1),
           received' \in 0..Len(answers),
           l \in Approving => host[c] \in Unlisted,
           l \in Open => Authorized(c)
    PROVE  IInv'
<1>. USE DEF IInv, trusted
<1>1. TypeOK'
    BY DEF TypeOK, Goto
<1>2. Exclusive'
    BY DEF Exclusive, Goto, TypeOK
<1>3. Asking'
    BY DEF Asking, Goto, TypeOK
<1>4. Waiting'
    <2>. SUFFICES ASSUME NEW d \in Conn, pc'[d] = "wait"
                  PROVE  /\ host[d] \notin allowed \cup denied
                         /\ nextId' = nextId
                         /\ pc[d] = "wait"
        BY DEF Waiting
    <2>1. d # c /\ pc[d] = "wait" BY DEF Goto, TypeOK
    <2>2. pc[c] # "recheck" BY <2>1 DEF Exclusive
    <2>. QED BY <2>1, <2>2 DEF Waiting
<1>5. Granted' /\ SessionConsistent'
    BY DEF Granted, Settled, Answered, SessionConsistent
<1>6. OpenIsAuthorized'
    <2>1. \A d \in Conn : Authorized(d)' <=> Authorized(d)
        BY DEF Authorized, Answered
    <2>. QED BY <2>1, OpenMeansAuthorized DEF Goto, TypeOK
<1>. QED BY <1>1, <1>2, <1>3, <1>4, <1>5, <1>6

\* The accept loop: a new thread, or a connection dropped at the limit.
LEMMA AcceptInvariant == ASSUME IInv, NEW c \in Conn, Accept(c) PROVE IInv'
<1>. USE DEF Accept, broker, pipes
<1>1. CASE active >= MaxConn
    <2>1. Busy' = Busy BY <1>1 DEF Busy, Goto, IInv, TypeOK
    <2>2. Slots' BY <1>1, <2>1 DEF Slots, IInv
    <2>. QED
        BY <1>1, <2>2, Moves DEF Steps, IInv, TypeOK, Approving, Open
<1>2. CASE ~(active >= MaxConn)
    <2>1. Busy' = Busy \cup {c} /\ c \notin Busy
        BY <1>2 DEF Busy, Goto, IInv, TypeOK
    <2>2. Slots' BY <1>2, <2>1, FS_AddElement DEF Slots, IInv
    <2>3. active' \in 0..MaxConn BY <1>2, LimitAssumption DEF IInv, TypeOK
    <2>. QED
        BY <1>2, <2>2, <2>3, Moves DEF Steps, IInv, TypeOK, Approving, Open
<1>. QED BY <1>1, <1>2

\* A thread's end gives its slot back.
LEMMA ReleaseInvariant == ASSUME IInv, NEW c \in Conn, Release(c) PROVE IInv'
<1>. USE DEF Release, broker, pipes
<1>1. Busy' = Busy \ {c} /\ c \in Busy BY DEF Busy, Goto, IInv, TypeOK
<1>2. Slots' BY <1>1, FS_RemoveElement DEF Slots, IInv
<1>3. active' \in 0..MaxConn
    <2>1. Cardinality(Busy) # 0 BY <1>1, FS_EmptySet DEF Slots, IInv
    <2>. QED BY <2>1, LimitAssumption DEF Slots, IInv, TypeOK
<1>. QED BY <1>2, <1>3, Moves DEF Steps, IInv, TypeOK, Approving, Open

\* The steps before the prompt lock.
LEMMA BeforeLockInvariant ==
    ASSUME IInv, NEW c \in Conn, Header(c) \/ CheckDenied(c) \/ CheckAllowed(c)
    PROVE  IInv'
<1>. USE DEF broker, pipes, IInv, TypeOK
<1>1. CASE Header(c)
    <2>1. PICK l \in {"ending", "approved", "deny1"} :
              /\ Goto(c, l)
              /\ l = "approved" => host[c] \in Allowlist
              /\ l = "deny1" => host[c] \in Unlisted
        BY <1>1 DEF Header, Unlisted
    <2>2. Slots' BY <1>1, <2>1, SlotsKept DEF Header, Steps, Approving, Open
    <2>. QED
        BY <1>1, <2>1, <2>2, Moves
           DEF Header, Steps, Approving, Open, Authorized
<1>2. CASE CheckDenied(c)
    <2>1. PICK l \in {"ending", "allow1"} : Goto(c, l)
        BY <1>2 DEF CheckDenied
    <2>2. Slots' BY <1>2, <2>1, SlotsKept DEF CheckDenied, Steps, Approving
    <2>. QED
        BY <1>2, <2>1, <2>2, Moves DEF CheckDenied, Steps, Approving, Open, Asking
<1>3. CASE CheckAllowed(c)
    <2>1. PICK l \in {"approved", "lock"} :
              Goto(c, l) /\ (l = "approved" => host[c] \in allowed)
        BY <1>3 DEF CheckAllowed
    <2>2. Slots' BY <1>3, <2>1, SlotsKept DEF CheckAllowed, Steps, Approving, Open
    <2>3. l \in Open => Authorized(c)
        BY <2>1 DEF Granted, Settled, Authorized, Open
    <2>. QED
        BY <1>3, <2>1, <2>2, <2>3, Moves
           DEF CheckAllowed, Steps, Approving, Open, Asking
<1>. QED BY <1>1, <1>2, <1>3

\* The steps after the approval.
LEMMA OpenInvariant ==
    ASSUME IInv, NEW c \in Conn,
           Connect(c) \/ Hello(c) \/ Record(c) \/ ReverseEnds(c) \/ Join(c)
    PROVE  IInv'
<1>. USE DEF broker, pipes, IInv, TypeOK, Connect, Hello, Record, ReverseEnds,
             Join
<1>1. PICK l \in {"connected", "sent", "tunnel", "joining", "ending"} : Goto(c, l)
    OBVIOUS
<1>2. pc[c] \in Open BY DEF Open
<1>3. l \in Steps \ {"idle", "gone", "recheck", "wait"} /\ l \notin Approving
    BY DEF Steps, Approving, Open
<1>4. Slots' BY <1>1, <1>2, <1>3, SlotsKept DEF Open
<1>5. Authorized(c) BY <1>2 DEF OpenIsAuthorized, Authorized
<1>6. relaying' \subseteq Conn OBVIOUS
<1>7. /\ active' \in 0..MaxConn /\ lock' = lock
      /\ UNCHANGED <<host, allowed, denied, asked, taken, answers, trusted>>
      /\ nextId' = nextId /\ received' \in 0..Len(answers)
    OBVIOUS
<1>. QED BY <1>1, <1>3, <1>4, <1>5, <1>6, <1>7, Moves

\* The forward relay's end touches nothing the invariant speaks of.
LEMMA ForwardEndsInvariant ==
    ASSUME IInv, NEW c \in Conn, ForwardEnds(c) PROVE IInv'
<1>. USE DEF IInv, ForwardEnds, broker, pipes, trusted
<1>1. TypeOK' BY DEF TypeOK
<1>2. Slots' BY DEF Slots, Busy
<1>3. Exclusive' /\ Asking' /\ Waiting' BY DEF Exclusive, Asking, Waiting
<1>4. Granted' /\ SessionConsistent'
    BY DEF Granted, Settled, Answered, SessionConsistent
<1>5. OpenIsAuthorized' BY DEF OpenIsAuthorized, Answered
<1>. QED BY <1>1, <1>2, <1>3, <1>4, <1>5

\* The prompt lock is taken by a thread that has an unlisted host.
LEMMA TakeLockInvariant ==
    ASSUME IInv, NEW c \in Conn, TakeLock(c) PROVE IInv'
<1>. USE DEF IInv, TakeLock, pipes, trusted
<1>1. TypeOK' BY DEF TypeOK, Goto, Steps, Approving
<1>2. Slots'
    BY SlotsKept DEF Steps, Approving
<1>3. Exclusive' BY NobodyAssumption DEF Exclusive, Goto, TypeOK
<1>4. Asking' BY DEF Asking, Goto, TypeOK, Approving
<1>5. Waiting' BY DEF Waiting, Goto, TypeOK
<1>6. Granted' /\ SessionConsistent'
    BY DEF Granted, Settled, Answered, SessionConsistent
<1>7. OpenIsAuthorized'
    <2>1. \A d \in Conn : Authorized(d)' <=> Authorized(d)
        BY DEF Authorized, Answered
    <2>2. \A d \in Conn : pc'[d] \in Open => pc[d] \in Open
        BY DEF Goto, TypeOK, Open
    <2>. QED BY <2>1, <2>2, OpenMeansAuthorized
<1>. QED BY <1>1, <1>2, <1>3, <1>4, <1>5, <1>6, <1>7

\* A prompt: the request is the last one written, about an undecided host.
LEMMA AskInvariant ==
    ASSUME IInv, NEW c \in Conn, pc[c] = "recheck",
           host[c] \notin allowed \cup denied, nextId' = nextId + 1,
           nextId <= MaxPrompts, Ask(c),
           UNCHANGED <<host, active, relaying, allowed, denied, taken, answers,
                       received, trusted>>
    PROVE  IInv'
<1>. DEFINE r == [id |-> nextId, host |-> host[c], conn |-> c]
            R == [id : 1..MaxPrompts, host : Unlisted, conn : Conn]
<1>. USE DEF IInv, Ask, trusted
<1>1. host[c] \in Unlisted BY DEF Asking, Approving
<1>2. r \in R BY <1>1, LimitAssumption DEF TypeOK
<1>3. /\ asked' \in Seq(R) /\ Grown(asked, asked') /\ Len(asked') = Len(asked) + 1
      /\ Len(asked) + 1 \in DOMAIN asked' /\ asked'[Len(asked) + 1] = r
    <2>1. asked \in Seq(R) /\ asked' = Append(asked, r) BY DEF TypeOK
    <2>. HIDE DEF r, R
    <2>. QED BY <1>2, <2>1, AppendGrows
<1>. HIDE DEF r
<1>4. TypeOK'
    <2>1. pc' \in [Conn -> Steps] BY DEF TypeOK, Goto, Steps, Approving
    <2>2. taken' \in 0..Len(asked') BY <1>3 DEF TypeOK
    <2>. QED BY <1>3, <2>1, <2>2 DEF TypeOK
<1>5. Slots' BY SlotsKept DEF Steps, Approving
<1>6. Exclusive' BY DEF Exclusive, Goto, TypeOK
<1>7. Asking' BY <1>1, <1>3, LimitAssumption DEF Asking, Goto, TypeOK, Approving
<1>8. Waiting'
    <2>1. ASSUME NEW d \in Conn, pc'[d] = "wait" PROVE d = c
        BY <2>1 DEF Exclusive, Goto, TypeOK
    <2>2. r = [id |-> nextId' - 1, host |-> host'[c], conn |-> c]
        BY DEF r, TypeOK
    <2>. QED BY <1>3, <2>1, <2>2 DEF Waiting
<1>9. Granted' /\ SessionConsistent'
    <2>1. Grown(answers, answers') BY DEF Grown
    <2>. QED BY <1>3, <2>1, StaysJustified DEF Granted, SessionConsistent
<1>10. OpenIsAuthorized'
    <2>1. Grown(answers, answers') BY DEF Grown
    <2>2. \A d \in Conn : Authorized(d) => Authorized(d)'
        BY <1>3, <2>1, StaysJustified
    <2>3. \A d \in Conn : pc'[d] \in Open => pc[d] \in Open
        BY DEF Goto, TypeOK, Open
    <2>. QED BY <2>2, <2>3, OpenMeansAuthorized
<1>. QED BY <1>4, <1>5, <1>6, <1>7, <1>8, <1>9, <1>10

\* The checks under the lock: refused, approved without a prompt, or a prompt.
LEMMA RecheckInvariant == ASSUME IInv, NEW c \in Conn, Recheck(c) PROVE IInv'
<1>. USE DEF IInv, TypeOK
<1>1. CASE host[c] \notin allowed \cup denied /\ nextId <= MaxPrompts /\ Ask(c)
    BY <1>1, AskInvariant DEF Recheck, Ask, Return, Goto
<1>2. CASE \E l \in {"ending", "approved"} :
              Return(c, l) /\ (l = "approved" => host[c] \in allowed)
              /\ UNCHANGED asked
    <2>1. PICK l \in {"ending", "approved"} :
              Return(c, l) /\ (l = "approved" => host[c] \in allowed)
        BY <1>2
    <2>2. Slots' BY <2>1, SlotsKept DEF Recheck, Return, Steps, Approving, Open
    <2>3. l \in Open => Authorized(c)
        BY <2>1 DEF Granted, Settled, Authorized, Open
    <2>. QED
        BY <1>2, <2>1, <2>2, <2>3, Moves
           DEF Recheck, Return, Steps, Approving, Open, trusted
<1>. QED BY <1>1, <1>2 DEF Recheck

\* A thread whose wait ends without an answer.
LEMMA TimeoutInvariant == ASSUME IInv, NEW c \in Conn, Timeout(c) PROVE IInv'
<1>. USE DEF IInv, TypeOK, Timeout, Return, pipes
<1>1. Slots' BY SlotsKept DEF Steps, Approving
<1>. QED BY <1>1, Moves DEF Steps, Approving, Open, trusted

\* A DECISION line: another one's is skipped, the own one is carried out.
LEMMA ReceiveInvariant == ASSUME IInv, NEW c \in Conn, Receive(c) PROVE IInv'
<1>. USE DEF IInv, Receive, trusted
<1>. DEFINE d == answers[received + 1].decision
            A == [id : 1..MaxPrompts, decision : Decisions]
<1>0. /\ received + 1 \in DOMAIN answers /\ d \in Decisions
      /\ answers[received + 1] \in A
    <2>1. answers \in Seq(A) /\ received \in 0..Len(answers) BY DEF TypeOK
    <2>2. received + 1 \in 1..Len(answers) BY <2>1
    <2>3. answers[received + 1] \in A
        <3>. HIDE DEF A
        <3>. QED BY <2>1, <2>2, ElementOfSeq
    <2>. QED BY <2>1, <2>2, <2>3
<1>1. CASE answers[received + 1].id # Id
    <2>. USE <1>1
    <2>1. TypeOK' BY DEF TypeOK
    <2>2. Slots' /\ Exclusive' /\ Asking' /\ Waiting'
        BY DEF Slots, Busy, Exclusive, Asking, Waiting
    <2>3. Granted' /\ SessionConsistent' /\ OpenIsAuthorized'
        BY DEF Granted, Settled, Answered, SessionConsistent, OpenIsAuthorized
    <2>. QED BY <2>1, <2>2, <2>3
<1>2. CASE answers[received + 1].id = Id
    <2>. USE <1>2 DEF Apply, Return
    <2>1. PICK i \in DOMAIN asked :
              asked[i] = [id |-> nextId - 1, host |-> host[c], conn |-> c]
        BY DEF Waiting
    <2>2. Answered(asked[i], d)
        BY <1>0, <2>1 DEF Answered, Id
    <2>3. host[c] \in Unlisted /\ host[c] \notin allowed \cup denied
        BY DEF Asking, Approving, Waiting
    <2>. DEFINE l == IF Permits(d) THEN "approved" ELSE "ending"
    <2>4. l \in Steps \ {"idle", "gone"} /\ Goto(c, l) /\ lock' = Nobody
        BY DEF Steps, Open
    <2>. HIDE DEF d, l
    <2>5. TypeOK'
        <3>1. pc' \in [Conn -> Steps] BY <2>4 DEF Goto, TypeOK
        <3>2. allowed' \subseteq Unlisted /\ denied' \subseteq Unlisted
            BY <2>3 DEF TypeOK
        <3>3. received' \in 0..Len(answers') BY DEF TypeOK
        <3>. QED BY <2>4, <3>1, <3>2, <3>3 DEF TypeOK
    <2>6. Slots' BY <2>4, SlotsKept
    <2>7. \A e \in Conn : e # c => pc'[e] = pc[e] /\ pc[e] \notin {"recheck", "wait"}
        BY <2>4 DEF Goto, TypeOK, Exclusive
    <2>8. pc'[c] = l /\ l \in {"approved", "ending"} BY <2>4 DEF Goto, TypeOK, l
    <2>9. Exclusive' /\ Waiting' BY <2>7, <2>8 DEF Exclusive, Waiting
    <2>10. Asking' BY <2>7, <2>8 DEF Asking, Approving
    <2>11. SessionConsistent'
        <3>1. allowed' = allowed \/ denied' = denied BY DEF d
        <3>. QED BY <2>3, <3>1 DEF SessionConsistent, d
    <2>12. Granted'
        <3>1. ASSUME NEW h \in allowed' PROVE Settled(h)
            BY <2>1, <2>2, <3>1 DEF Granted, Settled, d
        <3>. QED BY <3>1 DEF Granted, Settled, Answered
    <2>13. OpenIsAuthorized'
        <3>1. \A e \in Conn : Authorized(e)' <=> Authorized(e)
            BY DEF Authorized, Answered
        <3>2. l = "approved" => Authorized(c)
            BY <2>1, <2>2 DEF Authorized, l, Permits
        <3>. QED BY <2>7, <2>8, <3>1, <3>2, OpenMeansAuthorized DEF Open
    <2>. QED BY <2>5, <2>6, <2>9, <2>10, <2>11, <2>12, <2>13
<1>. QED BY <1>1, <1>2

-----------------------------------------------------------------------------
(* The controller.                                                         *)

\* The controller reads, asks the user, remembers and answers.
LEMMA ControllerInvariant == ASSUME IInv, Controller PROVE IInv'
<1>. USE DEF IInv, clients, broker, pipes
<1>1. CASE Take \/ (\E d \in Decisions : Dialog(d)) \/ Remember
    <2>. USE <1>1 DEF Take, Dialog, Remember
    <2>1. TypeOK'
        <3>1. /\ snap' \in [Unlisted -> Remembered] /\ verdict' \in Decisions
              /\ ctl' \in {"idle", "dialog", "remember", "reply", "stopped"}
            BY DEF TypeOK, Decisions
        <3>2. taken' \in 0..Len(asked') BY DEF TypeOK
        <3>. QED BY <3>1, <3>2 DEF TypeOK
    <2>2. Slots' /\ Exclusive' /\ Waiting' BY DEF Slots, Busy, Exclusive, Waiting
    <2>3. Asking' BY DEF Asking, TypeOK
    <2>4. Granted' /\ SessionConsistent' /\ OpenIsAuthorized'
        BY DEF Granted, Settled, Answered, SessionConsistent, OpenIsAuthorized
    <2>. QED BY <2>1, <2>2, <2>3, <2>4
<1>2. CASE Reply
    <2>. USE <1>2 DEF Reply
    <2>. DEFINE A == [id : 1..MaxPrompts, decision : Decisions]
                a == [id |-> asked[taken].id, decision |-> verdict]
    <2>1. answers' \in Seq(A) /\ Grown(answers, answers') /\ Len(answers) <= Len(answers')
        <3>1. CASE answers' = answers BY <3>1 DEF TypeOK, Grown
        <3>2. CASE answers' = Append(answers, a)
            <4>1. taken \in DOMAIN asked BY DEF Asking, TypeOK
            <4>2. a \in A
                <5>1. asked[taken].id \in 1..MaxPrompts
                    <6>. DEFINE R == [id : 1..MaxPrompts, host : Unlisted,
                                      conn : Conn]
                    <6>1. asked \in Seq(R) /\ taken \in 1..Len(asked)
                        BY <4>1 DEF TypeOK
                    <6>2. asked[taken] \in R
                        <7>. HIDE DEF R
                        <7>. QED BY <6>1, ElementOfSeq
                    <6>. QED BY <6>2
                <5>2. verdict \in Decisions BY DEF TypeOK
                <5>. QED BY <5>1, <5>2
            <4>3. answers \in Seq(A) BY DEF TypeOK
            <4>. HIDE DEF a, A
            <4>. QED BY <3>2, <4>2, <4>3, AppendGrows
        <3>. QED BY <3>1, <3>2
    <2>2. TypeOK'
        <3>1. received' \in 0..Len(answers') BY <2>1 DEF TypeOK
        <3>. QED BY <2>1, <3>1 DEF TypeOK
    <2>3. Slots' /\ Exclusive' /\ Waiting' BY DEF Slots, Busy, Exclusive, Waiting
    <2>4. Asking' BY DEF Asking
    <2>5. Grown(asked, asked') BY DEF Grown
    <2>6. Granted' /\ SessionConsistent'
        BY <2>1, <2>5, StaysJustified DEF Granted, SessionConsistent
    <2>7. OpenIsAuthorized' BY <2>1, <2>5, StaysJustified, OpenMeansAuthorized
    <2>. QED BY <2>2, <2>3, <2>4, <2>6, <2>7
<1>. QED BY <1>1, <1>2 DEF Controller

\* Every step preserves the invariant.
LEMMA NextInvariant == IInv /\ [Next]_vars => IInv'
<1>. SUFFICES ASSUME IInv, [Next]_vars PROVE IInv' OBVIOUS
<1>1. CASE \E c \in Conn : Accept(c) \/ Thread(c) \/ ForwardEnds(c)
    BY <1>1, AcceptInvariant, ReleaseInvariant, BeforeLockInvariant,
       OpenInvariant, ForwardEndsInvariant, TakeLockInvariant,
       RecheckInvariant, TimeoutInvariant, ReceiveInvariant DEF Thread
<1>2. CASE Controller BY <1>2, ControllerInvariant
<1>3. CASE UNCHANGED vars
    BY <1>3 DEF vars, IInv, TypeOK, Slots, Busy, Exclusive, Asking, Waiting,
       Granted, Settled, Answered, OpenIsAuthorized, SessionConsistent
<1>. QED BY <1>1, <1>2, <1>3 DEF Next

\* The invariant holds throughout.
LEMMA Invariance == Spec => []IInv
BY InitInvariant, NextInvariant, PTL DEF Spec

-----------------------------------------------------------------------------
(* The theorems.                                                           *)

\* No tunnel of handle_connection is open without an authorization of exactly
\* its host: by the allowlist, for the session, or once for this connection.
THEOREM TunnelsAuthorized == Spec => []OpenIsAuthorized
BY Invariance, PTL DEF IInv

\* No host is both allowed and denied for the session.
THEOREM DecisionsConsistent == Spec => []SessionConsistent
BY Invariance, PTL DEF IInv

\* Slots and prompts stay within their limits, the count of connections is
\* exact, and one prompt is open at a time.
THEOREM LimitsKept == Spec => []WithinLimits
<1>1. IInv => WithinLimits
    <2>. SUFFICES ASSUME IInv PROVE WithinLimits OBVIOUS
    <2>1. Cardinality({c \in Conn : pc[c] = "wait"}) <= 1
        <3>1. {c \in Conn : pc[c] = "wait"} \subseteq {lock}
            BY DEF IInv, Exclusive
        <3>2. IsFiniteSet({lock}) /\ Cardinality({lock}) = 1 BY FS_Singleton
        <3>. HIDE DEF IInv
        <3>. QED BY <3>1, <3>2, FS_Subset
    <2>. QED BY <2>1, LimitAssumption
            DEF IInv, WithinLimits, PromptsBounded, SlotsExact, Slots, Busy,
                Asking, TypeOK
<1>. QED BY <1>1, Invariance, PTL

\* A denial of the session is final, and so is a decision: no thread is
\* approved for a host denied by then, none asks about a decided host again.
THEOREM DecisionsAreFinal == Spec => DecisionsFinal
<1>. DEFINE Denial == \A c \in Conn : pc[c] \in Approving /\ pc'[c] \in Open =>
                         host[c] \notin denied
            Prompt == \A c \in Conn : pc[c] # "wait" /\ pc'[c] = "wait" =>
                         host[c] \notin allowed \cup denied
<1>1. IInv /\ [Next]_vars => [Denial /\ Prompt]_vars
    <2>. SUFFICES ASSUME IInv, Next, NEW c \in Conn
                  PROVE  /\ pc[c] \in Approving /\ pc'[c] \in Open =>
                              host[c] \notin denied
                         /\ pc[c] # "wait" /\ pc'[c] = "wait" =>
                              host[c] \notin allowed \cup denied
        OBVIOUS
    <2>. USE DEF IInv, TypeOK, Approving, Open
    <2>1. CASE Controller
        BY <2>1 DEF Controller, Take, Dialog, Remember, Reply, clients
    <2>2. ASSUME NEW e \in Conn, Accept(e) \/ Thread(e) \/ ForwardEnds(e), e # c
          PROVE  pc'[c] = pc[c]
        BY <2>2 DEF Thread, Accept, Header, CheckDenied, CheckAllowed, TakeLock,
           Recheck, Receive, Timeout, Connect, Hello, Record, ForwardEnds,
           ReverseEnds, Join, Release, Goto, Return, Ask, Apply
    <2>3. CASE Accept(c) \/ ForwardEnds(c) \/ Header(c) \/ CheckDenied(c)
               \/ TakeLock(c) \/ Timeout(c) \/ Connect(c) \/ Hello(c)
               \/ Record(c) \/ ReverseEnds(c) \/ Join(c) \/ Release(c)
        BY <2>3 DEF Accept, Header, CheckDenied, TakeLock, Timeout, Connect,
           Hello, Record, ForwardEnds, ReverseEnds, Join, Release, Goto, Return
    <2>4. CASE CheckAllowed(c)
        BY <2>4 DEF CheckAllowed, Goto, SessionConsistent
    <2>5. CASE Recheck(c)
        BY <2>5 DEF Recheck, Goto, Return, Ask
    <2>6. CASE Receive(c)
        BY <2>6 DEF Receive, Apply, Return, Goto, Waiting
    <2>. QED BY <2>1, <2>2, <2>3, <2>4, <2>5, <2>6 DEF Next, Thread
<1>2. [][Denial /\ Prompt]_vars => DecisionsFinal
    <2>1. [Denial /\ Prompt]_vars => [Denial]_vars OBVIOUS
    <2>2. [Denial /\ Prompt]_vars => [Prompt]_vars OBVIOUS
    <2>. QED BY <2>1, <2>2, PTL DEF DecisionsFinal, DenialSticks, NoRepeatedPrompt
<1>. QED BY <1>1, <1>2, Invariance, PTL DEF Spec

=============================================================================
