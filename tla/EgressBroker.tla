---------------------------- MODULE EgressBroker ----------------------------
(***************************************************************************)
(* Controlled egress of one Guard session: the connection threads and the  *)
(* ApprovalBroker of crates/sandbox-guard-helper/src/proxy.rs, and the     *)
(* approval controller of crates/sandbox-guard-runner/src/approval.rs that *)
(* asks the user, joined by the private stdio pipes.                       *)
(*                                                                         *)
(* One host stands for a normalized (hostname, port 443) pair.  Each lock  *)
(* acquisition, pipe operation and network operation of a thread is a step *)
(* of its own; a network operation may fail and a wait may time out.  The  *)
(* pipes are kept whole: asked and answers are everything written so far,  *)
(* taken and received how much of it the other end has read.               *)
(***************************************************************************)
EXTENDS Integers, Sequences, FiniteSets

CONSTANTS
    Conn,        \* client connections
    Host,        \* exact hosts a client may name
    Allowlist,   \* hosts an AllowedHost entry matches
    MaxConn,     \* MAX_CONCURRENT_CONNECTIONS
    MaxPrompts,  \* MAX_APPROVAL_PROMPTS
    Nobody       \* no connection

ASSUME ListAssumption   == Allowlist \subseteq Host
ASSUME LimitAssumption  == MaxConn \in Nat /\ MaxPrompts \in Nat
ASSUME NobodyAssumption == Nobody \notin Conn

VARIABLES
    pc, host,          \* the thread of each connection and its CONNECT host
    active,            \* active_connections
    relaying,          \* connections whose forward relay thread is alive
    allowed, denied,   \* allowed_session_hosts, denied_session_hosts
    lock,              \* holder of prompt_lock
    nextId,
    asked, taken,      \* REQUEST lines, and how many the controller read
    answers, received, \* DECISION lines, and how many the proxy read
    snap,              \* the controller's in-memory DecisionDocument
    ctl, verdict       \* controller state and the decision it is about to send

clients == <<pc, host, active, relaying>>
broker  == <<allowed, denied, lock, nextId>>
pipes   == <<asked, taken, answers, received>>
trusted == <<snap, ctl, verdict>>
vars    == <<pc, host, active, relaying, allowed, denied, lock, nextId,
             asked, taken, answers, received, snap, ctl, verdict>>

Unlisted == Host \ Allowlist

Remembered == {"none", "allow", "deny"}

\* The decisions the controller can send (protocol); DENY_SESSION is only an
\* answer of the proxy's own cache.
Decisions == {"deny", "deny_always", "once", "session", "always"}

Permits(d) == d \in {"once", "session", "always"}

\* Steps of handle_connection, in order.
Approving == {"deny1", "allow1", "lock", "recheck", "wait"}
Open      == {"approved", "connected", "sent", "tunnel", "joining"}
Steps     == {"idle", "header", "ending", "gone"} \cup Approving \cup Open

Init ==
    /\ pc = [c \in Conn |-> "idle"]
    /\ host \in [Conn -> Host]
    /\ active = 0 /\ relaying = {}
    /\ allowed = {} /\ denied = {} /\ lock = Nobody /\ nextId = 1
    /\ asked = <<>> /\ taken = 0 /\ answers = <<>> /\ received = 0
    /\ snap \in [Unlisted -> Remembered]
    /\ ctl = "idle" /\ verdict = "deny"

Goto(c, label) == pc' = [pc EXCEPT ![c] = label]

-----------------------------------------------------------------------------
(* The accept loop and the connection threads.                             *)

\* Mutant: one connection too many is admitted.
AcceptOffByOne(c) ==
    /\ pc[c] = "idle"
    /\ active <= MaxConn
    /\ Goto(c, "header") /\ active' = active + 1
    /\ UNCHANGED <<host, relaying, broker, pipes, trusted>>

\* run_proxy: a connection above the limit is dropped at once.
Accept(c) ==
    /\ pc[c] = "idle"
    /\ IF active >= MaxConn
           THEN Goto(c, "gone") /\ UNCHANGED active
           ELSE Goto(c, "header") /\ active' = active + 1
    /\ UNCHANGED <<host, relaying, broker, pipes, trusted>>

\* read_http_header, parse_authority and the allowlist.
Header(c) ==
    /\ pc[c] = "header"
    /\ \/ Goto(c, "ending")
       \/ Goto(c, IF host[c] \in Allowlist THEN "approved" ELSE "deny1")
    /\ UNCHANGED <<host, active, relaying, broker, pipes, trusted>>

\* denied_session_contains before the prompt lock.
CheckDenied(c) ==
    /\ pc[c] = "deny1"
    /\ Goto(c, IF host[c] \in denied THEN "ending" ELSE "allow1")
    /\ UNCHANGED <<host, active, relaying, broker, pipes, trusted>>

\* allowed_session_contains before the prompt lock.
CheckAllowed(c) ==
    /\ pc[c] = "allow1"
    /\ Goto(c, IF host[c] \in allowed THEN "approved" ELSE "lock")
    /\ UNCHANGED <<host, active, relaying, broker, pipes, trusted>>

TakeLock(c) ==
    /\ pc[c] = "lock"
    /\ lock = Nobody
    /\ lock' = c
    /\ Goto(c, "recheck")
    /\ UNCHANGED <<host, active, relaying, allowed, denied, nextId, pipes,
                   trusted>>

\* request returns with this outcome, and the prompt lock is released.
Return(c, label) == Goto(c, label) /\ lock' = Nobody

\* REQUEST is written and the thread waits with the prompt lock held.
Ask(c) ==
    /\ asked' = Append(asked, [id |-> nextId, host |-> host[c], conn |-> c])
    /\ Goto(c, "wait")
    /\ UNCHANGED lock

\* Mutant: nothing is checked again once the lock is held.
RecheckNothing(c) ==
    /\ pc[c] = "recheck"
    /\ nextId' = nextId + 1
    /\ \/ Return(c, "ending") /\ UNCHANGED asked
       \/ nextId <= MaxPrompts /\ Ask(c)
    /\ UNCHANGED <<host, active, relaying, allowed, denied, taken, answers,
                   received, trusted>>

\* Mutant: the budget admits one prompt too many.
RecheckOverBudget(c) ==
    /\ pc[c] = "recheck"
    /\ host[c] \notin allowed \cup denied
    /\ nextId' = nextId + 1
    /\ nextId - 1 <= MaxPrompts /\ Ask(c)
    /\ UNCHANGED <<host, active, relaying, allowed, denied, taken, answers,
                   received, trusted>>

\* The checks again under the lock, the prompt budget, the REQUEST line.
Recheck(c) ==
    /\ pc[c] = "recheck"
    /\ \/ /\ host[c] \in denied
          /\ Return(c, "ending")
          /\ UNCHANGED <<nextId, asked>>
       \/ /\ host[c] \in allowed \ denied
          /\ Return(c, "approved")
          /\ UNCHANGED <<nextId, asked>>
       \/ /\ host[c] \notin allowed \cup denied
          /\ nextId' = nextId + 1
          /\ \/ Return(c, "ending") /\ UNCHANGED asked
             \/ nextId <= MaxPrompts /\ Ask(c)
    /\ UNCHANGED <<host, active, relaying, allowed, denied, taken, answers,
                   received, trusted>>

\* The id this thread is waiting for: it holds the prompt lock.
Id == nextId - 1

\* The answer ends the wait and may settle the host for the session.
Apply(c, decision) ==
    /\ Return(c, IF Permits(decision) THEN "approved" ELSE "ending")
    /\ allowed' = IF decision \in {"session", "always"}
                      THEN allowed \cup {host[c]} ELSE allowed
    /\ denied' = IF decision = "deny_always"
                     THEN denied \cup {host[c]} ELSE denied

\* Mutant: any answer is taken for the one awaited.
ReceiveAny(c) ==
    /\ pc[c] = "wait"
    /\ received < Len(answers)
    /\ received' = received + 1
    /\ Apply(c, answers[received + 1].decision)
    /\ UNCHANGED <<host, active, relaying, nextId, asked, taken, answers,
                   trusted>>

\* The next DECISION line: ours is applied, any other is skipped.
Receive(c) ==
    /\ pc[c] = "wait"
    /\ received < Len(answers)
    /\ received' = received + 1
    /\ IF answers[received + 1].id = Id
           THEN Apply(c, answers[received + 1].decision)
           ELSE UNCHANGED <<pc, lock, allowed, denied>>
    /\ UNCHANGED <<host, active, relaying, nextId, asked, taken, answers,
                   trusted>>

\* Mutant: the wait has no deadline.
TimeoutNever(c) == pc[c] = "wait" /\ FALSE /\ UNCHANGED vars

\* APPROVAL_TIMEOUT passed, or the response reader is gone.
Timeout(c) ==
    /\ pc[c] = "wait"
    /\ Return(c, "ending")
    /\ UNCHANGED <<host, active, relaying, allowed, denied, nextId, pipes,
                   trusted>>

\* resolve_public, connect_any and the 200 reply.
Connect(c) ==
    /\ pc[c] = "approved"
    /\ Goto(c, "connected") \/ Goto(c, "ending")
    /\ UNCHANGED <<host, active, relaying, broker, pipes, trusted>>

\* read_tls_client_hello, the SNI comparison and the forwarded ClientHello.
Hello(c) ==
    /\ pc[c] = "connected"
    /\ Goto(c, "sent") \/ Goto(c, "ending")
    /\ UNCHANGED <<host, active, relaying, broker, pipes, trusted>>

\* record_destination, and the relay threads start.
Record(c) ==
    /\ pc[c] = "sent"
    /\ \/ Goto(c, "tunnel") /\ relaying' = relaying \cup {c}
       \/ Goto(c, "ending") /\ UNCHANGED relaying
    /\ UNCHANGED <<host, active, broker, pipes, trusted>>

\* The client-to-upstream copy ends.
ForwardEnds(c) ==
    /\ c \in relaying
    /\ relaying' = relaying \ {c}
    /\ UNCHANGED <<pc, host, active, broker, pipes, trusted>>

\* The upstream-to-client copy ends; an error returns without joining.
ReverseEnds(c) ==
    /\ pc[c] = "tunnel"
    /\ Goto(c, "joining") \/ Goto(c, "ending")
    /\ UNCHANGED <<host, active, relaying, broker, pipes, trusted>>

Join(c) ==
    /\ pc[c] = "joining"
    /\ c \notin relaying
    /\ Goto(c, "ending")
    /\ UNCHANGED <<host, active, relaying, broker, pipes, trusted>>

\* Mutant: the slot is not given back.
ReleaseLeaks(c) ==
    /\ pc[c] = "ending"
    /\ Goto(c, "gone")
    /\ UNCHANGED <<host, active, relaying, broker, pipes, trusted>>

\* handle_connection returned, with whatever result.
Release(c) ==
    /\ pc[c] = "ending"
    /\ active' = active - 1
    /\ Goto(c, "gone")
    /\ UNCHANGED <<host, relaying, broker, pipes, trusted>>

-----------------------------------------------------------------------------
(* The approval controller.                                                *)

\* run_controller reads a REQUEST line; a remembered host needs no dialog.
Take ==
    /\ ctl = "idle"
    /\ taken < Len(asked)
    /\ taken' = taken + 1
    /\ LET known == snap[asked[taken + 1].host] IN
          \/ known = "none" /\ ctl' = "dialog" /\ UNCHANGED verdict
          \/ known = "allow" /\ ctl' = "reply" /\ verdict' = "always"
          \/ known = "deny" /\ ctl' = "reply" /\ verdict' = "deny_always"
    /\ UNCHANGED <<clients, broker, asked, answers, received, snap>>

\* native_approval: the user decides, or the dialog fails or times out.
Dialog(d) ==
    /\ ctl = "dialog"
    /\ verdict' = d
    /\ ctl' = IF d \in {"always", "deny_always"} THEN "remember" ELSE "reply"
    /\ UNCHANGED <<clients, broker, pipes, snap>>

\* DecisionStore::remember re-reads the document, which other processes may
\* have changed, and adds this host; failing, the request is denied.
Remember ==
    /\ ctl = "remember"
    /\ ctl' = "reply"
    /\ \/ /\ \E document \in [Unlisted -> Remembered] :
                /\ document[asked[taken].host] =
                      IF verdict = "always" THEN "allow" ELSE "deny"
                /\ snap' = document
          /\ UNCHANGED verdict
       \/ verdict' = "deny" /\ UNCHANGED snap
    /\ UNCHANGED <<clients, broker, pipes>>

\* The DECISION line, or a write error, which stops the controller.
Reply ==
    /\ ctl = "reply"
    /\ \/ /\ answers' = Append(answers, [id |-> asked[taken].id,
                                        decision |-> verdict])
          /\ ctl' = "idle"
       \/ ctl' = "stopped" /\ UNCHANGED answers
    /\ UNCHANGED <<clients, broker, asked, taken, received, snap, verdict>>

-----------------------------------------------------------------------------

Thread(c) ==
    \/ Header(c) \/ CheckDenied(c) \/ CheckAllowed(c) \/ TakeLock(c)
    \/ Recheck(c) \/ Receive(c) \/ Timeout(c)
    \/ Connect(c) \/ Hello(c) \/ Record(c) \/ ReverseEnds(c) \/ Join(c)
    \/ Release(c)

Controller == Take \/ (\E d \in Decisions : Dialog(d)) \/ Remember \/ Reply

Next ==
    \/ \E c \in Conn : Accept(c) \/ Thread(c) \/ ForwardEnds(c)
    \/ Controller

Spec == Init /\ [][Next]_vars

\* Connection threads run; nothing is assumed of clients, servers or the user.
FairSpec == Spec /\ \A c \in Conn : WF_vars(Thread(c) /\ pc[c] \in Approving)

-----------------------------------------------------------------------------
(* Properties.                                                             *)

\* Type correctness of the proxy and controller state.
TypeOK ==
    /\ pc \in [Conn -> Steps] /\ host \in [Conn -> Host]
    /\ active \in 0..MaxConn /\ relaying \subseteq Conn
    /\ allowed \subseteq Unlisted /\ denied \subseteq Unlisted
    /\ lock \in Conn \cup {Nobody} /\ nextId \in Nat \ {0}
    /\ asked \in Seq([id : 1..MaxPrompts, host : Unlisted, conn : Conn])
    /\ answers \in Seq([id : 1..MaxPrompts, decision : Decisions])
    /\ taken \in 0..Len(asked) /\ received \in 0..Len(answers)
    /\ snap \in [Unlisted -> Remembered]
    /\ ctl \in {"idle", "dialog", "remember", "reply", "stopped"}
    /\ verdict \in Decisions

\* The trusted side answered request r with decision d.
Answered(r, d) ==
    \E i \in DOMAIN answers : answers[i] = [id |-> r.id, decision |-> d]

\* No connection gets past approval (proxy.rs, handle_connection) unless its
\* host is allowlisted or the trusted side permitted exactly that host: for
\* the session, or once and then only for the connection that asked.
OpenIsAuthorized ==
    \A c \in Conn : pc[c] \in Open =>
        \/ host[c] \in Allowlist
        \/ \E i \in DOMAIN asked :
              /\ asked[i].host = host[c]
              /\ \/ Answered(asked[i], "session")
                 \/ Answered(asked[i], "always")
                 \/ asked[i].conn = c /\ Answered(asked[i], "once")

\* A host is never both allowed and denied for the session: two threads that
\* wait for the prompt lock with the same host get one prompt.
SessionConsistent == allowed \cap denied = {}

\* The user sees at most MaxPrompts prompts, however many threads ask, and
\* at most one is open.
PromptsBounded ==
    /\ Len(asked) <= MaxPrompts
    /\ Cardinality({c \in Conn : pc[c] = "wait"}) <= 1

\* active_connections counts the running connection threads exactly, on every
\* path out of handle_connection.
SlotsExact ==
    /\ active = Cardinality({c \in Conn : pc[c] \notin {"idle", "gone"}})
    /\ active <= MaxConn

\* No approval after a session denial of the host: a thread that read the
\* denied set earlier does not slip through.
DenialSticks ==
    [][\A c \in Conn : pc[c] \in Approving /\ pc'[c] \in Open =>
          host[c] \notin denied]_vars

\* A host that has a session decision is not asked about again.
NoRepeatedPrompt ==
    [][\A c \in Conn : pc[c] # "wait" /\ pc'[c] = "wait" =>
          host[c] \notin allowed \cup denied]_vars

\* Every approval request comes to an end, whatever the user, the controller
\* or a stopped pipe does.
RequestEnds == \A c \in Conn : pc[c] \in Approving ~> pc[c] \notin Approving

\* Connections that still relay bytes are bounded (docs/SECURITY_MODEL.md,
\* "concurrent proxy/relay connections are bounded").
RelaysBounded == Cardinality(relaying) <= MaxConn

\* However many connections and answers there are: never more slots, prompts
\* or messages than the limits say, one prompt at a time, and no slot lost or
\* released twice.
WithinLimits == TypeOK /\ PromptsBounded /\ SlotsExact

\* The user's word stands for the session: no approval of a host that is denied
\* by then, and no second prompt about a host that has been decided.
DecisionsFinal == DenialSticks /\ NoRepeatedPrompt

=============================================================================
