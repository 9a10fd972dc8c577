---------------------------- MODULE Supervisor ----------------------------
(***************************************************************************)
(* The in-sandbox supervisor, crates/sandbox-guard-helper/src/             *)
(* supervisor.rs: supervise runs an optional preflight and then the tool,  *)
(* each in a child that is restricted before it executes, beside a relay   *)
(* that forwards loopback connections to the proxy's socket.  The relay    *)
(* has an accept thread and one worker and one forward thread a            *)
(* connection.  The sandboxed processes connect and hang up as they like.  *)
(***************************************************************************)
EXTENDS Integers, FiniteSets

CONSTANTS
    Client,     \* connections of the sandboxed processes
    MaxRelays   \* MAX_CONCURRENT_RELAYS

VARIABLES
    phase,      \* the step supervise is at
    given,      \* its configuration
    child,      \* the command being run: who, how far, with what
    preflight,  \* "none", "passed" or "failed"
    stopping,   \* the relay's stop flag
    acceptor,   \* the accept thread, and the connection it holds
    active,     \* the relay count
    relay       \* each connection: its worker and its forward thread

superVars == <<phase, given, child, preflight, stopping, acceptor, active, relay>>
relayVars == <<stopping, acceptor, active, relay>>

\* Names of the environment file's entries, by what safe_environment_name
\* and the child's environment do with them.
Names == {"KEY", "PROXY", "PATH"}

\* The restrictions of configure_linux_child, in their order: resource
\* limits, umask, undumpable, system call filter.
Restrictions == 4

NoChild  == [who |-> "none", done |-> 0, env |-> [n \in Names |-> "unset"]]
NoClient == [worker |-> "none", forward |-> "none"]
NoOne    == [at |-> "none", holds |-> {}, before |-> 0]

Configurations ==
    [proxy : BOOLEAN, preflight : BOOLEAN, entries : SUBSET Names]

NoConfiguration == [proxy |-> FALSE, preflight |-> FALSE, entries |-> {}]

Init ==
    /\ phase = "start" /\ given = NoConfiguration
    /\ child = NoChild /\ preflight = "none"
    /\ stopping = FALSE /\ acceptor = NoOne
    /\ active = 0 /\ relay = [c \in Client |-> NoClient]

-----------------------------------------------------------------------------
(* supervise.                                                              *)

\* Mutant: any name is taken from the file.
SafeAny(n) == TRUE

\* safe_environment_name.
Safe(n) == n = "KEY"

\* read_environment: an unsafe name refuses the whole file.
ReadEnvironment ==
    /\ phase = "start"
    /\ given' \in Configurations
    /\ phase' = IF \A n \in given'.entries : Safe(n) THEN "protect" ELSE "over"
    /\ UNCHANGED <<child, preflight, relayVars>>

\* protect_supervisor, or its failure.
Protect ==
    /\ phase = "protect"
    /\ phase' \in {IF given.proxy THEN "relay" ELSE "commands", "over"}
    /\ UNCHANGED <<given, child, preflight, relayVars>>

\* start_relay: listener and accept thread.
StartRelay ==
    /\ phase = "relay" /\ phase' = "commands"
    /\ acceptor' = [NoOne EXCEPT !.at = "check"]
    /\ UNCHANGED <<given, child, preflight, stopping, active, relay>>

\* The child's environment: the safe base, the proxy variables, the entries.
Environment ==
    [n \in Names |->
        IF n \in given.entries THEN "entry"
        ELSE IF n = "PROXY" /\ given.proxy THEN "relay"
        ELSE IF n = "PATH" THEN "base"
        ELSE "unset"]

\* run_supervised_command forks: the preflight first, then the tool.
Fork ==
    /\ phase = "commands" /\ child.who = "none"
    /\ child' = [who |-> IF given.preflight /\ preflight = "none"
                             THEN "preflight" ELSE "tool",
                 done |-> 0, env |-> Environment]
    /\ UNCHANGED <<phase, given, preflight, relayVars>>

\* A step of configure_linux_child; a failing one ends the child unexecuted,
\* and supervise with it.
Restrict ==
    /\ child.who # "none" /\ child.done < Restrictions
    /\ \/ child' = [child EXCEPT !.done = @ + 1] /\ UNCHANGED phase
       \/ child' = NoChild /\ phase' = "drop"
    /\ UNCHANGED <<given, preflight, relayVars>>

Executing == child.who # "none" /\ child.done >= Restrictions

\* The child ends with a status; a failed preflight or the tool's end leads
\* to the drop of the relay.
ChildEnds ==
    /\ Executing
    /\ \/ /\ child.who = "preflight"
          /\ \/ preflight' = "passed" /\ UNCHANGED phase
             \/ preflight' = "failed" /\ phase' = "drop"
       \/ child.who = "tool" /\ phase' = "drop" /\ UNCHANGED preflight
    /\ child' = NoChild
    /\ UNCHANGED <<given, relayVars>>

\* Relay::drop sets the flag and joins the accept thread.
DropRelay ==
    /\ phase = "drop" /\ stopping' = TRUE /\ phase' = "join"
    /\ UNCHANGED <<given, child, preflight, acceptor, active, relay>>

Join ==
    /\ phase = "join" /\ acceptor.at \in {"none", "over"}
    /\ phase' = "over"
    /\ UNCHANGED <<given, child, preflight, relayVars>>

-----------------------------------------------------------------------------
(* The accept thread.                                                      *)

\* Mutant: the flag is looked at only when no connection waits.
CheckStopIdle ==
    /\ acceptor.at = "check"
    /\ acceptor' = [acceptor EXCEPT !.at =
          IF stopping /\ \A c \in Client : relay[c].worker # "queued"
              THEN "over" ELSE "accept"]
    /\ UNCHANGED <<phase, given, child, preflight, stopping, active, relay>>

\* The loop's condition.
CheckStop ==
    /\ acceptor.at = "check"
    /\ acceptor' = [acceptor EXCEPT !.at = IF stopping THEN "over" ELSE "accept"]
    /\ UNCHANGED <<phase, given, child, preflight, stopping, active, relay>>

\* A connection is accepted and counted.
Accept(c) ==
    /\ acceptor.at = "accept" /\ relay[c].worker = "queued"
    /\ acceptor' = [at |-> "dispatch", holds |-> {c}, before |-> active]
    /\ active' = active + 1
    /\ relay' = [relay EXCEPT ![c].worker = "accepted"]
    /\ UNCHANGED <<phase, given, child, preflight, stopping>>

\* No connection waits, or the call was interrupted; any other error ends
\* the loop.
AcceptNothing ==
    /\ acceptor.at = "accept"
    /\ \E at \in {"check", "over"} : acceptor' = [acceptor EXCEPT !.at = at]
    /\ UNCHANGED <<phase, given, child, preflight, stopping, active, relay>>

\* Mutant: one relay too many.
DispatchMore ==
    /\ acceptor.at = "dispatch"
    /\ \E c \in acceptor.holds :
          IF acceptor.before > MaxRelays
              THEN /\ active' = active - 1
                   /\ relay' = [relay EXCEPT ![c] = NoClient]
              ELSE /\ relay' = [relay EXCEPT ![c].worker = "connect"]
                   /\ UNCHANGED active
    /\ acceptor' = [NoOne EXCEPT !.at = "check"]
    /\ UNCHANGED <<phase, given, child, preflight, stopping>>

\* At the limit it is dropped and uncounted; else its worker starts.
Dispatch ==
    /\ acceptor.at = "dispatch"
    /\ \E c \in acceptor.holds :
          IF acceptor.before >= MaxRelays
              THEN /\ active' = active - 1
                   /\ relay' = [relay EXCEPT ![c] = NoClient]
              ELSE /\ relay' = [relay EXCEPT ![c].worker = "connect"]
                   /\ UNCHANGED active
    /\ acceptor' = [NoOne EXCEPT !.at = "check"]
    /\ UNCHANGED <<phase, given, child, preflight, stopping>>

-----------------------------------------------------------------------------
(* Workers, forward threads and sandboxed processes.                       *)

Become(c, r) ==
    /\ relay' = [relay EXCEPT ![c] = r]
    /\ UNCHANGED <<phase, given, child, preflight, stopping, acceptor>>

\* UnixStream::connect, and the forward thread; or neither.
Connect(c) ==
    /\ relay[c].worker = "connect"
    /\ \/ Become(c, [worker |-> "copy", forward |-> "copy"])
       \/ Become(c, [relay[c] EXCEPT !.worker = "leave"])
    /\ UNCHANGED active

\* The forward copy ends.
ForwardEnds(c) ==
    /\ relay[c].forward = "copy"
    /\ Become(c, [relay[c] EXCEPT !.forward = "none"])
    /\ UNCHANGED active

\* The backward copy ends: the forward thread is joined; after an error it
\* is left running.
BackwardEnds(c) ==
    /\ relay[c].worker = "copy"
    /\ \E w \in {"join", "leave"} :
          Become(c, [relay[c] EXCEPT !.worker = w])
    /\ UNCHANGED active

JoinForward(c) ==
    /\ relay[c].worker = "join" /\ relay[c].forward = "none"
    /\ Become(c, [relay[c] EXCEPT !.worker = "leave"])
    /\ UNCHANGED active

\* Mutant: after an error the count stays.
LeaveCounted(c) ==
    /\ relay[c].worker = "leave"
    /\ Become(c, [relay[c] EXCEPT !.worker = "none"])
    /\ active' = IF relay[c].forward = "copy" THEN active ELSE active - 1

\* The worker lowers the count and ends.
Leave(c) ==
    /\ relay[c].worker = "leave"
    /\ Become(c, [relay[c] EXCEPT !.worker = "none"])
    /\ active' = active - 1

\* A sandboxed process connects, also after the tool has ended.
ClientConnects(c) ==
    /\ given.proxy /\ acceptor.at \notin {"none", "over"}
    /\ relay[c] = NoClient
    /\ Become(c, [relay[c] EXCEPT !.worker = "queued"])
    /\ UNCHANGED active

Supervise ==
    \/ ReadEnvironment \/ Protect \/ StartRelay \/ Fork \/ Restrict
    \/ DropRelay \/ Join

AcceptThread ==
    \/ CheckStop \/ (\E c \in Client : Accept(c)) \/ AcceptNothing \/ Dispatch

Next ==
    \/ Supervise \/ ChildEnds \/ AcceptThread
    \/ \E c \in Client : \/ Connect(c) \/ ForwardEnds(c) \/ BackwardEnds(c)
                         \/ JoinForward(c) \/ Leave(c) \/ ClientConnects(c)

Spec == Init /\ [][Next]_superVars

\* supervise and the accept thread keep running; workers, the tool and the
\* sandboxed processes do as they like.
FairSpec == Spec /\ WF_superVars(Supervise) /\ WF_superVars(AcceptThread)

-----------------------------------------------------------------------------
(* Properties.                                                             *)

\* Type correctness.
TypeOK ==
    /\ given \in Configurations
    /\ preflight \in {"none", "passed", "failed"}
    /\ active \in 0..Cardinality(Client)
    /\ acceptor.at \in {"none", "check", "accept", "dispatch", "over"}

Serving(c) == relay[c].worker \in {"connect", "copy", "join", "leave"}

\* The relay count, raised by the accept thread and lowered by it and by
\* every worker, is the number of workers and of the connection in the accept
\* thread's hands, also after copies that failed.
CountExact ==
    active = Cardinality({c \in Client : Serving(c)} \cup acceptor.holds)

\* Never more than MaxRelays connections are relayed at once.
RelaysBounded == Cardinality({c \in Client : Serving(c)}) <= MaxRelays

\* What executes in the sandbox has all restrictions, the relay as its proxy
\* and the base path whatever the environment file says, and is the tool only
\* if the preflight, when there is one, has passed.
RunsConfined ==
    Executing =>
        /\ child.done = Restrictions
        /\ child.env["PATH"] = "base"
        /\ given.proxy => /\ child.env["PROXY"] = "relay"
                          /\ acceptor.at # "none"
        /\ child.who = "tool" /\ given.preflight => preflight = "passed"

\* Relay::drop returns although sandboxed processes keep connecting.
SuperviseReturns == (phase = "drop") ~> (phase = "over")

\* The relay counts its connections exactly and within the limit, and what
\* executes beside it is restricted.
RelayExact == TypeOK /\ CountExact /\ RelaysBounded /\ RunsConfined

=============================================================================
