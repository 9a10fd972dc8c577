----------------------------- MODULE MCSession -----------------------------
(* A session: the run command, the supervisor in the sandbox, the bridge   *)
(* to the terminal, and the stages that killed runs leave.  They share no  *)
(* variable, so a behaviour follows one of them and leaves the others      *)
(* alone.                                                                  *)
EXTENDS StageGc, FiniteSets

CONSTANTS BaselineFiles, MaxTroubles, Client, MaxRelays,
          Mode, MaxItems, MaxKeys, MaxUnread, DrainTicks, MaxMisfortunes

\* The baseline and the tool's terminal hold something or nothing, failures
\* are counted, and connections are finite in number.
ASSUME CommandAssumption == BaselineFiles \in Nat /\ MaxTroubles \in Nat
ASSUME SandboxAssumption == IsFiniteSet(Client) /\ MaxRelays \in Nat
ASSUME TerminalAssumption ==
    /\ MaxItems \in Nat /\ MaxKeys \in Nat /\ MaxUnread \in Nat
    /\ DrainTicks \in Nat /\ MaxMisfortunes \in Nat

VARIABLES
    component,
    place, asked, workspace, inbox, runtime, egress, scoped, shared, tool, state,
    audit, bundle, changes, reviewed, confirmed, outcome, troubles,
    phase, given, child, preflight, stopping, acceptor, active, relay,
    bridge, screen, filter, pty, guest, typed, printed, imports, misfortunes

Command  == INSTANCE RunSession
Sandbox  == INSTANCE Supervisor
Terminal == INSTANCE TerminalBridge

command == <<place, asked, workspace, inbox, runtime, egress, scoped, shared,
             tool, state, audit, bundle, changes, reviewed, confirmed, outcome,
             troubles>>
sandbox == <<phase, given, child, preflight, stopping, acceptor, active, relay>>
terminal == <<bridge, screen, filter, pty, guest, typed, printed, imports,
              misfortunes>>
everything == <<component, vars, command, sandbox, terminal>>

SessionInit ==
    /\ component \in {"stages", "command", "sandbox", "terminal"}
    /\ Init /\ Command!Init /\ Sandbox!Init /\ Terminal!Init

SessionNext ==
    \/ /\ component = "stages" /\ Next
       /\ UNCHANGED <<component, command, sandbox, terminal>>
    \/ /\ component = "command" /\ Command!Next
       /\ UNCHANGED <<component, vars, sandbox, terminal>>
    \/ /\ component = "sandbox" /\ Sandbox!Next
       /\ UNCHANGED <<component, vars, command, terminal>>
    \/ /\ component = "terminal" /\ Terminal!Next
       /\ UNCHANGED <<component, vars, command, sandbox>>

\* The fairness of each component's own specification.
SessionSpec ==
    /\ SessionInit /\ [][SessionNext]_everything
    /\ \A s \in Session :
          /\ WF_vars(component = "stages" /\ Age(s))
          /\ WF_vars(/\ component = "stages" /\ Guard(s)
                     /\ run[s] \in {"failed", "leaving"})
    /\ \A g \in Collector :
          /\ WF_vars(component = "stages" /\ (Collect(g) \/ RemoveFails(g)))
          /\ SF_vars(component = "stages" /\ RemoveEntry(g))
    /\ WF_command(component = "command" /\ Command!Step)
    /\ WF_sandbox(component = "sandbox" /\ Sandbox!Supervise)
    /\ WF_sandbox(component = "sandbox" /\ Sandbox!AcceptThread)
    /\ WF_terminal(component = "terminal" /\ Terminal!Loop)

\* The tool runs confined, and the command leaves nothing of it behind.
RunContained == Command!RunContained

\* What comes out of a run is on record, verified and authorized.
RunAccountable == Command!RunAccountable

\* The relay's count is exact and bounded, its children restricted.
RelayExact == Sandbox!RelayExact

\* The bridge is true to the tool and restores the terminal.
TerminalFaithful == Terminal!TerminalFaithful

\* Nothing hangs: after the tool's end the command returns or waits for an
\* answer, the supervisor returns although connections keep coming, and the
\* bridge returns after its child's exit.
EverythingReturns ==
    /\ Command!RunReturns /\ Sandbox!SuperviseReturns
    /\ Terminal!BridgeReturns

=============================================================================
