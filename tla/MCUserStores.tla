---------------------------- MODULE MCUserStores ----------------------------
(* What a user's runs remember from one to the next: the egress decisions, *)
(* and the conversations and the token of guard grok.  The three share no  *)
(* variable, so a behaviour follows one of them and leaves the others      *)
(* alone.                                                                  *)
EXTENDS DecisionStore, Integers, TLC

CONSTANTS p1, p2, h1, h2, Grok, MaxOutages, Times, Validity

\* Runs are numbered from 1, and so are the times, of which the first is there.
ASSUME GrokAssumption == Grok \subseteq Nat \ {0} /\ MaxOutages \in Nat
ASSUME TimeAssumption ==
    Times \subseteq Nat \ {0} /\ 1 \in Times /\ Validity \in Nat

VARIABLES
    component,
    doing, previous, listed, copied, snapshot, published, current, outcomes,
    sweep, overlapped, raced, outages,
    asking, force, terminal, auth, time, began, logins, token

ProcessSymmetry == Permutations({p1, p2})

Sessions   == INSTANCE GrokSession
Credential == INSTANCE GrokCredential

sessions == <<doing, previous, listed, copied, snapshot, published, current,
              outcomes, sweep, overlapped, raced, outages>>
credential == <<asking, force, terminal, auth, time, began, logins, token>>

everything == <<component, vars, sessions, credential>>

StoresInit ==
    /\ component \in {"decisions", "sessions", "credential"}
    /\ Init /\ Sessions!Init /\ Credential!Init
    /\ component = "decisions" \/ file = NoDocument

\* Every run of guard grok comes to its end; the decisions' processes go on.
StoresNext ==
    \/ /\ component = "decisions" /\ Next
       /\ UNCHANGED <<component, sessions, credential>>
    \/ /\ component = "sessions" /\ Sessions!Next
       /\ UNCHANGED <<component, vars, credential>>
    \/ /\ component = "credential" /\ Credential!Next
       /\ UNCHANGED <<component, vars, sessions>>
    \/ component # "decisions" /\ UNCHANGED everything

StoresSpec == StoresInit /\ [][StoresNext]_everything

\* A run's token outlasts its beginning by the required time.
CredentialFresh == Credential!CredentialFresh

\* The conversations of guard grok are whole, loaded whole and kept.
SnapshotsSafe == Sessions!SnapshotsSafe

=============================================================================
