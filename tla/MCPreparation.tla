--------------------------- MODULE MCPreparation ---------------------------
(* What stands ready before a tool runs: the guest's tool and helper, the  *)
(* sandbox around the tool, and the filter of its system calls.  The three *)
(* share no variable, so a behaviour follows one of them and leaves the    *)
(* others alone.                                                           *)
(*                                                                         *)
(* In one guest, two setups of the tool or two of the helper run at once.  *)
(* The two products have no file in common, so they need not meet.         *)
EXTENDS GuestProvision

CONSTANTS
    t1, t2, h1, h2,
    Components, Sources, Targets, Stores, GuestRoots,
    Foreign, OtherCalls, Arguments

VARIABLES
    component,
    request, phase, chain, environment, launcher, forbids, probed, mounts,
    machine, child, installed, call, counter, word, verdict, asked, blocked,
    entered

Sandbox == INSTANCE SandboxPlan
Filter  == INSTANCE SyscallFilter

\* A path is a sequence of names, among them those the program uses.
ASSUME PathAssumption ==
    /\ {"bin", "decisions.json", "dev", "etc", "guard", "guard-helper",
        "helper", "home", "image", "inbox", "lib", "local", "opt", "proc",
        "resolv.conf", "run", "runtime", "sandbox-guard",
        "sandbox-guard-inputs", "session-state", "shm", "stages", "tmp",
        "tool", "tools", "user", "usr", "workspace"} \subseteq Components
    /\ Sources \cup Targets \cup Stores \cup GuestRoots
           \subseteq Seq(Components)

\* A foreign architecture is none of the two; the other calls are in no rule;
\* among the arguments are those of the probe.
ASSUME FilterAssumption ==
    /\ Foreign \cap Filter!Machines = {}
    /\ OtherCalls \cap (Filter!Denied \cup {"clone", "clone3", "x32"}) = {}
    /\ {{}, {"NEWNS", "FS"}} \subseteq Arguments

(* Places that are harmless, around, in or beside the workspace, the store *)
(* or the reserved places, and one that climbs out of its directory.       *)
Snapshot == <<"state", "snapshot">>

MCSources ==
    {Snapshot, <<"stages">>, <<"stages", "run", "workspace", "cache">>}
MCTargets ==
    {<<"home", "guard", ".grok">>, <<"home", "guard", "a", "b">>,
     <<"home", "guard">>, <<"home">>, <<"workspace", "x">>,
     <<"run", "sandbox-guard">>,
     <<"home", "guard", "..", "..", "run", "sandbox-guard">>}
MCStores ==
    {<<"guard">>, <<"state">>, Snapshot, <<"stages">>,
     <<"stages", "run", "workspace">>}
MCGuestRoots ==
    {<<"opt", "sandbox-guard", "tools", "v1">>, <<"home", "guard">>, <<"run">>}

plan   == <<request, phase, chain, environment, launcher, forbids, probed,
            mounts>>
filter == <<machine, child, installed, call, counter, word, verdict, asked,
            blocked, entered>>

everything == <<component, vars, plan, filter>>

PreparationInit ==
    /\ component \in {"guest", "plan", "filter"}
    /\ Init /\ Sandbox!Init /\ Filter!Init
    /\ component # "guest" =>
          status[t1] = "idle" /\ dirs = {} /\ final["helper"] = Absent

GuestStep(A) ==
    /\ component = "guest" /\ A
    /\ UNCHANGED <<component, plan, filter>>

PreparationNext ==
    \/ GuestStep(Next)
    \/ /\ component = "plan" /\ Sandbox!Next
       /\ UNCHANGED <<component, vars, filter>>
    \/ /\ component = "filter" /\ Filter!Next
       /\ UNCHANGED <<component, vars, plan>>

PreparationSpec ==
    /\ PreparationInit /\ [][PreparationNext]_everything
    /\ \A i \in Persistent : WF_everything(GuestStep(Step(i)))

\* A setup that is repeated after failures succeeds in the end.
SetupSucceeds ==
    \A i \in Persistent :
        (component = "guest" /\ status[i] = "idle") ~> status[i] = "ok"

\* The sandbox around a running tool is the one that was planned.
SandboxBoundary == Sandbox!SandboxBoundary

\* The filter and its probe are exact.
FilterExact == Filter!FilterExact

=============================================================================
