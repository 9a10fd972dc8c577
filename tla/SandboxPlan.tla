----------------------------- MODULE SandboxPlan -----------------------------
(***************************************************************************)
(* From a run request to the running tool: the validation of the request   *)
(* (crates/sandbox-guard-runner/src/lib.rs), the command line that         *)
(* linux.rs builds for the host and for a Lima guest, and what the         *)
(* programs on it do in turn: systemd-run, env -i, bwrap with one mount    *)
(* after another, the supervisor.                                          *)
(*                                                                         *)
(* A path is the sequence of its components.  A mount hides whatever was   *)
(* mounted at or below its place before, so the order of the operations    *)
(* decides what the tool sees.  Mount sources are paths of the machine     *)
(* that runs bwrap.  Directories that bwrap creates in its empty root      *)
(* (--dir) hide nothing and are left out; /usr stands for the system       *)
(* directories, /etc for the configuration files that are bound if present.*)
(* Resource limits and the preflight command are passed on and left out.   *)
(***************************************************************************)
EXTENDS Naturals, Sequences, SequencesExt, FiniteSetsExt

CONSTANTS
    Sources,     \* directories a caller grants as writable state
    Targets,     \* where it wants them in the sandbox
    Stores,      \* parent directories of decision stores
    GuestRoots   \* roots of a tool in the guest

VARIABLES
    request,      \* what the caller asks for
    phase,        \* none, validate, plan, exec, mount, supervise, running, ...
    chain,        \* programs still to be executed before the supervisor
    environment,  \* names in the environment of the program that runs now
    launcher,     \* names in the environment bwrap itself was started with
    forbids,      \* a namespace the machine refuses, if any
    probed,       \* setup's namespace probe: none, works or fails
    mounts        \* mount operations done so far

planVars ==
    <<request, phase, chain, environment, launcher, forbids, probed, mounts>>

Within(path, root) == IsPrefix(root, path)

-----------------------------------------------------------------------------
(* Places of the host.                                                     *)

Workspace  == <<"stages", "run", "workspace">>
Runtime    == <<"stages", "run", "runtime">>
HelperHost == <<"usr", "lib", "guard-helper">>
ToolFile   == <<"home", "user", "bin", "tool">>
ToolRoot   == <<"home", "user", "bin">>

(* Places of the guest machine: everything below one directory.            *)
GuestRoot  == <<"dev", "shm", "guard">>

(* Places in the sandbox.                                                  *)
InWorkspace == <<"workspace">>
InInbox     == <<"workspace", "sandbox-guard-inputs">>
InRuntime   == <<"run", "sandbox-guard">>
InHelper    == <<"opt", "sandbox-guard", "helper">>
InTool      == <<"opt", "sandbox-guard", "tool">>
InHome      == <<"home", "guard">>

-----------------------------------------------------------------------------
(* Requests.                                                               *)

None == << >>

States == {None} \cup {<<s, t, p>> : s \in Sources, t \in Targets,
                                     p \in {"private", "shared"}}

Names == {"KEY", "PATH", "RUSTFLAGS", "HTTPS_PROXY", "1X"}

HostTools == {"system", "own", "rooted", "outside"}

(* What the four parts of a request can be, chosen independently.          *)
Connections == [network : {"Denied", "Controlled", "Unrestricted"},
                hosts : BOOLEAN, interactive : BOOLEAN, approval : BOOLEAN,
                store : {None} \cup Stores]
ToolChoices ==
    [backend : {"linux"}, tool : HostTools, root : {None}]
        \cup [backend : {"lima"}, tool : {"guest"},
              root : {None} \cup GuestRoots]

NoRequest == [connection |-> [network |-> "Denied", hosts |-> FALSE,
                              interactive |-> FALSE, approval |-> FALSE,
                              store |-> None],
              state |-> None, forwarded |-> "KEY", sound |-> TRUE,
              tool |-> [backend |-> "linux", tool |-> "system",
                        root |-> None]]

Init ==
    /\ request = NoRequest /\ phase = "none" /\ chain = << >>
    /\ environment = {} /\ launcher = {} /\ forbids = "nothing"
    /\ probed = "none" /\ mounts = << >>

(* Any connection with any tool and any state; a request with a field or a *)
(* name that is refused has no state.                                      *)
Ask ==
    /\ phase = "none"
    /\ \E c \in Connections, s \in States, n \in Names, b \in BOOLEAN,
          t \in ToolChoices :
          /\ b = FALSE => s = None /\ n = "KEY"
          /\ n # "KEY" => s = None
          /\ request' = [connection |-> c, state |-> s, forwarded |-> n,
                         sound |-> b, tool |-> t]
    /\ phase' = "validate"
    /\ UNCHANGED <<chain, environment, launcher, forbids, probed, mounts>>

Net == request.connection.network
OnHost == request.tool.backend = "linux"

-----------------------------------------------------------------------------
(* Validation.                                                             *)

Plain(path) == path # << >> /\ \A i \in DOMAIN path : path[i] # ".."

Reserved == {InWorkspace, InInbox, <<"opt", "sandbox-guard">>, InRuntime}

TargetAllowed(target) ==
    /\ Plain(target)
    /\ target # InHome /\ Within(target, InHome)
    /\ \A r \in Reserved : ~Within(target, r) /\ ~Within(r, target)

(* Mutant: a state directory that contains the workspace is accepted.      *)
StateAllowedAround(s) ==
    s # None =>
        /\ s[3] = "private" /\ ~Within(s[1], Workspace)
        /\ TargetAllowed(s[2])

StateAllowed(s) ==
    s # None =>
        /\ s[3] = "private"
        /\ ~Within(s[1], Workspace) /\ ~Within(Workspace, s[1])
        /\ TargetAllowed(s[2])

NetworkAllowed(c) ==
    /\ c.hosts <=> c.network = "Controlled"
    /\ c.approval => c.network = "Controlled" /\ c.interactive
    /\ c.approval <=> c.store # None

StoreFile(parent) == parent \o <<"decisions.json">>

(* Mutant: the store is not looked for in the writable state.              *)
StoreAllowedInState(parent, s) ==
    parent # None => ~Within(parent, Workspace) /\ ~Within(Workspace, parent)

StoreAllowed(parent, s) ==
    parent # None =>
        /\ ~Within(parent, Workspace) /\ ~Within(Workspace, parent)
        /\ s # None => ~Within(StoreFile(parent), s[1])

(* Mutant: only the form of the name is looked at.                         *)
NameAllowedByForm(name) == name # "1X"

(* RUSTFLAGS is one of the names only this list refuses; proxy variables   *)
(* are refused by the supervisor.                                          *)
NameAllowed(name) == name \notin {"1X", "PATH", "RUSTFLAGS"}

(* sound stands for the checks of single fields: the workspace exists, the *)
(* command is not empty, limits are positive, paths are absolute, ...      *)
Valid ==
    /\ request.sound
    /\ StateAllowed(request.state)
    /\ NetworkAllowed(request.connection)
    /\ StoreAllowed(request.connection.store, request.state)
    /\ NameAllowed(request.forwarded)

Validate ==
    /\ phase = "validate"
    /\ phase' = IF Valid THEN "plan" ELSE "refused"
    /\ UNCHANGED <<request, chain, environment, launcher, forbids, probed,
                   mounts>>

-----------------------------------------------------------------------------
(* The plan.                                                               *)

Mount(kind, source, at) == [kind |-> kind, source |-> source, at |-> at]
Tmpfs(at)      == Mount("tmpfs", None, at)
SameIfAny(at)  == Mount("optional", at, at)

(* The root, /proc, /dev, /tmp and /dev/shm belong to the sandbox alone.   *)
Base == <<Tmpfs(<<>>), Tmpfs(<<"proc">>), Tmpfs(<<"dev">>), Tmpfs(<<"tmp">>),
          Tmpfs(<<"dev", "shm">>)>>

Resolver ==
    IF Net = "Unrestricted" THEN <<SameIfAny(<<"etc", "resolv.conf">>)>>
    ELSE << >>

(* Climbing components are resolved by the kernel.                         *)
Resolve(path) ==
    IF Plain(path) THEN path
    ELSE FoldLeft(LAMBDA p, c : IF c = ".." THEN Front(p) ELSE Append(p, c),
                  << >>, path)

StateMount(source) ==
    IF request.state = None THEN << >>
    ELSE <<Mount("rw", source, Resolve(request.state[2]))>>

(* A tool outside /usr is bound at a place of its own, with its root.      *)
ToolMount ==
    CASE request.tool.tool = "own"    -> <<Mount("ro", ToolFile, InTool)>>
      [] request.tool.tool = "rooted" -> <<Mount("ro", ToolRoot, InTool)>>
      [] OTHER -> << >>

(* Where the tool is in the sandbox, on the host.                          *)
ToolCommand == CASE request.tool.tool = "own"    -> InTool
                 [] request.tool.tool = "rooted" -> InTool \o <<"tool">>
                 [] OTHER -> <<"usr", "bin", "tool">>
ToolSource == IF request.tool.tool = "system" THEN <<"usr", "bin", "tool">>
              ELSE ToolFile

(* Mutant: the inbox is bound before the workspace it lies in.             *)
SharedMountsSwapped(workspace, runtime) ==
    <<Mount("ro", runtime \o <<"inbox">>, InInbox),
      Mount("rw", workspace, InWorkspace)>>

SharedMounts(workspace, runtime) ==
    <<Mount("rw", workspace, InWorkspace),
      Mount("ro", runtime \o <<"inbox">>, InInbox)>>

HostMounts ==
    Base \o <<Mount("ro", <<"usr">>, <<"usr">>), SameIfAny(<<"etc">>)>>
    \o Resolver
    \o <<Mount("ro", HelperHost, InHelper), Mount("ro", Runtime, InRuntime)>>
    \o StateMount(IF request.state = None THEN None ELSE request.state[1])
    \o ToolMount \o SharedMounts(Workspace, Runtime)

(* In the guest the helper is reached through /usr/local, the tool's root  *)
(* is bound at its own path, and the state is a copy below GuestRoot.      *)
GuestMounts ==
    Base \o <<SameIfAny(<<"usr">>), SameIfAny(<<"usr", "local">>),
              SameIfAny(<<"opt", "sandbox-guard", "tools">>),
              SameIfAny(<<"etc">>)>>
    \o (IF request.tool.root = None THEN << >>
        ELSE <<Mount("ro", request.tool.root, request.tool.root)>>)
    \o Resolver
    \o <<Mount("ro", GuestRoot, InRuntime)>>
    \o StateMount(GuestRoot \o <<"session-state">>)
    \o SharedMounts(GuestRoot \o <<"workspace">>, GuestRoot)

MountPlan == IF OnHost THEN HostMounts ELSE GuestMounts

(* Mutant: bwrap follows systemd-run directly.                             *)
CommandUncleaned(scope) ==
    (IF OnHost THEN << >> ELSE <<"limactl">>)
    \o IF scope THEN <<"systemd-run", "bwrap">> ELSE <<"env", "bwrap">>

(* The environment is cleared (env -i) directly before bwrap: systemd-run  *)
(* needs it to find the user's manager.                                    *)
Command(scope) ==
    (IF OnHost THEN << >> ELSE <<"limactl">>)
    \o (IF scope THEN <<"systemd-run">> ELSE << >>)
    \o <<"env", "bwrap">>

(* The machine is what it is before a run is planned; `guard setup` may    *)
(* have tried it with linux_namespace_probe_available.                     *)
Machine == forbids' \in {"nothing", "user", "net"}

(* Mutant: the probe keeps the network.                                    *)
ProbeUnsharesNoNet == {"user", "pid", "ipc", "uts", "cgroup"}

ProbeUnshares == {"user", "pid", "ipc", "uts", "cgroup", "net"}

Probe ==
    /\ phase = "plan" /\ OnHost /\ probed = "none"
    /\ Machine
    /\ probed' = IF forbids' \in ProbeUnshares THEN "fails" ELSE "works"
    /\ UNCHANGED <<request, phase, chain, environment, launcher, mounts>>

(* With or without a scope, as resolve_cgroup_mode found out (the module   *)
(* RunSession).                                                            *)
Plan ==
    /\ phase = "plan"
    /\ \/ /\ request.tool.tool = "outside"
          /\ phase' = "refused" /\ UNCHANGED <<chain, environment>>
       \/ /\ request.tool.tool # "outside"
          /\ \E scope \in BOOLEAN : chain' = Command(scope)
          /\ phase' = "exec"
          /\ environment' = {"HOME", "XDG_RUNTIME_DIR", "TOKEN"}
    /\ IF probed = "none" THEN Machine ELSE UNCHANGED forbids
    /\ UNCHANGED <<request, launcher, probed, mounts>>

-----------------------------------------------------------------------------
(* Launch.                                                                 *)

Unshares == {"user", "pid", "ipc", "uts", "cgroup"}
            \cup IF Net = "Unrestricted" THEN {} ELSE {"net"}

(* A program hands its environment on: limactl the one of a login in the   *)
(* guest, env -i nothing.                                                  *)
Exec ==
    /\ phase = "exec" /\ Head(chain) # "bwrap"
    /\ chain' = Tail(chain)
    /\ environment' =
          CASE Head(chain) = "limactl" -> {"HOME", "XDG_RUNTIME_DIR"}
            [] Head(chain) = "env"     -> {}
            [] OTHER -> environment
    /\ UNCHANGED <<request, phase, launcher, forbids, probed, mounts>>

(* bwrap keeps its own environment as pid 1, and unshares all at once.     *)
ExecBwrap ==
    /\ phase = "exec" /\ Head(chain) = "bwrap"
    /\ launcher' = environment
    /\ phase' = IF forbids \in Unshares THEN "no-namespace" ELSE "mount"
    /\ chain' = Tail(chain)
    /\ UNCHANGED <<request, environment, forbids, probed, mounts>>

MountNext ==
    /\ phase = "mount" /\ Len(mounts) < Len(MountPlan)
    /\ LET m == MountPlan[Len(mounts) + 1]
       IN  mounts' \in
              IF m.kind = "optional"
              THEN {Append(mounts, Mount("ro", m.source, m.at)),
                    Append(mounts, Mount("absent", None, m.at))}
              ELSE {Append(mounts, m)}
    /\ UNCHANGED <<request, phase, chain, environment, launcher, forbids,
                   probed>>

(* A source that is gone, or a place that cannot be created below a        *)
(* read-only mount, ends bwrap.                                            *)
MountFails ==
    /\ phase = "mount" /\ Len(mounts) < Len(MountPlan)
    /\ MountPlan[Len(mounts) + 1].kind \in {"ro", "rw"}
    /\ phase' = "failed"
    /\ UNCHANGED <<request, chain, environment, launcher, forbids, probed,
                   mounts>>

(* --clearenv and --setenv: the helper starts with these names.            *)
ExecHelper ==
    /\ phase = "mount" /\ Len(mounts) = Len(MountPlan)
    /\ environment' = {"HOME", "PATH", "LANG"}
                      \cup IF request.connection.interactive THEN {"TERM"}
                           ELSE {}
    /\ phase' = "supervise"
    /\ UNCHANGED <<request, chain, launcher, forbids, probed, mounts>>

(* The supervisor checks the forwarded names against its own list and      *)
(* starts the tool (the module Supervisor).                                *)
Supervise ==
    /\ phase = "supervise"
    /\ \/ /\ request.forwarded \in {"1X", "PATH", "HTTPS_PROXY"}
          /\ phase' = "failed" /\ UNCHANGED environment
       \/ /\ request.forwarded \notin {"1X", "PATH", "HTTPS_PROXY"}
          /\ environment' =
                environment \cup {request.forwarded}
                \cup IF Net = "Controlled" THEN {"HTTPS_PROXY"} ELSE {}
          /\ phase' = "running"
    /\ UNCHANGED <<request, chain, launcher, forbids, probed, mounts>>

-----------------------------------------------------------------------------
Next ==
    \/ Ask \/ Validate \/ Plan \/ Probe \/ Exec \/ ExecBwrap
    \/ MountNext \/ MountFails \/ ExecHelper \/ Supervise

Spec == Init /\ [][Next]_planVars

-----------------------------------------------------------------------------
(* Types of the state.                                                     *)
TypeOK ==
    /\ phase \in {"none", "validate", "plan", "refused", "exec", "mount",
                  "no-namespace", "failed", "supervise", "running"}
    /\ probed \in {"none", "works", "fails"}
    /\ forbids \in {"nothing", "user", "net"}
    /\ phase = "mount" => Len(mounts) <= Len(MountPlan)

Running == phase \in {"supervise", "running"}

(* The mount that decides what is at a place, and what of it is there.     *)
Visible(path) ==
    mounts[Max({i \in DOMAIN mounts : /\ mounts[i].kind # "absent"
                                      /\ Within(path, mounts[i].at)})]
Shown(path) ==
    LET m == Visible(path)
    IN  m.source \o SubSeq(path, Len(m.at) + 1, Len(path))

(* Each thing the run relies on is at its place once all mounts are done,  *)
(* hidden by none of them, with the access it is meant to have: runtime,   *)
(* inbox, workspace, state, and on the host the helper and the tool.       *)
PlacedAsPlanned ==
    Running =>
        LET home == IF OnHost THEN Runtime ELSE GuestRoot
            is(path, source, kind) ==
                Visible(path).kind = kind /\ Shown(path) = source
        IN  /\ is(InRuntime, home, "ro")
            /\ is(InInbox, home \o <<"inbox">>, "ro")
            /\ is(InWorkspace,
                  IF OnHost THEN Workspace ELSE GuestRoot \o <<"workspace">>,
                  "rw")
            /\ request.state # None =>
                  is(Resolve(request.state[2]),
                     IF OnHost THEN request.state[1]
                     ELSE GuestRoot \o <<"session-state">>, "rw")
            /\ OnHost => /\ is(InHelper, HelperHost, "ro")
                         /\ is(ToolCommand, ToolSource, "ro")

(* Whatever the tool can write through to the machine is the workspace     *)
(* without its inbox, or the granted state: and on the host no file of the *)
(* one is a file of the other, so neither can be used to change the other. *)
WritesOnlyGranted ==
    Running =>
        LET rw == {i \in DOMAIN mounts : mounts[i].kind = "rw"}
        IN  /\ \A i \in rw : \/ mounts[i].at = InWorkspace
                             \/ /\ request.state # None
                                /\ mounts[i].at = Resolve(request.state[2])
                                /\ Within(mounts[i].at, InHome)
            /\ OnHost => \A i, j \in rw :
                  i # j => ~Within(mounts[i].source, mounts[j].source)
            /\ Visible(InInbox \o <<"image">>).kind # "rw"

(* The remembered decisions are not a file the tool can write.             *)
DecisionsOutOfReach ==
    Running /\ OnHost /\ request.connection.store # None =>
        \A i \in DOMAIN mounts :
            mounts[i].kind = "rw" =>
                ~Within(StoreFile(request.connection.store), mounts[i].source)

(* bwrap, which the tool can inspect as pid 1, was started with an empty   *)
(* environment on every route to it.                                       *)
LauncherScrubbed == Running => launcher = {}

(* Names that steer the execution of programs do not come from the caller: *)
(* the two lists of the runner and the supervisor together see to it.      *)
EnvironmentGuarded ==
    phase = "running" =>
        /\ request.forwarded \notin {"PATH", "RUSTFLAGS", "HTTPS_PROXY"}
        /\ "HTTPS_PROXY" \in environment => Net = "Controlled"

(* When setup's probe worked, no run is refused a namespace.               *)
ProbeForetells == phase = "no-namespace" => probed # "works"

(* The boundary of the sandbox is the one that was planned, from the       *)
(* request to the running tool: no mount hides another, only workspace and *)
(* granted state are writable, the remembered decisions are out of reach,  *)
(* no environment gets in, and setup has foretold whether it can be drawn. *)
SandboxBoundary ==
    /\ TypeOK /\ PlacedAsPlanned /\ WritesOnlyGranted
    /\ DecisionsOutOfReach /\ LauncherScrubbed
    /\ EnvironmentGuarded /\ ProbeForetells

=============================================================================
