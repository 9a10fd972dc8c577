---------------------------- MODULE SyscallFilter ----------------------------
(***************************************************************************)
(* The system call filter of crates/sandbox-guard-helper/src/seccomp.rs,   *)
(* executed instruction by instruction, and the probe of supervisor.rs     *)
(* that `guard test` runs inside the sandbox to see whether the filter is  *)
(* in force.                                                               *)
(*                                                                         *)
(* The child installs the program before it executes anything, or is not   *)
(* started.  Then it is the tool, which calls what it likes until a call   *)
(* kills it, or the probe, which goes through a fixed list of calls.  The  *)
(* probe may also find itself without a filter: the case it is there for.  *)
(*                                                                         *)
(* A machine word is the set of the tokens it is made of: an architecture, *)
(* a call's number with or without the x32 bit, a set of clone flags.      *)
(* Equality, masks and the test for the x32 bit, the highest bit a call's  *)
(* number has, are all the program applies to a word.                      *)
(***************************************************************************)
EXTENDS Naturals, Sequences

CONSTANTS
    Foreign,     \* architectures the helper was not built for
    OtherCalls,  \* calls that no rule of the filter names
    Arguments    \* first arguments of calls, sets of flags

VARIABLES
    machine,    \* the architecture the helper was built for
    child,      \* how far the child is: none, forked, armed, tool, probe, ...
    installed,  \* the filter is in force
    call,       \* the system call being decided
    counter,    \* program counter of the filter, 0 between calls
    word,       \* its accumulator
    verdict,    \* what became of the call
    asked,      \* probe: calls issued so far
    blocked,    \* probe: every answer was the expected one
    entered     \* a new namespace was entered

filterVars ==
    <<machine, child, installed, call, counter, word, verdict, asked, blocked,
      entered>>

Machines == {"x86_64", "aarch64"}

(* The calls that are rejected whatever their arguments.                   *)
DeniedSyscalls == <<
    "unshare", "setns", "mount", "umount2", "pivot_root", "open_tree",
    "move_mount", "fsopen", "fsconfig", "fsmount", "mount_setattr", "bpf",
    "perf_event_open", "io_uring_setup", "io_uring_enter",
    "io_uring_register", "open_by_handle_at", "name_to_handle_at",
    "process_vm_readv", "process_vm_writev", "process_madvise", "pidfd_open",
    "pidfd_send_signal", "pidfd_getfd", "ptrace", "userfaultfd", "kexec_load",
    "kexec_file_load", "init_module", "finit_module", "delete_module",
    "reboot", "swapon", "swapoff", "acct", "add_key", "request_key",
    "keyctl">>

Denied == {DeniedSyscalls[i] : i \in DOMAIN DeniedSyscalls}

(* Flags that make clone create a namespace.                               *)
DeniedCloneFlags ==
    {"NEWCGROUP", "NEWIPC", "NEWNET", "NEWNS", "NEWPID", "NEWUSER", "NEWUTS"}

-----------------------------------------------------------------------------
(* The program.                                                            *)

Statement(code, value) == [code |-> code, k |-> value, jt |-> 0, jf |-> 0]
Jump(code, value, jt, jf) ==
    [code |-> code, k |-> value, jt |-> jt, jf |-> jf]

(* A foreign architecture is killed before its numbers are looked at; so   *)
(* is the x32 variant of a call, which only one of the machines has.       *)
Prologue ==
    <<Statement("load", "arch"), Jump("equal", {machine}, 1, 0),
      Statement("return", "kill"), Statement("load", "nr")>>
    \o IF machine = "x86_64"
       THEN <<Jump("atLeast", "x32", 0, 1), Statement("return", "kill")>>
       ELSE << >>

(* Mutant: clone3 passes on to the other checks and to clone's rule.       *)
Clone3Open == << >>

(* clone3 has its flags behind a pointer: it is reported unavailable.      *)
Clone3Rule ==
    <<Jump("equal", {"clone3"}, 0, 1), Statement("return", "ENOSYS")>>

DeniedRules ==
    [i \in 1 .. 2 * Len(DeniedSyscalls) |->
        IF i % 2 = 1
        THEN Jump("equal", {DeniedSyscalls[(i + 1) \div 2]}, 0, 1)
        ELSE Statement("return", "EPERM")]

(* Mutant: the jump over clone's rule is one instruction short.            *)
CloneRuleShort ==
    <<Jump("equal", {"clone"}, 0, 3), Statement("load", "arg0"),
      Statement("and", DeniedCloneFlags), Jump("equal", {}, 1, 0),
      Statement("return", "EPERM"), Statement("return", "allow")>>

(* clone is rejected with a namespace flag; all the rest is allowed.       *)
CloneRule ==
    <<Jump("equal", {"clone"}, 0, 4), Statement("load", "arg0"),
      Statement("and", DeniedCloneFlags), Jump("equal", {}, 1, 0),
      Statement("return", "EPERM"), Statement("return", "allow")>>

Program == Prologue \o Clone3Rule \o DeniedRules \o CloneRule

-----------------------------------------------------------------------------
NoCall == [arch |-> {}, nr |-> {}, arg0 |-> {}]

Init ==
    /\ machine = "x86_64" /\ child = "none" /\ installed = FALSE
    /\ call = NoCall /\ counter = 0 /\ word = {} /\ verdict = "none"
    /\ asked = 0 /\ blocked = TRUE /\ entered = FALSE

(* The supervisor builds the program and forks.                            *)
Fork ==
    /\ child = "none"
    /\ machine' \in Machines
    /\ child' = "forked"
    /\ UNCHANGED <<installed, call, counter, word, verdict, asked, blocked,
                   entered>>

(* install_filter gives up privileges first: without that an ordinary      *)
(* process may not load a filter.  A failing call ends the child.          *)
SetNoNewPrivileges ==
    /\ child = "forked"
    /\ child' \in {"armed", "refused"}
    /\ UNCHANGED <<machine, installed, call, counter, word, verdict, asked,
                   blocked, entered>>

Install ==
    /\ child = "armed"
    /\ \/ child' \in {"tool", "probe"} /\ installed' = TRUE
       \/ child' = "refused" /\ UNCHANGED installed
    /\ UNCHANGED <<machine, call, counter, word, verdict, asked, blocked,
                   entered>>

(* A sandbox without the filter, as a regression would leave it.           *)
Regressed ==
    /\ child = "none"
    /\ machine' \in Machines
    /\ child' = "probe"
    /\ UNCHANGED <<installed, call, counter, word, verdict, asked, blocked,
                   entered>>

Numbers == Denied \cup {"clone3", "clone"} \cup OtherCalls

(* Calls of a program for another architecture, of an x32 one, and native  *)
(* ones.                                                                   *)
Calls ==
    [arch : {{a} : a \in Foreign}, nr : {{c} : c \in Numbers},
     arg0 : Arguments]
    \cup [arch : {{machine}},
          nr : {{c, "x32"} : c \in {d \in Numbers : machine = "x86_64"}},
          arg0 : Arguments]
    \cup [arch : {{machine}}, nr : {{c} : c \in Numbers}, arg0 : Arguments]

Issue(c) ==
    /\ call' = c /\ verdict' = "none"
    /\ counter' = IF installed THEN 1 ELSE 0

ToolCalls ==
    /\ child = "tool" /\ counter = 0 /\ call = NoCall
    /\ \E c \in Calls : Issue(c)
    /\ UNCHANGED <<machine, child, installed, word, asked, blocked, entered>>

(* One instruction of the filter.                                          *)
Execute ==
    /\ counter > 0
    /\ LET i    == Program[counter]
           Target(taken) == counter + 1 + IF taken THEN i.jt ELSE i.jf
       IN  \/ /\ i.code = "load"
              /\ word' = call[i.k] /\ counter' = counter + 1
              /\ UNCHANGED verdict
           \/ /\ i.code = "and"
              /\ word' = word \cap i.k /\ counter' = counter + 1
              /\ UNCHANGED verdict
           \/ /\ i.code = "equal"
              /\ counter' = Target(word = i.k)
              /\ UNCHANGED <<word, verdict>>
           \/ /\ i.code = "atLeast"
              /\ counter' = Target(i.k \in word)
              /\ UNCHANGED <<word, verdict>>
           \/ /\ i.code = "return"
              /\ verdict' = i.k /\ counter' = 0
              /\ UNCHANGED word
    /\ UNCHANGED <<machine, child, installed, call, asked, blocked, entered>>

(* What an admitted call may do: these create or join a namespace, clone3  *)
(* with flags the filter has not seen.                                     *)
Enters(c) ==
    \/ c.nr \cap {"unshare", "setns", "clone3"} # {}
    \/ "clone" \in c.nr /\ c.arg0 \cap DeniedCloneFlags # {}

(* The kernel carries the tool's call out, answers with the error, or      *)
(* ends the process.                                                       *)
Return ==
    /\ child = "tool" /\ counter = 0 /\ verdict # "none"
    /\ child' = IF verdict = "kill" THEN "killed" ELSE "tool"
    /\ entered' = (entered \/ (verdict = "allow" /\ Enters(call)))
    /\ call' = NoCall /\ verdict' = "none" /\ word' = {}
    /\ UNCHANGED <<machine, installed, counter, asked, blocked>>

-----------------------------------------------------------------------------
(* The probe.                                                              *)

(* Every denied call, then clone with NEWNS and FS, which the kernel does  *)
(* not accept together, then clone3 with a null pointer.                   *)
ProbeCalls ==
    [i \in 1 .. Len(DeniedSyscalls) |->
        [arch |-> {machine}, nr |-> {DeniedSyscalls[i]}, arg0 |-> {}]]
    \o <<[arch |-> {machine}, nr |-> {"clone"}, arg0 |-> {"NEWNS", "FS"}],
         [arch |-> {machine}, nr |-> {"clone3"}, arg0 |-> {}]>>

ProbeAsks ==
    /\ child = "probe" /\ counter = 0 /\ call = NoCall
    /\ asked < Len(ProbeCalls)
    /\ Issue(ProbeCalls[asked + 1])
    /\ UNCHANGED <<machine, child, installed, word, asked, blocked, entered>>

(* Reading and writing the probe's own memory needs no privilege.          *)
OwnMemory == {{"process_vm_readv"}, {"process_vm_writev"}}

(* Without a filter the kernel refuses the invalid arguments; where it     *)
(* asks for a capability first, the sandbox's lack of it is EPERM too.     *)
KernelAnswers ==
    /\ child = "probe" /\ counter = 0 /\ verdict = "none" /\ call # NoCall
    /\ verdict' \in IF call.nr \in OwnMemory THEN {"allow"}
                    ELSE IF call.nr \in {{"clone"}, {"clone3"}}
                         THEN {"EINVAL"}
                         ELSE {"EINVAL", "EPERM"}
    /\ UNCHANGED <<machine, child, installed, call, counter, word, asked,
                   blocked, entered>>

(* Mutant: the answer EPERM is expected of clone3 as well.                 *)
ExpectedUniform(nr) == "EPERM"

Expected(nr) == IF nr = {"clone3"} THEN "ENOSYS" ELSE "EPERM"

ProbeNotes ==
    /\ child = "probe" /\ counter = 0 /\ verdict # "none"
    /\ blocked' = (blocked /\ verdict = Expected(call.nr))
    /\ asked' = asked + 1
    /\ call' = NoCall /\ verdict' = "none" /\ word' = {}
    /\ UNCHANGED <<machine, child, installed, counter, entered>>

ProbeReports ==
    /\ child = "probe" /\ counter = 0 /\ call = NoCall
    /\ asked = Len(ProbeCalls)
    /\ child' = "reported"
    /\ UNCHANGED <<machine, installed, call, counter, word, verdict, asked,
                   blocked, entered>>

-----------------------------------------------------------------------------
Next ==
    \/ Fork \/ SetNoNewPrivileges \/ Install \/ Regressed
    \/ ToolCalls \/ Execute \/ Return
    \/ ProbeAsks \/ KernelAnswers \/ ProbeNotes \/ ProbeReports

Spec == Init /\ [][Next]_filterVars

-----------------------------------------------------------------------------
(* Types of the state.  The counter never runs past the program, which is  *)
(* what the kernel demands of every jump before it accepts a filter.       *)
TypeOK ==
    /\ machine \in Machines
    /\ child \in {"none", "forked", "armed", "refused", "tool", "probe",
                  "killed", "reported"}
    /\ installed \in BOOLEAN /\ blocked \in BOOLEAN /\ entered \in BOOLEAN
    /\ call = NoCall \/ call \in Calls
    /\ counter \in 0 .. Len(Program)
    /\ verdict \in {"none", "kill", "ENOSYS", "EPERM", "allow", "EINVAL"}
    /\ asked \in 0 .. Len(ProbeCalls)

(* The decision the generated jumps arrive at (build_filter) is, for every *)
(* call on both machines, the one the deny list and the comments state: a  *)
(* foreign or x32 call kills, clone3 is unavailable, a listed call or a    *)
(* clone with a namespace flag is EPERM, everything else is allowed.       *)
FilterDecides ==
    installed /\ verdict # "none" =>
        verdict =
            IF call.arch # {machine} \/ "x32" \in call.nr THEN "kill"
            ELSE IF call.nr = {"clone3"} THEN "ENOSYS"
            ELSE IF \/ \E d \in Denied : d \in call.nr
                    \/ "clone" \in call.nr /\ call.arg0 \cap DeniedCloneFlags # {}
                 THEN "EPERM"
            ELSE "allow"

(* No sequence of calls takes the tool into a namespace of its own making. *)
NamespaceKept == child \in {"tool", "killed"} => ~entered

(* The report of probe_denied_syscalls and the clone probes says that all  *)
(* is blocked exactly when the filter is in force: what the missing        *)
(* capabilities answer does not make up for a missing filter.              *)
ProbeExact == child = "reported" => (blocked <=> installed)

(* The filter decides each call as its list says, no sequence of calls     *)
(* gets around it, and the probe tells whether it is in force.             *)
FilterExact == TypeOK /\ FilterDecides /\ NamespaceKept /\ ProbeExact

=============================================================================
