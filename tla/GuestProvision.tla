--------------------------- MODULE GuestProvision ---------------------------
(***************************************************************************)
(* Provisioning of a Lima guest by `guard setup`: install_lima_guest_tool  *)
(* and install_lima_guest_helper of crates/sandbox-guard-cli/src/setup.rs. *)
(* Both copy verified bytes into the guest's /tmp, from there into a       *)
(* root-owned file beside the destination, check it and rename it into     *)
(* place.  The tool has a receipt as well, is looked at six times on the   *)
(* way, and leaves temporary files behind when it fails; the helper is     *)
(* cleaned up after.  Nothing keeps two setups from running at once.       *)
(*                                                                         *)
(* Each installer stands for one invocation (or its repetitions) and for   *)
(* the product it installs.  Temporary names contain a fresh nonce, so     *)
(* every attempt has its own.  Programs of the guest's user may change     *)
(* what lies in /tmp; the root-owned directories are out of their reach.   *)
(* Products may agree in size: only their hashes tell them apart.          *)
(***************************************************************************)
EXTENDS Integers, Sequences

CONSTANTS
    Tools,       \* installers of the tool
    Helpers,     \* installers of the helper
    Together,    \* sets of installers that run side by side
    Persistent,  \* installers whose owner repeats a failed setup
    Absent,      \* no file
    Earlier,     \* a product installed before
    Spoiled,     \* bytes nobody verified: cut off, or changed in the guest
    MaxFaults    \* bound on failing commands, kills and tampering

Installer == Tools \cup Helpers
Contents  == Installer \cup {Absent, Earlier, Spoiled}

ASSUME InstallerAssumption ==
    /\ Tools \cap Helpers = {} /\ Persistent \subseteq Installer
    /\ Together \subseteq SUBSET Installer
    /\ {Absent, Earlier, Spoiled} \cap Installer = {}
    /\ Absent # Earlier /\ Absent # Spoiled /\ Earlier # Spoiled
ASSUME FaultAssumption == MaxFaults \in Nat

VARIABLES
    status,   \* each installer: none, idle, working, cleaning, ok or failed
    at,       \* its place in its plan
    temp,     \* its files in /tmp of the guest
    stage,    \* its root-owned files beside the destination
    seen,     \* what inspect_guest_tool has read so far
    initial,  \* the first inspection's result
    final,    \* the installed files
    dirs,     \* directories below /opt that exist
    faults

local == <<temp, stage, seen, initial>>
guest == <<final, dirs>>
vars  == <<status, at, temp, stage, seen, initial, final, dirs, faults>>

Parts == {"artifact", "receipt", "helper"}

-----------------------------------------------------------------------------
(* The order of the two installations.                                     *)

ToolPlan == <<
    <<"look", "tool">>, <<"look", "tool">>,
    <<"copy", "artifact">>, <<"copy", "receipt">>,
    <<"check", "artifact">>, <<"check", "receipt">>, <<"look", "tool">>,
    <<"mkdir", "guard">>, <<"mkdir", "tools">>, <<"look", "tool">>,
    <<"stage", "artifact">>, <<"stage", "receipt">>,
    <<"verify", "artifact">>, <<"verify", "receipt">>,
    <<"clean", "tool">>, <<"look", "tool">>,
    <<"move", "artifact">>, <<"move", "receipt">>, <<"look", "tool">> >>

HelperPlan == <<
    <<"match", "helper">>, <<"copy", "helper">>, <<"check", "helper">>,
    <<"stage", "helper">>, <<"verify", "helper">>, <<"move", "helper">>,
    <<"confirm", "helper">>, <<"clean", "helper">> >>

Plan(i) == IF i \in Tools THEN ToolPlan ELSE HelperPlan

Doing(i, op, p) == status[i] = "working" /\ Plan(i)[at[i]] = <<op, p>>

Nothing == [p \in Parts |-> Absent]

\* What is in the guest already: nothing, a whole installation or the rest of
\* an interrupted one.
Init ==
    /\ \E group \in Together :
          status = [i \in Installer |-> IF i \in group THEN "idle" ELSE "none"]
    /\ at = [i \in Installer |-> 1]
    /\ temp = [i \in Installer |-> Nothing]
    /\ stage = [i \in Installer |-> Nothing]
    /\ seen = [i \in Installer |-> <<>>]
    /\ initial = [i \in Installer |-> <<>>]
    /\ final \in [Parts -> {Absent, Earlier}]
    /\ dirs \in {{}, {"guard"}, {"guard", "tools"}}
    /\ final["artifact"] # Absent \/ final["receipt"] # Absent
          => "tools" \in dirs
    /\ faults = 0

Become(i, s) == status' = [status EXCEPT ![i] = s]

\* Mutant: the place runs on past the end.
ProceedPast(i) ==
    /\ at' = [at EXCEPT ![i] = @ + 1]
    /\ UNCHANGED status

\* The next step of the plan, or success after the last.
Proceed(i) ==
    IF at[i] = Len(Plan(i))
        THEN Become(i, "ok") /\ UNCHANGED at
        ELSE at' = [at EXCEPT ![i] = @ + 1] /\ UNCHANGED status

\* An error: once the helper is being copied, its temporary files are cleaned
\* up first.
Bail(i) ==
    /\ Become(i, IF i \in Helpers /\ at[i] \in 2..(Len(HelperPlan) - 1)
                    THEN "cleaning" ELSE "failed")
    /\ UNCHANGED at

\* A setup begins, or a failed one is repeated, with fresh temporary names.
Begin(i) ==
    /\ status[i] = "idle" \/ (status[i] = "failed" /\ i \in Persistent)
    /\ Become(i, "working")
    /\ at' = [at EXCEPT ![i] = 1]
    /\ temp' = [temp EXCEPT ![i] = Nothing]
    /\ stage' = [stage EXCEPT ![i] = Nothing]
    /\ seen' = [seen EXCEPT ![i] = <<>>]
    /\ initial' = [initial EXCEPT ![i] = <<>>]
    /\ UNCHANGED <<guest, faults>>

-----------------------------------------------------------------------------
(* inspect_guest_tool: whether there is an artifact, the receipt, the      *)
(* artifact's hash and the receipt's hash are read one after the other.    *)

Reading ==
    <<IF final["artifact"] = Absent THEN "missing" ELSE "present",
      final["receipt"], final["artifact"]>>

Read(i) ==
    /\ Doing(i, "look", "tool") /\ Len(seen[i]) < Len(Reading)
    /\ seen' = [seen EXCEPT ![i] = Append(@, Reading[Len(@) + 1])]
    /\ UNCHANGED <<status, at, temp, stage, initial, guest, faults>>

\* GuestToolState with its identity, which has hashes only when both files
\* are there.
View(i) ==
    IF seen[i][1] = "missing" \/ seen[i][2] = Absent
        THEN <<seen[i][1], seen[i][2] = Absent>>
        ELSE <<seen[i][3], seen[i][2], seen[i][2] = final["receipt"]>>

\* Mutant: the artifact is not compared with its receipt.
ExactReceipt(i) ==
    \E x \in Installer \cup {Earlier} : View(i) = <<x, i, TRUE>>

Exact(i) == View(i) = <<i, i, TRUE>>

Partial(i) == View(i) \in {<<"present", TRUE>>, <<"missing", FALSE>>}

\* Mutant: an interrupted installation is refused.
JudgeStrict(i) ==
    /\ Doing(i, "look", "tool") /\ Len(seen[i]) = Len(Reading)
    /\ seen' = [seen EXCEPT ![i] = <<>>]
    /\ \/ /\ at[i] = 1 /\ Partial(i)
          /\ Bail(i) /\ UNCHANGED initial
       \/ /\ at[i] = 1 /\ ~Partial(i)
          /\ initial' = [initial EXCEPT ![i] = View(i)] /\ Proceed(i)
       \/ /\ at[i] # 1 /\ UNCHANGED initial
          /\ IF at[i] < Len(ToolPlan) /\ View(i) # initial[i]
                 THEN Bail(i) ELSE Proceed(i)
    /\ UNCHANGED <<temp, stage, guest, faults>>

\* The first look finds the exact product or is remembered, the last must
\* find it, and the others must find what the first found.
Judge(i) ==
    /\ Doing(i, "look", "tool") /\ Len(seen[i]) = Len(Reading)
    /\ seen' = [seen EXCEPT ![i] = <<>>]
    /\ \/ /\ at[i] = 1 /\ Exact(i)
          /\ Become(i, "ok") /\ UNCHANGED <<at, initial>>
       \/ /\ at[i] = 1 /\ ~Exact(i)
          /\ initial' = [initial EXCEPT ![i] = View(i)] /\ Proceed(i)
       \/ /\ at[i] \in 2..(Len(ToolPlan) - 1)
          /\ IF View(i) = initial[i] THEN Proceed(i) ELSE Bail(i)
          /\ UNCHANGED initial
       \/ /\ at[i] = Len(ToolPlan)
          /\ IF Exact(i) THEN Proceed(i) ELSE Bail(i)
          /\ UNCHANGED initial
    /\ UNCHANGED <<temp, stage, guest, faults>>

\* guest_helper_matches: nothing is done when the helper is there.
Match(i) ==
    /\ Doing(i, "match", "helper")
    /\ IF final["helper"] = i THEN Become(i, "ok") /\ UNCHANGED at
                              ELSE Proceed(i)
    /\ UNCHANGED <<local, guest, faults>>

-----------------------------------------------------------------------------
(* Commands that change the guest: what each does there.                   *)

\* limactl copy of the host's private snapshot.
Copy(i, p) ==
    /\ Doing(i, "copy", p)
    /\ temp' = [temp EXCEPT ![i][p] = i]
    /\ UNCHANGED <<stage, guest>>

MakeDirectory(i, d) ==
    /\ Doing(i, "mkdir", d)
    /\ dirs' = dirs \cup {d}
    /\ UNCHANGED <<temp, stage, final>>

\* install(1) as root, from whatever is in /tmp by now.
Stage(i, p) ==
    /\ Doing(i, "stage", p)
    /\ "tools" \in dirs \/ i \in Helpers
    /\ stage' = [stage EXCEPT ![i][p] = temp[i][p]]
    /\ UNCHANGED <<temp, guest>>

\* mv(1) as root.
Move(i, p) ==
    /\ Doing(i, "move", p)
    /\ final' = [final EXCEPT ![p] = stage[i][p]]
    /\ stage' = [stage EXCEPT ![i][p] = Absent]
    /\ UNCHANGED <<temp, dirs>>

\* rm(1) of the copies.
Clean(i) ==
    /\ \E what \in {"tool", "helper"} : Doing(i, "clean", what)
    /\ temp' = [temp EXCEPT ![i] = Nothing]
    /\ UNCHANGED <<stage, guest>>

Effect(i) ==
    \/ \E p \in Parts : Copy(i, p) \/ Stage(i, p) \/ Move(i, p)
    \/ \E d \in {"guard", "tools"} : MakeDirectory(i, d)
    \/ Clean(i)

Do(i) == Effect(i) /\ Proceed(i) /\ UNCHANGED <<seen, initial, faults>>

Fault == faults < MaxFaults /\ faults' = faults + 1

\* The command took effect, its answer was lost.
LoseAnswer(i) == Fault /\ Effect(i) /\ Bail(i) /\ UNCHANGED <<seen, initial>>

\* A copy or an install that stops half way.
CutOff(i) ==
    /\ Fault
    /\ \E p \in Parts :
          \/ /\ Doing(i, "copy", p)
             /\ temp' = [temp EXCEPT ![i][p] = Spoiled]
             /\ UNCHANGED stage
          \/ /\ Doing(i, "stage", p)
             /\ stage' = [stage EXCEPT ![i][p] = Spoiled]
             /\ UNCHANGED temp
    /\ Bail(i)
    /\ UNCHANGED <<seen, initial, guest>>

\* A command fails before it has done anything, or a safety check of the
\* instance or the owner's confirmation, after which nothing is cleaned up.
Refuse(i) ==
    /\ status[i] = "working" /\ Fault
    /\ Bail(i) \/ (Become(i, "failed") /\ UNCHANGED at)
    /\ UNCHANGED <<local, guest>>

\* setup is killed: nothing is cleaned up.
Kill(i) ==
    /\ status[i] \in {"working", "cleaning"} /\ Fault
    /\ Become(i, "failed")
    /\ UNCHANGED <<at, local, guest>>

\* cleanup_guest_helper_temps, each of which may fail.
CleanUp(i) ==
    /\ status[i] = "cleaning"
    /\ temp' \in {temp, [temp EXCEPT ![i] = Nothing]}
    /\ stage' \in {stage, [stage EXCEPT ![i] = Nothing]}
    /\ Become(i, "failed")
    /\ UNCHANGED <<at, seen, initial, guest, faults>>

-----------------------------------------------------------------------------
(* Checks of what is in the guest.                                         *)

\* The result of a check decides.
Require(i, holds) ==
    /\ IF holds THEN Proceed(i) ELSE Bail(i)
    /\ UNCHANGED <<local, guest, faults>>

\* The copies in /tmp.
Check(i, p) == Doing(i, "check", p) /\ Require(i, temp[i][p] = i)

\* Mutant: what was checked in /tmp is trusted.
VerifyTrusting(i, p) == Doing(i, "verify", p) /\ Require(i, TRUE)

\* The root-owned files.
Verify(i, p) == Doing(i, "verify", p) /\ Require(i, stage[i][p] = i)

\* The activated helper.
Confirm(i) == Doing(i, "confirm", "helper") /\ Require(i, final["helper"] = i)

\* A program of the guest's user changes a copy in /tmp.
Tamper(i, p) ==
    /\ Fault
    /\ temp[i][p] \notin {Absent, Spoiled}
    /\ temp' = [temp EXCEPT ![i][p] = Spoiled]
    /\ UNCHANGED <<status, at, stage, seen, initial, guest>>

Step(i) ==
    \/ Begin(i) \/ Read(i) \/ Judge(i) \/ Match(i) \/ Do(i)
    \/ (\E p \in Parts : Check(i, p) \/ Verify(i, p))
    \/ Confirm(i) \/ CleanUp(i)

Trouble(i) ==
    \/ LoseAnswer(i) \/ CutOff(i) \/ Refuse(i) \/ Kill(i)
    \/ \E p \in Parts : Tamper(i, p)

Next == \E i \in Installer : Step(i) \/ Trouble(i)

Spec == Init /\ [][Next]_vars

FairSpec == Spec /\ \A i \in Persistent : WF_vars(Step(i))

-----------------------------------------------------------------------------
(* Properties.                                                             *)

\* Type correctness; an installer at work is at a step of its plan.
TypeOK ==
    /\ status \in [Installer ->
                      {"none", "idle", "working", "cleaning", "ok", "failed"}]
    /\ \A i \in Installer : at[i] \in 1..Len(Plan(i))
    /\ temp \in [Installer -> [Parts -> Contents]]
    /\ stage \in [Installer -> [Parts -> Contents]]
    /\ \A i \in Installer : Len(seen[i]) <= Len(Reading)
    /\ final \in [Parts -> Contents]
    /\ dirs \subseteq {"guard", "tools"} /\ faults \in 0..MaxFaults

\* Bytes nobody verified never get to an installed path, not even when they
\* change in /tmp after they were checked there, and not when a command is
\* cut off (verify_guest_file and require_guest_helper_at on the root-owned
\* file, before the rename).
InstalledIsVerified == \A p \in Parts : final[p] # Spoiled

\* When no setup of the tool is under way and none has failed, the installed
\* artifact is the one its receipt names, also after two setups ran at once
\* and mixed their renames: then at least one reports an error.
SuccessIsConsistent ==
    /\ \A i \in Tools : status[i] \in {"none", "idle", "ok"}
    /\ \E i \in Tools : status[i] = "ok"
    => final["artifact"] = final["receipt"]

\* Each installer keeps to its plan, and what stands at an installed path was
\* verified.
InstallationSound == TypeOK /\ InstalledIsVerified

=============================================================================
