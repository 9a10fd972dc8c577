------------------------- MODULE PreparationProofs -------------------------
(***************************************************************************)
(* Results about what stands ready before a tool runs.                     *)
(*                                                                         *)
(* The guest, for any number of installers of the tool and of the helper,  *)
(* any mixture of them at work at once, any number of repetitions and of   *)
(* faults: nothing unverified is installed, and where every setup of the   *)
(* tool that began has succeeded, the artifact is the one the receipt      *)
(* names.                                                                  *)
(*                                                                         *)
(* The filter of system calls, for any foreign architectures, any calls    *)
(* outside its rules and any arguments: the instructions arrive at the     *)
(* decision the list states, no sequence of calls enters a namespace, and  *)
(* the probe reports that all is blocked exactly when the filter is in     *)
(* force.                                                                  *)
(*                                                                         *)
(* The sandbox, for any directories a caller grants, any places it wants   *)
(* them at, any store of decisions and any root of a tool in the guest:    *)
(* what is mounted in the end is what was planned, and nothing but the     *)
(* workspace and the granted state can be written.                         *)
(***************************************************************************)
EXTENDS MCPreparation, SequenceTheorems, TLAPS

-----------------------------------------------------------------------------
(* The plans, place by place.                                              *)

LEMMA ToolPlaces ==
    /\ Len(ToolPlan) = 19 /\ DOMAIN ToolPlan = 1..19
    /\ \A n \in 1..19 :
          /\ ToolPlan[n][1] = "look" <=> n \in {1, 2, 7, 10, 16, 19}
          /\ ToolPlan[n][1] = "move" <=> n \in {17, 18}
          /\ ToolPlan[n][1] = "stage" <=> n \in {11, 12}
          /\ ToolPlan[n][1] = "verify" <=> n \in {13, 14}
          /\ ToolPlan[n][1] \notin {"match", "confirm"}
    /\ ToolPlan[11][2] = "artifact" /\ ToolPlan[12][2] = "receipt"
    /\ ToolPlan[13][2] = "artifact" /\ ToolPlan[14][2] = "receipt"
    /\ ToolPlan[17][2] = "artifact" /\ ToolPlan[18][2] = "receipt"
BY DEF ToolPlan

LEMMA HelperPlaces ==
    /\ Len(HelperPlan) = 8 /\ DOMAIN HelperPlan = 1..8
    /\ \A n \in 1..8 :
          /\ HelperPlan[n][1] # "look"
          /\ HelperPlan[n][1] = "move" <=> n = 6
          /\ HelperPlan[n][1] = "stage" <=> n = 4
          /\ HelperPlan[n][1] = "verify" <=> n = 5
    /\ HelperPlan[4][2] = "helper" /\ HelperPlan[5][2] = "helper"
    /\ HelperPlan[6][2] = "helper"
BY DEF HelperPlan

-----------------------------------------------------------------------------
(* The inductive invariant.                                                *)

Statuses == {"none", "idle", "working", "cleaning", "ok", "failed"}
Sights   == Contents \cup {"missing", "present"}

\* The types the steps rely on; only a helper is cleaned up after.
Places ==
    /\ status \in [Installer -> Statuses]
    /\ at \in [Installer -> Nat]
    /\ \A i \in Tools : at[i] \in 1..19 /\ status[i] # "cleaning"
    /\ \A i \in Helpers : at[i] \in 1..8

Copies ==
    /\ temp \in [Installer -> [Parts -> Contents]]
    /\ stage \in [Installer -> [Parts -> Contents]]

Looks ==
    /\ seen \in [Installer -> Seq(Sights)]
    /\ \A i \in Installer : Len(seen[i]) <= 3

Guest ==
    /\ final \in [Parts -> Contents]
    /\ dirs \subseteq {"guard", "tools"} /\ faults \in 0..MaxFaults

Shape == Places /\ Copies /\ Looks /\ Guest

\* A look is over before the next step begins.
LooksEnd ==
    \A i \in Tools :
        status[i] = "working" /\ at[i] \notin {1, 2, 7, 10, 16, 19}
            => seen[i] = << >>

\* From its verification to its rename a root-owned file is the product.
StagedIsVerified ==
    /\ \A i \in Tools : status[i] = "working" =>
          /\ at[i] \in 14..17 => stage[i]["artifact"] = i
          /\ at[i] \in 15..18 => stage[i]["receipt"] = i
    /\ \A i \in Helpers : status[i] = "working" /\ at[i] = 6 =>
          stage[i]["helper"] = i

\* After a success the receipt names a product of these installers.
ReceiptNames ==
    (\E i \in Tools : status[i] = "ok") => final["receipt"] \in Tools

\* An installer that is not done, and cannot succeed before it has looked at
\* the artifact again or changed the receipt.
Pending(j) ==
    \/ status[j] = "failed"
    \/ status[j] = "working"
          /\ ~(final["receipt"] = j /\ Len(seen[j]) = 3 /\ seen[j][3] = j)

\* Somebody answers for an artifact that is not the receipt's.
MismatchPending ==
    final["receipt"] \in Tools /\ final["artifact"] # final["receipt"] =>
        \E j \in Tools : Pending(j)

IInv == /\ Shape /\ LooksEnd /\ StagedIsVerified /\ InstalledIsVerified
        /\ ReceiptNames /\ MismatchPending

LEMMA InstallerMeans ==
    /\ Installer = Tools \cup Helpers
    /\ \A i \in Tools : i \in Installer /\ i \notin Helpers
    /\ \A i \in Helpers : i \in Installer /\ i \notin Tools
    /\ \A i \in Installer : i \in Contents /\ i # Absent /\ i # Spoiled
    /\ Absent \in Contents /\ Spoiled \in Contents
BY InstallerAssumption DEF Installer, Contents

LEMMA PlanMeans ==
    /\ \A i \in Tools : Plan(i) = ToolPlan /\ Len(Plan(i)) = 19
    /\ \A i \in Helpers : Plan(i) = HelperPlan /\ Len(Plan(i)) = 8
BY InstallerMeans, ToolPlaces, HelperPlaces DEF Plan

LEMMA TypesFollow == Shape => TypeOK
BY PlanMeans, InstallerMeans
DEF Shape, Places, Copies, Looks, Guest, TypeOK, Reading, Statuses

\* What an installer is doing, and where in its plan.
LEMMA ToolDoing ==
    ASSUME Shape, NEW i \in Tools, NEW op, NEW p, Doing(i, op, p)
    PROVE  /\ status[i] = "working" /\ at[i] \in 1..19
           /\ op = "look" <=> at[i] \in {1, 2, 7, 10, 16, 19}
           /\ op = "move" => \/ at[i] = 17 /\ p = "artifact"
                             \/ at[i] = 18 /\ p = "receipt"
           /\ op = "stage" => \/ at[i] = 11 /\ p = "artifact"
                              \/ at[i] = 12 /\ p = "receipt"
           /\ op = "verify" => \/ at[i] = 13 /\ p = "artifact"
                               \/ at[i] = 14 /\ p = "receipt"
           /\ at[i] = 13 => op = "verify" /\ p = "artifact"
           /\ at[i] = 14 => op = "verify" /\ p = "receipt"
           /\ at[i] = 17 => op = "move" /\ p = "artifact"
           /\ op \notin {"match", "confirm"}
<1>. DEFINE n == at[i]
<1>1. status[i] = "working" /\ n \in 1..19 /\ ToolPlan[n] = <<op, p>>
    BY PlanMeans DEF Doing, Shape, Places, Copies, Looks, Guest
<1>2. ToolPlan[n][1] = op /\ ToolPlan[n][2] = p
    BY <1>1
<1>. HIDE DEF n
<1>3. /\ op = "look" <=> n \in {1, 2, 7, 10, 16, 19}
      /\ op = "move" <=> n \in {17, 18} 
      /\ op = "stage" <=> n \in {11, 12}
      /\ op = "verify" <=> n \in {13, 14}
      /\ op \notin {"match", "confirm"}
    BY <1>1, <1>2, ToolPlaces
<1>4. /\ n = 11 => p = "artifact"
      /\ n = 12 => p = "receipt"
      /\ n = 13 => p = "artifact"
      /\ n = 14 => p = "receipt"
      /\ n = 17 => p = "artifact"
      /\ n = 18 => p = "receipt"
    BY <1>2, ToolPlaces
<1>. QED BY <1>1, <1>3, <1>4 DEF n

LEMMA HelperDoing ==
    ASSUME Shape, NEW i \in Helpers, NEW op, NEW p, Doing(i, op, p)
    PROVE  /\ status[i] = "working" /\ at[i] \in 1..8
           /\ op # "look"
           /\ op = "move" => at[i] = 6 /\ p = "helper"
           /\ op = "stage" => at[i] = 4 /\ p = "helper"
           /\ op = "verify" => at[i] = 5 /\ p = "helper"
           /\ at[i] = 5 => op = "verify" /\ p = "helper"
<1>. DEFINE n == at[i]
<1>1. status[i] = "working" /\ n \in 1..8 /\ HelperPlan[n] = <<op, p>>
    BY PlanMeans DEF Doing, Shape, Places, Copies, Looks, Guest
<1>2. HelperPlan[n][1] = op /\ HelperPlan[n][2] = p
    BY <1>1
<1>. HIDE DEF n
<1>3. /\ op # "look"
      /\ op = "move" <=> n = 6
      /\ op = "stage" <=> n = 4
      /\ op = "verify" <=> n = 5
    BY <1>1, <1>2, HelperPlaces
<1>. QED BY <1>1, <1>2, <1>3, HelperPlaces DEF n

-----------------------------------------------------------------------------
(* How an installer goes on.  Everything a step does to status and at.     *)

Turn(i) ==
    /\ status' \in [Installer -> Statuses] /\ at' \in [Installer -> Nat]
    /\ \A j \in Installer \ {i} : status'[j] = status[j] /\ at'[j] = at[j]
    /\ i \in Tools => at'[i] \in 1..19 /\ status'[i] # "cleaning"
    /\ i \in Helpers => at'[i] \in 1..8

Advance(i) == status'[i] = "working" => at'[i] = at[i] + 1

LEMMA ProceedTurns ==
    ASSUME Shape, NEW i \in Installer, status[i] = "working", Proceed(i)
    PROVE  /\ Turn(i) /\ Advance(i) /\ status'[i] \in {"working", "ok"}
           /\ i \in Tools /\ at[i] # 19 => status'[i] = "working"
<1>1. CASE at[i] = Len(Plan(i))
    BY <1>1, PlanMeans, InstallerMeans
   
    DEF Proceed, Become, Turn, Advance, Shape, Places, Copies, Looks, Guest,
        Statuses
<1>2. CASE at[i] # Len(Plan(i))
    <2>1. at' = [at EXCEPT ![i] = at[i] + 1] /\ status' = status
        BY <1>2 DEF Proceed
    <2>2. at'[i] = at[i] + 1 /\ at' \in [Installer -> Nat]
        BY <2>1 DEF Shape, Places, Copies, Looks, Guest
    <2>3. CASE i \in Tools
        <3>1. at[i] \in 1..19 /\ at[i] # 19
            BY <1>2, <2>3, PlanMeans DEF Shape, Places, Copies, Looks, Guest
        <3>2. at'[i] \in 1..19
            BY <2>2, <3>1
        <3>. QED BY <2>1, <2>2, <2>3, <3>1, <3>2, InstallerMeans
                 DEF Turn, Advance, Shape, Places, Copies, Looks, Guest
    <2>4. CASE i \in Helpers
        <3>1. at[i] \in 1..8 /\ at[i] # 8
            BY <1>2, <2>4, PlanMeans DEF Shape, Places, Copies, Looks, Guest
        <3>2. at'[i] \in 1..8
            BY <2>2, <3>1
        <3>. QED BY <2>1, <2>2, <2>4, <3>1, <3>2, InstallerMeans
                 DEF Turn, Advance, Shape, Places, Copies, Looks, Guest
    <2>. QED BY <2>3, <2>4, InstallerMeans
<1>. QED BY <1>1, <1>2

LEMMA BailTurns ==
    ASSUME Shape, NEW i \in Installer, Bail(i)
    PROVE  /\ Turn(i) /\ Advance(i) /\ status'[i] \in {"cleaning", "failed"}
           /\ i \in Tools => status'[i] = "failed"
BY InstallerMeans
DEF Bail, Become, Turn, Advance, Shape, Places, Copies, Looks, Guest, Statuses

LEMMA BecomeTurns ==
    ASSUME Shape, NEW i \in Installer, NEW s \in {"ok", "failed"},
           Become(i, s), at' = at
    PROVE  Turn(i) /\ Advance(i) /\ status'[i] = s
BY InstallerMeans
DEF Become, Turn, Advance, Shape, Places, Copies, Looks, Guest, Statuses

\* A step that leaves the installed files alone and does not succeed, after
\* which the installer has nothing half looked at.
LEMMA Uneventful ==
    ASSUME IInv, NEW i \in Installer, Turn(i), final' = final,
           \A j \in Installer \ {i} : seen'[j] = seen[j],
           status'[i] = "working" => seen'[i] = << >>,
           i \in Tools /\ status[i] \in {"working", "failed"} =>
               status'[i] \in {"working", "failed"},
           i \in Tools => status'[i] # "ok"
    PROVE  /\ LooksEnd' /\ ReceiptNames' /\ MismatchPending'
           /\ InstalledIsVerified'
<1>1. \A j \in Tools : status'[j] = "ok" => status[j] = "ok"
    BY InstallerMeans DEF Turn
<1>2. ASSUME NEW j \in Tools, Pending(j) PROVE Pending(j)'
    <2>1. CASE j = i
        BY <1>2, <2>1, InstallerMeans DEF Pending, Turn
    <2>2. CASE j # i
        BY <1>2, <2>2, InstallerMeans DEF Pending, Turn
    <2>. QED BY <2>1, <2>2
<1>3. LooksEnd'
    BY InstallerMeans DEF IInv, LooksEnd, Turn
<1>4. ReceiptNames'
    BY <1>1 DEF IInv, ReceiptNames
<1>5. MismatchPending'
    BY <1>2 DEF IInv, MismatchPending
<1>. QED BY <1>3, <1>4, <1>5 DEF IInv, InstalledIsVerified

\* The root-owned files stay as they are, and the installer goes on from a
\* place that is not a verification.
LEMMA StageKept ==
    ASSUME IInv, NEW i \in Installer, Turn(i), Advance(i), stage' = stage,
           status'[i] = "working" => status[i] = "working",
           i \in Tools => at[i] \notin {13, 14},
           i \in Helpers => at[i] # 5
    PROVE  StagedIsVerified'
<1>1. ASSUME NEW j \in Tools, status'[j] = "working"
      PROVE  /\ at'[j] \in 14..17 => stage'[j]["artifact"] = j
             /\ at'[j] \in 15..18 => stage'[j]["receipt"] = j
    <2>1. CASE j = i
        <3>1. at[i] \in Nat /\ at'[i] = at[i] + 1
            BY <1>1, <2>1
            DEF IInv, Shape, Places, Copies, Looks, Guest, Advance
        <3>2. /\ at'[j] \in 14..17 => at[j] \in 14..17
              /\ at'[j] \in 15..18 => at[j] \in 15..18
            BY <1>1, <2>1, <3>1
        <3>. QED BY <1>1, <2>1, <3>2 DEF IInv, StagedIsVerified
    <2>2. CASE j # i
        BY <1>1, <2>2, InstallerMeans DEF IInv, StagedIsVerified, Turn
    <2>. QED BY <2>1, <2>2
<1>2. ASSUME NEW j \in Helpers, status'[j] = "working", at'[j] = 6
      PROVE  stage'[j]["helper"] = j
    <2>1. CASE j = i
        BY <1>2, <2>1 DEF IInv, Shape, Places, Copies, Looks, Guest, Advance
    <2>2. CASE j # i
        BY <1>2, <2>2, InstallerMeans DEF IInv, StagedIsVerified, Turn
    <2>. QED BY <2>1, <2>2
<1>. QED BY <1>1, <1>2 DEF StagedIsVerified

-----------------------------------------------------------------------------
(* Init and the steps.                                                     *)

LEMMA InitInv == Init => IInv
<1>. SUFFICES ASSUME Init PROVE IInv OBVIOUS
<1>1. Nothing \in [Parts -> Contents] /\ << >> \in Seq(Sights)
    BY InstallerMeans DEF Nothing
<1>2. /\ status \in [Installer -> {"none", "idle"}]
      /\ final \in [Parts -> {Absent, Earlier}]
    BY DEF Init
<1>3. Shape
    BY <1>1, <1>2, InstallerMeans, FaultAssumption, InstallerAssumption
    DEF Init, Shape, Places, Copies, Looks, Guest, Statuses, Contents
<1>4. LooksEnd /\ StagedIsVerified
    BY <1>2, InstallerMeans DEF LooksEnd, StagedIsVerified
<1>5. InstalledIsVerified
    BY <1>2, InstallerAssumption DEF InstalledIsVerified, Parts
<1>6. ReceiptNames /\ MismatchPending
    BY <1>2, InstallerMeans, InstallerAssumption
    DEF ReceiptNames, MismatchPending, Parts, Installer
<1>. QED BY <1>3, <1>4, <1>5, <1>6 DEF IInv

LEMMA BeginInv ==
    ASSUME IInv, NEW i \in Installer, Begin(i) PROVE IInv'
<1>1. Nothing \in [Parts -> Contents] /\ << >> \in Seq(Sights)
    BY InstallerMeans DEF Nothing
<1>2. Turn(i) /\ status'[i] = "working" /\ at'[i] = 1
    BY InstallerMeans
    DEF IInv, Begin, Become, Turn, Shape, Places, Copies, Looks, Guest,
        Statuses
<1>3. /\ seen' \in [Installer -> Seq(Sights)] /\ seen'[i] = << >>
      /\ \A j \in Installer \ {i} : seen'[j] = seen[j]
    BY <1>1 DEF IInv, Begin, Shape, Places, Copies, Looks, Guest
<1>4. /\ stage' \in [Installer -> [Parts -> Contents]]
      /\ \A j \in Installer \ {i} : stage'[j] = stage[j]
    BY <1>1 DEF IInv, Begin, Shape, Places, Copies, Looks, Guest
<1>5. temp' \in [Installer -> [Parts -> Contents]]
    BY <1>1 DEF IInv, Begin, Shape, Places, Copies, Looks, Guest
<1>6. final' = final /\ dirs' = dirs /\ faults' = faults
    BY DEF Begin, guest
<1>7. Shape'
    <2>1. \A j \in Installer : Len(seen'[j]) <= 3
        BY <1>3 DEF IInv, Shape, Places, Copies, Looks, Guest
    <2>2. Places'
        BY <1>2, InstallerMeans DEF IInv, Shape, Places, Turn
    <2>3. Copies' /\ Looks' /\ Guest'
        BY <1>3, <1>4, <1>5, <1>6, <2>1 DEF IInv, Shape, Copies, Looks, Guest
    <2>. QED BY <2>2, <2>3 DEF Shape
<1>8. StagedIsVerified'
    BY <1>2, <1>4, InstallerMeans DEF IInv, StagedIsVerified, Turn
<1>9. LooksEnd' /\ ReceiptNames' /\ MismatchPending' /\ InstalledIsVerified'
    BY <1>2, <1>3, <1>6, Uneventful
<1>. QED BY <1>7, <1>8, <1>9 DEF IInv

LEMMA ReadInv ==
    ASSUME IInv, NEW i \in Installer, Read(i) PROVE IInv'
<1>1. i \in Tools /\ status[i] = "working" /\ at[i] \in {1, 2, 7, 10, 16, 19}
    BY InstallerMeans, ToolDoing, HelperDoing DEF IInv, Read
<1>2. /\ Len(Reading) = 3 /\ Reading[1] \in Sights /\ Reading[2] \in Sights
      /\ Reading[3] = final["artifact"] /\ Reading[3] \in Sights
    BY DEF IInv, Shape, Places, Copies, Looks, Guest, Reading, Sights, Parts
<1>3. PICK n \in 0..2 : n = Len(seen[i])
    <2>1. seen[i] \in Seq(Sights)
        BY DEF IInv, Shape, Places, Copies, Looks, Guest
    <2>. DEFINE k == Len(seen[i])
    <2>2. k \in Nat /\ k < 3
        BY <1>2, <2>1 DEF Read
    <2>. HIDE DEF k
    <2>3. k \in 0..2
        BY <2>2
    <2>. QED BY <2>3 DEF k
<1>4. seen[i] \in Seq(Sights) /\ Reading[n + 1] \in Sights
    BY <1>2 DEF IInv, Shape, Places, Copies, Looks, Guest
<1>5. seen' = [seen EXCEPT ![i] = Append(seen[i], Reading[n + 1])]
    BY <1>3 DEF Read
<1>6. /\ seen'[i] = Append(seen[i], Reading[n + 1])
      /\ \A j \in Installer \ {i} : seen'[j] = seen[j]
      /\ seen' \in [Installer -> Seq(Sights)]
    BY <1>4, <1>5 DEF IInv, Shape, Places, Copies, Looks, Guest
<1>7. Len(seen'[i]) = n + 1 /\ (n = 2 => seen'[i][3] = final["artifact"])
    BY <1>2, <1>3, <1>4, <1>6
<1>8. /\ status' = status /\ at' = at /\ temp' = temp /\ stage' = stage
      /\ final' = final /\ dirs' = dirs /\ faults' = faults
    BY DEF Read, guest
<1>9. Shape'
    <2>1. \A j \in Installer : Len(seen'[j]) <= 3
        <3>1. Len(seen'[i]) <= 3
            BY <1>7
        <3>. QED BY <1>6, <3>1 DEF IInv, Shape, Looks
    <2>2. Looks'
        BY <1>6, <2>1 DEF Looks
    <2>3. Places' /\ Copies' /\ Guest'
        BY <1>8 DEF IInv, Shape, Places, Copies, Guest
    <2>. QED BY <2>2, <2>3 DEF Shape
<1>10. LooksEnd' /\ StagedIsVerified' /\ InstalledIsVerified' /\ ReceiptNames'
    BY <1>1, <1>6, <1>8, InstallerMeans
    DEF IInv, LooksEnd, StagedIsVerified, InstalledIsVerified, ReceiptNames
<1>11. MismatchPending'
    <2>. SUFFICES ASSUME final["receipt"] \in Tools,
                         final["artifact"] # final["receipt"]
                  PROVE  \E j \in Tools : Pending(j)'
        BY <1>8 DEF MismatchPending
    <2>1. PICK j \in Tools : Pending(j)
        BY DEF IInv, MismatchPending
    <2>2. CASE j # i
        BY <1>6, <1>8, <2>1, <2>2, InstallerMeans DEF Pending
    <2>3. CASE j = i
        <3>1. Len(seen'[i]) = 3 => seen'[i][3] # final["receipt"]
            <4>1. CASE n = 2
                BY <1>7, <4>1
            <4>2. CASE n # 2
                <5>. DEFINE k == Len(seen'[i])
                <5>1. k = n + 1
                    BY <1>7
                <5>. HIDE DEF k
                <5>2. k # 3
                    BY <4>2, <5>1
                <5>. QED BY <5>2 DEF k
            <4>. QED BY <4>1, <4>2
        <3>. QED BY <1>1, <1>8, <2>3, <3>1 DEF Pending
    <2>. QED BY <2>2, <2>3
<1>. QED BY <1>9, <1>10, <1>11 DEF IInv

LEMMA JudgeInv ==
    ASSUME IInv, NEW i \in Installer, Judge(i) PROVE IInv'
<1>1. i \in Tools /\ status[i] = "working" /\ at[i] \in {1, 2, 7, 10, 16, 19}
    BY InstallerMeans, ToolDoing, HelperDoing DEF IInv, Judge
<1>2. Len(ToolPlan) = 19 /\ Len(Reading) = 3
    BY ToolPlaces DEF Reading
<1>3. /\ seen'[i] = << >> /\ seen' \in [Installer -> Seq(Sights)]
      /\ \A j \in Installer \ {i} : seen'[j] = seen[j]
    BY DEF IInv, Judge, Shape, Looks
<1>4. temp' = temp /\ stage' = stage /\ final' = final /\ dirs' = dirs
      /\ faults' = faults
    BY DEF Judge, guest
\* A success is the exact product, as it was seen, under today's receipt.
<1>5. /\ Turn(i) /\ Advance(i)
      /\ \/ status'[i] \in {"working", "failed"}
         \/ status'[i] = "ok" /\ Exact(i)
    <2>1. CASE /\ at[i] = 1 /\ Exact(i) /\ Become(i, "ok")
               /\ UNCHANGED <<at, initial>>
        BY <2>1, BecomeTurns DEF IInv
    <2>2. CASE Proceed(i) /\ at[i] # 19
        <3>1. Turn(i) /\ Advance(i)
            BY <1>1, <2>2, ProceedTurns DEF IInv
        <3>2. status'[i] = "working"
            BY <1>1, <2>2, ProceedTurns DEF IInv
        <3>. QED BY <3>1, <3>2
    <2>3. CASE Bail(i)
        <3>1. Turn(i) /\ Advance(i)
            BY <1>1, <2>3, BailTurns DEF IInv
        <3>2. status'[i] = "failed"
            BY <1>1, <2>3, BailTurns DEF IInv
        <3>. QED BY <3>1, <3>2
    <2>4. CASE Proceed(i) /\ Exact(i)
        BY <1>1, <2>4, ProceedTurns DEF IInv
    <2>5. \/ /\ at[i] = 1 /\ Exact(i)
             /\ Become(i, "ok") /\ UNCHANGED <<at, initial>>
          \/ at[i] = 1 /\ Proceed(i)
          \/ at[i] \in 2..(Len(ToolPlan) - 1) /\ (Proceed(i) \/ Bail(i))
          \/ Bail(i) \/ (Proceed(i) /\ Exact(i))
        BY Zenon DEF Judge
    <2>6. at[i] \in 2..(Len(ToolPlan) - 1) => at[i] # 19
        BY <1>1, <1>2
    <2>. QED BY <2>1, <2>2, <2>3, <2>4, <2>5, <2>6
<1>6. Exact(i) /\ Len(seen[i]) = 3 =>
         final["receipt"] = i /\ seen[i][3] = i
    BY DEF Exact, View
<1>7. Shape'
    <2>1. Looks'
        <3>1. ASSUME NEW j \in Installer PROVE Len(seen'[j]) <= 3
            <4>1. CASE j = i
                BY <1>3, <4>1
            <4>2. CASE j # i
                BY <1>3, <4>2 DEF IInv, Shape, Looks
            <4>. QED BY <4>1, <4>2
        <3>. QED BY <1>3, <3>1 DEF Looks
    <2>2. Places'
        BY <1>5, InstallerMeans DEF IInv, Shape, Places, Turn
    <2>3. Copies' /\ Guest'
        BY <1>4 DEF IInv, Shape, Copies, Guest
    <2>. QED BY <2>1, <2>2, <2>3 DEF Shape
<1>8. StagedIsVerified'
    <2>1. at[i] \notin {13, 14} /\ i \notin Helpers
        BY <1>1, InstallerMeans
    <2>. QED BY <1>1, <1>4, <1>5, <2>1, StageKept
<1>9. CASE status'[i] # "ok"
    <2>1. /\ LooksEnd' /\ ReceiptNames' /\ MismatchPending'
          /\ InstalledIsVerified'
        BY <1>3, <1>4, <1>5, <1>9, Uneventful
    <2>. QED BY <1>7, <1>8, <2>1 DEF IInv
<1>10. CASE status'[i] = "ok"
    <2>1. final["receipt"] = i /\ Len(seen[i]) = 3 /\ seen[i][3] = i
        <3>1. Len(seen[i]) = Len(Reading)
            BY DEF Judge
        <3>2. Exact(i)
            BY <1>5, <1>10
        <3>. QED BY <1>2, <1>6, <3>1, <3>2
    <2>2. LooksEnd' /\ InstalledIsVerified' /\ ReceiptNames'
        <3>1. LooksEnd'
            <4>1. ASSUME NEW j \in Tools, status'[j] = "working"
                  PROVE  /\ status[j] = "working" /\ at'[j] = at[j]
                         /\ seen'[j] = seen[j]
                <5>1. j # i /\ j \in Installer
                    BY <1>10, <4>1, InstallerMeans
                <5>. QED BY <1>3, <1>5, <4>1, <5>1 DEF Turn
            <4>. QED BY <4>1 DEF IInv, LooksEnd
        <3>2. InstalledIsVerified'
            BY <1>4 DEF IInv, InstalledIsVerified
        <3>3. ReceiptNames'
            BY <1>1, <1>4, <2>1 DEF ReceiptNames
        <3>. QED BY <3>1, <3>2, <3>3
    <2>3. MismatchPending'
        <3>. SUFFICES ASSUME final["artifact"] # final["receipt"]
                      PROVE  \E j \in Tools : Pending(j)'
            BY <1>4 DEF MismatchPending
        <3>1. PICK j \in Tools : Pending(j)
            BY <1>1, <2>1 DEF IInv, MismatchPending
        <3>2. j # i
            BY <1>1, <2>1, <3>1 DEF Pending
        <3>. QED BY <1>3, <1>4, <1>5, <3>1, <3>2, InstallerMeans
                 DEF Pending, Turn
    <2>. QED BY <1>7, <1>8, <2>2, <2>3 DEF IInv
<1>. QED BY <1>9, <1>10

\* A step that changes no file and looks at nothing.
LEMMA FilesKept ==
    ASSUME IInv, NEW i \in Installer, Turn(i), Advance(i),
           status[i] # "ok",
           status'[i] = "working" => status[i] = "working",
           status'[i] = "working" /\ i \in Tools => seen[i] = << >>,
           i \in Tools => status'[i] \in {"working", "failed"},
           i \in Tools => at[i] \notin {13, 14} \/ status'[i] # "working",
           i \in Helpers => at[i] # 5 \/ status'[i] # "working",
           temp' \in [Installer -> [Parts -> Contents]],
           stage' = stage, seen' = seen, final' = final,
           dirs' \subseteq {"guard", "tools"}, faults' \in 0..MaxFaults
    PROVE  IInv'
<1>1. Shape'
    <2>1. Places'
        BY InstallerMeans DEF IInv, Shape, Places, Turn
    <2>2. Copies' /\ Guest' /\ Looks'
        BY DEF IInv, Shape, Copies, Guest, Looks
    <2>. QED BY <2>1, <2>2 DEF Shape
<1>2. LooksEnd' /\ InstalledIsVerified'
    BY InstallerMeans DEF IInv, LooksEnd, InstalledIsVerified, Turn
<1>3. ReceiptNames'
    BY InstallerMeans DEF IInv, ReceiptNames, Turn
<1>4. MismatchPending'
    <2>1. ASSUME NEW j \in Tools, Pending(j) PROVE Pending(j)'
        <3>1. CASE j = i
            BY <2>1, <3>1 DEF Pending
        <3>2. CASE j # i
            BY <2>1, <3>2, InstallerMeans DEF Pending, Turn
        <3>. QED BY <3>1, <3>2
    <2>. QED BY <2>1 DEF IInv, MismatchPending
<1>5. StagedIsVerified'
    <2>1. CASE status'[i] = "working"
        BY <2>1, StageKept
    <2>2. CASE status'[i] # "working"
        BY <2>2, InstallerMeans DEF IInv, StagedIsVerified, Turn
    <2>. QED BY <2>1, <2>2
<1>. QED BY <1>1, <1>2, <1>3, <1>4, <1>5 DEF IInv

LEMMA MatchInv ==
    ASSUME IInv, NEW i \in Installer, Match(i) PROVE IInv'
<1>1. i \in Helpers /\ i \notin Tools /\ status[i] = "working"
    BY InstallerMeans, ToolDoing, HelperDoing DEF IInv, Match
<1>2. at[i] # 5
    BY <1>1, HelperDoing DEF IInv, Match
<1>3. Turn(i) /\ Advance(i)
    <2>1. CASE final["helper"] = i
        BY <2>1, BecomeTurns DEF IInv, Match
    <2>2. CASE final["helper"] # i
        BY <1>1, <2>2, ProceedTurns DEF IInv, Match
    <2>. QED BY <2>1, <2>2
<1>4. /\ temp' = temp /\ stage' = stage /\ seen' = seen /\ final' = final
      /\ dirs' = dirs /\ faults' = faults
    BY DEF Match, local, guest
<1>5. /\ temp' \in [Installer -> [Parts -> Contents]]
      /\ dirs' \subseteq {"guard", "tools"} /\ faults' \in 0..MaxFaults
    BY <1>4 DEF IInv, Shape, Copies, Guest
<1>. QED BY <1>1, <1>2, <1>3, <1>4, <1>5, FilesKept

\* A check of a file lets the installer proceed only when it holds.
LEMMA RequireGoesOn ==
    ASSUME IInv, NEW i \in Installer, status[i] = "working", NEW holds,
           Require(i, holds)
    PROVE  /\ Turn(i) /\ Advance(i)
           /\ status'[i] \in {"working", "ok"} => holds
           /\ i \in Tools /\ at[i] # 19 => status'[i] \in {"working", "failed"}
           /\ UNCHANGED <<temp, stage, seen, final, dirs, faults>>
<1>1. UNCHANGED <<temp, stage, seen, final, dirs, faults>>
    BY DEF Require, local, guest
<1>2. CASE holds /\ Proceed(i)
    BY <1>1, <1>2, ProceedTurns DEF IInv
<1>3. CASE Bail(i)
    <2>1. Turn(i) /\ Advance(i) /\ status'[i] \notin {"working", "ok"}
        BY <1>3, BailTurns DEF IInv
    <2>2. i \in Tools => status'[i] = "failed"
        BY <1>3, BailTurns DEF IInv
    <2>. QED BY <1>1, <2>1, <2>2
<1>. QED BY <1>2, <1>3 DEF Require

LEMMA CheckInv ==
    ASSUME IInv, NEW i \in Installer, NEW p \in Parts,
           Check(i, p) \/ Confirm(i)
    PROVE  IInv'
<1>1. PICK op \in {"check", "confirm"}, q \in Parts, holds \in BOOLEAN :
         Doing(i, op, q) /\ Require(i, holds)
    <2>1. CASE Check(i, p)
        BY <2>1 DEF Check
    <2>2. CASE Confirm(i)
        BY <2>2 DEF Confirm, Parts
    <2>. QED BY <2>1, <2>2
<1>2. /\ status[i] = "working"
      /\ i \in Tools => at[i] \notin {13, 14, 19} /\ seen[i] = << >>
      /\ i \in Helpers => at[i] # 5
    <2>1. CASE i \in Tools
        <3>1. /\ status[i] = "working"
              /\ at[i] \notin {1, 2, 7, 10, 16, 19, 13, 14}
            BY <1>1, <2>1, ToolDoing DEF IInv
        <3>. QED BY <2>1, <3>1, InstallerMeans DEF IInv, LooksEnd
    <2>2. CASE i \in Helpers
        BY <1>1, <2>2, HelperDoing, InstallerMeans DEF IInv
    <2>. QED BY <2>1, <2>2, InstallerMeans
<1>3. /\ Turn(i) /\ Advance(i)
      /\ i \in Tools => status'[i] \in {"working", "failed"}
      /\ UNCHANGED <<temp, stage, seen, final, dirs, faults>>
    BY <1>1, <1>2, RequireGoesOn
<1>4. /\ temp' \in [Installer -> [Parts -> Contents]]
      /\ dirs' \subseteq {"guard", "tools"} /\ faults' \in 0..MaxFaults
    BY <1>3 DEF IInv, Shape, Copies, Guest
<1>. QED BY <1>2, <1>3, <1>4, FilesKept

LEMMA VerifyInv ==
    ASSUME IInv, NEW i \in Installer, NEW p \in Parts, Verify(i, p)
    PROVE  IInv'
<1>1. /\ status[i] = "working"
      /\ i \in Tools => \/ at[i] = 13 /\ p = "artifact"
                        \/ at[i] = 14 /\ p = "receipt"
      /\ i \in Helpers => at[i] = 5 /\ p = "helper"
    BY ToolDoing, HelperDoing, InstallerMeans DEF IInv, Verify
<1>2. /\ Turn(i) /\ Advance(i)
      /\ status'[i] \in {"working", "ok"} => stage[i][p] = i
      /\ i \in Tools => status'[i] \in {"working", "failed"}
      /\ UNCHANGED <<temp, stage, seen, final, dirs, faults>>
    <2>. DEFINE holds == stage[i][p] = i
    <2>1. Require(i, holds)
        BY DEF Verify
    <2>. HIDE DEF holds
    <2>2. /\ Turn(i) /\ Advance(i)
          /\ status'[i] \in {"working", "ok"} => holds
          /\ i \in Tools /\ at[i] # 19 => status'[i] \in {"working", "failed"}
          /\ UNCHANGED <<temp, stage, seen, final, dirs, faults>>
        BY <1>1, <2>1, RequireGoesOn
    <2>3. i \in Tools => at[i] # 19
        BY <1>1
    <2>. QED BY <2>2, <2>3 DEF holds
<1>3. i \in Tools => seen[i] = << >>
    BY <1>1, InstallerMeans DEF IInv, LooksEnd
<1>4. Shape'
    <2>1. Places'
        BY <1>2, InstallerMeans DEF IInv, Shape, Places, Turn
    <2>2. Copies' /\ Guest' /\ Looks'
        BY <1>2 DEF IInv, Shape, Copies, Guest, Looks
    <2>. QED BY <2>1, <2>2 DEF Shape
<1>5. StagedIsVerified'
    <2>1. ASSUME NEW j \in Tools, status'[j] = "working"
          PROVE  /\ at'[j] \in 14..17 => stage'[j]["artifact"] = j
                 /\ at'[j] \in 15..18 => stage'[j]["receipt"] = j
        <3>1. CASE j = i
            <4>1. CASE at[i] = 13
                BY <1>1, <1>2, <2>1, <3>1, <4>1, InstallerMeans DEF Advance
            <4>2. CASE at[i] = 14
                BY <1>1, <1>2, <2>1, <3>1, <4>2, InstallerMeans
                DEF Advance, IInv, StagedIsVerified
            <4>. QED BY <1>1, <2>1, <3>1, <4>1, <4>2
        <3>2. CASE j # i
            BY <1>2, <2>1, <3>2, InstallerMeans
            DEF IInv, StagedIsVerified, Turn
        <3>. QED BY <3>1, <3>2
    <2>2. ASSUME NEW j \in Helpers, status'[j] = "working", at'[j] = 6
          PROVE  stage'[j]["helper"] = j
        BY <1>1, <1>2, <2>2, InstallerMeans DEF IInv, StagedIsVerified, Turn
    <2>. QED BY <2>1, <2>2 DEF StagedIsVerified
<1>6. /\ LooksEnd' /\ ReceiptNames' /\ MismatchPending'
      /\ InstalledIsVerified'
    <2>1. CASE i \in Tools
        BY <1>1, <1>2, <1>3, <2>1, Uneventful
    <2>2. CASE i \in Helpers
        <3>1. \A j \in Tools : status'[j] = status[j] /\ at'[j] = at[j]
            BY <1>2, <2>2, InstallerMeans DEF Turn
        <3>. QED BY <1>2, <3>1 DEF IInv, LooksEnd, ReceiptNames,
                 MismatchPending, Pending, InstalledIsVerified
    <2>. QED BY <2>1, <2>2, InstallerMeans
<1>. QED BY <1>4, <1>5, <1>6 DEF IInv

-----------------------------------------------------------------------------
(* Commands that change the guest, whether or not their answer arrives.    *)

LEMMA EffectGoesOn ==
    ASSUME IInv, NEW i \in Installer, NEW op, NEW p, Doing(i, op, p),
           op # "look", Proceed(i) \/ Bail(i)
    PROVE  /\ status[i] = "working" /\ Turn(i) /\ Advance(i)
           /\ i \in Tools => /\ status'[i] \in {"working", "failed"}
                             /\ seen[i] = << >>
<1>1. /\ status[i] = "working"
      /\ i \in Tools => at[i] \notin {1, 2, 7, 10, 16, 19}
    <2>1. CASE i \in Tools
        BY <2>1, ToolDoing DEF IInv
    <2>2. CASE i \in Helpers
        BY <2>2, HelperDoing, InstallerMeans DEF IInv
    <2>. QED BY <2>1, <2>2, InstallerMeans
<1>2. i \in Tools => seen[i] = << >>
    BY <1>1 DEF IInv, LooksEnd
<1>3. CASE Proceed(i)
    <2>1. Turn(i) /\ Advance(i)
        BY <1>1, <1>3, ProceedTurns DEF IInv
    <2>2. i \in Tools => status'[i] = "working"
        BY <1>1, <1>3, ProceedTurns DEF IInv
    <2>. QED BY <1>1, <1>2, <2>1, <2>2
<1>4. CASE Bail(i)
    <2>1. Turn(i) /\ Advance(i)
        BY <1>4, BailTurns DEF IInv
    <2>2. i \in Tools => status'[i] = "failed"
        BY <1>4, BailTurns DEF IInv
    <2>. QED BY <1>1, <1>2, <2>1, <2>2
<1>. QED BY <1>3, <1>4

\* copy, mkdir and rm: no root-owned file changes.
LEMMA CopyInv ==
    ASSUME IInv, NEW i \in Installer,
           NEW op \in {"copy", "mkdir", "clean"}, NEW p, Doing(i, op, p),
           Proceed(i) \/ Bail(i),
           temp' \in [Installer -> [Parts -> Contents]],
           stage' = stage, seen' = seen, final' = final,
           dirs' \subseteq {"guard", "tools"}, faults' \in 0..MaxFaults
    PROVE  IInv'
<1>1. /\ i \in Tools => at[i] \notin {13, 14}
      /\ i \in Helpers => at[i] # 5
    <2>1. CASE i \in Tools
        BY <2>1, ToolDoing, InstallerMeans DEF IInv
    <2>2. CASE i \in Helpers
        BY <2>2, HelperDoing, InstallerMeans DEF IInv
    <2>. QED BY <2>1, <2>2, InstallerMeans
<1>2. /\ status[i] = "working" /\ Turn(i) /\ Advance(i)
      /\ i \in Tools => /\ status'[i] \in {"working", "failed"}
                        /\ seen[i] = << >>
    BY EffectGoesOn
<1>. QED BY <1>1, <1>2, FilesKept

\* install(1): the file that has not been verified yet.
LEMMA StageInv ==
    ASSUME IInv, NEW i \in Installer, NEW p \in Parts, NEW c \in Contents,
           Doing(i, "stage", p), Proceed(i) \/ Bail(i),
           stage' = [stage EXCEPT ![i][p] = c],
           temp' = temp, seen' = seen, final' = final, dirs' = dirs,
           faults' \in 0..MaxFaults
    PROVE  IInv'
<1>1. /\ status[i] = "working" /\ Turn(i) /\ Advance(i)
      /\ i \in Tools => /\ status'[i] \in {"working", "failed"}
                        /\ seen[i] = << >>
    BY EffectGoesOn
<1>2. /\ i \in Tools => at[i] \in {11, 12}
      /\ i \in Helpers => at[i] = 4
    <2>1. CASE i \in Tools
        BY <2>1, ToolDoing, InstallerMeans DEF IInv
    <2>2. CASE i \in Helpers
        BY <2>2, HelperDoing, InstallerMeans DEF IInv
    <2>. QED BY <2>1, <2>2, InstallerMeans
<1>3. /\ stage' \in [Installer -> [Parts -> Contents]]
      /\ \A j \in Installer \ {i} : stage'[j] = stage[j]
    BY DEF IInv, Shape, Copies
<1>4. Shape'
    <2>1. Places'
        BY <1>1, InstallerMeans DEF IInv, Shape, Places, Turn
    <2>2. Copies' /\ Guest' /\ Looks'
        BY <1>3 DEF IInv, Shape, Copies, Guest, Looks
    <2>. QED BY <2>1, <2>2 DEF Shape
<1>5. StagedIsVerified'
    <2>1. ASSUME NEW j \in Tools, status'[j] = "working"
          PROVE  /\ at'[j] \in 14..17 => stage'[j]["artifact"] = j
                 /\ at'[j] \in 15..18 => stage'[j]["receipt"] = j
        <3>1. CASE j = i
            <4>1. at'[j] \in {12, 13}
                BY <1>1, <1>2, <2>1, <3>1 DEF Advance
            <4>. QED BY <4>1
        <3>2. CASE j # i
            BY <1>1, <1>3, <2>1, <3>2, InstallerMeans
            DEF IInv, StagedIsVerified, Turn
        <3>. QED BY <3>1, <3>2
    <2>2. ASSUME NEW j \in Helpers, status'[j] = "working", at'[j] = 6
          PROVE  stage'[j]["helper"] = j
        <3>1. j # i
            BY <1>1, <1>2, <2>2 DEF Advance
        <3>. QED BY <1>1, <1>3, <2>2, <3>1, InstallerMeans
                 DEF IInv, StagedIsVerified, Turn
    <2>. QED BY <2>1, <2>2 DEF StagedIsVerified
<1>6. /\ LooksEnd' /\ ReceiptNames' /\ MismatchPending'
      /\ InstalledIsVerified'
    <2>1. CASE i \in Tools
        BY <1>1, <2>1, Uneventful
    <2>2. CASE i \in Helpers
        <3>1. \A j \in Tools : status'[j] = status[j] /\ at'[j] = at[j]
            BY <1>1, <2>2, InstallerMeans DEF Turn
        <3>. QED BY <3>1 DEF IInv, LooksEnd, ReceiptNames,
                 MismatchPending, Pending, InstalledIsVerified
    <2>. QED BY <2>1, <2>2, InstallerMeans
<1>. QED BY <1>4, <1>5, <1>6 DEF IInv

\* mv(1): the installed file is the product of the installer, and whoever
\* moves one of the tool's two files has not looked at them since.
LEMMA MoveInv ==
    ASSUME IInv, NEW i \in Installer, NEW p \in Parts, Move(i, p),
           Proceed(i) \/ Bail(i), seen' = seen, faults' \in 0..MaxFaults
    PROVE  IInv'
<1>1. /\ status[i] = "working" /\ Turn(i) /\ Advance(i)
      /\ i \in Tools => /\ status'[i] \in {"working", "failed"}
                        /\ seen[i] = << >>
    BY EffectGoesOn DEF Move
<1>2. /\ i \in Tools => \/ at[i] = 17 /\ p = "artifact"
                        \/ at[i] = 18 /\ p = "receipt"
      /\ i \in Helpers => at[i] = 6 /\ p = "helper"
    BY ToolDoing, HelperDoing DEF IInv, Move
<1>3. stage[i][p] = i
    <2>1. CASE i \in Tools
        BY <1>1, <1>2, <2>1 DEF IInv, StagedIsVerified
    <2>2. CASE i \in Helpers
        BY <1>1, <1>2, <2>2 DEF IInv, StagedIsVerified
    <2>. QED BY <2>1, <2>2, InstallerMeans
<1>4. /\ final' = [final EXCEPT ![p] = i]
      /\ stage' = [stage EXCEPT ![i][p] = Absent]
      /\ temp' = temp /\ dirs' = dirs
    BY <1>3 DEF Move
<1>5. /\ final' \in [Parts -> Contents] /\ final'[p] = i
      /\ \A q \in Parts \ {p} : final'[q] = final[q]
      /\ stage' \in [Installer -> [Parts -> Contents]]
      /\ \A j \in Installer \ {i} : stage'[j] = stage[j]
      /\ \A q \in Parts \ {p} : stage'[i][q] = stage[i][q]
    BY <1>4, InstallerMeans DEF IInv, Shape, Copies, Guest
<1>6. Shape'
    <2>1. Places'
        BY <1>1, InstallerMeans DEF IInv, Shape, Places, Turn
    <2>2. Copies' /\ Guest' /\ Looks'
        BY <1>4, <1>5 DEF IInv, Shape, Copies, Guest, Looks
    <2>. QED BY <2>1, <2>2 DEF Shape
<1>7. StagedIsVerified'
    <2>1. ASSUME NEW j \in Tools, status'[j] = "working"
          PROVE  /\ at'[j] \in 14..17 => stage'[j]["artifact"] = j
                 /\ at'[j] \in 15..18 => stage'[j]["receipt"] = j
        <3>1. CASE j = i
            <4>1. CASE at[i] = 17 /\ p = "artifact"
                <5>1. at'[j] = 18 /\ stage[i]["receipt"] = i
                    BY <1>1, <2>1, <3>1, <4>1
                    DEF Advance, IInv, StagedIsVerified
                <5>. QED BY <1>5, <3>1, <4>1, <5>1 DEF Parts
            <4>2. CASE at[i] = 18
                BY <1>1, <2>1, <3>1, <4>2 DEF Advance
            <4>. QED BY <1>2, <2>1, <3>1, <4>1, <4>2
        <3>2. CASE j # i
            BY <1>1, <1>5, <2>1, <3>2, InstallerMeans
            DEF IInv, StagedIsVerified, Turn
        <3>. QED BY <3>1, <3>2
    <2>2. ASSUME NEW j \in Helpers, status'[j] = "working", at'[j] = 6
          PROVE  stage'[j]["helper"] = j
        <3>1. j # i
            BY <1>1, <1>2, <2>2 DEF Advance
        <3>. QED BY <1>1, <1>5, <2>2, <3>1, InstallerMeans
                 DEF IInv, StagedIsVerified, Turn
    <2>. QED BY <2>1, <2>2 DEF StagedIsVerified
<1>8. LooksEnd' /\ InstalledIsVerified'
    <2>1. LooksEnd'
        BY <1>1, InstallerMeans DEF IInv, LooksEnd, Turn
    <2>2. InstalledIsVerified'
        BY <1>5, InstallerMeans DEF IInv, InstalledIsVerified
    <2>. QED BY <2>1, <2>2
<1>9. CASE i \in Helpers
    <2>1. \A j \in Tools : status'[j] = status[j] /\ at'[j] = at[j]
        BY <1>1, <1>9, InstallerMeans DEF Turn
    <2>2. /\ final'["artifact"] = final["artifact"]
          /\ final'["receipt"] = final["receipt"]
        BY <1>2, <1>5, <1>9 DEF Parts
    <2>3. ReceiptNames' /\ MismatchPending'
        BY <2>1, <2>2 DEF IInv, ReceiptNames, MismatchPending, Pending
    <2>. QED BY <1>6, <1>7, <1>8, <2>3 DEF IInv
<1>10. CASE i \in Tools
    <2>1. Pending(i)'
        BY <1>1, <1>10 DEF Pending
    <2>2. ReceiptNames'
        <3>1. final["receipt"] \in Tools => final'["receipt"] \in Tools
            BY <1>5, <1>10 DEF Parts
        <3>2. \A j \in Tools : status'[j] = "ok" => status[j] = "ok"
            BY <1>1, <1>10, InstallerMeans DEF Turn
        <3>. QED BY <3>1, <3>2 DEF IInv, ReceiptNames
    <2>. QED BY <1>6, <1>7, <1>8, <1>10, <2>1, <2>2 DEF IInv, MismatchPending
<1>. QED BY <1>9, <1>10, InstallerMeans

LEMMA EffectInv ==
    ASSUME IInv, NEW i \in Installer, Effect(i), Proceed(i) \/ Bail(i),
           seen' = seen, faults' \in 0..MaxFaults
    PROVE  IInv'
<1>1. Nothing \in [Parts -> Contents]
    BY InstallerMeans DEF Nothing
<1>2. ASSUME NEW p \in Parts, Copy(i, p) PROVE IInv'
    <2>1. /\ temp' \in [Installer -> [Parts -> Contents]]
          /\ dirs' \subseteq {"guard", "tools"}
        BY <1>2, InstallerMeans DEF IInv, Shape, Copies, Guest, Copy, guest
    <2>2. Doing(i, "copy", p) /\ stage' = stage /\ final' = final
        BY <1>2 DEF Copy, guest
    <2>. QED BY <2>1, <2>2, CopyInv
<1>3. ASSUME NEW p \in Parts, Stage(i, p) PROVE IInv'
    <2>1. temp[i][p] \in Contents
        BY DEF IInv, Shape, Copies
    <2>. QED BY <1>3, <2>1, StageInv DEF Stage, guest
<1>4. ASSUME NEW p \in Parts, Move(i, p) PROVE IInv'
    BY <1>4, MoveInv
<1>5. ASSUME NEW d \in {"guard", "tools"}, MakeDirectory(i, d) PROVE IInv'
    <2>1. /\ temp' \in [Installer -> [Parts -> Contents]]
          /\ dirs' \subseteq {"guard", "tools"}
        BY <1>5 DEF IInv, Shape, Copies, Guest, MakeDirectory
    <2>2. Doing(i, "mkdir", d) /\ stage' = stage /\ final' = final
        BY <1>5 DEF MakeDirectory
    <2>. QED BY <2>1, <2>2, CopyInv
<1>6. ASSUME Clean(i) PROVE IInv'
    <2>1. /\ temp' \in [Installer -> [Parts -> Contents]]
          /\ dirs' \subseteq {"guard", "tools"}
        BY <1>1, <1>6 DEF IInv, Shape, Copies, Guest, Clean, guest
    <2>2. PICK what : Doing(i, "clean", what)
        BY <1>6 DEF Clean
    <2>3. stage' = stage /\ final' = final
        BY <1>6 DEF Clean, guest
    <2>. QED BY <2>1, <2>2, <2>3, CopyInv
<1>. QED BY <1>2, <1>3, <1>4, <1>5, <1>6 DEF Effect

-----------------------------------------------------------------------------
(* What goes wrong.                                                        *)

LEMMA FaultCounted == IInv /\ Fault => faults' \in 0..MaxFaults
BY FaultAssumption DEF IInv, Shape, Guest, Fault

LEMMA CutOffInv ==
    ASSUME IInv, NEW i \in Installer, CutOff(i) PROVE IInv'
<1>1. /\ faults' \in 0..MaxFaults /\ Bail(i)
      /\ seen' = seen /\ final' = final /\ dirs' = dirs
    BY FaultCounted DEF CutOff, guest
<1>2. PICK p \in Parts :
         \/ /\ Doing(i, "copy", p)
            /\ temp' = [temp EXCEPT ![i][p] = Spoiled] /\ stage' = stage
         \/ /\ Doing(i, "stage", p)
            /\ stage' = [stage EXCEPT ![i][p] = Spoiled] /\ temp' = temp
    BY DEF CutOff
<1>3. CASE Doing(i, "copy", p) /\ stage' = stage
           /\ temp' = [temp EXCEPT ![i][p] = Spoiled]
    <2>1. /\ temp' \in [Installer -> [Parts -> Contents]]
          /\ dirs' \subseteq {"guard", "tools"}
        BY <1>1, <1>3, InstallerMeans DEF IInv, Shape, Copies, Guest
    <2>. QED BY <1>1, <1>3, <2>1, CopyInv
<1>4. CASE Doing(i, "stage", p) /\ temp' = temp
           /\ stage' = [stage EXCEPT ![i][p] = Spoiled]
    BY <1>1, <1>4, InstallerMeans, StageInv
<1>. QED BY <1>2, <1>3, <1>4

\* The installer stops where it is.
LEMMA StopInv ==
    ASSUME IInv, NEW i \in Installer,
           Bail(i) \/ (Become(i, "failed") /\ UNCHANGED at),
           status[i] \in {"working", "cleaning"},
           temp' \in [Installer -> [Parts -> Contents]],
           stage' \in [Installer -> [Parts -> Contents]],
           \A j \in Installer \ {i} : stage'[j] = stage[j],
           seen' = seen, final' = final, dirs' = dirs,
           faults' \in 0..MaxFaults
    PROVE  IInv'
<1>1. /\ Turn(i) /\ status'[i] \in {"cleaning", "failed"}
      /\ i \in Tools => status'[i] = "failed"
    <2>1. CASE Bail(i)
        BY <2>1, BailTurns DEF IInv
    <2>2. CASE Become(i, "failed") /\ UNCHANGED at
        BY <2>2, BecomeTurns DEF IInv
    <2>. QED BY <2>1, <2>2
<1>2. Shape'
    <2>1. Places'
        BY <1>1, InstallerMeans DEF IInv, Shape, Places, Turn
    <2>2. Copies' /\ Guest' /\ Looks'
        BY DEF IInv, Shape, Copies, Guest, Looks
    <2>. QED BY <2>1, <2>2 DEF Shape
<1>3. StagedIsVerified'
    <2>1. ASSUME NEW j \in Installer, status'[j] = "working"
          PROVE  status[j] = "working" /\ at'[j] = at[j]
                 /\ stage'[j] = stage[j]
        <3>1. j # i
            BY <1>1, <2>1
        <3>. QED BY <1>1, <2>1, <3>1 DEF Turn
    <2>. QED BY <2>1, InstallerMeans DEF IInv, StagedIsVerified
<1>4. /\ LooksEnd' /\ ReceiptNames' /\ MismatchPending'
      /\ InstalledIsVerified'
    BY <1>1, Uneventful
<1>. QED BY <1>2, <1>3, <1>4 DEF IInv

LEMMA RefuseInv ==
    ASSUME IInv, NEW i \in Installer, Refuse(i) \/ Kill(i) PROVE IInv'
<1>1. /\ Bail(i) \/ (Become(i, "failed") /\ UNCHANGED at)
      /\ status[i] \in {"working", "cleaning"}
      /\ temp' = temp /\ stage' = stage /\ seen' = seen
      /\ final' = final /\ dirs' = dirs
    BY DEF Refuse, Kill, local, guest
<1>2. faults' \in 0..MaxFaults
    BY FaultCounted DEF Refuse, Kill
<1>3. /\ temp' \in [Installer -> [Parts -> Contents]]
      /\ stage' \in [Installer -> [Parts -> Contents]]
    BY <1>1 DEF IInv, Shape, Copies
<1>. QED BY <1>1, <1>2, <1>3, StopInv

LEMMA CleanUpInv ==
    ASSUME IInv, NEW i \in Installer, CleanUp(i) PROVE IInv'
<1>1. Nothing \in [Parts -> Contents]
    BY InstallerMeans DEF Nothing
<1>2. /\ temp' \in [Installer -> [Parts -> Contents]]
      /\ stage' \in [Installer -> [Parts -> Contents]]
      /\ \A j \in Installer \ {i} : stage'[j] = stage[j]
    BY <1>1 DEF IInv, Shape, Copies, CleanUp
<1>3. /\ Become(i, "failed") /\ UNCHANGED at /\ status[i] = "cleaning"
      /\ seen' = seen /\ final' = final /\ dirs' = dirs
    BY DEF CleanUp, guest
<1>4. faults' \in 0..MaxFaults
    BY DEF IInv, Shape, Guest, CleanUp
<1>. QED BY <1>2, <1>3, <1>4, StopInv

LEMMA TamperInv ==
    ASSUME IInv, NEW i \in Installer, NEW p \in Parts, Tamper(i, p)
    PROVE  IInv'
<1>1. /\ status' = status /\ at' = at /\ stage' = stage /\ seen' = seen
      /\ final' = final /\ dirs' = dirs
    BY DEF Tamper, guest
<1>2. faults' \in 0..MaxFaults /\ temp' \in [Installer -> [Parts -> Contents]]
    BY FaultCounted, InstallerMeans DEF IInv, Shape, Copies, Tamper
<1>3. Shape'
    BY <1>1, <1>2 DEF IInv, Shape, Places, Copies, Looks, Guest
<1>4. LooksEnd' /\ StagedIsVerified' /\ InstalledIsVerified' /\ ReceiptNames'
    BY <1>1 DEF IInv, LooksEnd, StagedIsVerified, InstalledIsVerified,
                ReceiptNames
<1>5. MismatchPending'
    BY <1>1 DEF IInv, MismatchPending, Pending
<1>. QED BY <1>3, <1>4, <1>5 DEF IInv

-----------------------------------------------------------------------------
(* The theorems.                                                           *)

LEMMA StepInv == IInv /\ [Next]_vars => IInv'
<1>. SUFFICES ASSUME IInv, [Next]_vars PROVE IInv' OBVIOUS
<1>1. CASE UNCHANGED vars
    <2>1. Shape'
        BY <1>1 DEF IInv, Shape, Places, Copies, Looks, Guest, vars
    <2>2. /\ LooksEnd' /\ StagedIsVerified' /\ InstalledIsVerified'
          /\ ReceiptNames' /\ MismatchPending'
        BY <1>1 DEF IInv, vars, LooksEnd, StagedIsVerified, ReceiptNames,
                    InstalledIsVerified, MismatchPending, Pending
    <2>. QED BY <2>1, <2>2 DEF IInv
<1>2. ASSUME NEW i \in Installer, Step(i) PROVE IInv'
    <2>1. CASE Do(i)
        <3>1. seen' = seen /\ faults' \in 0..MaxFaults
            BY <2>1 DEF Do, IInv, Shape, Guest
        <3>. QED BY <2>1, <3>1, EffectInv DEF Do
    <2>2. ASSUME NEW p \in Parts, Check(i, p) \/ Verify(i, p) PROVE IInv'
        BY <2>2, CheckInv, VerifyInv
    <2>3. CASE Confirm(i)
        BY <2>3, CheckInv DEF Parts
    <2>. QED BY <1>2, <2>1, <2>2, <2>3, BeginInv, ReadInv, JudgeInv, MatchInv,
                CleanUpInv DEF Step
<1>3. ASSUME NEW i \in Installer, Trouble(i) PROVE IInv'
    <2>1. CASE LoseAnswer(i)
        <3>1. seen' = seen /\ faults' \in 0..MaxFaults
            BY <2>1, FaultCounted DEF LoseAnswer
        <3>. QED BY <2>1, <3>1, EffectInv DEF LoseAnswer
    <2>. QED BY <1>3, <2>1, CutOffInv, RefuseInv, TamperInv DEF Trouble
<1>. QED BY <1>1, <1>2, <1>3 DEF Next

LEMMA Invariance == Spec => []IInv
BY InitInv, StepInv, PTL DEF Spec

\* Each installer keeps to its plan, and bytes nobody verified never stand at
\* an installed path: whatever is cut off, changed in /tmp after its check,
\* repeated or killed, and however many setups run at once.
THEOREM OnlyVerifiedIsInstalled == Spec => []InstallationSound
<1>1. IInv => InstallationSound
    BY TypesFollow DEF IInv, InstallationSound
<1>. QED BY <1>1, Invariance, PTL

\* Where every setup of the tool that began has reported success, the
\* installed artifact is the one the installed receipt names.
THEOREM SuccessMeansConsistent == Spec => []SuccessIsConsistent
<1>1. IInv => SuccessIsConsistent
    <2>. SUFFICES ASSUME IInv,
                         \A i \in Tools : status[i] \in {"none", "idle", "ok"},
                         \E i \in Tools : status[i] = "ok"
                  PROVE  final["artifact"] = final["receipt"]
        BY DEF SuccessIsConsistent
    <2>1. final["receipt"] \in Tools
        BY DEF IInv, ReceiptNames
    <2>2. \A j \in Tools : ~Pending(j)
        BY DEF Pending
    <2>. QED BY <2>1, <2>2 DEF IInv, MismatchPending
<1>. QED BY <1>1, Invariance, PTL

-----------------------------------------------------------------------------
(* The instance that is checked provisions a guest, whatever else it       *)
(* prepares beside it.                                                     *)

\* What holds of the guest's setups holds where the sandbox and the filter
\* are prepared next to them: a step of one of those leaves the guest alone.
THEOREM PreparationProvisions == PreparationSpec => Spec
<1>1. PreparationInit => Init
    BY DEF PreparationInit
<1>2. [PreparationNext]_everything => [Next]_vars
    BY DEF PreparationNext, GuestStep, everything
<1>. QED BY <1>1, <1>2, PTL DEF PreparationSpec, Spec

-----------------------------------------------------------------------------
(* The program of the filter.                                              *)

\* The length of its prologue.
Body == IF machine = "x86_64" THEN 6 ELSE 4

LEMMA PrologueShape ==
    /\ Len(Filter!Prologue) = Body
    /\ Filter!Prologue \in [1..Body -> {Filter!Prologue[n] : n \in 1..Body}]
    /\ Filter!Prologue[1] = Filter!Statement("load", "arch")
    /\ Filter!Prologue[2] = Filter!Jump("equal", {machine}, 1, 0)
    /\ Filter!Prologue[3] = Filter!Statement("return", "kill")
    /\ Filter!Prologue[4] = Filter!Statement("load", "nr")
    /\ machine = "x86_64" =>
          /\ Filter!Prologue[5] = Filter!Jump("atLeast", "x32", 0, 1)
          /\ Filter!Prologue[6] = Filter!Statement("return", "kill")
<1>. DEFINE a == Filter!Statement("load", "arch")
            b == Filter!Jump("equal", {machine}, 1, 0)
            c == Filter!Statement("return", "kill")
            d == Filter!Statement("load", "nr")
            e == Filter!Jump("atLeast", "x32", 0, 1)
<1>. HIDE DEF a, b, c, d, e
<1>1. CASE machine = "x86_64"
    <2>1. Filter!Prologue = <<a, b, c, d>> \o <<e, c>>
        BY <1>1 DEF Filter!Prologue, a, b, c, d, e
    <2>2. /\ Len(Filter!Prologue) = 6 /\ DOMAIN Filter!Prologue = 1..6
          /\ Filter!Prologue[1] = a /\ Filter!Prologue[2] = b
          /\ Filter!Prologue[3] = c /\ Filter!Prologue[4] = d
          /\ Filter!Prologue[5] = e /\ Filter!Prologue[6] = c
        BY <2>1
    <2>3. Filter!Prologue \in [1..6 -> {Filter!Prologue[n] : n \in 1..6}]
        <3>1. <<a, b, c, d>> \in Seq({a, b, c, d, e})
              /\ <<e, c>> \in Seq({a, b, c, d, e})
            OBVIOUS
        <3>2. Filter!Prologue \in Seq({a, b, c, d, e})
            BY <2>1, <3>1, ConcatProperties
        <3>. QED BY <2>2, <3>2, LenProperties
    <2>. QED BY <1>1, <2>2, <2>3 DEF Body, a, b, c, d, e
<1>2. CASE machine # "x86_64"
    <2>1. Filter!Prologue = <<a, b, c, d>> \o << >>
        BY <1>2 DEF Filter!Prologue, a, b, c, d
    <2>2. Filter!Prologue = <<a, b, c, d>>
        BY <2>1
    <2>. QED BY <1>2, <2>2 DEF Body, a, b, c, d
<1>. QED BY <1>1, <1>2

LEMMA Listed ==
    /\ Len(Filter!DeniedSyscalls) = 38 /\ DOMAIN Filter!DeniedSyscalls = 1..38
    /\ Filter!DeniedSyscalls[1] = "unshare"
    /\ Filter!DeniedSyscalls[2] = "setns"
BY DEF Filter!DeniedSyscalls

LEMMA NotListed ==
    \A i \in 1..38 : Filter!DeniedSyscalls[i] \notin {"clone", "clone3", "x32"}
BY DEF Filter!DeniedSyscalls

LEMMA RulesShape ==
    /\ Len(Filter!DeniedRules) = 76 /\ DOMAIN Filter!DeniedRules = 1..76
    /\ \A i \in 1..38 :
          /\ Filter!DeniedRules[2 * i - 1] =
                 Filter!Jump("equal", {Filter!DeniedSyscalls[i]}, 0, 1)
          /\ Filter!DeniedRules[2 * i] = Filter!Statement("return", "EPERM")
<1>1. /\ DOMAIN Filter!DeniedRules = 1..76
      /\ \A n \in 1..76 : Filter!DeniedRules[n] =
             IF n % 2 = 1
             THEN Filter!Jump("equal", {Filter!DeniedSyscalls[(n + 1) \div 2]},
                              0, 1)
             ELSE Filter!Statement("return", "EPERM")
    BY Listed DEF Filter!DeniedRules
<1>2. Len(Filter!DeniedRules) = 76
    BY Listed DEF Filter!DeniedRules
<1>3. ASSUME NEW i \in 1..38
      PROVE  /\ 2 * i - 1 \in 1..76 /\ 2 * i \in 1..76
             /\ (2 * i - 1) % 2 = 1 /\ (2 * i) % 2 # 1
             /\ ((2 * i - 1) + 1) \div 2 = i
    OBVIOUS
<1>. QED BY <1>1, <1>2, <1>3

LEMMA SeqOf ==
    ASSUME NEW X, NEW n \in Nat, NEW s \in [1..n -> X]
    PROVE  s \in Seq(X)
BY SeqDef

LEMMA ConcatTwo ==
    ASSUME NEW X, NEW s \in Seq(X), NEW t \in Seq(X)
    PROVE  /\ s \o t \in Seq(X) /\ Len(s \o t) = Len(s) + Len(t)
           /\ \A i \in 1..Len(s) : (s \o t)[i] = s[i]
           /\ \A i \in 1..Len(t) : (s \o t)[Len(s) + i] = t[i]
<1>. DEFINE p == s \o t
            m == Len(s)
            n == Len(t)
<1>1. m \in Nat /\ n \in Nat
    BY LenProperties
<1>2. /\ p \in Seq(X) /\ Len(p) = m + n
      /\ \A i \in 1..(m + n) : p[i] = IF i <= m THEN s[i] ELSE t[i - m]
    BY ConcatProperties
<1>. HIDE DEF p, m, n
<1>3. ASSUME NEW i \in 1..m PROVE p[i] = s[i]
    BY <1>1, <1>2
<1>4. ASSUME NEW i \in 1..n PROVE p[m + i] = t[i]
    <2>1. m + i \in 1..(m + n) /\ ~(m + i <= m) /\ (m + i) - m = i
        BY <1>1
    <2>. QED BY <1>2, <2>1
<1>. QED BY <1>2, <1>3, <1>4 DEF p, m, n

\* Where the parts of the program begin.
LEMMA ProgramParts ==
    /\ Len(Filter!Program) = Body + 84
    /\ \A n \in 1..Body : Filter!Program[n] = Filter!Prologue[n]
    /\ \A n \in 1..2 : Filter!Program[Body + n] = Filter!Clone3Rule[n]
    /\ \A n \in 1..76 : Filter!Program[Body + 2 + n] = Filter!DeniedRules[n]
    /\ \A n \in 1..6 : Filter!Program[Body + 78 + n] = Filter!CloneRule[n]
<1>. DEFINE s == Filter!Prologue
            t == Filter!Clone3Rule
            u == Filter!DeniedRules
            v == Filter!CloneRule
            any == {s[n] : n \in 1..Body} \cup {t[n] : n \in 1..2}
                   \cup {u[n] : n \in 1..76} \cup {v[n] : n \in 1..6}
<1>1. Len(t) = 2 /\ Len(v) = 6 /\ t \in [1..2 -> any] /\ v \in [1..6 -> any]
    <2>1. Len(t) = 2 /\ DOMAIN t = 1..2 /\ t = [n \in 1..2 |-> t[n]]
        BY DEF Filter!Clone3Rule
    <2>2. Len(v) = 6 /\ DOMAIN v = 1..6 /\ v = [n \in 1..6 |-> v[n]]
        BY DEF Filter!CloneRule
    <2>3. (\A n \in 1..2 : t[n] \in any) /\ \A n \in 1..6 : v[n] \in any
        OBVIOUS
    <2>. HIDE DEF t, v, any
    <2>. QED BY <2>1, <2>2, <2>3
<1>2. Body \in Nat
    BY DEF Body
<1>3. Len(u) = 76 /\ u \in [1..76 -> any]
    <2>1. Len(u) = 76 /\ DOMAIN u = 1..76
        BY RulesShape
    <2>2. u = [n \in DOMAIN u |-> u[n]]
        BY DEF Filter!DeniedRules
    <2>3. \A n \in 1..76 : u[n] \in any
        OBVIOUS
    <2>. HIDE DEF u, any
    <2>. QED BY <2>1, <2>2, <2>3
<1>4. Len(s) = Body /\ s \in [1..Body -> any]
    BY PrologueShape
<1>5. Filter!Program = ((s \o t) \o u) \o v
    BY DEF Filter!Program
<1>. HIDE DEF s, t, u, v, any
<1>6. s \in Seq(any) /\ t \in Seq(any) /\ u \in Seq(any) /\ v \in Seq(any)
    <2>1. 2 \in Nat /\ 6 \in Nat /\ 76 \in Nat
        OBVIOUS
    <2>2. t \in Seq(any)
        BY <1>1, <2>1, SeqOf
    <2>3. v \in Seq(any)
        BY <1>1, <2>1, SeqOf
    <2>4. u \in Seq(any)
        BY <1>3, <2>1, SeqOf
    <2>5. s \in Seq(any)
        BY <1>2, <1>4, SeqOf
    <2>. QED BY <2>2, <2>3, <2>4, <2>5
<1>. DEFINE a == s \o t
            b == a \o u
            c == b \o v
<1>7. /\ a \in Seq(any) /\ Len(a) = Len(s) + Len(t)
      /\ \A i \in 1..Len(s) : a[i] = s[i]
      /\ \A i \in 1..Len(t) : a[Len(s) + i] = t[i]
    BY <1>6, ConcatTwo
<1>. HIDE DEF a
<1>8. a \in Seq(any)
    BY <1>7
<1>9. /\ b \in Seq(any) /\ Len(b) = Len(a) + Len(u)
      /\ \A i \in 1..Len(a) : b[i] = a[i]
      /\ \A i \in 1..Len(u) : b[Len(a) + i] = u[i]
    BY <1>6, <1>8, ConcatTwo
<1>. HIDE DEF b
<1>10. b \in Seq(any)
    BY <1>9
<1>11. /\ Len(c) = Len(b) + Len(v)
       /\ \A i \in 1..Len(b) : c[i] = b[i]
       /\ \A i \in 1..Len(v) : c[Len(b) + i] = v[i]
    BY <1>6, <1>10, ConcatTwo
<1>. HIDE DEF c
<1>12. Filter!Program = c
    BY <1>5 DEF a, b, c
<1>13. Len(a) = Body + 2 /\ Len(b) = Body + 78 /\ Len(c) = Body + 84
    BY <1>1, <1>2, <1>3, <1>4, <1>7, <1>9, <1>11
<1>14. ASSUME NEW n \in 1..Body PROVE c[n] = s[n]
    <2>1. n \in 1..(Body + 2) /\ n \in 1..(Body + 78)
        BY <1>2
    <2>. QED BY <1>4, <1>7, <1>9, <1>11, <1>13, <2>1
<1>15. ASSUME NEW n \in 1..2 PROVE c[Body + n] = t[n]
    <2>1. Body + n \in 1..(Body + 2) /\ Body + n \in 1..(Body + 78)
        BY <1>2
    <2>2. c[Body + n] = b[Body + n]
        BY <1>11, <1>13, <2>1
    <2>3. b[Body + n] = a[Body + n]
        BY <1>9, <1>13, <2>1
    <2>4. a[Body + n] = t[n]
        BY <1>1, <1>4, <1>7
    <2>. QED BY <2>2, <2>3, <2>4
<1>16. ASSUME NEW n \in 1..76 PROVE c[Body + 2 + n] = u[n]
    <2>1. (Body + 2) + n \in 1..(Body + 78)
        BY <1>2
    <2>2. b[(Body + 2) + n] = u[n]
        BY <1>3, <1>9, <1>13
    <2>. QED BY <1>11, <1>13, <2>1, <2>2
<1>17. ASSUME NEW n \in 1..6 PROVE c[Body + 78 + n] = v[n]
    BY <1>1, <1>11, <1>13
<1>. QED BY <1>12, <1>13, <1>14, <1>15, <1>16, <1>17 DEF s, t, u, v

\* The program, instruction by instruction.
LEMMA Instructions ==
    /\ Body \in {4, 6} /\ (Body = 6 <=> machine = "x86_64")
    /\ Len(Filter!Program) = Body + 84
    /\ Filter!Program[1] = Filter!Statement("load", "arch")
    /\ Filter!Program[2] = Filter!Jump("equal", {machine}, 1, 0)
    /\ Filter!Program[3] = Filter!Statement("return", "kill")
    /\ Filter!Program[4] = Filter!Statement("load", "nr")
    /\ Body = 6 =>
          /\ Filter!Program[5] = Filter!Jump("atLeast", "x32", 0, 1)
          /\ Filter!Program[6] = Filter!Statement("return", "kill")
    /\ Filter!Program[Body + 1] = Filter!Jump("equal", {"clone3"}, 0, 1)
    /\ Filter!Program[Body + 2] = Filter!Statement("return", "ENOSYS")
    /\ \A i \in 1..38 :
          /\ Filter!Program[Body + 1 + 2 * i] =
                 Filter!Jump("equal", {Filter!DeniedSyscalls[i]}, 0, 1)
          /\ Filter!Program[Body + 2 + 2 * i] =
                 Filter!Statement("return", "EPERM")
    /\ Filter!Program[Body + 79] = Filter!Jump("equal", {"clone"}, 0, 4)
    /\ Filter!Program[Body + 80] = Filter!Statement("load", "arg0")
    /\ Filter!Program[Body + 81] =
           Filter!Statement("and", Filter!DeniedCloneFlags)
    /\ Filter!Program[Body + 82] = Filter!Jump("equal", {}, 1, 0)
    /\ Filter!Program[Body + 83] = Filter!Statement("return", "EPERM")
    /\ Filter!Program[Body + 84] = Filter!Statement("return", "allow")
<1>1. Body \in {4, 6} /\ (Body = 6 <=> machine = "x86_64")
    BY DEF Body
<1>2. \A n \in 1..4 : Filter!Program[n] = Filter!Prologue[n]
    <2>1. \A n \in 1..4 : n \in 1..Body
        BY <1>1
    <2>. QED BY <2>1, ProgramParts
<1>3. Body = 6 => /\ Filter!Program[5] = Filter!Prologue[5]
                  /\ Filter!Program[6] = Filter!Prologue[6]
    BY ProgramParts
<1>4. /\ Filter!Program[Body + 1] = Filter!Clone3Rule[1]
      /\ Filter!Program[Body + 2] = Filter!Clone3Rule[2]
    BY ProgramParts
<1>5. ASSUME NEW i \in 1..38
      PROVE  /\ Filter!Program[Body + 1 + 2 * i] =
                    Filter!DeniedRules[2 * i - 1]
             /\ Filter!Program[Body + 2 + 2 * i] = Filter!DeniedRules[2 * i]
    <2>1. /\ 2 * i - 1 \in 1..76 /\ 2 * i \in 1..76
          /\ Body + 2 + (2 * i - 1) = Body + 1 + 2 * i
        BY <1>1
    <2>. QED BY <2>1, ProgramParts
<1>6. \A n \in 1..6 : Filter!Program[Body + 78 + n] = Filter!CloneRule[n]
    BY ProgramParts
<1>7. /\ Filter!Program[Body + 79] = Filter!CloneRule[1]
      /\ Filter!Program[Body + 80] = Filter!CloneRule[2]
      /\ Filter!Program[Body + 81] = Filter!CloneRule[3]
      /\ Filter!Program[Body + 82] = Filter!CloneRule[4]
      /\ Filter!Program[Body + 83] = Filter!CloneRule[5]
      /\ Filter!Program[Body + 84] = Filter!CloneRule[6]
    <2>1. /\ Body + 78 + 1 = Body + 79 /\ Body + 78 + 2 = Body + 80
          /\ Body + 78 + 3 = Body + 81 /\ Body + 78 + 4 = Body + 82
          /\ Body + 78 + 5 = Body + 83 /\ Body + 78 + 6 = Body + 84
        BY <1>1
    <2>2. \A n \in {1, 2, 3, 4, 5, 6} :
              Filter!Program[Body + 78 + n] = Filter!CloneRule[n]
        BY <1>6
    <2>. QED BY <2>1, <2>2
<1>8. /\ Filter!Program[1] = Filter!Statement("load", "arch")
      /\ Filter!Program[2] = Filter!Jump("equal", {machine}, 1, 0)
      /\ Filter!Program[3] = Filter!Statement("return", "kill")
      /\ Filter!Program[4] = Filter!Statement("load", "nr")
    BY <1>2, PrologueShape
<1>9. Body = 6 =>
          /\ Filter!Program[5] = Filter!Jump("atLeast", "x32", 0, 1)
          /\ Filter!Program[6] = Filter!Statement("return", "kill")
    BY <1>1, <1>3, PrologueShape
<1>10. \A i \in 1..38 :
          /\ Filter!Program[Body + 1 + 2 * i] =
                 Filter!Jump("equal", {Filter!DeniedSyscalls[i]}, 0, 1)
          /\ Filter!Program[Body + 2 + 2 * i] =
                 Filter!Statement("return", "EPERM")
    BY <1>5, RulesShape
<1>11. /\ Filter!Clone3Rule[1] = Filter!Jump("equal", {"clone3"}, 0, 1)
       /\ Filter!Clone3Rule[2] = Filter!Statement("return", "ENOSYS")
    BY DEF Filter!Clone3Rule
<1>12. /\ Filter!CloneRule[1] = Filter!Jump("equal", {"clone"}, 0, 4)
       /\ Filter!CloneRule[2] = Filter!Statement("load", "arg0")
       /\ Filter!CloneRule[3] =
              Filter!Statement("and", Filter!DeniedCloneFlags)
       /\ Filter!CloneRule[4] = Filter!Jump("equal", {}, 1, 0)
       /\ Filter!CloneRule[5] = Filter!Statement("return", "EPERM")
       /\ Filter!CloneRule[6] = Filter!Statement("return", "allow")
    BY DEF Filter!CloneRule
<1>13. Len(Filter!Program) = Body + 84
    BY ProgramParts
<1>. QED BY <1>1, <1>4, <1>7, <1>8, <1>9, <1>10, <1>11, <1>12, <1>13

-----------------------------------------------------------------------------
(* What is known of the call at each instruction.                          *)

Native == call.arch = {machine}
Ordinary == Native /\ "x32" \notin call.nr

\* The first n rules of the list have let the call pass.
Past(n) ==
    /\ Ordinary /\ call.nr # {"clone3"}
    /\ \A j \in 1..n : call.nr # {Filter!DeniedSyscalls[j]}

Separates == call.arg0 \cap Filter!DeniedCloneFlags # {}

\* The program counter is at n with w in the accumulator.
Start(n, w) ==
    /\ n = 2 => w = call.arch
    /\ n = 3 => ~Native
    /\ n = 4 => Native
    /\ n = 5 /\ Body = 6 => Native /\ w = call.nr
    /\ n = 6 /\ Body = 6 => Native /\ "x32" \in call.nr
    /\ n = Body + 1 => Ordinary /\ w = call.nr
    /\ n = Body + 2 => Ordinary /\ call.nr = {"clone3"}
List(n, w) ==
    \A i \in 1..38 :
        /\ n = Body + 1 + 2 * i => Past(i - 1) /\ w = call.nr
        /\ n = Body + 2 + 2 * i =>
               Past(i - 1) /\ call.nr = {Filter!DeniedSyscalls[i]}
End(n, w) ==
    /\ n > Body + 78 => Past(38)
    /\ n = Body + 79 => w = call.nr
    /\ n \in (Body + 80)..(Body + 83) => call.nr = {"clone"}
    /\ n = Body + 81 => w = call.arg0
    /\ n = Body + 82 => w = call.arg0 \cap Filter!DeniedCloneFlags
    /\ n = Body + 83 => Separates
    /\ n = Body + 84 /\ call.nr = {"clone"} => ~Separates

Reached(n, w) == Start(n, w) /\ List(n, w) /\ End(n, w)

Decision ==
    IF ~Native \/ "x32" \in call.nr THEN "kill"
    ELSE IF call.nr = {"clone3"} THEN "ENOSYS"
    ELSE IF \/ \E d \in Filter!Denied : d \in call.nr
            \/ "clone" \in call.nr /\ Separates
         THEN "EPERM"
    ELSE "allow"

\* The counter is in one of these places.
LEMMA Positions ==
    ASSUME NEW n \in 1..(Body + 84)
    PROVE  \/ n \in 1..4
           \/ Body = 6 /\ n \in 5..6
           \/ n \in (Body + 1)..(Body + 2)
           \/ \E i \in 1..38 : n = Body + 1 + 2 * i \/ n = Body + 2 + 2 * i
           \/ n \in (Body + 79)..(Body + 84)
<1>1. Body \in {4, 6}
    BY Instructions
<1>2. ASSUME n \in (Body + 3)..(Body + 78)
      PROVE  \E i \in 1..38 : n = Body + 1 + 2 * i \/ n = Body + 2 + 2 * i
    <2>. DEFINE i == (n - Body - 1) \div 2
    <2>1. /\ i \in 1..38
          /\ n = Body + 1 + 2 * i \/ n = Body + 2 + 2 * i
        BY <1>1, <1>2
    <2>. QED BY <2>1
<1>. QED BY <1>1, <1>2

LEMMA StartReached ==
    ASSUME NEW n \in 1..(Body + 2), NEW w, Start(n, w)
    PROVE  n \in 1..(Body + 84) /\ Reached(n, w)
<1>1. Body \in {4, 6}
    BY Instructions
<1>2. n \in 1..(Body + 84) /\ List(n, w)
    BY <1>1 DEF List
<1>3. End(n, w)
    BY <1>1 DEF End
<1>. QED BY <1>2, <1>3 DEF Reached

LEMMA RuleReached ==
    ASSUME NEW i \in 1..38, NEW w, Past(i - 1), w = call.nr
    PROVE  /\ Body + 1 + 2 * i \in 1..(Body + 84)
           /\ Reached(Body + 1 + 2 * i, w)
<1>1. Body \in {4, 6}
    BY Instructions
<1>2. Start(Body + 1 + 2 * i, w) /\ End(Body + 1 + 2 * i, w)
    BY <1>1 DEF Start, End
<1>3. List(Body + 1 + 2 * i, w)
    <2>1. \A j \in 1..38 : /\ Body + 1 + 2 * i = Body + 1 + 2 * j => i = j
                           /\ Body + 1 + 2 * i # Body + 2 + 2 * j
        BY <1>1
    <2>. QED BY <2>1 DEF List
<1>. QED BY <1>1, <1>2, <1>3 DEF Reached

LEMMA MatchReached ==
    ASSUME NEW i \in 1..38, NEW w, Past(i - 1),
           call.nr = {Filter!DeniedSyscalls[i]}
    PROVE  /\ Body + 2 + 2 * i \in 1..(Body + 84)
           /\ Reached(Body + 2 + 2 * i, w)
<1>1. Body \in {4, 6}
    BY Instructions
<1>2. Start(Body + 2 + 2 * i, w) /\ End(Body + 2 + 2 * i, w)
    BY <1>1 DEF Start, End
<1>3. List(Body + 2 + 2 * i, w)
    <2>1. \A j \in 1..38 : /\ Body + 2 + 2 * i = Body + 2 + 2 * j => i = j
                           /\ Body + 2 + 2 * i # Body + 1 + 2 * j
        BY <1>1
    <2>. QED BY <2>1 DEF List
<1>. QED BY <1>1, <1>2, <1>3 DEF Reached

LEMMA EndReached ==
    ASSUME NEW n \in (Body + 79)..(Body + 84), NEW w, End(n, w)
    PROVE  n \in 1..(Body + 84) /\ Reached(n, w)
<1>1. Body \in {4, 6}
    BY Instructions
<1>2. n \in 1..(Body + 84) /\ Start(n, w) /\ List(n, w)
    BY <1>1 DEF Start, List
<1>. QED BY <1>2 DEF Reached

\* What each kind of instruction does.
LEMMA Loads ==
    ASSUME NEW k, Filter!Execute,
           Filter!Program[counter] = Filter!Statement("load", k)
    PROVE  word' = call[k] /\ counter' = counter + 1 /\ verdict' = verdict
BY DEF Filter!Execute, Filter!Statement

LEMMA Masks ==
    ASSUME NEW k, Filter!Execute,
           Filter!Program[counter] = Filter!Statement("and", k)
    PROVE  word' = word \cap k /\ counter' = counter + 1 /\ verdict' = verdict
BY DEF Filter!Execute, Filter!Statement

LEMMA Returns ==
    ASSUME NEW k, Filter!Execute,
           Filter!Program[counter] = Filter!Statement("return", k)
    PROVE  verdict' = k /\ counter' = 0
BY DEF Filter!Execute, Filter!Statement

LEMMA Compares ==
    ASSUME NEW k, NEW jt, NEW jf, Filter!Execute,
           Filter!Program[counter] = Filter!Jump("equal", k, jt, jf)
    PROVE  /\ counter' = counter + 1 + IF word = k THEN jt ELSE jf
           /\ word' = word /\ verdict' = verdict
BY DEF Filter!Execute, Filter!Jump

LEMMA TestsBit ==
    ASSUME NEW k, NEW jt, NEW jf, Filter!Execute,
           Filter!Program[counter] = Filter!Jump("atLeast", k, jt, jf)
    PROVE  /\ counter' = counter + 1 + IF k \in word THEN jt ELSE jf
           /\ word' = word /\ verdict' = verdict
BY DEF Filter!Execute, Filter!Jump

\* A call's number is one token, with or without the x32 bit.
Shaped ==
    \E c : /\ c # "x32"
           /\ call.nr = {c} \/ (machine = "x86_64" /\ call.nr = {c, "x32"})

Decided  == counter' = 0 /\ verdict' = Decision
Goes(w)  == /\ counter' \in 1..(Body + 84) /\ Reached(counter', w)
            /\ verdict' = verdict

LEMMA StartStep ==
    ASSUME Shaped, Filter!Execute, Reached(counter, word),
           counter \in 1..4 \/ (Body = 6 /\ counter \in 5..6)
           \/ counter \in (Body + 1)..(Body + 2)
    PROVE  Decided \/ Goes(word')
<1>1. Body \in {4, 6} /\ (Body = 6 <=> machine = "x86_64")
    BY Instructions
<1>2. Start(counter, word)
    BY DEF Reached
<1>3. CASE counter = 1
    <2>1. word' = call.arch /\ counter' = 2 /\ verdict' = verdict
        BY <1>3, Instructions, Loads
    <2>2. Start(counter', word')
        BY <1>1, <2>1 DEF Start
    <2>. QED BY <1>1, <2>1, <2>2, StartReached DEF Goes
<1>4. CASE counter = 2
    <2>1. /\ counter' = 2 + 1 + IF word = {machine} THEN 1 ELSE 0
          /\ word' = word /\ verdict' = verdict
        <3>. DEFINE k == {machine}
        <3>1. Filter!Program[counter] = Filter!Jump("equal", k, 1, 0)
            BY <1>4, Instructions
        <3>. HIDE DEF k
        <3>2. /\ counter' = counter + 1 + IF word = k THEN 1 ELSE 0
              /\ word' = word /\ verdict' = verdict
            BY <3>1, Compares
        <3>. QED BY <1>4, <3>2 DEF k
    <2>2. counter' = IF Native THEN 4 ELSE 3
        BY <1>2, <1>4, <2>1 DEF Start, Native
    <2>3. Start(counter', word')
        BY <1>1, <2>2 DEF Start
    <2>. QED BY <1>1, <2>1, <2>2, <2>3, StartReached DEF Goes
<1>5. CASE counter = 3
    <2>1. verdict' = "kill" /\ counter' = 0
        BY <1>5, Instructions, Returns
    <2>. QED BY <1>2, <1>5, <2>1 DEF Start, Decided, Decision
<1>6. CASE counter = 4
    <2>1. word' = call.nr /\ counter' = 5 /\ verdict' = verdict
        BY <1>6, Instructions, Loads
    <2>2. Native
        BY <1>2, <1>6 DEF Start
    <2>3. Body = 4 => Ordinary
        BY <1>1, <2>2 DEF Ordinary, Shaped
    <2>4. Start(counter', word')
        BY <1>1, <2>1, <2>2, <2>3 DEF Start
    <2>. QED BY <1>1, <2>1, <2>4, StartReached DEF Goes
<1>7. CASE Body = 6 /\ counter = 5
    <2>1. /\ counter' = 5 + 1 + IF "x32" \in word THEN 0 ELSE 1
          /\ word' = word /\ verdict' = verdict
        BY <1>7, Instructions, TestsBit
    <2>2. Native /\ word = call.nr
        BY <1>2, <1>7 DEF Start
    <2>3. counter' = IF "x32" \in call.nr THEN 6 ELSE 7
        BY <2>1, <2>2
    <2>4. Start(counter', word')
        BY <1>7, <2>1, <2>2, <2>3 DEF Start, Ordinary
    <2>. QED BY <1>7, <2>1, <2>3, <2>4, StartReached DEF Goes
<1>8. CASE Body = 6 /\ counter = 6
    <2>1. verdict' = "kill" /\ counter' = 0
        BY <1>8, Instructions, Returns
    <2>. QED BY <1>2, <1>8, <2>1 DEF Start, Decided, Decision
<1>9. CASE counter = Body + 1
    <2>1. /\ counter' = counter + 1 + IF word = {"clone3"} THEN 0 ELSE 1
          /\ word' = word /\ verdict' = verdict
        <3>. DEFINE k == {"clone3"}
        <3>1. Filter!Program[counter] = Filter!Jump("equal", k, 0, 1)
            BY <1>9, Instructions
        <3>. HIDE DEF k
        <3>2. /\ counter' = counter + 1 + IF word = k THEN 0 ELSE 1
              /\ word' = word /\ verdict' = verdict
            BY <3>1, Compares
        <3>. QED BY <1>9, <3>2 DEF k
    <2>2. Ordinary /\ word = call.nr
        BY <1>2, <1>9 DEF Start
    <2>3. CASE call.nr = {"clone3"}
        <3>1. counter' = Body + 2
            BY <1>1, <1>9, <2>1, <2>2, <2>3
        <3>2. Start(counter', word')
            BY <1>1, <2>2, <2>3, <3>1 DEF Start
        <3>. QED BY <1>1, <2>1, <3>1, <3>2, StartReached DEF Goes
    <2>4. CASE call.nr # {"clone3"}
        <3>1. counter' = Body + 1 + 2 * 1
            BY <1>1, <1>9, <2>1, <2>2, <2>4
        <3>2. Past(1 - 1)
            BY <2>2, <2>4 DEF Past
        <3>. QED BY <2>1, <2>2, <3>1, <3>2, RuleReached DEF Goes
    <2>. QED BY <2>3, <2>4
<1>10. CASE counter = Body + 2
    <2>1. verdict' = "ENOSYS" /\ counter' = 0
        BY <1>10, Instructions, Returns
    <2>2. Ordinary /\ call.nr = {"clone3"}
        BY <1>2, <1>10 DEF Start
    <2>. QED BY <2>1, <2>2 DEF Decided, Decision, Ordinary
<1>. QED BY <1>1, <1>3, <1>4, <1>5, <1>6, <1>7, <1>8, <1>9, <1>10

LEMMA ListStep ==
    ASSUME Shaped, Filter!Execute, Reached(counter, word), NEW i \in 1..38,
           counter = Body + 1 + 2 * i \/ counter = Body + 2 + 2 * i
    PROVE  Decided \/ Goes(word')
<1>1. Body \in {4, 6}
    BY Instructions
<1>2. List(counter, word)
    BY DEF Reached
<1>3. CASE counter = Body + 1 + 2 * i
    <2>1. /\ counter' = counter + 1 +
                 IF word = {Filter!DeniedSyscalls[i]} THEN 0 ELSE 1
          /\ word' = word /\ verdict' = verdict
        <3>. DEFINE k == {Filter!DeniedSyscalls[i]}
        <3>1. Filter!Program[counter] = Filter!Jump("equal", k, 0, 1)
            BY <1>3, Instructions
        <3>. HIDE DEF k
        <3>2. /\ counter' = counter + 1 + IF word = k THEN 0 ELSE 1
              /\ word' = word /\ verdict' = verdict
            BY <3>1, Compares
        <3>. QED BY <1>3, <3>2 DEF k
    <2>2. Past(i - 1) /\ word = call.nr
        BY <1>2, <1>3 DEF List
    <2>3. CASE call.nr = {Filter!DeniedSyscalls[i]}
        <3>1. counter' = Body + 2 + 2 * i
            BY <1>1, <1>3, <2>1, <2>2, <2>3
        <3>. QED BY <2>1, <2>2, <2>3, <3>1, MatchReached DEF Goes
    <2>4. CASE call.nr # {Filter!DeniedSyscalls[i]}
        <3>1. counter' = Body + 1 + 2 * (i + 1)
            BY <1>1, <1>3, <2>1, <2>2, <2>4
        <3>2. Past(i)
            BY <2>2, <2>4 DEF Past
        <3>3. CASE i = 38
            <4>1. counter' = Body + 79
                BY <1>1, <3>1, <3>3
            <4>2. End(Body + 79, word')
                BY <1>1, <2>1, <2>2, <3>2, <3>3 DEF End
            <4>. QED BY <1>1, <2>1, <4>1, <4>2, EndReached DEF Goes
        <3>4. CASE i # 38
            <4>1. i + 1 \in 1..38 /\ Past((i + 1) - 1)
                BY <3>2, <3>4
            <4>. QED BY <2>1, <2>2, <3>1, <4>1, RuleReached DEF Goes
        <3>. QED BY <3>3, <3>4
    <2>. QED BY <2>3, <2>4
<1>4. CASE counter = Body + 2 + 2 * i
    <2>1. verdict' = "EPERM" /\ counter' = 0
        BY <1>4, Instructions, Returns
    <2>2. Past(i - 1) /\ call.nr = {Filter!DeniedSyscalls[i]}
        BY <1>2, <1>4 DEF List
    <2>3. Filter!DeniedSyscalls[i] \in Filter!Denied
        BY Listed DEF Filter!Denied
    <2>. QED BY <2>1, <2>2, <2>3 DEF Past, Ordinary, Decided, Decision
<1>. QED BY <1>3, <1>4

LEMMA EndStep ==
    ASSUME Shaped, Filter!Execute, Reached(counter, word),
           counter \in (Body + 79)..(Body + 84)
    PROVE  Decided \/ Goes(word')
<1>1. Body \in {4, 6}
    BY Instructions
<1>2. End(counter, word) /\ Past(38)
    BY <1>1 DEF Reached, End
<1>3. \A d \in Filter!Denied : d \notin call.nr
    <2>1. ASSUME NEW d \in Filter!Denied, d \in call.nr PROVE FALSE
        <3>1. PICK j \in 1..38 : d = Filter!DeniedSyscalls[j]
            BY <2>1, Listed DEF Filter!Denied
        <3>2. call.nr = {d}
            BY <1>2, <2>1 DEF Past, Ordinary, Shaped
        <3>. QED BY <1>2, <3>1, <3>2 DEF Past
    <2>. QED BY <2>1
<1>4. Ordinary /\ call.nr # {"clone3"}
    BY <1>2 DEF Past
<1>5. CASE counter = Body + 79
    <2>1. /\ counter' = counter + 1 + IF word = {"clone"} THEN 0 ELSE 4
          /\ word' = word /\ verdict' = verdict
        <3>. DEFINE k == {"clone"}
        <3>1. Filter!Program[counter] = Filter!Jump("equal", k, 0, 4)
            BY <1>5, Instructions
        <3>. HIDE DEF k
        <3>2. /\ counter' = counter + 1 + IF word = k THEN 0 ELSE 4
              /\ word' = word /\ verdict' = verdict
            BY <3>1, Compares
        <3>. QED BY <1>5, <3>2 DEF k
    <2>2. word = call.nr
        BY <1>2, <1>5 DEF End
    <2>3. CASE call.nr = {"clone"}
        <3>1. counter' = Body + 80
            BY <1>1, <1>5, <2>1, <2>2, <2>3
        <3>2. End(Body + 80, word')
            BY <1>1, <1>2, <2>3 DEF End
        <3>. QED BY <1>1, <2>1, <3>1, <3>2, EndReached DEF Goes
    <2>4. CASE call.nr # {"clone"}
        <3>1. counter' = Body + 84
            BY <1>1, <1>5, <2>1, <2>2, <2>4
        <3>2. End(Body + 84, word')
            BY <1>1, <1>2, <2>4 DEF End
        <3>. QED BY <1>1, <2>1, <3>1, <3>2, EndReached DEF Goes
    <2>. QED BY <2>3, <2>4
<1>6. CASE counter = Body + 80
    <2>1. word' = call.arg0 /\ counter' = counter + 1 /\ verdict' = verdict
        BY <1>6, Instructions, Loads
    <2>2. call.nr = {"clone"} /\ counter' = Body + 81
        BY <1>1, <1>2, <1>6, <2>1 DEF End
    <2>3. End(Body + 81, word')
        BY <1>1, <1>2, <2>1, <2>2 DEF End
    <2>. QED BY <1>1, <2>1, <2>2, <2>3, EndReached DEF Goes
<1>7. CASE counter = Body + 81
    <2>1. /\ word' = word \cap Filter!DeniedCloneFlags
          /\ counter' = counter + 1 /\ verdict' = verdict
        BY <1>7, Instructions, Masks
    <2>2. /\ call.nr = {"clone"} /\ counter' = Body + 82 /\ word = call.arg0
        BY <1>1, <1>2, <1>7, <2>1 DEF End
    <2>3. End(Body + 82, word')
        BY <1>1, <1>2, <2>1, <2>2 DEF End
    <2>. QED BY <1>1, <2>1, <2>2, <2>3, EndReached DEF Goes
<1>8. CASE counter = Body + 82
    <2>1. /\ counter' = counter + 1 + IF word = {} THEN 1 ELSE 0
          /\ word' = word /\ verdict' = verdict
        <3>. DEFINE k == {}
        <3>1. Filter!Program[counter] = Filter!Jump("equal", k, 1, 0)
            BY <1>8, Instructions
        <3>. HIDE DEF k
        <3>2. /\ counter' = counter + 1 + IF word = k THEN 1 ELSE 0
              /\ word' = word /\ verdict' = verdict
            BY <3>1, Compares
        <3>. QED BY <1>8, <3>2 DEF k
    <2>2. call.nr = {"clone"} /\ (word # {} <=> Separates)
        BY <1>1, <1>2, <1>8 DEF End, Separates
    <2>3. CASE Separates
        <3>1. counter' = Body + 83
            BY <1>1, <1>8, <2>1, <2>2, <2>3
        <3>2. End(Body + 83, word')
            BY <1>1, <1>2, <2>2, <2>3 DEF End
        <3>. QED BY <1>1, <2>1, <3>1, <3>2, EndReached DEF Goes
    <2>4. CASE ~Separates
        <3>1. counter' = Body + 84
            BY <1>1, <1>8, <2>1, <2>2, <2>4
        <3>2. End(Body + 84, word')
            BY <1>1, <1>2, <2>2, <2>4 DEF End
        <3>. QED BY <1>1, <2>1, <3>1, <3>2, EndReached DEF Goes
    <2>. QED BY <2>3, <2>4
<1>9. CASE counter = Body + 83
    <2>1. verdict' = "EPERM" /\ counter' = 0
        BY <1>9, Instructions, Returns
    <2>2. call.nr = {"clone"} /\ Separates
        BY <1>1, <1>2, <1>9 DEF End
    <2>. QED BY <1>4, <2>1, <2>2 DEF Ordinary, Decided, Decision
<1>10. CASE counter = Body + 84
    <2>1. verdict' = "allow" /\ counter' = 0
        BY <1>10, Instructions, Returns
    <2>2. ~("clone" \in call.nr /\ Separates)
        BY <1>2, <1>4, <1>10 DEF End, Ordinary, Shaped
    <2>. QED BY <1>3, <1>4, <2>1, <2>2 DEF Ordinary, Decided, Decision
<1>. QED BY <1>1, <1>5, <1>6, <1>7, <1>8, <1>9, <1>10

\* One instruction decides, or goes on to a place whose description holds.
LEMMA ExecuteStep ==
    ASSUME Shaped, Filter!Execute, counter \in 1..(Body + 84),
           Reached(counter, word)
    PROVE  Decided \/ Goes(word')
<1>1. CASE \/ counter \in 1..4 \/ (Body = 6 /\ counter \in 5..6)
           \/ counter \in (Body + 1)..(Body + 2)
    BY <1>1, StartStep
<1>2. ASSUME NEW i \in 1..38,
             counter = Body + 1 + 2 * i \/ counter = Body + 2 + 2 * i
      PROVE  Decided \/ Goes(word')
    BY <1>2, ListStep
<1>3. CASE counter \in (Body + 79)..(Body + 84)
    BY <1>3, EndStep
<1>. QED BY <1>1, <1>2, <1>3, Positions

-----------------------------------------------------------------------------
(* The calls.                                                              *)

LEMMA NumbersShape ==
    /\ "x32" \notin Filter!Numbers /\ "clone" \in Filter!Numbers
    /\ "clone3" \in Filter!Numbers
    /\ \A i \in 1..38 : Filter!DeniedSyscalls[i] \in Filter!Numbers
<1>1. \A d \in Filter!Denied : \E i \in 1..38 : d = Filter!DeniedSyscalls[i]
    BY Listed DEF Filter!Denied
<1>2. "x32" \notin Filter!Denied
    BY <1>1, NotListed
<1>3. "x32" \notin OtherCalls
    BY FilterAssumption
<1>4. \A i \in 1..38 : Filter!DeniedSyscalls[i] \in Filter!Denied
    BY Listed DEF Filter!Denied
<1>. QED BY <1>2, <1>3, <1>4 DEF Filter!Numbers

LEMMA CallShape ==
    ASSUME NEW c \in Filter!Calls
    PROVE  /\ c # Filter!NoCall
           /\ \E t : /\ t # "x32"
                     /\ \/ c.nr = {t}
                        \/ machine = "x86_64" /\ c.nr = {t, "x32"}
<1>1. \/ c \in [arch : {{a} : a \in Foreign},
                nr : {{n} : n \in Filter!Numbers}, arg0 : Arguments]
      \/ c \in [arch : {{machine}},
                nr : {{n, "x32"} : n \in
                         {d \in Filter!Numbers : machine = "x86_64"}},
                arg0 : Arguments]
      \/ c \in [arch : {{machine}}, nr : {{n} : n \in Filter!Numbers},
                arg0 : Arguments]
    BY DEF Filter!Calls
<1>2. c.arch # {}
    BY <1>1
<1>3. c # Filter!NoCall
    BY <1>2 DEF Filter!NoCall
<1>4. \/ \E n \in Filter!Numbers : c.nr = {n}
      \/ machine = "x86_64" /\ \E n \in Filter!Numbers : c.nr = {n, "x32"}
    BY <1>1
<1>. QED BY <1>3, <1>4, NumbersShape

\* A native call with one of the arguments is a call.
LEMMA NativeCall ==
    ASSUME NEW n \in Filter!Numbers, NEW a \in Arguments
    PROVE  [arch |-> {machine}, nr |-> {n}, arg0 |-> a] \in Filter!Calls
BY DEF Filter!Calls

LEMMA ProbeShape ==
    /\ Len(Filter!ProbeCalls) = 40
    /\ \A i \in 1..38 : Filter!ProbeCalls[i] =
           [arch |-> {machine}, nr |-> {Filter!DeniedSyscalls[i]},
            arg0 |-> {}]
    /\ Filter!ProbeCalls[39] =
           [arch |-> {machine}, nr |-> {"clone"}, arg0 |-> {"NEWNS", "FS"}]
    /\ Filter!ProbeCalls[40] =
           [arch |-> {machine}, nr |-> {"clone3"}, arg0 |-> {}]
<1>. DEFINE f(i) == [arch |-> {machine}, nr |-> {Filter!DeniedSyscalls[i]},
                     arg0 |-> {}]
            x == [arch |-> {machine}, nr |-> {"clone"},
                  arg0 |-> {"NEWNS", "FS"}]
            y == [arch |-> {machine}, nr |-> {"clone3"}, arg0 |-> {}]
            any == {f(i) : i \in 1..38} \cup {x, y}
            s == [i \in 1..38 |-> f(i)]
            t == <<x, y>>
<1>1. Filter!ProbeCalls = s \o t
    BY Listed DEF Filter!ProbeCalls
<1>. HIDE DEF f, x, y
<1>2. t \in Seq(any) /\ Len(t) = 2 /\ t[1] = x /\ t[2] = y
    OBVIOUS
<1>3. s \in [1..38 -> any] /\ \A i \in 1..38 : s[i] = f(i)
    OBVIOUS
<1>. HIDE DEF any, s, t
<1>4. s \in Seq(any) /\ Len(s) = 38
    <2>1. 38 \in Nat
        OBVIOUS
    <2>2. s \in Seq(any)
        BY <1>3, <2>1, SeqOf
    <2>3. Len(s) = 38
        BY <1>3, <2>2, LenProperties
    <2>. QED BY <2>2, <2>3
<1>5. s \in Seq(any) /\ t \in Seq(any)
    BY <1>2, <1>4
<1>6. /\ Len(s \o t) = Len(s) + Len(t)
      /\ \A i \in 1..Len(s) : (s \o t)[i] = s[i]
      /\ \A i \in 1..Len(t) : (s \o t)[Len(s) + i] = t[i]
    BY <1>5, ConcatTwo
<1>. DEFINE p == s \o t
<1>. HIDE DEF p
<1>7. /\ Len(p) = 40 /\ \A i \in 1..38 : p[i] = f(i)
      /\ p[39] = x /\ p[40] = y
    <2>1. \A i \in 1..2 : p[38 + i] = t[i]
        BY <1>2, <1>4, <1>6 DEF p
    <2>2. p[38 + 1] = x /\ p[38 + 2] = y
        BY <1>2, <2>1
    <2>3. \A i \in 1..38 : p[i] = s[i]
        BY <1>4, <1>6 DEF p
    <2>4. Len(p) = 38 + 2
        BY <1>2, <1>4, <1>6 DEF p
    <2>. QED BY <1>3, <2>2, <2>3, <2>4
<1>. QED BY <1>1, <1>7 DEF p, f, x, y

LEMMA ProbeIssues ==
    ASSUME NEW i \in 1..40
    PROVE  Filter!ProbeCalls[i] \in Filter!Calls
<1>1. {} \in Arguments /\ {"NEWNS", "FS"} \in Arguments
    BY FilterAssumption
<1>2. CASE i \in 1..38
    <2>. DEFINE n == Filter!DeniedSyscalls[i]
                a == {}
    <2>1. n \in Filter!Numbers /\ a \in Arguments
        BY <1>1, <1>2, NumbersShape
    <2>2. Filter!ProbeCalls[i] = [arch |-> {machine}, nr |-> {n}, arg0 |-> a]
        BY <1>2, ProbeShape
    <2>. HIDE DEF n, a
    <2>. QED BY <2>1, <2>2, NativeCall
<1>3. CASE i = 39
    <2>. DEFINE n == "clone"
                a == {"NEWNS", "FS"}
    <2>1. n \in Filter!Numbers /\ a \in Arguments
        BY <1>1, NumbersShape
    <2>2. Filter!ProbeCalls[i] = [arch |-> {machine}, nr |-> {n}, arg0 |-> a]
        BY <1>3, ProbeShape
    <2>. HIDE DEF n, a
    <2>. QED BY <2>1, <2>2, NativeCall
<1>4. CASE i = 40
    <2>. DEFINE n == "clone3"
                a == {}
    <2>1. n \in Filter!Numbers /\ a \in Arguments
        BY <1>1, NumbersShape
    <2>2. Filter!ProbeCalls[i] = [arch |-> {machine}, nr |-> {n}, arg0 |-> a]
        BY <1>4, ProbeShape
    <2>. HIDE DEF n, a
    <2>. QED BY <2>1, <2>2, NativeCall
<1>. QED BY <1>2, <1>3, <1>4

\* What the filter decides of the probe's calls is what the probe expects.
LEMMA ProbeDecision ==
    ASSUME NEW i \in 1..40, call = Filter!ProbeCalls[i]
    PROVE  Decision = Filter!Expected(call.nr)
<1>1. CASE i \in 1..38
    <2>1. /\ call.arch = {machine} /\ call.nr = {Filter!DeniedSyscalls[i]}
        BY <1>1, ProbeShape
    <2>2. /\ "x32" \notin call.nr /\ call.nr # {"clone3"}
          /\ Filter!DeniedSyscalls[i] \in call.nr
        BY <1>1, <2>1, NotListed
    <2>3. Filter!DeniedSyscalls[i] \in Filter!Denied
        BY <1>1, Listed DEF Filter!Denied
    <2>. QED BY <2>1, <2>2, <2>3 DEF Decision, Native, Filter!Expected
<1>2. CASE i = 39
    <2>1. /\ call.arch = {machine} /\ call.nr = {"clone"}
          /\ call.arg0 = {"NEWNS", "FS"}
        BY <1>2, ProbeShape
    <2>2. Separates
        BY <2>1 DEF Separates, Filter!DeniedCloneFlags
    <2>. QED BY <2>1, <2>2 DEF Decision, Native, Filter!Expected
<1>3. CASE i = 40
    <2>1. call.arch = {machine} /\ call.nr = {"clone3"}
        BY <1>3, ProbeShape
    <2>. QED BY <2>1 DEF Decision, Native, Filter!Expected
<1>. QED BY <1>1, <1>2, <1>3

\* A call that is allowed enters no namespace.
LEMMA AllowedStays ==
    ASSUME Shaped, Decision = "allow"
    PROVE  ~Filter!Enters(call)
<1>1. /\ "x32" \notin call.nr /\ call.nr # {"clone3"}
      /\ \A d \in Filter!Denied : d \notin call.nr
      /\ ~("clone" \in call.nr /\ Separates)
    BY DEF Decision
<1>2. "clone3" \notin call.nr
    BY <1>1 DEF Shaped
<1>3. "unshare" \in Filter!Denied /\ "setns" \in Filter!Denied
    BY Listed DEF Filter!Denied
<1>. QED BY <1>1, <1>2, <1>3 DEF Filter!Enters, Separates

-----------------------------------------------------------------------------
(* The inductive invariant of the filter and its probe.                    *)

FilterTypes ==
    /\ machine \in Filter!Machines
    /\ child \in {"none", "forked", "armed", "refused", "tool", "probe",
                  "killed", "reported"}
    /\ installed \in BOOLEAN /\ blocked \in BOOLEAN /\ entered \in BOOLEAN
    /\ call = Filter!NoCall \/ call \in Filter!Calls
    /\ counter \in 0..(Body + 84) /\ asked \in 0..40
    /\ verdict \in {"none", "kill", "ENOSYS", "EPERM", "allow", "EINVAL"}

\* A call is in progress only with the tool or the probe, the filter runs
\* only on a call, and the tool runs only behind the filter.
FilterOrder ==
    /\ child \in {"none", "forked", "armed", "refused"} => ~installed
    /\ child \in {"tool", "killed"} => installed
    /\ ~entered
    /\ child \notin {"tool", "probe"} => call = Filter!NoCall
    /\ call = Filter!NoCall => counter = 0 /\ verdict = "none"
    /\ counter > 0 => installed /\ verdict = "none"

\* The filter is where its instructions lead, and ends with the decision.
FilterPlace ==
    /\ counter > 0 => Reached(counter, word)
    /\ installed /\ counter = 0 /\ call # Filter!NoCall =>
           verdict = Decision

\* The probe asks in order; without the filter, clone gives it away.
FilterProbe ==
    /\ child \notin {"probe", "reported"} => asked = 0 /\ blocked
    /\ child = "probe" /\ call # Filter!NoCall =>
           asked < 40 /\ call = Filter!ProbeCalls[asked + 1]
    /\ child = "reported" => asked = 40
    /\ installed => blocked
    /\ child = "probe" /\ ~installed /\ call.nr = {"clone"} =>
           verdict \in {"none", "EINVAL"}
    /\ ~installed /\ asked > 38 => ~blocked

FilterInv == FilterTypes /\ FilterOrder /\ FilterPlace /\ FilterProbe

\* The machine decides what the calls and the program are.
LEMMA SameMachine ==
    ASSUME machine' = machine
    PROVE  /\ Body' = Body /\ Filter!Calls' = Filter!Calls
           /\ Filter!ProbeCalls' = Filter!ProbeCalls
<1>1. Body' = Body
    BY DEF Body
<1>2. Filter!Calls' = Filter!Calls
    BY DEF Filter!Calls, Filter!Numbers, Filter!Denied, Filter!DeniedSyscalls
<1>3. Filter!ProbeCalls' = Filter!ProbeCalls
    BY DEF Filter!ProbeCalls, Filter!DeniedSyscalls
<1>. QED BY <1>1, <1>2, <1>3

LEMMA SameCall ==
    ASSUME machine' = machine, call' = call
    PROVE  /\ Decision' = Decision
           /\ Reached(counter', word') => Reached(counter, word)'
<1>1. Body' = Body
    BY SameMachine
<1>2. Decision' = Decision
    BY DEF Decision, Native, Separates, Filter!Denied, Filter!DeniedSyscalls,
           Filter!DeniedCloneFlags
<1>3. /\ Native' = Native /\ Ordinary' = Ordinary /\ Separates' = Separates
    BY DEF Native, Ordinary, Separates, Filter!DeniedCloneFlags
<1>4. Start(counter', word') => Start(counter, word)'
    BY <1>1, <1>3 DEF Start
<1>5. List(counter', word') => List(counter, word)'
    <2>1. Filter!DeniedSyscalls' = Filter!DeniedSyscalls
        BY DEF Filter!DeniedSyscalls
    <2>. QED BY <1>1, <1>3, <2>1 DEF List, Past
<1>6. End(counter', word') => End(counter, word)'
    BY <1>1, <1>3 DEF End, Past, Filter!DeniedSyscalls,
                      Filter!DeniedCloneFlags
<1>. QED BY <1>2, <1>4, <1>5, <1>6 DEF Reached

\* A call in progress has a shape, and the filter has a decision for it.
LEMMA InProgress ==
    ASSUME FilterInv, call # Filter!NoCall
    PROVE  Shaped /\ Decision # "none"
<1>1. call \in Filter!Calls
    BY DEF FilterInv, FilterTypes
<1>2. Shaped
    BY <1>1, CallShape DEF Shaped
<1>. QED BY <1>2 DEF Decision

\* A call begins.
LEMMA IssueStep ==
    ASSUME FilterInv, NEW c \in Filter!Calls, Filter!Issue(c),
           machine' = machine, child' = child, installed' = installed,
           asked' = asked, blocked' = blocked, entered' = entered,
           child \in {"tool", "probe"}, child = "tool" => installed,
           child = "probe" => asked < 40 /\ c = Filter!ProbeCalls[asked + 1]
    PROVE  FilterInv'
<1>1. Body \in {4, 6} /\ Body' = Body /\ Filter!Calls' = Filter!Calls
      /\ Filter!ProbeCalls' = Filter!ProbeCalls
    BY Instructions, SameMachine
<1>2. c # Filter!NoCall /\ Filter!NoCall' = Filter!NoCall
    BY CallShape DEF Filter!NoCall
<1>3. /\ call' = c /\ verdict' = "none"
      /\ counter' = IF installed THEN 1 ELSE 0
    BY DEF Filter!Issue
<1>4. FilterTypes'
    BY <1>1, <1>3 DEF FilterInv, FilterTypes, Filter!Machines
<1>5. FilterOrder'
    BY <1>2, <1>3 DEF FilterInv, FilterOrder
<1>6. FilterPlace'
    <2>1. CASE installed
        <3>1. counter' = 1
            BY <1>3, <2>1
        <3>2. Start(counter, word)'
            BY <1>1, <3>1 DEF Start
        <3>3. List(counter, word)'
            BY <1>1, <3>1 DEF List
        <3>4. End(counter, word)'
            BY <1>1, <3>1 DEF End
        <3>. QED BY <3>1, <3>2, <3>3, <3>4 DEF FilterPlace, Reached
    <2>2. CASE ~installed
        BY <1>3, <2>2 DEF FilterPlace
    <2>. QED BY <2>1, <2>2 DEF FilterInv, FilterTypes
<1>7. FilterProbe'
    BY <1>1, <1>2, <1>3 DEF FilterInv, FilterProbe
<1>. QED BY <1>4, <1>5, <1>6, <1>7 DEF FilterInv

\* The call is answered, and none is in progress.
LEMMA AnsweredStep ==
    ASSUME FilterInv, machine' = machine, counter = 0, counter' = counter,
           call' = Filter!NoCall, verdict' = "none"
    PROVE  /\ Body' = Body /\ FilterPlace'
           /\ call' = Filter!NoCall'
<1>1. Filter!NoCall' = Filter!NoCall
    BY DEF Filter!NoCall
<1>. QED BY <1>1, SameMachine DEF FilterPlace

\* Every step of the filter, its tool or its probe keeps the invariant.
LEMMA FilterStep ==
    ASSUME FilterInv, Filter!Next
    PROVE  FilterInv'
<1>. USE DEF FilterInv
<1>1. /\ FilterTypes /\ FilterOrder /\ FilterPlace /\ FilterProbe
      /\ Body \in {4, 6} /\ Filter!NoCall' = Filter!NoCall
    BY Instructions DEF Filter!NoCall
<1>2. CASE Filter!Fork \/ Filter!Regressed
    <2>1. /\ child = "none" /\ machine' \in Filter!Machines
          /\ child' \in {"forked", "probe"}
          /\ installed' = installed /\ call' = call /\ counter' = counter
          /\ verdict' = verdict /\ asked' = asked /\ blocked' = blocked
          /\ entered' = entered
        BY <1>2 DEF Filter!Fork, Filter!Regressed
    <2>2. /\ call = Filter!NoCall /\ counter = 0 /\ ~installed
          /\ verdict = "none" /\ asked = 0 /\ blocked
        BY <1>1, <2>1 DEF FilterOrder, FilterProbe
    <2>3. FilterTypes'
        <3>1. 0 \in 0..(Body' + 84)
            BY DEF Body
        <3>2. counter' \in 0..(Body' + 84)
            BY <2>1, <2>2, <3>1
        <3>3. /\ installed' \in BOOLEAN /\ blocked' \in BOOLEAN
              /\ entered' \in BOOLEAN /\ asked' \in 0..40
            BY <1>1, <2>1 DEF FilterTypes
        <3>. QED BY <1>1, <2>1, <2>2, <3>2, <3>3
                 DEF FilterTypes, Filter!Machines
    <2>4. FilterOrder'
        BY <1>1, <2>1, <2>2 DEF FilterOrder
    <2>5. FilterPlace'
        BY <1>1, <2>1, <2>2 DEF FilterPlace
    <2>6. FilterProbe'
        BY <1>1, <2>1, <2>2 DEF FilterProbe
    <2>. QED BY <2>3, <2>4, <2>5, <2>6
<1>3. CASE Filter!SetNoNewPrivileges \/ Filter!Install
    <2>1. /\ child \in {"forked", "armed"} /\ machine' = machine
          /\ child' \in {"armed", "refused", "tool", "probe"}
          /\ child' \in {"tool", "probe"} => installed' = TRUE
          /\ child' \in {"armed", "refused"} => installed' = installed
          /\ call' = call /\ counter' = counter
          /\ verdict' = verdict /\ asked' = asked /\ blocked' = blocked
          /\ entered' = entered
        BY <1>3 DEF Filter!SetNoNewPrivileges, Filter!Install
    <2>2. /\ call = Filter!NoCall /\ counter = 0 /\ ~installed
          /\ verdict = "none" /\ asked = 0 /\ blocked
        BY <1>1, <2>1 DEF FilterOrder, FilterProbe
    <2>3. FilterTypes'
        BY <1>1, <2>1, <2>2, SameMachine DEF FilterTypes, Filter!Machines
    <2>4. FilterOrder'
        BY <1>1, <2>1, <2>2 DEF FilterOrder
    <2>5. FilterPlace'
        BY <1>1, <2>1, <2>2 DEF FilterPlace
    <2>6. FilterProbe'
        BY <1>1, <2>1, <2>2 DEF FilterProbe
    <2>. QED BY <2>3, <2>4, <2>5, <2>6
<1>4. CASE Filter!ToolCalls
    <2>1. PICK c \in Filter!Calls : Filter!Issue(c)
        BY <1>4 DEF Filter!ToolCalls
    <2>2. /\ child = "tool" /\ machine' = machine /\ child' = child
          /\ installed' = installed /\ asked' = asked /\ blocked' = blocked
          /\ entered' = entered
        BY <1>4 DEF Filter!ToolCalls
    <2>3. installed
        BY <1>1, <2>2 DEF FilterOrder
    <2>. QED BY <2>1, <2>2, <2>3, IssueStep
<1>5. CASE Filter!ProbeAsks
    <2>. DEFINE c == Filter!ProbeCalls[asked + 1]
    <2>1. /\ child = "probe" /\ machine' = machine /\ child' = child
          /\ installed' = installed /\ asked' = asked /\ blocked' = blocked
          /\ entered' = entered /\ Filter!Issue(c) /\ asked < 40
        BY <1>5, ProbeShape DEF Filter!ProbeAsks
    <2>2. asked + 1 \in 1..40
        BY <1>1, <2>1 DEF FilterTypes
    <2>3. c \in Filter!Calls
        BY <2>2, ProbeIssues
    <2>. QED BY <2>1, <2>3, IssueStep
<1>6. CASE Filter!Execute
    <2>1. /\ counter > 0 /\ machine' = machine /\ child' = child
          /\ installed' = installed /\ call' = call /\ asked' = asked
          /\ blocked' = blocked /\ entered' = entered
        BY <1>6 DEF Filter!Execute
    <2>2. /\ counter \in 1..(Body + 84) /\ Reached(counter, word)
          /\ installed /\ verdict = "none" /\ call # Filter!NoCall
        BY <1>1, <2>1 DEF FilterTypes, FilterOrder, FilterPlace
    <2>3. Shaped /\ Decision # "none"
        BY <2>2, InProgress
    <2>4. Decided \/ Goes(word')
        BY <1>6, <2>2, <2>3, ExecuteStep
    <2>5. /\ Body' = Body /\ Filter!Calls' = Filter!Calls
          /\ Filter!ProbeCalls' = Filter!ProbeCalls
        BY <2>1, SameMachine
    <2>6. /\ Decision' = Decision
          /\ Reached(counter', word') => Reached(counter, word)'
        BY <2>1, SameCall
    <2>7. /\ counter' \in 0..(Body + 84)
          /\ counter' > 0 => Reached(counter, word)' /\ verdict' = "none"
          /\ counter' = 0 => verdict' = Decision
        BY <1>1, <2>2, <2>4, <2>6 DEF Decided, Goes
    <2>8. verdict' \in {"none", "kill", "ENOSYS", "EPERM", "allow"}
        BY <2>7 DEF Decision
    <2>9. FilterTypes'
        BY <1>1, <2>1, <2>5, <2>7, <2>8 DEF FilterTypes, Filter!Machines
    <2>10. FilterOrder'
        BY <1>1, <2>1, <2>2, <2>7 DEF FilterOrder
    <2>11. FilterPlace'
        BY <2>6, <2>7 DEF FilterPlace
    <2>12. FilterProbe'
        BY <1>1, <2>1, <2>2, <2>5 DEF FilterProbe
    <2>. QED BY <2>9, <2>10, <2>11, <2>12
<1>7. CASE Filter!Return
    <2>1. /\ child = "tool" /\ counter = 0 /\ verdict # "none"
          /\ child' \in {"tool", "killed"}
          /\ entered' = (entered \/ (verdict = "allow" /\ Filter!Enters(call)))
          /\ call' = Filter!NoCall /\ verdict' = "none"
          /\ machine' = machine /\ installed' = installed
          /\ counter' = counter /\ asked' = asked /\ blocked' = blocked
        BY <1>7 DEF Filter!Return
    <2>2. call # Filter!NoCall /\ installed /\ ~entered
        BY <1>1, <2>1 DEF FilterOrder
    <2>3. Shaped /\ verdict = Decision
        BY <1>1, <2>1, <2>2, InProgress DEF FilterPlace
    <2>4. ~(verdict = "allow" /\ Filter!Enters(call))
        BY <2>3, AllowedStays
    <2>5. entered' = FALSE
        BY <2>1, <2>2, <2>4
    <2>6. Body' = Body /\ FilterPlace' /\ call' = Filter!NoCall'
        BY <2>1, AnsweredStep
    <2>7. FilterTypes'
        BY <1>1, <2>1, <2>5, <2>6 DEF FilterTypes, Filter!Machines
    <2>8. FilterOrder'
        BY <1>1, <2>1, <2>2, <2>5, <2>6 DEF FilterOrder
    <2>9. FilterProbe'
        BY <1>1, <2>1, <2>2, <2>6 DEF FilterProbe
    <2>. QED BY <2>6, <2>7, <2>8, <2>9
<1>8. CASE Filter!KernelAnswers
    <2>1. /\ child = "probe" /\ counter = 0 /\ verdict = "none"
          /\ call # Filter!NoCall
          /\ verdict' \in {"allow", "EINVAL", "EPERM"}
          /\ call.nr = {"clone"} => verdict' = "EINVAL"
          /\ machine' = machine /\ child' = child /\ installed' = installed
          /\ call' = call /\ counter' = counter /\ asked' = asked
          /\ blocked' = blocked /\ entered' = entered
        BY <1>8 DEF Filter!KernelAnswers, Filter!OwnMemory
    <2>2. ~installed
        BY <1>1, <2>1, InProgress DEF FilterTypes, FilterPlace
    <2>3. /\ Body' = Body /\ Filter!Calls' = Filter!Calls
          /\ Filter!ProbeCalls' = Filter!ProbeCalls
        BY <2>1, SameMachine
    <2>4. FilterTypes'
        BY <1>1, <2>1, <2>3 DEF FilterTypes, Filter!Machines
    <2>5. FilterOrder'
        BY <1>1, <2>1 DEF FilterOrder
    <2>6. FilterPlace'
        BY <2>1, <2>2 DEF FilterPlace
    <2>7. FilterProbe'
        BY <1>1, <2>1, <2>3 DEF FilterProbe
    <2>. QED BY <2>4, <2>5, <2>6, <2>7
<1>9. CASE Filter!ProbeNotes
    <2>1. /\ child = "probe" /\ counter = 0 /\ verdict # "none"
          /\ blocked' = (blocked /\ verdict = Filter!Expected(call.nr))
          /\ asked' = asked + 1
          /\ call' = Filter!NoCall /\ verdict' = "none"
          /\ machine' = machine /\ child' = child /\ installed' = installed
          /\ counter' = counter /\ entered' = entered
        BY <1>9 DEF Filter!ProbeNotes
    <2>2. /\ call # Filter!NoCall /\ asked < 40
          /\ call = Filter!ProbeCalls[asked + 1] /\ asked \in 0..40
        BY <1>1, <2>1 DEF FilterTypes, FilterOrder, FilterProbe
    <2>3. asked + 1 \in 1..40
        BY <2>2
    <2>4. Body' = Body /\ FilterPlace' /\ call' = Filter!NoCall'
        BY <2>1, AnsweredStep
    <2>5. installed => blocked'
        <3>1. Decision = Filter!Expected(call.nr)
            BY <2>2, <2>3, ProbeDecision
        <3>. QED BY <1>1, <2>1, <2>2, <3>1 DEF FilterPlace, FilterProbe
    <2>6. ~installed /\ asked' > 38 => ~blocked'
        <3>1. CASE asked = 38 /\ ~installed
            <4>1. call.nr = {"clone"}
                BY <2>2, <3>1, ProbeShape
            <4>2. verdict = "EINVAL"
                BY <1>1, <2>1, <3>1, <4>1 DEF FilterProbe
            <4>. QED BY <2>1, <4>1, <4>2 DEF Filter!Expected
        <3>2. CASE asked > 38 /\ ~installed
            BY <1>1, <2>1, <3>2 DEF FilterProbe
        <3>. QED BY <2>1, <2>2, <3>1, <3>2
    <2>7. FilterTypes'
        BY <1>1, <2>1, <2>3, <2>4 DEF FilterTypes, Filter!Machines
    <2>8. FilterOrder'
        BY <1>1, <2>1, <2>4 DEF FilterOrder
    <2>9. FilterProbe'
        BY <1>1, <2>1, <2>4, <2>5, <2>6 DEF FilterProbe
    <2>. QED BY <2>4, <2>7, <2>8, <2>9
<1>10. CASE Filter!ProbeReports
    <2>1. /\ child = "probe" /\ counter = 0 /\ call = Filter!NoCall
          /\ asked = 40 /\ child' = "reported"
          /\ call' = call /\ verdict' = verdict
          /\ machine' = machine /\ installed' = installed
          /\ counter' = counter /\ entered' = entered /\ asked' = asked
          /\ blocked' = blocked
        BY <1>10, ProbeShape DEF Filter!ProbeReports
    <2>2. FilterTypes'
        BY <1>1, <2>1, SameMachine DEF FilterTypes, Filter!Machines
    <2>3. FilterOrder'
        BY <1>1, <2>1 DEF FilterOrder
    <2>4. FilterPlace'
        BY <1>1, <2>1 DEF FilterPlace
    <2>5. FilterProbe'
        BY <1>1, <2>1 DEF FilterProbe
    <2>. QED BY <2>2, <2>3, <2>4, <2>5
<1>. QED BY <1>2, <1>3, <1>4, <1>5, <1>6, <1>7, <1>8, <1>9, <1>10
         DEF Filter!Next

LEMMA FilterInit ==
    ASSUME Filter!Init
    PROVE  FilterInv
<1>1. Body \in {4, 6}
    BY Instructions
<1>2. FilterTypes
    <2>1. /\ machine = "x86_64" /\ child = "none" /\ verdict = "none"
          /\ installed = FALSE /\ blocked = TRUE /\ entered = FALSE
          /\ call = Filter!NoCall /\ counter = 0 /\ asked = 0
        BY DEF Filter!Init
    <2>2. counter \in 0..(Body + 84) /\ asked \in 0..40
        BY <1>1, <2>1
    <2>. QED BY <2>1, <2>2 DEF Filter!Machines, FilterTypes
<1>3. FilterOrder
    BY DEF Filter!Init, FilterOrder
<1>4. FilterPlace
    BY DEF Filter!Init, FilterPlace
<1>5. FilterProbe
    BY DEF Filter!Init, FilterProbe
<1>. QED BY <1>2, <1>3, <1>4, <1>5 DEF FilterInv

LEMMA FilterStays ==
    ASSUME FilterInv, UNCHANGED filter
    PROVE  FilterInv'
<1>1. /\ machine' = machine /\ child' = child /\ installed' = installed
      /\ call' = call /\ counter' = counter /\ word' = word
      /\ verdict' = verdict /\ asked' = asked /\ blocked' = blocked
      /\ entered' = entered
    BY DEF filter
<1>2. /\ Body' = Body /\ Filter!Calls' = Filter!Calls
      /\ Filter!ProbeCalls' = Filter!ProbeCalls
      /\ Filter!NoCall' = Filter!NoCall
    BY <1>1, SameMachine DEF Filter!NoCall
<1>3. /\ Decision' = Decision
      /\ Reached(counter', word') => Reached(counter, word)'
    BY <1>1, SameCall
<1>4. FilterTypes'
    BY <1>1, <1>2 DEF FilterInv, FilterTypes, Filter!Machines
<1>5. FilterOrder'
    BY <1>1, <1>2 DEF FilterInv, FilterOrder
<1>6. FilterPlace'
    BY <1>1, <1>2, <1>3 DEF FilterInv, FilterPlace
<1>7. FilterProbe'
    BY <1>1, <1>2 DEF FilterInv, FilterProbe
<1>. QED BY <1>4, <1>5, <1>6, <1>7 DEF FilterInv

LEMMA FilterInvExact ==
    ASSUME FilterInv
    PROVE  FilterExact
<1>1. FilterTypes /\ FilterOrder /\ FilterPlace /\ FilterProbe
    BY DEF FilterInv
<1>2. Filter!TypeOK
    BY <1>1, Instructions, ProbeShape DEF FilterTypes, Filter!TypeOK
<1>3. Filter!FilterDecides
    <2>1. ASSUME installed, verdict # "none" PROVE verdict = Decision
        BY <1>1, <2>1 DEF FilterTypes, FilterOrder, FilterPlace
    <2>. QED BY <2>1 DEF Filter!FilterDecides, Decision, Native, Separates
<1>4. Filter!NamespaceKept
    BY <1>1 DEF FilterOrder, Filter!NamespaceKept
<1>5. Filter!ProbeExact
    BY <1>1 DEF FilterProbe, Filter!ProbeExact
<1>. QED BY <1>2, <1>3, <1>4, <1>5 DEF FilterExact, Filter!FilterExact

\* On both machines and for every call the instructions of the filter end
\* with the decision its list states; the jumps stay inside the program; the
\* tool enters no namespace of its own making; and the probe that `guard test`
\* runs reports the calls blocked exactly when the filter is in force.
THEOREM FilterIsExact == PreparationSpec => []FilterExact
<1>1. PreparationInit => FilterInv
    BY FilterInit DEF PreparationInit
<1>2. FilterInv /\ [PreparationNext]_everything => FilterInv'
    <2>. SUFFICES ASSUME FilterInv, [PreparationNext]_everything
                  PROVE  FilterInv'
        OBVIOUS
    <2>1. CASE Filter!Next
        BY <2>1, FilterStep
    <2>2. CASE UNCHANGED filter
        BY <2>2, FilterStays
    <2>. QED BY <2>1, <2>2 DEF PreparationNext, GuestStep, everything
<1>3. FilterInv => FilterExact
    BY FilterInvExact
<1>. QED BY <1>1, <1>2, <1>3, PTL DEF PreparationSpec

-----------------------------------------------------------------------------
(* Paths and mount plans.                                                  *)

Paths == Seq(Components)
Ops   == [kind : {"tmpfs", "optional", "ro", "rw", "absent"},
          source : Paths, at : Paths]

LEMMA WithinMeans ==
    ASSUME NEW path \in Paths, NEW root \in Paths
    PROVE  Sandbox!Within(path, root) <=>
               /\ Len(root) <= Len(path)
               /\ \A i \in 1..Len(root) : root[i] = path[i]
<1>. USE DEF Paths
<1>. DEFINE n == Len(root)
<1>1. n \in Nat /\ Len(path) \in Nat
    BY LenProperties
<1>2. Sandbox!Within(path, root) <=>
          n <= Len(path) /\ SubSeq(root, 1, n) = SubSeq(path, 1, n)
    BY DEF Sandbox!Within, Sandbox!IsPrefix
<1>3. CASE n <= Len(path)
    <2>1. /\ SubSeq(root, 1, n) \in Seq(Components)
          /\ Len(SubSeq(root, 1, n)) = n
          /\ \A i \in 1..n : SubSeq(root, 1, n)[i] = root[i]
        BY <1>1, SubSeqProperties
    <2>2. /\ SubSeq(path, 1, n) \in Seq(Components)
          /\ Len(SubSeq(path, 1, n)) = n
          /\ \A i \in 1..n : SubSeq(path, 1, n)[i] = path[i]
        BY <1>1, <1>3, SubSeqProperties
    <2>. DEFINE a == SubSeq(root, 1, n)
                b == SubSeq(path, 1, n)
    <2>3. a = b <=> \A i \in 1..n : a[i] = b[i]
        <3>. HIDE DEF a, b, n
        <3>1. a \in Seq(Components) /\ b \in Seq(Components) /\ Len(a) = Len(b)
              /\ Len(a) = n
            BY <2>1, <2>2 DEF a, b
        <3>2. (\A i \in 1..Len(a) : a[i] = b[i]) => a = b
            BY <3>1, SeqEqual
        <3>. QED BY <3>1, <3>2
    <2>. QED BY <1>2, <1>3, <2>1, <2>2, <2>3
<1>4. CASE ~(n <= Len(path))
    BY <1>2, <1>4
<1>. QED BY <1>3, <1>4

\* No mount of the sequence is at the path or above it.
Avoids(p, path) == \A i \in 1..Len(p) : ~Sandbox!Within(path, p[i].at)

\* The mount m is the last of the sequence at the path or above it.
Ends(p, path, m) ==
    \E k \in 1..Len(p) :
        /\ p[k] = m
        /\ \A i \in 1..Len(p) : i > k => ~Sandbox!Within(path, p[i].at)

\* Only the mounts of S are writable.
WritesOnly(p, S) == \A i \in 1..Len(p) : p[i].kind = "rw" => p[i] \in S

\* No two writable mounts have a file in common.
Apart(p) ==
    \A i, j \in 1..Len(p) :
        i # j /\ p[i].kind = "rw" /\ p[j].kind = "rw" =>
            ~Sandbox!Within(p[i].source, p[j].source)

LEMMA ConcatSplits ==
    ASSUME NEW s \in Seq(Ops), NEW t \in Seq(Ops)
    PROVE  /\ s \o t \in Seq(Ops) /\ Len(s) \in Nat /\ Len(t) \in Nat
           /\ Len(s \o t) = Len(s) + Len(t)
           /\ \A i \in 1..Len(s) : i \in 1..Len(s \o t) /\ (s \o t)[i] = s[i]
           /\ \A i \in 1..Len(t) : /\ Len(s) + i \in 1..Len(s \o t)
                                   /\ (s \o t)[Len(s) + i] = t[i]
           /\ \A i \in 1..Len(s \o t) :
                 \/ i \in 1..Len(s)
                 \/ \E j \in 1..Len(t) : i = Len(s) + j
<1>. DEFINE p == s \o t
            m == Len(s)
            n == Len(t)
<1>1. m \in Nat /\ n \in Nat
    BY LenProperties
<1>2. /\ p \in Seq(Ops) /\ Len(p) = m + n
      /\ \A i \in 1..m : p[i] = s[i]
      /\ \A i \in 1..n : p[m + i] = t[i]
    BY ConcatTwo
<1>. HIDE DEF p, m, n
<1>3. \A i \in 1..m : i \in 1..Len(p)
    BY <1>1, <1>2
<1>4. \A i \in 1..n : m + i \in 1..Len(p)
    BY <1>1, <1>2
<1>5. ASSUME NEW i \in 1..Len(p), i \notin 1..m
      PROVE  \E j \in 1..n : i = m + j
    <2>1. i - m \in 1..n /\ i = m + (i - m)
        BY <1>1, <1>2, <1>5
    <2>. QED BY <2>1
<1>. QED BY <1>1, <1>2, <1>3, <1>4, <1>5 DEF p, m, n

LEMMA ConcatAvoids ==
    ASSUME NEW s \in Seq(Ops), NEW t \in Seq(Ops), NEW path,
           Avoids(s, path), Avoids(t, path)
    PROVE  Avoids(s \o t, path)
<1>. DEFINE p == s \o t
<1>1. /\ \A i \in 1..Len(s) : p[i] = s[i]
      /\ \A i \in 1..Len(t) : p[Len(s) + i] = t[i]
      /\ \A i \in 1..Len(p) :
            i \in 1..Len(s) \/ \E j \in 1..Len(t) : i = Len(s) + j
    BY ConcatSplits
<1>. HIDE DEF p
<1>. SUFFICES Avoids(p, path)
    BY DEF p
<1>. QED BY <1>1 DEF Avoids

\* The last mount of the first part stays the last when the second avoids
\* the path; the last of the second part is the last.
LEMMA ConcatEnds ==
    ASSUME NEW s \in Seq(Ops), NEW t \in Seq(Ops), NEW path, NEW m,
           (Ends(s, path, m) /\ Avoids(t, path)) \/ Ends(t, path, m)
    PROVE  Ends(s \o t, path, m)
<1>. DEFINE p == s \o t
<1>1. /\ Len(s) \in Nat /\ Len(t) \in Nat
      /\ \A i \in 1..Len(s) : i \in 1..Len(p) /\ p[i] = s[i]
      /\ \A i \in 1..Len(t) : Len(s) + i \in 1..Len(p) /\ p[Len(s) + i] = t[i]
      /\ \A i \in 1..Len(p) :
            i \in 1..Len(s) \/ \E j \in 1..Len(t) : i = Len(s) + j
    BY ConcatSplits
<1>. HIDE DEF p
<1>. SUFFICES Ends(p, path, m)
    BY DEF p
<1>2. CASE Ends(s, path, m) /\ Avoids(t, path)
    <2>1. PICK k \in 1..Len(s) :
              /\ s[k] = m
              /\ \A i \in 1..Len(s) :
                     i > k => ~Sandbox!Within(path, s[i].at)
        BY <1>2 DEF Ends
    <2>2. ASSUME NEW i \in 1..Len(p), i > k
          PROVE  ~Sandbox!Within(path, p[i].at)
        <3>1. CASE i \in 1..Len(s)
            BY <1>1, <2>1, <2>2, <3>1
        <3>2. ASSUME NEW j \in 1..Len(t), i = Len(s) + j
              PROVE  ~Sandbox!Within(path, p[i].at)
            BY <1>1, <1>2, <3>2 DEF Avoids
        <3>. QED BY <1>1, <3>1, <3>2
    <2>3. k \in 1..Len(p) /\ p[k] = m
        BY <1>1, <2>1
    <2>. QED BY <2>2, <2>3 DEF Ends
<1>3. CASE Ends(t, path, m)
    <2>1. PICK k \in 1..Len(t) :
              /\ t[k] = m
              /\ \A i \in 1..Len(t) :
                     i > k => ~Sandbox!Within(path, t[i].at)
        BY <1>3 DEF Ends
    <2>2. ASSUME NEW i \in 1..Len(p), i > Len(s) + k
          PROVE  ~Sandbox!Within(path, p[i].at)
        <3>1. i \notin 1..Len(s)
            BY <1>1, <2>2
        <3>2. PICK j \in 1..Len(t) : i = Len(s) + j
            BY <1>1, <3>1
        <3>3. j > k
            BY <1>1, <2>2, <3>2
        <3>. QED BY <1>1, <2>1, <3>2, <3>3
    <2>3. Len(s) + k \in 1..Len(p) /\ p[Len(s) + k] = m
        BY <1>1, <2>1
    <2>. QED BY <2>2, <2>3 DEF Ends
<1>. QED BY <1>2, <1>3

LEMMA ConcatWrites ==
    ASSUME NEW s \in Seq(Ops), NEW t \in Seq(Ops), NEW S,
           WritesOnly(s, S), WritesOnly(t, S)
    PROVE  WritesOnly(s \o t, S)
<1>. DEFINE p == s \o t
<1>1. /\ \A i \in 1..Len(s) : p[i] = s[i]
      /\ \A i \in 1..Len(t) : p[Len(s) + i] = t[i]
      /\ \A i \in 1..Len(p) :
            i \in 1..Len(s) \/ \E j \in 1..Len(t) : i = Len(s) + j
    BY ConcatSplits
<1>. HIDE DEF p
<1>. SUFFICES WritesOnly(p, S)
    BY DEF p
<1>. QED BY <1>1 DEF WritesOnly

LEMMA ConcatApart ==
    ASSUME NEW s \in Seq(Ops), NEW t \in Seq(Ops), NEW S, NEW T,
           Apart(s), Apart(t), WritesOnly(s, S), WritesOnly(t, T),
           \A a \in S, b \in T : /\ ~Sandbox!Within(a.source, b.source)
                                 /\ ~Sandbox!Within(b.source, a.source)
    PROVE  Apart(s \o t)
<1>. DEFINE p == s \o t
<1>1. /\ Len(s) \in Nat /\ Len(t) \in Nat
      /\ \A i \in 1..Len(s) : p[i] = s[i]
      /\ \A i \in 1..Len(t) : p[Len(s) + i] = t[i]
      /\ \A i \in 1..Len(p) :
            i \in 1..Len(s) \/ \E j \in 1..Len(t) : i = Len(s) + j
    BY ConcatSplits
<1>. HIDE DEF p
<1>. SUFFICES Apart(p)
    BY DEF p
<1>. SUFFICES ASSUME NEW i \in 1..Len(p), NEW j \in 1..Len(p), i # j,
                     p[i].kind = "rw", p[j].kind = "rw"
              PROVE  ~Sandbox!Within(p[i].source, p[j].source)
    BY DEF Apart
<1>2. CASE i \in 1..Len(s) /\ j \in 1..Len(s)
    BY <1>1, <1>2 DEF Apart
<1>3. CASE i \in 1..Len(s) /\ j \notin 1..Len(s)
    <2>1. PICK y \in 1..Len(t) : j = Len(s) + y
        BY <1>1, <1>3
    <2>2. p[i] = s[i] /\ p[j] = t[y] /\ p[i] \in S /\ p[j] \in T
        BY <1>1, <1>3, <2>1 DEF WritesOnly
    <2>. QED BY <2>2
<1>4. CASE i \notin 1..Len(s) /\ j \in 1..Len(s)
    <2>1. PICK x \in 1..Len(t) : i = Len(s) + x
        BY <1>1, <1>4
    <2>2. p[i] = t[x] /\ p[j] = s[j] /\ p[i] \in T /\ p[j] \in S
        BY <1>1, <1>4, <2>1 DEF WritesOnly
    <2>. QED BY <2>2
<1>5. CASE i \notin 1..Len(s) /\ j \notin 1..Len(s)
    <2>1. PICK x \in 1..Len(t) : i = Len(s) + x
        BY <1>1, <1>5
    <2>2. PICK y \in 1..Len(t) : j = Len(s) + y
        BY <1>1, <1>5
    <2>3. x # y /\ p[i] = t[x] /\ p[j] = t[y]
        BY <1>1, <2>1, <2>2
    <2>. QED BY <2>3 DEF Apart
<1>. QED BY <1>2, <1>3, <1>4, <1>5

LEMMA NoMount ==
    /\ << >> \in Seq(Ops) /\ Apart(<< >>)
    /\ \A path : Avoids(<< >>, path)
    /\ \A S : WritesOnly(<< >>, S)
BY DEF Avoids, Apart, WritesOnly

LEMMA OneMount ==
    ASSUME NEW a \in Ops
    PROVE  /\ <<a>> \in Seq(Ops) /\ Apart(<<a>>)
           /\ \A path : Ends(<<a>>, path, a)
           /\ \A path : ~Sandbox!Within(path, a.at) => Avoids(<<a>>, path)
           /\ \A S : (a.kind = "rw" => a \in S) => WritesOnly(<<a>>, S)
<1>. DEFINE p == <<a>>
<1>1. p \in Seq(Ops) /\ Len(p) = 1 /\ p[1] = a
    OBVIOUS
<1>. HIDE DEF p
<1>2. 1..Len(p) = {1}
    BY <1>1
<1>3. Apart(p)
    BY <1>2 DEF Apart
<1>4. \A path : Ends(p, path, a)
    BY <1>1, <1>2 DEF Ends
<1>5. \A path : ~Sandbox!Within(path, a.at) => Avoids(p, path)
    BY <1>1, <1>2 DEF Avoids
<1>6. \A S : (a.kind = "rw" => a \in S) => WritesOnly(p, S)
    BY <1>1, <1>2 DEF WritesOnly
<1>. QED BY <1>1, <1>3, <1>4, <1>5, <1>6 DEF p

LEMMA TwoMounts ==
    ASSUME NEW a \in Ops, NEW b \in Ops
    PROVE  /\ <<a, b>> \in Seq(Ops)
           /\ \A path : ~Sandbox!Within(path, b.at) => Ends(<<a, b>>, path, a)
           /\ \A path : Ends(<<a, b>>, path, b)
           /\ \A path : ~Sandbox!Within(path, a.at)
                             /\ ~Sandbox!Within(path, b.at)
                         => Avoids(<<a, b>>, path)
           /\ \A S : (a.kind = "rw" => a \in S) /\ (b.kind = "rw" => b \in S)
                        => WritesOnly(<<a, b>>, S)
           /\ ~(a.kind = "rw" /\ b.kind = "rw") => Apart(<<a, b>>)
<1>. DEFINE p == <<a, b>>
<1>1. p \in Seq(Ops) /\ Len(p) = 2 /\ p[1] = a /\ p[2] = b
    OBVIOUS
<1>. HIDE DEF p
<1>2. 1..Len(p) = {1, 2}
    BY <1>1
<1>3. \A path : ~Sandbox!Within(path, b.at) => Ends(p, path, a)
    BY <1>1, <1>2 DEF Ends
<1>4. \A path : Ends(p, path, b)
    BY <1>1, <1>2 DEF Ends
<1>5. \A path : ~Sandbox!Within(path, a.at)
                /\ ~Sandbox!Within(path, b.at) => Avoids(p, path)
    BY <1>1, <1>2 DEF Avoids
<1>6. \A S : (a.kind = "rw" => a \in S) /\ (b.kind = "rw" => b \in S)
                => WritesOnly(p, S)
    BY <1>1, <1>2 DEF WritesOnly
<1>7. ASSUME ~(a.kind = "rw" /\ b.kind = "rw") PROVE Apart(p)
    <2>1. \A i, j \in {1, 2} : i # j => ~(p[i].kind = "rw" /\ p[j].kind = "rw")
        BY <1>1, <1>7
    <2>. QED BY <1>2, <2>1 DEF Apart
<1>8. p \in Seq(Ops)
    BY <1>1
<1>9. ~(a.kind = "rw" /\ b.kind = "rw") => Apart(p)
    BY <1>7
<1>. QED BY <1>3, <1>4, <1>5, <1>6, <1>8, <1>9 DEF p

LEMMA OneAfter ==
    ASSUME NEW p \in Seq(Ops), NEW q \in Seq(Ops), NEW path, NEW m,
           Ends(p, path, m), Avoids(q, path)
    PROVE  p \o q \in Seq(Ops) /\ Ends(p \o q, path, m)
BY ConcatEnds, ConcatTwo

LEMMA ReadOnlyApart ==
    ASSUME NEW p, WritesOnly(p, {})
    PROVE  Apart(p)
BY DEF WritesOnly, Apart

LEMMA WritesWiden ==
    ASSUME NEW p, NEW S, NEW T, WritesOnly(p, S), S \subseteq T
    PROVE  WritesOnly(p, T)
BY DEF WritesOnly

-----------------------------------------------------------------------------
(* The places.                                                             *)

LEMMA Elsewhere ==
    ASSUME NEW path \in Paths, NEW root \in Paths, Len(root) >= 1,
           root[1] # path[1]
    PROVE  ~Sandbox!Within(path, root)
<1>1. Len(root) \in Nat /\ 1 \in 1..Len(root)
    BY LenProperties DEF Paths
<1>. QED BY <1>1, WithinMeans

LEMMA Longer ==
    ASSUME NEW path \in Paths, NEW root \in Paths, Len(path) < Len(root)
    PROVE  ~Sandbox!Within(path, root)
<1>1. Len(root) \in Nat /\ Len(path) \in Nat
    BY LenProperties DEF Paths
<1>. QED BY <1>1, WithinMeans

LEMMA Itself ==
    ASSUME NEW path \in Paths
    PROVE  Sandbox!Within(path, path)
<1>1. Len(path) \in Nat
    BY LenProperties DEF Paths
<1>. QED BY <1>1, WithinMeans

LEMMA ShortPaths ==
    ASSUME NEW X, NEW a \in X, NEW b \in X, NEW c \in X, NEW d \in X
    PROVE  /\ << >> \in Seq(X)
           /\ <<a>> \in Seq(X) /\ Len(<<a>>) = 1 /\ <<a>>[1] = a
           /\ <<a, b>> \in Seq(X) /\ Len(<<a, b>>) = 2
           /\ <<a, b>>[1] = a /\ <<a, b>>[2] = b
           /\ <<a, b, c>> \in Seq(X) /\ Len(<<a, b, c>>) = 3
           /\ <<a, b, c>>[1] = a /\ <<a, b, c>>[3] = c
           /\ <<a, b, c, d>> \in Seq(X) /\ Len(<<a, b, c, d>>) = 4
           /\ <<a, b, c, d>>[1] = a /\ <<a, b, c, d>>[4] = d
OBVIOUS

LEMMA TopLevel ==
    ASSUME NEW name \in Components
    PROVE  <<name>> \in Paths /\ Len(<<name>>) = 1 /\ <<name>>[1] = name
BY ShortPaths, Zenon DEF Paths

LEMMA Named ==
    /\ /\ Sandbox!InWorkspace \in Paths /\ Len(Sandbox!InWorkspace) = 1
       /\ Sandbox!InWorkspace[1] = "workspace"
    /\ /\ Sandbox!InInbox \in Paths /\ Len(Sandbox!InInbox) = 2
       /\ Sandbox!InInbox[1] = "workspace"
       /\ Sandbox!InInbox[2] = "sandbox-guard-inputs"
    /\ /\ Sandbox!InRuntime \in Paths /\ Len(Sandbox!InRuntime) = 2
       /\ Sandbox!InRuntime[1] = "run"
    /\ /\ Sandbox!InHelper \in Paths /\ Len(Sandbox!InHelper) = 3
       /\ Sandbox!InHelper[1] = "opt" /\ Sandbox!InHelper[3] = "helper"
    /\ /\ Sandbox!InTool \in Paths /\ Len(Sandbox!InTool) = 3
       /\ Sandbox!InTool[1] = "opt" /\ Sandbox!InTool[3] = "tool"
    /\ /\ Sandbox!InHome \in Paths /\ Len(Sandbox!InHome) = 2
       /\ Sandbox!InHome[1] = "home"
<1>1. /\ "workspace" \in Components /\ "sandbox-guard-inputs" \in Components
      /\ "run" \in Components /\ "opt" \in Components
      /\ "sandbox-guard" \in Components /\ "tool" \in Components
      /\ "helper" \in Components /\ "home" \in Components
      /\ "guard" \in Components
    BY PathAssumption
<1>2. /\ Sandbox!InWorkspace \in Paths /\ Len(Sandbox!InWorkspace) = 1
      /\ Sandbox!InWorkspace[1] = "workspace"
    BY <1>1, TopLevel, Zenon DEF Sandbox!InWorkspace
<1>3. /\ Sandbox!InInbox \in Paths /\ Len(Sandbox!InInbox) = 2
      /\ Sandbox!InInbox[1] = "workspace"
      /\ Sandbox!InInbox[2] = "sandbox-guard-inputs"
    BY <1>1, ShortPaths, Zenon DEF Paths, Sandbox!InInbox
<1>4. /\ Sandbox!InRuntime \in Paths /\ Len(Sandbox!InRuntime) = 2
      /\ Sandbox!InRuntime[1] = "run"
    BY <1>1, ShortPaths, Zenon DEF Paths, Sandbox!InRuntime
<1>5. /\ Sandbox!InHelper \in Paths /\ Len(Sandbox!InHelper) = 3
      /\ Sandbox!InHelper[1] = "opt" /\ Sandbox!InHelper[3] = "helper"
    BY <1>1, ShortPaths, Zenon DEF Paths, Sandbox!InHelper
<1>6. /\ Sandbox!InTool \in Paths /\ Len(Sandbox!InTool) = 3
      /\ Sandbox!InTool[1] = "opt" /\ Sandbox!InTool[3] = "tool"
    BY <1>1, ShortPaths, Zenon DEF Paths, Sandbox!InTool
<1>7. /\ Sandbox!InHome \in Paths /\ Len(Sandbox!InHome) = 2
      /\ Sandbox!InHome[1] = "home"
    BY <1>1, ShortPaths, Zenon DEF Paths, Sandbox!InHome
<1>. QED BY <1>2, <1>3, <1>4, <1>5, <1>6, <1>7

LEMMA HostPlaces ==
    /\ Sandbox!Workspace \in Paths /\ Sandbox!Runtime \in Paths
    /\ Sandbox!HelperHost \in Paths /\ Sandbox!ToolFile \in Paths
    /\ Sandbox!ToolRoot \in Paths /\ Sandbox!GuestRoot \in Paths
    /\ Sandbox!None \in Paths
<1>1. /\ "workspace" \in Components /\ "stages" \in Components
      /\ "run" \in Components /\ "runtime" \in Components
      /\ "usr" \in Components /\ "lib" \in Components
      /\ "guard-helper" \in Components /\ "home" \in Components
      /\ "user" \in Components /\ "bin" \in Components
      /\ "tool" \in Components /\ "dev" \in Components
      /\ "shm" \in Components /\ "guard" \in Components
    BY PathAssumption
<1>2. Sandbox!Workspace \in Paths /\ Sandbox!Runtime \in Paths
    BY <1>1, ShortPaths, Zenon DEF Paths, Sandbox!Workspace, Sandbox!Runtime
<1>3. Sandbox!HelperHost \in Paths /\ Sandbox!ToolRoot \in Paths
    BY <1>1, ShortPaths, Zenon DEF Paths, Sandbox!HelperHost, Sandbox!ToolRoot
<1>4. Sandbox!ToolFile \in Paths
    BY <1>1, ShortPaths, Zenon DEF Paths, Sandbox!ToolFile
<1>5. Sandbox!GuestRoot \in Paths
    BY <1>1, ShortPaths, Zenon DEF Paths, Sandbox!GuestRoot
<1>6. Sandbox!None \in Paths
    BY DEF Paths, Sandbox!None
<1>. QED BY <1>2, <1>3, <1>4, <1>5, <1>6

LEMMA Below ==
    ASSUME NEW path \in Paths, NEW name \in Components
    PROVE  /\ path \o <<name>> \in Paths
           /\ Len(path \o <<name>>) = Len(path) + 1
           /\ \A i \in 1..Len(path) : (path \o <<name>>)[i] = path[i]
<1>. DEFINE last == <<name>>
<1>1. last \in Seq(Components) /\ Len(last) = 1
    OBVIOUS
<1>2. path \in Seq(Components)
    BY DEF Paths
<1>. HIDE DEF last
<1>3. /\ path \o last \in Seq(Components)
      /\ Len(path \o last) = Len(path) + Len(last)
      /\ \A i \in 1..Len(path) : (path \o last)[i] = path[i]
    BY <1>1, <1>2, ConcatTwo
<1>. QED BY <1>1, <1>3 DEF last, Paths

LEMMA MountIs ==
    ASSUME NEW kind \in {"tmpfs", "optional", "ro", "rw", "absent"},
           NEW source \in Paths, NEW at_ \in Paths
    PROVE  /\ Sandbox!Mount(kind, source, at_) \in Ops
           /\ Sandbox!Mount(kind, source, at_).kind = kind
           /\ Sandbox!Mount(kind, source, at_).source = source
           /\ Sandbox!Mount(kind, source, at_).at = at_
BY DEF Sandbox!Mount, Ops

-----------------------------------------------------------------------------
(* The parts of the plans.                                                 *)

Requests ==
    [connection : Sandbox!Connections, state : Sandbox!States,
     forwarded : Sandbox!Names, sound : BOOLEAN, tool : Sandbox!ToolChoices]

StateOps(source) ==
    IF request.state = Sandbox!None THEN {}
    ELSE {Sandbox!Mount("rw", source, Sandbox!Resolve(request.state[2]))}

LEMMA StateIs ==
    ASSUME request \in Requests, Sandbox!Valid, request.state # Sandbox!None
    PROVE  /\ request.state[1] \in Paths /\ request.state[2] \in Paths
           /\ Sandbox!Resolve(request.state[2]) = request.state[2]
           /\ request.state[2][1] = "home"
           /\ Sandbox!Within(request.state[2], Sandbox!InHome)
           /\ ~Sandbox!Within(request.state[1], Sandbox!Workspace)
           /\ ~Sandbox!Within(Sandbox!Workspace, request.state[1])
<1>1. request.state \in Sandbox!States
    BY DEF Requests
<1>2. PICK s \in Sources, t \in Targets, p \in {"private", "shared"} :
          request.state = <<s, t, p>>
    BY <1>1 DEF Sandbox!States
<1>3. request.state[1] = s /\ request.state[2] = t
    BY <1>2
<1>4. s \in Paths /\ t \in Paths
    BY <1>2, PathAssumption DEF Paths
<1>5. /\ ~Sandbox!Within(request.state[1], Sandbox!Workspace)
      /\ ~Sandbox!Within(Sandbox!Workspace, request.state[1])
      /\ Sandbox!TargetAllowed(request.state[2])
    BY DEF Sandbox!Valid, Sandbox!StateAllowed
<1>6. /\ Sandbox!Plain(t) /\ Sandbox!Within(t, Sandbox!InHome)
    BY <1>3, <1>5 DEF Sandbox!TargetAllowed
<1>7. Sandbox!Resolve(t) = t
    BY <1>6 DEF Sandbox!Resolve
<1>8. t[1] = "home"
    <2>1. \A i \in 1..Len(Sandbox!InHome) : Sandbox!InHome[i] = t[i]
        BY <1>4, <1>6, Named, WithinMeans
    <2>. QED BY <2>1, Named
<1>. QED BY <1>3, <1>4, <1>5, <1>6, <1>7, <1>8

LEMMA StatePart ==
    ASSUME request \in Requests, Sandbox!Valid, NEW source \in Paths
    PROVE  /\ Sandbox!StateMount(source) \in Seq(Ops)
           /\ WritesOnly(Sandbox!StateMount(source), StateOps(source))
           /\ Apart(Sandbox!StateMount(source))
           /\ \A path \in Paths : path[1] # "home" =>
                  Avoids(Sandbox!StateMount(source), path)
           /\ request.state # Sandbox!None =>
                  Ends(Sandbox!StateMount(source), request.state[2],
                       Sandbox!Mount("rw", source, request.state[2]))
<1>1. CASE request.state = Sandbox!None
    <2>1. Sandbox!StateMount(source) = << >>
        BY <1>1 DEF Sandbox!StateMount
    <2>. QED BY <1>1, <2>1, NoMount
<1>2. CASE request.state # Sandbox!None
    <2>. DEFINE t == request.state[2]
                a == Sandbox!Mount("rw", source, t)
    <2>1. t \in Paths /\ Sandbox!Resolve(t) = t /\ t[1] = "home"
          /\ Sandbox!Within(t, Sandbox!InHome)
        BY <1>2, StateIs
    <2>2. Sandbox!StateMount(source) = <<a>> /\ StateOps(source) = {a}
        BY <1>2, <2>1 DEF Sandbox!StateMount, StateOps
    <2>3. Len(t) >= 1
        BY <2>1, Named, WithinMeans, LenProperties DEF Paths
    <2>. HIDE DEF t
    <2>4. a \in Ops /\ a.kind = "rw" /\ a.at = t
        BY <2>1, MountIs
    <2>. HIDE DEF a
    <2>5. ASSUME NEW path \in Paths, path[1] # "home"
          PROVE  Avoids(<<a>>, path)
        <3>1. ~Sandbox!Within(path, t)
            BY <2>1, <2>3, <2>5, Elsewhere
        <3>. QED BY <2>4, <3>1, OneMount
    <2>6. /\ <<a>> \in Seq(Ops) /\ WritesOnly(<<a>>, {a}) /\ Apart(<<a>>)
          /\ Ends(<<a>>, t, a)
        BY <2>4, OneMount
    <2>. QED BY <2>2, <2>5, <2>6 DEF a, t
<1>. QED BY <1>1, <1>2

\* The workspace and, in it, the inbox.
LEMMA SharedPart ==
    ASSUME NEW workspace \in Paths, NEW runtime \in Paths
    PROVE  LET p == Sandbox!SharedMounts(workspace, runtime)
               w == Sandbox!Mount("rw", workspace, Sandbox!InWorkspace)
               x == Sandbox!Mount("ro", runtime \o <<"inbox">>,
                                  Sandbox!InInbox)
           IN  /\ p \in Seq(Ops) /\ w \in Ops /\ x \in Ops
               /\ WritesOnly(p, {w}) /\ Apart(p)
               /\ \A path \in Paths : path[1] # "workspace" => Avoids(p, path)
               /\ Ends(p, Sandbox!InWorkspace, w)
               /\ \A path : Ends(p, path, x)
<1>. DEFINE p == Sandbox!SharedMounts(workspace, runtime)
            source == runtime \o <<"inbox">>
            w == Sandbox!Mount("rw", workspace, Sandbox!InWorkspace)
            x == Sandbox!Mount("ro", source, Sandbox!InInbox)
<1>1. source \in Paths
    <2>1. "inbox" \in Components
        BY PathAssumption
    <2>. QED BY <2>1, Below
<1>2. p = <<w, x>>
    BY DEF Sandbox!SharedMounts
<1>. HIDE DEF source
<1>3. /\ w \in Ops /\ w.kind = "rw" /\ w.at = Sandbox!InWorkspace
    BY Named, MountIs
<1>4. /\ x \in Ops /\ x.kind = "ro" /\ x.at = Sandbox!InInbox
    BY <1>1, Named, MountIs
<1>. HIDE DEF w, x
<1>5. p \in Seq(Ops) /\ WritesOnly(p, {w}) /\ Apart(p)
    BY <1>2, <1>3, <1>4, TwoMounts
<1>6. ASSUME NEW path \in Paths, path[1] # "workspace" PROVE Avoids(p, path)
    <2>1. ~Sandbox!Within(path, Sandbox!InWorkspace)
        BY <1>6, Named, Elsewhere
    <2>2. ~Sandbox!Within(path, Sandbox!InInbox)
        BY <1>6, Named, Elsewhere
    <2>. QED BY <1>2, <1>3, <1>4, <2>1, <2>2, TwoMounts
<1>7. Ends(p, Sandbox!InWorkspace, w)
    <2>1. ~Sandbox!Within(Sandbox!InWorkspace, Sandbox!InInbox)
        <3>1. /\ Sandbox!InWorkspace \in Paths /\ Sandbox!InInbox \in Paths
              /\ Len(Sandbox!InWorkspace) < Len(Sandbox!InInbox)
            BY Named
        <3>. QED BY <3>1, Longer
    <2>. QED BY <1>2, <1>3, <1>4, <2>1, TwoMounts
<1>8. \A path : Ends(p, path, x)
    BY <1>2, <1>3, <1>4, TwoMounts
<1>. QED BY <1>3, <1>4, <1>5, <1>6, <1>7, <1>8 DEF w, x, source

LEMMA BasePart ==
    /\ Sandbox!Base \in Seq(Ops) /\ WritesOnly(Sandbox!Base, {})
<1>. DEFINE none == Sandbox!None
            a == Sandbox!Mount("tmpfs", none, << >>)
            b == Sandbox!Mount("tmpfs", none, <<"proc">>)
            c == Sandbox!Mount("tmpfs", none, <<"dev">>)
            d == Sandbox!Mount("tmpfs", none, <<"tmp">>)
            e == Sandbox!Mount("tmpfs", none, <<"dev", "shm">>)
<1>1. /\ "proc" \in Components /\ "dev" \in Components
      /\ "tmp" \in Components /\ "shm" \in Components
    BY PathAssumption
<1>2. /\ none \in Paths /\ << >> \in Paths /\ <<"proc">> \in Paths
      /\ <<"dev">> \in Paths /\ <<"tmp">> \in Paths
    BY <1>1, TopLevel, HostPlaces DEF Sandbox!None
<1>3. <<"dev", "shm">> \in Paths
    BY <1>1, ShortPaths, Zenon DEF Paths
<1>. HIDE DEF none
<1>4. /\ a \in Ops /\ b \in Ops /\ c \in Ops /\ d \in Ops /\ e \in Ops
      /\ a.kind = "tmpfs" /\ b.kind = "tmpfs" /\ c.kind = "tmpfs"
      /\ d.kind = "tmpfs" /\ e.kind = "tmpfs"
    <2>1. a \in Ops /\ a.kind = "tmpfs"
        BY <1>2, MountIs
    <2>2. b \in Ops /\ b.kind = "tmpfs"
        BY <1>2, MountIs
    <2>3. c \in Ops /\ c.kind = "tmpfs"
        BY <1>2, MountIs
    <2>4. d \in Ops /\ d.kind = "tmpfs"
        BY <1>2, MountIs
    <2>5. e \in Ops /\ e.kind = "tmpfs"
        BY <1>2, <1>3, MountIs
    <2>. QED BY <2>1, <2>2, <2>3, <2>4, <2>5
<1>5. Sandbox!Base = <<a, b, c, d, e>>
    BY DEF Sandbox!Base, Sandbox!Tmpfs, none
<1>. HIDE DEF a, b, c, d, e
<1>6. <<a, b, c, d, e>> \in Seq(Ops)
    BY <1>4
<1>7. /\ Len(Sandbox!Base) = 5 /\ 1..5 = {1, 2, 3, 4, 5}
      /\ Sandbox!Base[1] = a /\ Sandbox!Base[2] = b /\ Sandbox!Base[3] = c
      /\ Sandbox!Base[4] = d /\ Sandbox!Base[5] = e
    BY <1>5
<1>8. WritesOnly(Sandbox!Base, {})
    BY <1>4, <1>7 DEF WritesOnly
<1>. QED BY <1>5, <1>6, <1>8

LEMMA ResolverPart ==
    /\ Sandbox!Resolver \in Seq(Ops) /\ WritesOnly(Sandbox!Resolver, {})
    /\ \A path \in Paths : path[1] # "etc" => Avoids(Sandbox!Resolver, path)
<1>1. CASE Sandbox!Net = "Unrestricted"
    <2>. DEFINE r == <<"etc", "resolv.conf">>
                a == Sandbox!Mount("optional", r, r)
    <2>1. "etc" \in Components /\ "resolv.conf" \in Components
        BY PathAssumption
    <2>2. r \in Paths /\ Len(r) >= 1 /\ r[1] = "etc"
        BY <2>1 DEF Paths
    <2>3. Sandbox!Resolver = <<a>>
        BY <1>1 DEF Sandbox!Resolver, Sandbox!SameIfAny
    <2>. HIDE DEF r
    <2>4. a \in Ops /\ a.kind = "optional" /\ a.at = r
        BY <2>2, MountIs
    <2>. HIDE DEF a
    <2>5. ASSUME NEW path \in Paths, path[1] # "etc" PROVE Avoids(<<a>>, path)
        <3>1. ~Sandbox!Within(path, r)
            BY <2>2, <2>5, Elsewhere
        <3>. QED BY <2>4, <3>1, OneMount
    <2>. QED BY <2>3, <2>4, <2>5, OneMount
<1>2. CASE Sandbox!Net # "Unrestricted"
    <2>1. Sandbox!Resolver = << >>
        BY <1>2 DEF Sandbox!Resolver
    <2>. QED BY <2>1, NoMount
<1>. QED BY <1>1, <1>2

\* What the tool's command is found in, on the host.
ToolOp ==
    CASE request.tool.tool = "own" ->
             Sandbox!Mount("ro", Sandbox!ToolFile, Sandbox!InTool)
      [] request.tool.tool = "rooted" ->
             Sandbox!Mount("ro", Sandbox!ToolRoot, Sandbox!InTool)
      [] OTHER -> Sandbox!Mount("ro", <<"usr">>, <<"usr">>)

LEMMA ToolPart ==
    ASSUME request.tool.tool \in {"system", "own", "rooted"}
    PROVE  /\ Sandbox!ToolMount \in Seq(Ops)
           /\ WritesOnly(Sandbox!ToolMount, {})
           /\ \A path \in Paths :
                  path[1] # "opt" => Avoids(Sandbox!ToolMount, path)
           /\ Avoids(Sandbox!ToolMount, Sandbox!InHelper)
           /\ Sandbox!ToolCommand \in Paths
           /\ request.tool.tool # "system" =>
                  /\ Ends(Sandbox!ToolMount, Sandbox!ToolCommand, ToolOp)
                  /\ Sandbox!ToolCommand[1] = "opt"
           /\ request.tool.tool = "system" =>
                  /\ Sandbox!ToolMount = << >>
                  /\ Sandbox!ToolCommand[1] = "usr"
<1>1. "usr" \in Components /\ "bin" \in Components /\ "tool" \in Components
    BY PathAssumption
<1>2. CASE request.tool.tool = "system"
    <2>1. /\ Sandbox!ToolMount = << >>
          /\ Sandbox!ToolCommand = <<"usr", "bin", "tool">>
        BY <1>2 DEF Sandbox!ToolMount, Sandbox!ToolCommand
    <2>2. Sandbox!ToolCommand \in Paths /\ Sandbox!ToolCommand[1] = "usr"
        BY <1>1, <2>1 DEF Paths
    <2>. QED BY <1>2, <2>1, <2>2, NoMount
<1>3. CASE request.tool.tool \in {"own", "rooted"}
    <2>. DEFINE a == ToolOp
    <2>1. PICK source \in Paths :
              a = Sandbox!Mount("ro", source, Sandbox!InTool)
        BY <1>3, HostPlaces DEF ToolOp
    <2>2. Sandbox!ToolMount = <<a>>
        BY <1>3 DEF Sandbox!ToolMount, ToolOp
    <2>3. a \in Ops /\ a.kind = "ro" /\ a.at = Sandbox!InTool
        BY <2>1, Named, MountIs
    <2>. HIDE DEF a
    <2>4. ASSUME NEW path \in Paths, path[1] # "opt"
          PROVE  Avoids(<<a>>, path)
        <3>1. ~Sandbox!Within(path, Sandbox!InTool)
            BY <2>4, Named, Elsewhere
        <3>. QED BY <2>3, <3>1, OneMount
    <2>5. Avoids(<<a>>, Sandbox!InHelper)
        <3>1. ~Sandbox!Within(Sandbox!InHelper, Sandbox!InTool)
            <4>1. 3 \in 1..Len(Sandbox!InTool)
                  /\ Sandbox!InTool[3] # Sandbox!InHelper[3]
                BY Named
            <4>2. Sandbox!InHelper \in Paths /\ Sandbox!InTool \in Paths
                BY Named
            <4>. QED BY <4>1, <4>2, WithinMeans
        <3>. QED BY <2>3, <3>1, OneMount
    <2>6. Sandbox!ToolCommand \in Paths /\ Sandbox!ToolCommand[1] = "opt"
        <3>1. CASE request.tool.tool = "own"
            BY <3>1, Named DEF Sandbox!ToolCommand
        <3>2. CASE request.tool.tool = "rooted"
            <4>1. Sandbox!ToolCommand = Sandbox!InTool \o <<"tool">>
                BY <3>2 DEF Sandbox!ToolCommand
            <4>2. Sandbox!InTool \in Paths /\ 1 \in 1..Len(Sandbox!InTool)
                  /\ Sandbox!InTool[1] = "opt"
                BY Named
            <4>. QED BY <1>1, <4>1, <4>2, Below
        <3>. QED BY <1>3, <3>1, <3>2
    <2>7. /\ <<a>> \in Seq(Ops) /\ WritesOnly(<<a>>, {})
          /\ Ends(<<a>>, Sandbox!ToolCommand, a)
        BY <2>3, OneMount
    <2>. QED BY <1>3, <2>2, <2>4, <2>5, <2>6, <2>7 DEF a
<1>. QED BY <1>2, <1>3

\* All that stands before the granted state on the host.
HostHead ==
    Sandbox!Base \o <<Sandbox!Mount("ro", <<"usr">>, <<"usr">>),
                      Sandbox!SameIfAny(<<"etc">>)>>
    \o Sandbox!Resolver
    \o <<Sandbox!Mount("ro", Sandbox!HelperHost, Sandbox!InHelper),
         Sandbox!Mount("ro", Sandbox!Runtime, Sandbox!InRuntime)>>

LEMMA HostHeadPart ==
    /\ HostHead \in Seq(Ops) /\ WritesOnly(HostHead, {})
    /\ Ends(HostHead, Sandbox!InRuntime,
            Sandbox!Mount("ro", Sandbox!Runtime, Sandbox!InRuntime))
    /\ Ends(HostHead, Sandbox!InHelper,
            Sandbox!Mount("ro", Sandbox!HelperHost, Sandbox!InHelper))
    /\ \A path \in Paths : path[1] = "usr" =>
           Ends(HostHead, path, Sandbox!Mount("ro", <<"usr">>, <<"usr">>))
<1>. DEFINE u == <<"usr">>
            e == <<"etc">>
            a == Sandbox!Mount("ro", u, u)
            b == Sandbox!Mount("optional", e, e)
            h == Sandbox!Mount("ro", Sandbox!HelperHost, Sandbox!InHelper)
            r == Sandbox!Mount("ro", Sandbox!Runtime, Sandbox!InRuntime)
            p == Sandbox!Base
            q == <<a, b>>
            v == Sandbox!Resolver
            w == <<h, r>>
<1>1. HostHead = ((p \o q) \o v) \o w
    BY DEF HostHead, Sandbox!SameIfAny
<1>2. /\ u \in Paths /\ Len(u) = 1 /\ u[1] = "usr"
      /\ e \in Paths /\ Len(e) = 1 /\ e[1] = "etc"
    <2>1. "usr" \in Components /\ "etc" \in Components
        BY PathAssumption
    <2>2. u \in Paths /\ Len(u) = 1 /\ u[1] = "usr"
        BY <2>1, TopLevel
    <2>3. e \in Paths /\ Len(e) = 1 /\ e[1] = "etc"
        BY <2>1, TopLevel
    <2>. QED BY <2>2, <2>3
<1>. HIDE DEF u, e
<1>3. a \in Ops /\ a.kind = "ro" /\ a.at = u
    BY <1>2, MountIs
<1>4. b \in Ops /\ b.kind = "optional" /\ b.at = e
    BY <1>2, MountIs
<1>5. h \in Ops /\ h.kind = "ro" /\ h.at = Sandbox!InHelper
    BY Named, HostPlaces, MountIs
<1>6. r \in Ops /\ r.kind = "ro" /\ r.at = Sandbox!InRuntime
    BY Named, HostPlaces, MountIs
<1>. HIDE DEF a, b, h, r
<1>7. /\ p \in Seq(Ops) /\ q \in Seq(Ops) /\ v \in Seq(Ops) /\ w \in Seq(Ops)
      /\ WritesOnly(p, {}) /\ WritesOnly(q, {}) /\ WritesOnly(v, {})
      /\ WritesOnly(w, {})
    <2>1. q \in Seq(Ops) /\ WritesOnly(q, {})
        BY <1>3, <1>4, TwoMounts
    <2>2. w \in Seq(Ops) /\ WritesOnly(w, {})
        BY <1>5, <1>6, TwoMounts
    <2>. QED BY <2>1, <2>2, BasePart, ResolverPart
<1>8. Ends(w, Sandbox!InRuntime, r)
    BY <1>5, <1>6, TwoMounts
<1>9. Ends(w, Sandbox!InHelper, h)
    <2>1. ~Sandbox!Within(Sandbox!InHelper, Sandbox!InRuntime)
        <3>1. /\ Sandbox!InHelper \in Paths /\ Sandbox!InRuntime \in Paths
              /\ Len(Sandbox!InRuntime) >= 1
              /\ Sandbox!InRuntime[1] # Sandbox!InHelper[1]
            BY Named
        <3>. QED BY <3>1, Elsewhere
    <2>. QED BY <1>5, <1>6, <2>1, TwoMounts
<1>10. ASSUME NEW path \in Paths, path[1] = "usr"
       PROVE  Ends(q, path, a) /\ Avoids(v, path) /\ Avoids(w, path)
    <2>1. ~Sandbox!Within(path, e)
        <3>1. e \in Paths /\ Len(e) >= 1 /\ e[1] # path[1]
            BY <1>2, <1>10
        <3>. QED BY <3>1, Elsewhere
    <2>2. Ends(q, path, a)
        BY <1>3, <1>4, <2>1, TwoMounts
    <2>3. Avoids(v, path)
        BY <1>10, ResolverPart
    <2>4. ~Sandbox!Within(path, Sandbox!InHelper)
        BY <1>10, Named, Elsewhere
    <2>5. ~Sandbox!Within(path, Sandbox!InRuntime)
        BY <1>10, Named, Elsewhere
    <2>6. Avoids(w, path)
        BY <1>5, <1>6, <2>4, <2>5, TwoMounts
    <2>. QED BY <2>2, <2>3, <2>6
<1>. HIDE DEF p, q, v, w
<1>11. p \o q \in Seq(Ops) /\ WritesOnly(p \o q, {})
    BY <1>7, ConcatTwo, ConcatWrites
<1>12. (p \o q) \o v \in Seq(Ops) /\ WritesOnly((p \o q) \o v, {})
    BY <1>7, <1>11, ConcatTwo, ConcatWrites
<1>13. /\ ((p \o q) \o v) \o w \in Seq(Ops)
       /\ WritesOnly(((p \o q) \o v) \o w, {})
    BY <1>7, <1>12, ConcatTwo, ConcatWrites
<1>14. Ends(((p \o q) \o v) \o w, Sandbox!InRuntime, r)
    BY <1>7, <1>8, <1>12, ConcatEnds
<1>15. Ends(((p \o q) \o v) \o w, Sandbox!InHelper, h)
    BY <1>7, <1>9, <1>12, ConcatEnds
<1>16. ASSUME NEW path \in Paths, path[1] = "usr"
       PROVE  Ends(((p \o q) \o v) \o w, path, a)
    <2>1. Ends(q, path, a) /\ Avoids(v, path) /\ Avoids(w, path)
        BY <1>10, <1>16
    <2>2. Ends(p \o q, path, a)
        BY <1>7, <2>1, ConcatEnds
    <2>3. Ends((p \o q) \o v, path, a)
        BY <1>7, <1>11, <2>1, <2>2, ConcatEnds
    <2>. QED BY <1>7, <1>12, <2>1, <2>3, ConcatEnds
<1>. QED BY <1>1, <1>13, <1>14, <1>15, <1>16 DEF a, h, r, u

WorkspaceOp(source) == Sandbox!Mount("rw", source, Sandbox!InWorkspace)
InboxOp(home) ==
    Sandbox!Mount("ro", home \o <<"inbox">>, Sandbox!InInbox)
RuntimeOp(home) == Sandbox!Mount("ro", home, Sandbox!InRuntime)

\* Everything the run relies on is the last mount at its place.
LEMMA HostPlan ==
    ASSUME request \in Requests, Sandbox!Valid,
           request.tool.tool \in {"system", "own", "rooted"}
    PROVE  LET p == Sandbox!HostMounts
               s == request.state[1]
           IN  /\ p \in Seq(Ops)
               /\ Ends(p, Sandbox!InRuntime, RuntimeOp(Sandbox!Runtime))
               /\ Ends(p, Sandbox!InHelper,
                       Sandbox!Mount("ro", Sandbox!HelperHost,
                                     Sandbox!InHelper))
               /\ Ends(p, Sandbox!ToolCommand, ToolOp)
               /\ Ends(p, Sandbox!InWorkspace,
                       WorkspaceOp(Sandbox!Workspace))
               /\ \A path : Ends(p, path, InboxOp(Sandbox!Runtime))
               /\ request.state # Sandbox!None =>
                      Ends(p, request.state[2],
                           Sandbox!Mount("rw", s, request.state[2]))
               /\ WritesOnly(p, {WorkspaceOp(Sandbox!Workspace)}
                                \cup StateOps(s))
               /\ Apart(p)
<1>. DEFINE s == IF request.state = Sandbox!None THEN Sandbox!None
                 ELSE request.state[1]
            a == HostHead
            b == Sandbox!StateMount(s)
            c == Sandbox!ToolMount
            d == Sandbox!SharedMounts(Sandbox!Workspace, Sandbox!Runtime)
            w == WorkspaceOp(Sandbox!Workspace)
            x == InboxOp(Sandbox!Runtime)
            r == RuntimeOp(Sandbox!Runtime)
            h == Sandbox!Mount("ro", Sandbox!HelperHost, Sandbox!InHelper)
            t == request.state[2]
            S == StateOps(s)
<1>1. Sandbox!HostMounts = ((a \o b) \o c) \o d
    BY DEF Sandbox!HostMounts, HostHead
<1>2. s \in Paths
    BY HostPlaces, StateIs
<1>3. /\ a \in Seq(Ops) /\ WritesOnly(a, {})
      /\ Ends(a, Sandbox!InRuntime, r) /\ Ends(a, Sandbox!InHelper, h)
      /\ \A path \in Paths : path[1] = "usr" =>
             Ends(a, path, Sandbox!Mount("ro", <<"usr">>, <<"usr">>))
    BY HostHeadPart DEF RuntimeOp
<1>4. /\ b \in Seq(Ops) /\ WritesOnly(b, S) /\ Apart(b)
      /\ \A path \in Paths : path[1] # "home" => Avoids(b, path)
      /\ request.state # Sandbox!None =>
             Ends(b, t, Sandbox!Mount("rw", s, t))
    BY <1>2, StatePart
<1>5. /\ c \in Seq(Ops) /\ WritesOnly(c, {})
      /\ \A path \in Paths : path[1] # "opt" => Avoids(c, path)
      /\ Avoids(c, Sandbox!InHelper)
      /\ Sandbox!ToolCommand \in Paths
      /\ request.tool.tool # "system" =>
             /\ Ends(c, Sandbox!ToolCommand, ToolOp)
             /\ Sandbox!ToolCommand[1] = "opt"
      /\ request.tool.tool = "system" => Sandbox!ToolCommand[1] = "usr"
    BY ToolPart
<1>6. /\ d \in Seq(Ops) /\ WritesOnly(d, {w}) /\ Apart(d)
      /\ \A path \in Paths : path[1] # "workspace" => Avoids(d, path)
      /\ Ends(d, Sandbox!InWorkspace, w)
      /\ \A path : Ends(d, path, x)
    BY HostPlaces, SharedPart DEF WorkspaceOp, InboxOp
<1>7. /\ Sandbox!InRuntime \in Paths /\ Sandbox!InHelper \in Paths
      /\ Sandbox!InRuntime[1] = "run" /\ Sandbox!InHelper[1] = "opt"
    BY Named
<1>8. request.tool.tool = "system" =>
          ToolOp = Sandbox!Mount("ro", <<"usr">>, <<"usr">>)
    BY DEF ToolOp
<1>9. request.state # Sandbox!None =>
          /\ t \in Paths /\ t[1] = "home" /\ Sandbox!Resolve(t) = t
          /\ s = request.state[1]
          /\ ~Sandbox!Within(s, Sandbox!Workspace)
          /\ ~Sandbox!Within(Sandbox!Workspace, s)
    BY StateIs
<1>10. \A m \in S : m.source = s
    <2>1. ASSUME NEW m \in S PROVE m.source = s
        BY <1>2, <1>9, <2>1, MountIs DEF StateOps
    <2>. QED BY <2>1
<1>11. S # {} => request.state # Sandbox!None
    BY DEF StateOps
<1>12. w.source = Sandbox!Workspace
    BY Named, HostPlaces, MountIs DEF WorkspaceOp
<1>13. StateOps(request.state[1]) = S
    BY DEF StateOps
<1>. HIDE DEF a, b, c, d, w, x, r, h, S, s
<1>. DEFINE ab == a \o b
            abc == ab \o c
            p == abc \o d
<1>14. ab \in Seq(Ops) /\ WritesOnly(ab, S) /\ Apart(ab)
    <2>1. ab \in Seq(Ops)
        BY <1>3, <1>4, ConcatTwo
    <2>2. WritesOnly(a, S)
        BY <1>3, WritesWiden
    <2>3. WritesOnly(ab, S)
        BY <1>3, <1>4, <2>2, ConcatWrites
    <2>4. Apart(a)
        BY <1>3, ReadOnlyApart
    <2>5. \A m \in {}, n \in S : /\ ~Sandbox!Within(m.source, n.source)
                                 /\ ~Sandbox!Within(n.source, m.source)
        OBVIOUS
    <2>6. Apart(ab)
        BY <1>3, <1>4, <2>4, <2>5, ConcatApart
    <2>. QED BY <2>1, <2>3, <2>6
<1>. HIDE DEF ab
<1>15. abc \in Seq(Ops) /\ WritesOnly(abc, S) /\ Apart(abc)
    <2>1. abc \in Seq(Ops)
        BY <1>5, <1>14, ConcatTwo
    <2>2. WritesOnly(c, S)
        BY <1>5, WritesWiden
    <2>3. WritesOnly(abc, S)
        BY <1>5, <1>14, <2>2, ConcatWrites
    <2>4. Apart(c)
        BY <1>5, ReadOnlyApart
    <2>5. \A m \in S, n \in {} : /\ ~Sandbox!Within(m.source, n.source)
                                 /\ ~Sandbox!Within(n.source, m.source)
        OBVIOUS
    <2>6. Apart(abc)
        BY <1>5, <1>14, <2>4, <2>5, ConcatApart
    <2>. QED BY <2>1, <2>3, <2>6
<1>. HIDE DEF abc
<1>16. p \in Seq(Ops) /\ WritesOnly(p, {w} \cup S) /\ Apart(p)
    <2>1. p \in Seq(Ops)
        BY <1>6, <1>15, ConcatTwo
    <2>2. WritesOnly(d, {w} \cup S) /\ WritesOnly(abc, {w} \cup S)
        BY <1>6, <1>15, WritesWiden
    <2>3. WritesOnly(p, {w} \cup S)
        BY <1>6, <1>15, <2>2, ConcatWrites
    <2>4. \A m \in S, n \in {w} : /\ ~Sandbox!Within(m.source, n.source)
                                  /\ ~Sandbox!Within(n.source, m.source)
        BY <1>9, <1>10, <1>11, <1>12
    <2>5. Apart(p)
        BY <1>6, <1>15, <2>4, ConcatApart
    <2>. QED BY <2>1, <2>3, <2>5
<1>17. ASSUME NEW path \in Paths, NEW m, Ends(a, path, m),
              path[1] \notin {"home", "workspace"}, Avoids(c, path)
       PROVE  Ends(p, path, m)
    <2>1. Ends(ab, path, m)
        BY <1>3, <1>4, <1>17, ConcatEnds DEF ab
    <2>2. Ends(abc, path, m)
        BY <1>5, <1>14, <1>17, <2>1, ConcatEnds DEF abc
    <2>3. Avoids(d, path)
        BY <1>6, <1>17
    <2>. QED BY <1>6, <1>15, <2>2, <2>3, ConcatEnds
<1>18. Ends(p, Sandbox!InRuntime, r)
    BY <1>3, <1>5, <1>7, <1>17
<1>19. Ends(p, Sandbox!InHelper, h)
    BY <1>3, <1>5, <1>7, <1>17
<1>20. Ends(p, Sandbox!ToolCommand, ToolOp)
    <2>1. CASE request.tool.tool = "system"
        <3>1. Ends(a, Sandbox!ToolCommand, ToolOp)
            BY <1>3, <1>5, <1>8, <2>1
        <3>2. Avoids(c, Sandbox!ToolCommand)
            BY <1>5, <2>1
        <3>. QED BY <1>5, <1>17, <2>1, <3>1, <3>2
    <2>2. CASE request.tool.tool # "system"
        <3>1. Ends(abc, Sandbox!ToolCommand, ToolOp)
            BY <1>5, <1>14, <2>2, ConcatEnds DEF abc
        <3>2. Avoids(d, Sandbox!ToolCommand)
            BY <1>5, <1>6, <2>2
        <3>. QED BY <1>6, <1>15, <3>1, <3>2, ConcatEnds
    <2>. QED BY <2>1, <2>2
<1>21. Ends(p, Sandbox!InWorkspace, w)
    BY <1>6, <1>15, ConcatEnds
<1>22. \A path : Ends(p, path, x)
    BY <1>6, <1>15, ConcatEnds
<1>23. request.state # Sandbox!None => Ends(p, t, Sandbox!Mount("rw", s, t))
    <2>. SUFFICES ASSUME request.state # Sandbox!None
                  PROVE  Ends(p, t, Sandbox!Mount("rw", s, t))
        OBVIOUS
    <2>1. t \in Paths /\ t[1] = "home"
        BY <1>9
    <2>2. Ends(ab, t, Sandbox!Mount("rw", s, t))
        BY <1>3, <1>4, ConcatEnds DEF ab
    <2>3. Ends(abc, t, Sandbox!Mount("rw", s, t))
        BY <1>5, <1>14, <2>1, <2>2, ConcatEnds DEF abc
    <2>4. Avoids(d, t)
        BY <1>6, <2>1
    <2>. QED BY <1>6, <1>15, <2>3, <2>4, ConcatEnds
<1>24. p = Sandbox!HostMounts
    BY <1>1 DEF ab, abc
<1>. HIDE DEF p
<1>. QED BY <1>9, <1>13, <1>16, <1>18, <1>19, <1>20, <1>21, <1>22, <1>23,
            <1>24 DEF w, x, r, h

GuestRootPart ==
    IF request.tool.root = Sandbox!None THEN << >>
    ELSE <<Sandbox!Mount("ro", request.tool.root, request.tool.root)>>

LEMMA GuestFour ==
    LET p == <<Sandbox!SameIfAny(<<"usr">>),
               Sandbox!SameIfAny(<<"usr", "local">>),
               Sandbox!SameIfAny(<<"opt", "sandbox-guard", "tools">>),
               Sandbox!SameIfAny(<<"etc">>)>>
    IN  p \in Seq(Ops) /\ WritesOnly(p, {})
<1>. DEFINE u == <<"usr">>
            l == <<"usr", "local">>
            t == <<"opt", "sandbox-guard", "tools">>
            e == <<"etc">>
<1>1. /\ "usr" \in Components /\ "etc" \in Components
      /\ "local" \in Components /\ "opt" \in Components
      /\ "sandbox-guard" \in Components /\ "tools" \in Components
    BY PathAssumption
<1>2. u \in Paths /\ e \in Paths
    BY <1>1, TopLevel
<1>3. l \in Paths
    BY <1>1, ShortPaths, Zenon DEF Paths
<1>4. t \in Paths
    BY <1>1, ShortPaths, Zenon DEF Paths
<1>. HIDE DEF u, l, t, e
<1>5. ASSUME NEW path \in Paths
      PROVE  /\ Sandbox!SameIfAny(path) \in Ops
             /\ Sandbox!SameIfAny(path).kind = "optional"
    BY MountIs DEF Sandbox!SameIfAny
<1>. DEFINE a == Sandbox!SameIfAny(u)
            b == Sandbox!SameIfAny(l)
            c == Sandbox!SameIfAny(t)
            d == Sandbox!SameIfAny(e)
            p == <<a, b, c, d>>
<1>6. /\ a \in Ops /\ b \in Ops /\ c \in Ops /\ d \in Ops
      /\ a.kind # "rw" /\ b.kind # "rw" /\ c.kind # "rw" /\ d.kind # "rw"
    BY <1>2, <1>3, <1>4, <1>5
<1>. HIDE DEF a, b, c, d
<1>7. /\ p \in Seq(Ops) /\ Len(p) = 4 /\ 1..4 = {1, 2, 3, 4}
      /\ p[1] = a /\ p[2] = b /\ p[3] = c /\ p[4] = d
    BY <1>6
<1>. HIDE DEF p
<1>8. WritesOnly(p, {})
    BY <1>6, <1>7 DEF WritesOnly
<1>. QED BY <1>7, <1>8 DEF p, a, b, c, d, u, l, t, e

LEMMA GuestRootIs ==
    ASSUME request \in Requests
    PROVE  GuestRootPart \in Seq(Ops) /\ WritesOnly(GuestRootPart, {})
<1>1. CASE request.tool.root = Sandbox!None
    BY <1>1, NoMount DEF GuestRootPart
<1>2. CASE request.tool.root # Sandbox!None
    <2>. DEFINE r == request.tool.root
                a == Sandbox!Mount("ro", r, r)
    <2>1. r \in GuestRoots
        BY <1>2 DEF Requests, Sandbox!ToolChoices
    <2>2. r \in Paths
        BY <2>1, PathAssumption DEF Paths
    <2>3. GuestRootPart = <<a>>
        BY <1>2 DEF GuestRootPart
    <2>. HIDE DEF r
    <2>4. a \in Ops /\ a.kind = "ro"
        BY <2>2, MountIs
    <2>. HIDE DEF a
    <2>. QED BY <2>3, <2>4, OneMount
<1>. QED BY <1>1, <1>2

GuestState == Sandbox!GuestRoot \o <<"session-state">>
GuestWorkspace == Sandbox!GuestRoot \o <<"workspace">>

\* The same in the guest, where helper and tool are reached through the
\* directories of the guest itself.
LEMMA GuestPlan ==
    ASSUME request \in Requests, Sandbox!Valid
    PROVE  LET p == Sandbox!GuestMounts
           IN  /\ p \in Seq(Ops)
               /\ Ends(p, Sandbox!InRuntime, RuntimeOp(Sandbox!GuestRoot))
               /\ Ends(p, Sandbox!InWorkspace, WorkspaceOp(GuestWorkspace))
               /\ \A path : Ends(p, path, InboxOp(Sandbox!GuestRoot))
               /\ request.state # Sandbox!None =>
                      Ends(p, request.state[2],
                           Sandbox!Mount("rw", GuestState, request.state[2]))
               /\ WritesOnly(p, {WorkspaceOp(GuestWorkspace)}
                                \cup StateOps(GuestState))
<1>. DEFINE four == <<Sandbox!SameIfAny(<<"usr">>),
                      Sandbox!SameIfAny(<<"usr", "local">>),
                      Sandbox!SameIfAny(<<"opt", "sandbox-guard", "tools">>),
                      Sandbox!SameIfAny(<<"etc">>)>>
            g == Sandbox!GuestRoot
            s == GuestState
            r == RuntimeOp(g)
            base == Sandbox!Base
            root == GuestRootPart
            res == Sandbox!Resolver
            run == <<r>>
            b == Sandbox!StateMount(s)
            d == Sandbox!SharedMounts(GuestWorkspace, g)
            w == WorkspaceOp(GuestWorkspace)
            x == InboxOp(g)
            t == request.state[2]
            S == StateOps(s)
<1>1. Sandbox!GuestMounts =
          (((((base \o four) \o root) \o res) \o run) \o b) \o d
    BY DEF Sandbox!GuestMounts, GuestRootPart, GuestState, GuestWorkspace,
           RuntimeOp
<1>2. /\ g \in Paths /\ s \in Paths /\ GuestWorkspace \in Paths
    <2>1. "session-state" \in Components /\ "workspace" \in Components
        BY PathAssumption
    <2>2. g \in Paths
        BY HostPlaces
    <2>3. s \in Paths
        BY <2>1, <2>2, Below DEF GuestState
    <2>4. GuestWorkspace \in Paths
        BY <2>1, <2>2, Below DEF GuestWorkspace
    <2>. QED BY <2>2, <2>3, <2>4
<1>3. /\ base \in Seq(Ops) /\ WritesOnly(base, {})
      /\ four \in Seq(Ops) /\ WritesOnly(four, {})
      /\ root \in Seq(Ops) /\ WritesOnly(root, {})
      /\ res \in Seq(Ops) /\ WritesOnly(res, {})
    BY BasePart, GuestFour, GuestRootIs, ResolverPart
<1>. HIDE DEF base, four, root, res
<1>4. /\ b \in Seq(Ops) /\ WritesOnly(b, S)
      /\ \A path \in Paths : path[1] # "home" => Avoids(b, path)
      /\ request.state # Sandbox!None =>
             Ends(b, t, Sandbox!Mount("rw", s, t))
    BY <1>2, StatePart
<1>5. /\ d \in Seq(Ops) /\ WritesOnly(d, {w})
      /\ \A path \in Paths : path[1] # "workspace" => Avoids(d, path)
      /\ Ends(d, Sandbox!InWorkspace, w)
      /\ \A path : Ends(d, path, x)
    BY <1>2, SharedPart DEF WorkspaceOp, InboxOp
<1>6. r \in Ops /\ r.kind = "ro"
    BY <1>2, Named, MountIs DEF RuntimeOp
<1>. HIDE DEF r
<1>7. run \in Seq(Ops) /\ WritesOnly(run, {})
      /\ Ends(run, Sandbox!InRuntime, r)
    BY <1>6, OneMount
<1>8. /\ Sandbox!InRuntime \in Paths /\ Sandbox!InRuntime[1] = "run"
    BY Named
<1>9. request.state # Sandbox!None => t \in Paths /\ t[1] = "home"
    BY StateIs
<1>. HIDE DEF run, b, d, w, x, S, s
<1>. DEFINE p1 == base \o four
            p2 == p1 \o root
            p3 == p2 \o res
            p4 == p3 \o run
            p5 == p4 \o b
            p == p5 \o d
<1>10. p1 \in Seq(Ops) /\ WritesOnly(p1, {})
    BY <1>3, ConcatTwo, ConcatWrites
<1>. HIDE DEF p1
<1>11. p2 \in Seq(Ops) /\ WritesOnly(p2, {})
    BY <1>3, <1>10, ConcatTwo, ConcatWrites
<1>. HIDE DEF p2
<1>12. p3 \in Seq(Ops) /\ WritesOnly(p3, {})
    BY <1>3, <1>11, ConcatTwo, ConcatWrites
<1>. HIDE DEF p3
<1>13. p4 \in Seq(Ops) /\ WritesOnly(p4, {})
       /\ Ends(p4, Sandbox!InRuntime, r)
    BY <1>7, <1>12, ConcatTwo, ConcatWrites, ConcatEnds
<1>. HIDE DEF p4
<1>14. p5 \in Seq(Ops) /\ WritesOnly(p5, S)
    <2>1. WritesOnly(p4, S)
        BY <1>13, WritesWiden
    <2>. QED BY <1>4, <1>13, <2>1, ConcatTwo, ConcatWrites
<1>15. Ends(p5, Sandbox!InRuntime, r)
    BY <1>4, <1>8, <1>13, ConcatEnds
<1>16. request.state # Sandbox!None => Ends(p5, t, Sandbox!Mount("rw", s, t))
    BY <1>4, <1>13, ConcatEnds
<1>. HIDE DEF p5
<1>17. p \in Seq(Ops) /\ WritesOnly(p, {w} \cup S)
    <2>1. WritesOnly(d, {w} \cup S) /\ WritesOnly(p5, {w} \cup S)
        BY <1>5, <1>14, WritesWiden
    <2>. QED BY <1>5, <1>14, <2>1, ConcatTwo, ConcatWrites
<1>18. Ends(p, Sandbox!InRuntime, r)
    <2>1. Avoids(d, Sandbox!InRuntime)
        BY <1>5, <1>8
    <2>. QED BY <1>5, <1>14, <1>15, <2>1, ConcatEnds
<1>19. Ends(p, Sandbox!InWorkspace, w)
    BY <1>5, <1>14, ConcatEnds
<1>20. \A path : Ends(p, path, x)
    BY <1>5, <1>14, ConcatEnds
<1>21. request.state # Sandbox!None => Ends(p, t, Sandbox!Mount("rw", s, t))
    <2>. SUFFICES ASSUME request.state # Sandbox!None
                  PROVE  Ends(p, t, Sandbox!Mount("rw", s, t))
        OBVIOUS
    <2>1. Avoids(d, t)
        BY <1>5, <1>9
    <2>. QED BY <1>5, <1>14, <1>16, <2>1, ConcatEnds
<1>22. p = Sandbox!GuestMounts
    BY <1>1 DEF p1, p2, p3, p4, p5
<1>. HIDE DEF p
<1>. QED BY <1>17, <1>18, <1>19, <1>20, <1>21, <1>22 DEF w, x, r, S, s

-----------------------------------------------------------------------------
(* What is visible when the mounts are done.                               *)

\* The mount d was done for the mount m of the plan.
Done(m, d) ==
    /\ d.at = m.at
    /\ m.kind = "optional" => d.kind \in {"ro", "absent"}
    /\ m.kind # "optional" => d = m

Follows ==
    /\ mounts \in Seq(Ops) /\ Len(mounts) <= Len(Sandbox!MountPlan)
    /\ \A i \in 1..Len(mounts) : Done(Sandbox!MountPlan[i], mounts[i])

LEMMA VisibleIs ==
    ASSUME Follows, Len(mounts) = Len(Sandbox!MountPlan),
           NEW path, NEW m, Ends(Sandbox!MountPlan, path, m),
           Sandbox!Within(path, m.at), m.kind \in {"ro", "rw"}
    PROVE  Sandbox!Visible(path) = m
<1>. DEFINE S == {i \in DOMAIN mounts : /\ mounts[i].kind # "absent"
                                        /\ Sandbox!Within(path, mounts[i].at)}
<1>1. DOMAIN mounts = 1..Len(mounts) /\ Len(mounts) \in Nat
    BY LenProperties DEF Follows
<1>2. PICK k \in 1..Len(mounts) :
          /\ Sandbox!MountPlan[k] = m
          /\ \A i \in 1..Len(mounts) :
                 i > k => ~Sandbox!Within(path, Sandbox!MountPlan[i].at)
    BY DEF Ends
<1>3. \A i \in 1..Len(mounts) : Done(Sandbox!MountPlan[i], mounts[i])
    BY DEF Follows
<1>4. mounts[k] = m
    BY <1>2, <1>3 DEF Done
<1>5. k \in S
    BY <1>1, <1>4
<1>6. \A i \in S : i \in Nat /\ i <= k
    BY <1>1, <1>2, <1>3 DEF Done
<1>. HIDE DEF S
<1>7. Sandbox!Max(S) = k
    <2>1. k \in S /\ \A y \in S : k >= y
        BY <1>1, <1>5, <1>6
    <2>2. Sandbox!Max(S) \in S /\ \A y \in S : Sandbox!Max(S) >= y
        BY <2>1 DEF Sandbox!Max
    <2>. DEFINE top == Sandbox!Max(S)
    <2>. HIDE DEF top
    <2>3. top \in Nat /\ k \in Nat /\ top <= k /\ top >= k
        BY <1>6, <2>1, <2>2 DEF top
    <2>4. top = k
        BY <2>3
    <2>. QED BY <2>4 DEF top
<1>. QED BY <1>4, <1>7 DEF Sandbox!Visible, S

LEMMA ShownAt ==
    ASSUME NEW path \in Paths, Sandbox!Visible(path).at = path,
           Sandbox!Visible(path).source \in Paths
    PROVE  Sandbox!Shown(path) = Sandbox!Visible(path).source
<1>1. Len(path) \in Nat
    BY LenProperties DEF Paths
<1>2. SubSeq(path, Len(path) + 1, Len(path)) = << >>
    BY <1>1, SubSeqEmpty
<1>3. Sandbox!Visible(path).source \o << >> = Sandbox!Visible(path).source
    BY ConcatEmptySeq DEF Paths
<1>. QED BY <1>2, <1>3 DEF Sandbox!Shown

\* The store is out of a directory that neither holds its parent nor is held
\* by it.
LEMMA StoreOutside ==
    ASSUME NEW parent \in Paths, NEW root \in Paths,
           ~Sandbox!Within(parent, root), ~Sandbox!Within(root, parent)
    PROVE  ~Sandbox!Within(Sandbox!StoreFile(parent), root)
<1>. DEFINE f == Sandbox!StoreFile(parent)
<1>1. "decisions.json" \in Components
    BY PathAssumption
<1>2. /\ f \in Paths /\ Len(f) = Len(parent) + 1
      /\ \A i \in 1..Len(parent) : f[i] = parent[i]
    BY <1>1, Below DEF Sandbox!StoreFile
<1>. HIDE DEF f
<1>3. Len(parent) \in Nat /\ Len(root) \in Nat
    BY LenProperties DEF Paths
<1>. SUFFICES ASSUME Sandbox!Within(f, root) PROVE FALSE
    BY DEF f
<1>4. Len(root) <= Len(f) /\ \A i \in 1..Len(root) : root[i] = f[i]
    BY <1>2, WithinMeans
<1>5. CASE Len(root) <= Len(parent)
    <2>1. \A i \in 1..Len(root) : root[i] = parent[i]
        BY <1>2, <1>3, <1>4, <1>5
    <2>. QED BY <1>5, <2>1, WithinMeans
<1>6. CASE Len(root) = Len(parent) + 1
    <2>1. \A i \in 1..Len(parent) : parent[i] = root[i]
        BY <1>2, <1>3, <1>4, <1>6
    <2>2. Len(parent) <= Len(root)
        BY <1>3, <1>6
    <2>. QED BY <2>1, <2>2, WithinMeans
<1>. QED BY <1>2, <1>3, <1>4, <1>5, <1>6

-----------------------------------------------------------------------------
(* The inductive invariant of the launch.                                  *)

PlanTypes ==
    /\ phase \in {"none", "validate", "plan", "refused", "exec", "mount",
                  "no-namespace", "failed", "supervise", "running"}
    /\ probed \in {"none", "works", "fails"}
    /\ forbids \in {"nothing", "user", "net"}

\* What is planned has been validated, and its tool found.
PlanChecked ==
    /\ phase # "none" => request \in Requests
    /\ phase \notin {"none", "validate", "refused"} => Sandbox!Valid
    /\ phase \in {"exec", "mount", "supervise", "running"} =>
           request.tool.tool # "outside"

\* env -i is the last program before bwrap.
Before == {"limactl", "systemd-run", "env"}
IsChain(c) ==
    /\ c \in Seq(Before \cup {"bwrap"}) /\ Len(c) >= 1
    /\ c[Len(c)] = "bwrap"
    /\ Len(c) >= 2 => c[Len(c) - 1] = "env"
    /\ \A i \in 1..(Len(c) - 1) : c[i] # "bwrap"

PlanLaunch ==
    /\ phase = "exec" => /\ IsChain(chain)
                         /\ Len(chain) = 1 => environment = {}
    /\ phase \in {"mount", "supervise", "running"} => launcher = {}
    /\ phase = "supervise" =>
           environment \subseteq {"HOME", "PATH", "LANG", "TERM"}

PlanProbe ==
    /\ probed = "works" => forbids \notin Sandbox!ProbeUnshares
    /\ phase = "no-namespace" => probed # "works"

PlanMounts ==
    /\ phase \in {"none", "validate", "plan", "exec"} => mounts = << >>
    /\ phase \in {"mount", "supervise", "running"} => Follows
    /\ phase \in {"supervise", "running"} =>
           Len(mounts) = Len(Sandbox!MountPlan)

PlanInv ==
    /\ PlanTypes /\ PlanChecked /\ PlanLaunch /\ PlanProbe /\ PlanMounts
    /\ Sandbox!EnvironmentGuarded

LEMMA SameRequest ==
    ASSUME request' = request
    PROVE  /\ Sandbox!MountPlan' = Sandbox!MountPlan
           /\ Sandbox!Valid' = Sandbox!Valid
           /\ Requests' = Requests
<1>1. Requests' = Requests
    BY DEF Requests, Sandbox!Connections, Sandbox!States, Sandbox!Names,
           Sandbox!ToolChoices, Sandbox!HostTools, Sandbox!None
<1>2. Sandbox!Valid' = Sandbox!Valid
    BY DEF Sandbox!Valid, Sandbox!StateAllowed, Sandbox!TargetAllowed,
           Sandbox!Plain, Sandbox!Reserved, Sandbox!NetworkAllowed,
           Sandbox!StoreAllowed, Sandbox!StoreFile, Sandbox!NameAllowed,
           Sandbox!None, Sandbox!Within, Sandbox!IsPrefix,
           Sandbox!Workspace, Sandbox!InHome, Sandbox!InWorkspace,
           Sandbox!InInbox, Sandbox!InRuntime
<1>3. Sandbox!MountPlan' = Sandbox!MountPlan
    BY DEF Sandbox!MountPlan, Sandbox!HostMounts, Sandbox!GuestMounts,
           Sandbox!OnHost, Sandbox!Base, Sandbox!Resolver, Sandbox!Net,
           Sandbox!StateMount, Sandbox!ToolMount, Sandbox!SharedMounts
<1>. QED BY <1>1, <1>2, <1>3

LEMMA PlanOps ==
    ASSUME request \in Requests, Sandbox!Valid,
           request.tool.tool # "outside"
    PROVE  /\ Sandbox!MountPlan \in Seq(Ops)
           /\ Sandbox!OnHost =>
                  request.tool.tool \in {"system", "own", "rooted"}
<1>1. request.tool \in Sandbox!ToolChoices
    BY DEF Requests
<1>2. Sandbox!OnHost => request.tool.tool \in {"system", "own", "rooted"}
    BY <1>1 DEF Sandbox!OnHost, Sandbox!ToolChoices, Sandbox!HostTools
<1>3. Sandbox!OnHost => Sandbox!HostMounts \in Seq(Ops)
    BY <1>2, HostPlan
<1>4. Sandbox!GuestMounts \in Seq(Ops)
    BY GuestPlan
<1>. QED BY <1>2, <1>3, <1>4 DEF Sandbox!MountPlan

LEMMA PlanInit ==
    ASSUME Sandbox!Init
    PROVE  PlanInv
<1>1. /\ phase = "none" /\ mounts = << >> /\ probed = "none"
      /\ forbids = "nothing"
    BY DEF Sandbox!Init
<1>. QED BY <1>1 DEF PlanInv, PlanTypes, PlanChecked, PlanLaunch, PlanProbe,
                     PlanMounts, Sandbox!EnvironmentGuarded

LEMMA PlanStays ==
    ASSUME PlanInv, UNCHANGED plan
    PROVE  PlanInv'
<1>1. /\ request' = request /\ phase' = phase /\ chain' = chain
      /\ environment' = environment /\ launcher' = launcher
      /\ forbids' = forbids /\ probed' = probed /\ mounts' = mounts
    BY DEF plan
<1>2. /\ Sandbox!MountPlan' = Sandbox!MountPlan
      /\ Sandbox!Valid' = Sandbox!Valid /\ Requests' = Requests
    BY <1>1, SameRequest
<1>3. PlanTypes' /\ PlanLaunch' /\ PlanProbe'
    BY <1>1 DEF PlanInv, PlanTypes, PlanLaunch, PlanProbe, IsChain,
                Before, Sandbox!ProbeUnshares
<1>4. PlanChecked'
    BY <1>1, <1>2 DEF PlanInv, PlanChecked
<1>5. Follows' = Follows
    BY <1>1, <1>2 DEF Follows, Ops, Paths, Done
<1>6. PlanMounts'
    BY <1>1, <1>2, <1>5 DEF PlanInv, PlanMounts
<1>7. Sandbox!EnvironmentGuarded'
    BY <1>1 DEF PlanInv, Sandbox!EnvironmentGuarded, Sandbox!Net
<1>. QED BY <1>3, <1>4, <1>6, <1>7 DEF PlanInv

LEMMA PlanAsk ==
    ASSUME PlanInv, Sandbox!Ask
    PROVE  PlanInv'
<1>1. /\ phase = "none" /\ phase' = "validate" /\ mounts' = mounts
      /\ forbids' = forbids /\ probed' = probed
    BY DEF Sandbox!Ask
<1>2. request' \in Requests
    BY DEF Sandbox!Ask, Requests
<1>3. Requests' = Requests
    BY DEF Requests, Sandbox!Connections, Sandbox!States, Sandbox!Names,
           Sandbox!ToolChoices, Sandbox!HostTools, Sandbox!None
<1>4. PlanTypes' /\ PlanLaunch' /\ PlanProbe' /\ PlanMounts'
    BY <1>1 DEF PlanInv, PlanTypes, PlanLaunch, PlanProbe, PlanMounts,
                Sandbox!ProbeUnshares
<1>5. PlanChecked' /\ Sandbox!EnvironmentGuarded'
    BY <1>1, <1>2, <1>3 DEF PlanChecked, Sandbox!EnvironmentGuarded
<1>. QED BY <1>4, <1>5 DEF PlanInv

LEMMA PlanValidate ==
    ASSUME PlanInv, Sandbox!Validate
    PROVE  PlanInv'
<1>1. /\ phase = "validate" /\ request' = request /\ mounts' = mounts
      /\ forbids' = forbids /\ probed' = probed
      /\ phase' = IF Sandbox!Valid THEN "plan" ELSE "refused"
    BY DEF Sandbox!Validate
<1>2. Sandbox!Valid' = Sandbox!Valid /\ Requests' = Requests
    BY <1>1, SameRequest
<1>3. PlanTypes' /\ PlanLaunch' /\ PlanProbe' /\ PlanMounts'
    BY <1>1 DEF PlanInv, PlanTypes, PlanLaunch, PlanProbe, PlanMounts,
                Sandbox!ProbeUnshares
<1>4. PlanChecked' /\ Sandbox!EnvironmentGuarded'
    BY <1>1, <1>2 DEF PlanInv, PlanChecked, Sandbox!EnvironmentGuarded
<1>. QED BY <1>3, <1>4 DEF PlanInv

LEMMA CommandIsChain ==
    ASSUME NEW scope \in BOOLEAN
    PROVE  IsChain(Sandbox!Command(scope)) /\ Len(Sandbox!Command(scope)) >= 2
<1>. DEFINE All == Before \cup {"bwrap"}
            a == IF Sandbox!OnHost THEN << >> ELSE <<"limactl">>
            b == IF scope THEN <<"systemd-run">> ELSE << >>
            e == <<"env", "bwrap">>
            p == a \o b
            c == p \o e
<1>1. a \in Seq(Before) /\ b \in Seq(Before)
    <2>1. "limactl" \in Before /\ "systemd-run" \in Before
        BY DEF Before
    <2>2. /\ << >> \in Seq(Before) /\ <<"limactl">> \in Seq(Before)
          /\ <<"systemd-run">> \in Seq(Before)
        BY <2>1, ShortPaths, Zenon
    <2>. QED BY <2>2
<1>2. /\ e \in Seq(All) /\ Len(e) = 2 /\ e[1] = "env" /\ e[2] = "bwrap"
    <2>1. "env" \in All /\ "bwrap" \in All
        BY DEF Before
    <2>. QED BY <2>1, ShortPaths, Zenon
<1>3. Sandbox!Command(scope) = c
    BY DEF Sandbox!Command
<1>. HIDE DEF a, b, e, p, c, All
<1>4. p \in Seq(Before)
    BY <1>1, ConcatTwo DEF p
<1>5. Len(p) \in Nat /\ \A i \in 1..Len(p) : p[i] \in Before
    BY <1>4, ElementOfSeq, LenProperties
<1>6. p \in Seq(All)
    BY <1>4 DEF All
<1>7. /\ c \in Seq(All) /\ Len(c) = Len(p) + Len(e)
      /\ \A i \in 1..Len(p) : c[i] = p[i]
      /\ \A i \in 1..Len(e) : c[Len(p) + i] = e[i]
    <2>1. e \in Seq(All)
        BY <1>2
    <2>2. /\ p \o e \in Seq(All) /\ Len(p \o e) = Len(p) + Len(e)
          /\ \A i \in 1..Len(p) : (p \o e)[i] = p[i]
          /\ \A i \in 1..Len(e) : (p \o e)[Len(p) + i] = e[i]
        BY <1>6, <2>1, ConcatTwo
    <2>. QED BY <2>2 DEF c
<1>8. /\ Len(c) = Len(p) + 2
      /\ c[Len(p) + 1] = "env" /\ c[Len(p) + 2] = "bwrap"
    <2>1. 1 \in 1..Len(e) /\ 2 \in 1..Len(e)
        BY <1>2
    <2>. QED BY <1>2, <1>7, <2>1
<1>9. ASSUME NEW i \in 1..(Len(c) - 1) PROVE c[i] # "bwrap"
    <2>1. i \in 1..Len(p) \/ i = Len(p) + 1
        BY <1>5, <1>8
    <2>2. CASE i \in 1..Len(p)
        BY <1>5, <1>7, <2>2 DEF Before
    <2>3. CASE i = Len(p) + 1
        BY <1>8, <2>3
    <2>. QED BY <2>1, <2>2, <2>3
<1>10. Len(c) >= 2 /\ Len(c) - 1 = Len(p) + 1
    BY <1>5, <1>8
<1>11. IsChain(c)
    <2>1. Len(c) >= 1 /\ c[Len(c)] = "bwrap" /\ c[Len(c) - 1] = "env"
        BY <1>5, <1>8, <1>10
    <2>. QED BY <1>7, <1>9, <2>1 DEF IsChain, All
<1>. QED BY <1>3, <1>10, <1>11

LEMMA ChainTail ==
    ASSUME NEW c, IsChain(c), Head(c) # "bwrap"
    PROVE  /\ IsChain(Tail(c))
           /\ Len(Tail(c)) = 1 => Head(c) = "env"
<1>. DEFINE t == Tail(c)
            n == Len(c)
<1>1. /\ c \in Seq(Before \cup {"bwrap"}) /\ n \in Nat /\ n >= 1
      /\ c # << >>
    <2>1. c \in Seq(Before \cup {"bwrap"}) /\ n >= 1
        BY DEF IsChain
    <2>2. n \in Nat
        BY <2>1, LenProperties
    <2>. QED BY <2>1, <2>2
<1>2. /\ Head(c) = c[1] /\ t \in Seq(Before \cup {"bwrap"})
      /\ Len(t) = n - 1
      /\ \A i \in 1..Len(t) : t[i] = c[i + 1]
    BY <1>1, HeadTailProperties
<1>. HIDE DEF t, n
<1>3. c[n] = "bwrap" /\ n >= 2
    <2>1. c[n] = "bwrap"
        BY DEF IsChain, n
    <2>2. n # 1
        BY <1>2, <2>1
    <2>. QED BY <1>1, <2>1, <2>2
<1>4. Len(t) >= 1 /\ Len(t) + 1 = n
    BY <1>1, <1>2, <1>3
<1>5. t[Len(t)] = "bwrap"
    BY <1>1, <1>2, <1>3, <1>4
<1>6. c[n - 1] = "env" /\ \A i \in 1..(n - 1) : c[i] # "bwrap"
    BY <1>3 DEF IsChain, n
<1>7. ASSUME Len(t) >= 2 PROVE t[Len(t) - 1] = "env"
    <2>1. Len(t) - 1 \in 1..Len(t) /\ (Len(t) - 1) + 1 = n - 1
        BY <1>1, <1>4, <1>7
    <2>. QED BY <1>2, <1>6, <2>1
<1>8. ASSUME NEW i \in 1..(Len(t) - 1) PROVE t[i] # "bwrap"
    <2>1. i \in 1..Len(t) /\ i + 1 \in 1..(n - 1)
        BY <1>1, <1>4
    <2>. QED BY <1>2, <1>6, <2>1
<1>9. IsChain(t)
    BY <1>2, <1>4, <1>5, <1>7, <1>8 DEF IsChain
<1>10. ASSUME Len(t) = 1 PROVE Head(c) = "env"
    <2>1. n - 1 = 1
        BY <1>1, <1>4, <1>10
    <2>. QED BY <1>2, <1>6, <2>1
<1>. QED BY <1>9, <1>10 DEF t

LEMMA PlanPlan ==
    ASSUME PlanInv, Sandbox!Plan
    PROVE  PlanInv'
<1>1. /\ phase = "plan" /\ request' = request /\ mounts' = mounts
      /\ probed' = probed
      /\ phase' \in {"refused", "exec"}
      /\ phase' = "exec" => request.tool.tool # "outside"
    BY DEF Sandbox!Plan
<1>2. Sandbox!Valid' = Sandbox!Valid /\ Requests' = Requests
    BY <1>1, SameRequest
<1>3. phase' = "exec" => IsChain(chain)' /\ Len(chain') >= 2
    BY CommandIsChain DEF Sandbox!Plan, IsChain, Before
<1>4. /\ forbids' \in {"nothing", "user", "net"}
      /\ probed' = "works" => forbids' = forbids
    BY <1>1 DEF Sandbox!Plan, Sandbox!Machine, PlanInv, PlanTypes
<1>5. PlanTypes' /\ PlanProbe'
    BY <1>1, <1>4 DEF PlanInv, PlanTypes, PlanProbe, Sandbox!ProbeUnshares
<1>6. PlanMounts'
    BY <1>1 DEF PlanInv, PlanMounts
<1>7. PlanLaunch'
    <2>1. phase' = "exec" => IsChain(chain)' /\ Len(chain') # 1
        BY <1>3 DEF IsChain
    <2>. QED BY <1>1, <2>1 DEF PlanLaunch
<1>8. PlanChecked' /\ Sandbox!EnvironmentGuarded'
    BY <1>1, <1>2 DEF PlanInv, PlanChecked, Sandbox!EnvironmentGuarded
<1>. QED BY <1>5, <1>6, <1>7, <1>8 DEF PlanInv

LEMMA PlanProbes ==
    ASSUME PlanInv, Sandbox!Probe
    PROVE  PlanInv'
<1>1. /\ phase = "plan" /\ request' = request /\ mounts' = mounts
      /\ phase' = phase
      /\ probed' = IF forbids' \in Sandbox!ProbeUnshares THEN "fails"
                   ELSE "works"
      /\ forbids' \in {"nothing", "user", "net"}
    BY DEF Sandbox!Probe, Sandbox!Machine
<1>2. Sandbox!Valid' = Sandbox!Valid /\ Requests' = Requests
    BY <1>1, SameRequest
<1>3. PlanTypes' /\ PlanProbe'
    BY <1>1 DEF PlanTypes, PlanProbe, Sandbox!ProbeUnshares
<1>4. PlanMounts' /\ PlanLaunch'
    BY <1>1 DEF PlanInv, PlanMounts, PlanLaunch
<1>5. PlanChecked' /\ Sandbox!EnvironmentGuarded'
    BY <1>1, <1>2 DEF PlanInv, PlanChecked, Sandbox!EnvironmentGuarded
<1>. QED BY <1>3, <1>4, <1>5 DEF PlanInv

LEMMA PlanExec ==
    ASSUME PlanInv, Sandbox!Exec
    PROVE  PlanInv'
<1>1. /\ phase = "exec" /\ request' = request /\ mounts' = mounts
      /\ phase' = phase /\ forbids' = forbids /\ probed' = probed
      /\ chain' = Tail(chain) /\ Head(chain) # "bwrap"
      /\ Head(chain) = "env" => environment' = {}
    BY DEF Sandbox!Exec
<1>2. Sandbox!Valid' = Sandbox!Valid /\ Requests' = Requests
    BY <1>1, SameRequest
<1>3. PlanTypes' /\ PlanProbe' /\ PlanMounts'
    BY <1>1 DEF PlanInv, PlanTypes, PlanProbe, PlanMounts,
                Sandbox!ProbeUnshares
<1>4. IsChain(chain)
    BY <1>1 DEF PlanInv, PlanLaunch
<1>5. /\ IsChain(Tail(chain))
      /\ Len(Tail(chain)) = 1 => Head(chain) = "env"
    BY <1>1, <1>4, ChainTail
<1>6. IsChain(chain)' /\ (Len(chain') = 1 => environment' = {})
    BY <1>1, <1>5 DEF IsChain, Before
<1>7. PlanLaunch'
    BY <1>1, <1>6 DEF PlanLaunch
<1>8. PlanChecked' /\ Sandbox!EnvironmentGuarded'
    BY <1>1, <1>2 DEF PlanInv, PlanChecked, Sandbox!EnvironmentGuarded
<1>. QED BY <1>3, <1>7, <1>8 DEF PlanInv

LEMMA PlanExecBwrap ==
    ASSUME PlanInv, Sandbox!ExecBwrap
    PROVE  PlanInv'
<1>1. /\ phase = "exec" /\ request' = request /\ mounts' = mounts
      /\ forbids' = forbids /\ probed' = probed
      /\ Head(chain) = "bwrap" /\ launcher' = environment
      /\ phase' = IF forbids \in Sandbox!Unshares THEN "no-namespace"
                  ELSE "mount"
    BY DEF Sandbox!ExecBwrap
<1>2. /\ Sandbox!MountPlan' = Sandbox!MountPlan
      /\ Sandbox!Valid' = Sandbox!Valid /\ Requests' = Requests
    BY <1>1, SameRequest
<1>3. Sandbox!Unshares \subseteq Sandbox!ProbeUnshares
    BY DEF Sandbox!Unshares, Sandbox!ProbeUnshares
<1>4. PlanTypes' /\ PlanProbe'
    BY <1>1, <1>3 DEF PlanInv, PlanTypes, PlanProbe, Sandbox!ProbeUnshares
<1>5. Len(chain) = 1
    <2>1. IsChain(chain)
        BY <1>1 DEF PlanInv, PlanLaunch
    <2>2. chain \in Seq(Before \cup {"bwrap"}) /\ Len(chain) >= 1
        BY <2>1 DEF IsChain
    <2>3. Len(chain) \in Nat /\ chain # << >>
        BY <2>2, LenProperties
    <2>4. chain[1] = "bwrap"
        BY <1>1, <2>2, <2>3, HeadTailProperties
    <2>5. \A i \in 1..(Len(chain) - 1) : chain[i] # "bwrap"
        BY <2>1 DEF IsChain
    <2>6. ASSUME Len(chain) >= 2 PROVE FALSE
        <3>1. 1 \in 1..(Len(chain) - 1)
            BY <2>3, <2>6
        <3>. QED BY <2>4, <2>5, <3>1
    <2>7. Len(chain) \in Nat /\ Len(chain) >= 1 /\ ~(Len(chain) >= 2)
        BY <2>2, <2>3, <2>6
    <2>. DEFINE n == Len(chain)
    <2>. HIDE DEF n
    <2>8. n \in Nat /\ n >= 1 /\ ~(n >= 2)
        BY <2>7 DEF n
    <2>9. n = 1
        BY <2>8
    <2>. QED BY <2>9 DEF n
<1>6. PlanLaunch'
    BY <1>1, <1>5 DEF PlanInv, PlanLaunch
<1>7. Sandbox!MountPlan \in Seq(Ops) /\ mounts = << >>
    BY <1>1, PlanOps DEF PlanInv, PlanChecked, PlanMounts
<1>8. Follows'
    <2>1. Len(Sandbox!MountPlan) \in Nat
        BY <1>7, LenProperties
    <2>2. mounts' = << >> /\ << >> \in Seq(Ops) /\ Len(<< >>) = 0
        <3>. HIDE DEF Ops
        <3>1. << >> \in Seq(Ops) /\ Len(<< >>) = 0
            OBVIOUS
        <3>. QED BY <1>1, <1>7, <3>1
    <2>3. Seq(Ops)' = Seq(Ops)
        BY DEF Ops, Paths
    <2>4. mounts' \in Seq(Ops)' /\ Len(mounts') = 0
        BY <2>2, <2>3
    <2>. QED BY <1>2, <2>1, <2>4 DEF Follows
<1>9. PlanMounts'
    BY <1>1, <1>8 DEF PlanMounts
<1>10. PlanChecked' /\ Sandbox!EnvironmentGuarded'
    BY <1>1, <1>2 DEF PlanInv, PlanChecked, Sandbox!EnvironmentGuarded
<1>. QED BY <1>4, <1>6, <1>9, <1>10 DEF PlanInv

LEMMA PlanMountNext ==
    ASSUME PlanInv, Sandbox!MountNext
    PROVE  PlanInv'
<1>. DEFINE k == Len(mounts) + 1
            m == Sandbox!MountPlan[k]
            there == Sandbox!Mount("ro", m.source, m.at)
            gone == Sandbox!Mount("absent", Sandbox!None, m.at)
<1>1. /\ phase = "mount" /\ request' = request /\ phase' = phase
      /\ forbids' = forbids /\ probed' = probed /\ launcher' = launcher
      /\ Len(mounts) < Len(Sandbox!MountPlan)
    BY DEF Sandbox!MountNext
<1>2. PICK d : /\ mounts' = Append(mounts, d)
               /\ IF m.kind = "optional" THEN d \in {there, gone} ELSE d = m
    BY DEF Sandbox!MountNext
<1>3. /\ Sandbox!MountPlan' = Sandbox!MountPlan
      /\ Sandbox!Valid' = Sandbox!Valid /\ Requests' = Requests
    BY <1>1, SameRequest
<1>4. Sandbox!MountPlan \in Seq(Ops) /\ Follows
    BY <1>1, PlanOps DEF PlanInv, PlanChecked, PlanMounts
<1>5. /\ Len(mounts) \in Nat /\ Len(Sandbox!MountPlan) \in Nat
      /\ k \in 1..Len(Sandbox!MountPlan)
    BY <1>1, <1>4, LenProperties DEF Follows
<1>6. m \in Ops
    BY <1>4, <1>5, ElementOfSeq
<1>7. /\ there \in Ops /\ there.at = m.at /\ there.kind = "ro"
      /\ gone \in Ops /\ gone.at = m.at /\ gone.kind = "absent"
    <2>1. m.source \in Paths /\ m.at \in Paths /\ Sandbox!None \in Paths
        BY <1>6, HostPlaces DEF Ops
    <2>. QED BY <2>1, MountIs
<1>. HIDE DEF there, gone
<1>8. d \in Ops /\ Done(m, d)
    BY <1>2, <1>6, <1>7 DEF Done
<1>9. /\ mounts' \in Seq(Ops) /\ Len(mounts') = k
      /\ \A i \in 1..Len(mounts) : mounts'[i] = mounts[i]
      /\ mounts'[k] = d
    BY <1>2, <1>4, <1>5, <1>8, AppendProperties DEF Follows
<1>10. ASSUME NEW i \in 1..k PROVE Done(Sandbox!MountPlan[i], mounts'[i])
    <2>1. i \in 1..Len(mounts) \/ i = k
        BY <1>5
    <2>2. CASE i \in 1..Len(mounts)
        BY <1>4, <1>9, <2>2 DEF Follows
    <2>3. CASE i = k
        BY <1>8, <1>9, <2>3
    <2>. QED BY <2>1, <2>2, <2>3
<1>11. Follows'
    <2>1. Seq(Ops)' = Seq(Ops)
        BY DEF Ops, Paths
    <2>2. mounts' \in Seq(Ops)' /\ Len(mounts') <= Len(Sandbox!MountPlan')
        BY <1>3, <1>5, <1>9, <2>1
    <2>3. \A i \in 1..Len(mounts') : Done(Sandbox!MountPlan'[i], mounts'[i])
        BY <1>3, <1>9, <1>10
    <2>. QED BY <2>2, <2>3 DEF Follows, Done
<1>12. PlanMounts'
    BY <1>1, <1>11 DEF PlanMounts
<1>13. PlanTypes' /\ PlanProbe' /\ PlanLaunch'
    BY <1>1 DEF PlanInv, PlanTypes, PlanProbe, PlanLaunch,
                Sandbox!ProbeUnshares
<1>14. PlanChecked' /\ Sandbox!EnvironmentGuarded'
    BY <1>1, <1>3 DEF PlanInv, PlanChecked, Sandbox!EnvironmentGuarded
<1>. QED BY <1>12, <1>13, <1>14 DEF PlanInv

LEMMA PlanMountFails ==
    ASSUME PlanInv, Sandbox!MountFails
    PROVE  PlanInv'
<1>1. /\ phase = "mount" /\ request' = request /\ phase' = "failed"
      /\ forbids' = forbids /\ probed' = probed
    BY DEF Sandbox!MountFails
<1>2. Sandbox!Valid' = Sandbox!Valid /\ Requests' = Requests
    BY <1>1, SameRequest
<1>3. PlanTypes' /\ PlanProbe' /\ PlanLaunch' /\ PlanMounts'
    BY <1>1 DEF PlanInv, PlanTypes, PlanProbe, PlanLaunch, PlanMounts,
                Sandbox!ProbeUnshares
<1>4. PlanChecked' /\ Sandbox!EnvironmentGuarded'
    BY <1>1, <1>2 DEF PlanInv, PlanChecked, Sandbox!EnvironmentGuarded
<1>. QED BY <1>3, <1>4 DEF PlanInv

LEMMA PlanExecHelper ==
    ASSUME PlanInv, Sandbox!ExecHelper
    PROVE  PlanInv'
<1>1. /\ phase = "mount" /\ request' = request /\ phase' = "supervise"
      /\ forbids' = forbids /\ probed' = probed /\ launcher' = launcher
      /\ mounts' = mounts /\ Len(mounts) = Len(Sandbox!MountPlan)
      /\ environment' \subseteq {"HOME", "PATH", "LANG", "TERM"}
    BY DEF Sandbox!ExecHelper
<1>2. /\ Sandbox!MountPlan' = Sandbox!MountPlan
      /\ Sandbox!Valid' = Sandbox!Valid /\ Requests' = Requests
    BY <1>1, SameRequest
<1>3. PlanTypes' /\ PlanProbe' /\ PlanLaunch'
    BY <1>1 DEF PlanInv, PlanTypes, PlanProbe, PlanLaunch,
                Sandbox!ProbeUnshares
<1>4. Follows' = Follows
    BY <1>1, <1>2 DEF Follows, Ops, Paths, Done
<1>5. PlanMounts'
    BY <1>1, <1>2, <1>4 DEF PlanInv, PlanMounts
<1>6. PlanChecked' /\ Sandbox!EnvironmentGuarded'
    BY <1>1, <1>2 DEF PlanInv, PlanChecked, Sandbox!EnvironmentGuarded
<1>. QED BY <1>3, <1>5, <1>6 DEF PlanInv

LEMMA PlanSupervise ==
    ASSUME PlanInv, Sandbox!Supervise
    PROVE  PlanInv'
<1>1. /\ phase = "supervise" /\ request' = request
      /\ phase' \in {"failed", "running"}
      /\ forbids' = forbids /\ probed' = probed /\ launcher' = launcher
      /\ mounts' = mounts
    BY DEF Sandbox!Supervise
<1>2. /\ Sandbox!MountPlan' = Sandbox!MountPlan
      /\ Sandbox!Valid' = Sandbox!Valid /\ Requests' = Requests
    BY <1>1, SameRequest
<1>3. PlanTypes' /\ PlanProbe' /\ PlanLaunch'
    BY <1>1 DEF PlanInv, PlanTypes, PlanProbe, PlanLaunch,
                Sandbox!ProbeUnshares
<1>4. Follows' = Follows
    BY <1>1, <1>2 DEF Follows, Ops, Paths, Done
<1>5. PlanMounts'
    BY <1>1, <1>2, <1>4 DEF PlanInv, PlanMounts
<1>6. PlanChecked'
    BY <1>1, <1>2 DEF PlanInv, PlanChecked
<1>7. Sandbox!EnvironmentGuarded'
    <2>1. ASSUME phase' = "running"
          PROVE  request.forwarded \notin {"PATH", "RUSTFLAGS", "HTTPS_PROXY"}
        <3>1. request.forwarded \notin {"1X", "PATH", "RUSTFLAGS"}
            BY <1>1 DEF PlanInv, PlanChecked, Sandbox!Valid,
                        Sandbox!NameAllowed
        <3>2. request.forwarded \notin {"1X", "PATH", "HTTPS_PROXY"}
            BY <2>1 DEF Sandbox!Supervise
        <3>. QED BY <3>1, <3>2
    <2>2. ASSUME phase' = "running", "HTTPS_PROXY" \in environment'
          PROVE  Sandbox!Net = "Controlled"
        <3>1. environment' = environment \cup {request.forwarded}
                             \cup IF Sandbox!Net = "Controlled"
                                  THEN {"HTTPS_PROXY"} ELSE {}
            BY <2>2 DEF Sandbox!Supervise
        <3>2. environment \subseteq {"HOME", "PATH", "LANG", "TERM"}
            BY <1>1 DEF PlanInv, PlanLaunch
        <3>. QED BY <2>1, <2>2, <3>1, <3>2
    <2>3. Sandbox!Net' = Sandbox!Net
        BY <1>1 DEF Sandbox!Net
    <2>. QED BY <1>1, <2>1, <2>2, <2>3 DEF Sandbox!EnvironmentGuarded
<1>. QED BY <1>3, <1>5, <1>6, <1>7 DEF PlanInv

LEMMA PlanStep ==
    ASSUME PlanInv, [Sandbox!Next]_plan
    PROVE  PlanInv'
BY PlanAsk, PlanValidate, PlanPlan, PlanProbes, PlanExec, PlanExecBwrap,
   PlanMountNext, PlanMountFails, PlanExecHelper, PlanSupervise, PlanStays
   DEF Sandbox!Next

-----------------------------------------------------------------------------
(* From the invariant to the boundary.                                     *)

LEMMA HostVisible ==
    ASSUME PlanInv, Sandbox!Running, Sandbox!OnHost
    PROVE  /\ request \in Requests /\ Sandbox!Valid /\ Follows
           /\ Len(mounts) = Len(Sandbox!MountPlan)
           /\ Sandbox!MountPlan = Sandbox!HostMounts
           /\ request.tool.tool \in {"system", "own", "rooted"}
<1>1. phase \in {"supervise", "running"}
    BY DEF Sandbox!Running
<1>2. /\ request \in Requests /\ Sandbox!Valid /\ Follows
      /\ Len(mounts) = Len(Sandbox!MountPlan)
      /\ request.tool.tool # "outside"
    BY <1>1 DEF PlanInv, PlanChecked, PlanMounts
<1>3. request.tool.tool \in {"system", "own", "rooted"}
    BY <1>2, PlanOps
<1>. QED BY <1>2, <1>3 DEF Sandbox!MountPlan

\* A mount that is the last at its own place shows its source there.
LEMMA Placed ==
    ASSUME Follows, Len(mounts) = Len(Sandbox!MountPlan),
           NEW kind \in {"ro", "rw"}, NEW source \in Paths, NEW at_ \in Paths,
           Ends(Sandbox!MountPlan, at_, Sandbox!Mount(kind, source, at_))
    PROVE  /\ Sandbox!Visible(at_).kind = kind
           /\ Sandbox!Shown(at_) = source
<1>. DEFINE m == Sandbox!Mount(kind, source, at_)
<1>1. m.kind = kind /\ m.source = source /\ m.at = at_
    BY MountIs
<1>. HIDE DEF m
<1>2. Sandbox!Within(at_, m.at)
    BY <1>1, Itself
<1>3. m.kind \in {"ro", "rw"} /\ Ends(Sandbox!MountPlan, at_, m)
    BY <1>1 DEF m
<1>4. Sandbox!Visible(at_) = m
    BY <1>2, <1>3, VisibleIs
<1>5. Sandbox!Shown(at_) = source
    BY <1>1, <1>4, ShownAt
<1>. QED BY <1>1, <1>4, <1>5

\* A mount that binds a directory at its own path shows what is below it.
LEMMA ShownSame ==
    ASSUME NEW path \in Paths, NEW root \in Paths,
           Sandbox!Within(path, root), Sandbox!Visible(path).at = root,
           Sandbox!Visible(path).source = root
    PROVE  Sandbox!Shown(path) = path
<1>. DEFINE n == Len(root)
<1>1. n \in Nat /\ Len(path) \in Nat /\ n <= Len(path)
    BY LenProperties, WithinMeans DEF Paths
<1>2. SubSeq(root, 1, n) = SubSeq(path, 1, n)
    BY DEF Sandbox!Within, Sandbox!IsPrefix
<1>3. SubSeq(root, 1, n) = root /\ SubSeq(path, 1, Len(path)) = path
    BY SubSeqFull DEF Paths
<1>. HIDE DEF n
<1>4. SubSeq(path, 1, n) \o SubSeq(path, n + 1, Len(path))
          = SubSeq(path, 1, Len(path))
    <2>1. /\ 1 \in 1..(Len(path) + 1) /\ n \in (1 - 1)..Len(path)
          /\ Len(path) \in n..Len(path)
        BY <1>1
    <2>. QED BY <2>1, ConcatAdjacentSubSeq DEF Paths
<1>5. Sandbox!Shown(path) = root \o SubSeq(path, n + 1, Len(path))
    BY DEF Sandbox!Shown, n
<1>. QED BY <1>2, <1>3, <1>4, <1>5

LEMMA ShownBelow ==
    ASSUME NEW root \in Paths, NEW name \in Components,
           Sandbox!Visible(root \o <<name>>).at = root
    PROVE  Sandbox!Shown(root \o <<name>>) =
               Sandbox!Visible(root \o <<name>>).source \o <<name>>
<1>. DEFINE last == <<name>>
            n == Len(root)
            path == root \o last
<1>1. last \in Seq(Components) /\ Len(last) = 1 /\ n \in Nat
    BY ShortPaths, LenProperties DEF Paths
<1>. HIDE DEF last
<1>2. Len(path) = n + 1
    BY <1>1, ConcatProperties DEF Paths
<1>3. SubSeq(path, n + 1, n + 1) = SubSeq(last, (n + 1) - n, (n + 1) - n)
    <2>1. n + 1 \in (n + 1)..(n + Len(last))
        BY <1>1
    <2>. QED BY <1>1, <2>1, SubSeqOfConcat2 DEF Paths
<1>4. (n + 1) - n = 1 /\ SubSeq(last, 1, Len(last)) = last
    BY <1>1, SubSeqFull
<1>5. SubSeq(path, n + 1, Len(path)) = last
    BY <1>1, <1>2, <1>3, <1>4
<1>. HIDE DEF n
<1>6. Sandbox!Shown(path) =
          Sandbox!Visible(path).source \o SubSeq(path, n + 1, Len(path))
    BY DEF Sandbox!Shown, n, last
<1>. QED BY <1>5, <1>6 DEF last

LEMMA FourNames ==
    ASSUME NEW a, NEW b, NEW c, NEW d
    PROVE  <<a, b, c>> \o <<d>> = <<a, b, c, d>>
<1>. DEFINE X == {a, b, c, d}
            s == <<a, b, c>>
            t == <<d>>
            r == <<a, b, c, d>>
<1>1. /\ s \in Seq(X) /\ Len(s) = 3 /\ s[1] = a /\ s[2] = b /\ s[3] = c
      /\ t \in Seq(X) /\ Len(t) = 1 /\ t[1] = d
      /\ r \in Seq(X) /\ Len(r) = 4
      /\ r[1] = a /\ r[2] = b /\ r[3] = c /\ r[4] = d
    OBVIOUS
<1>. HIDE DEF X, s, t, r
<1>2. /\ s \o t \in Seq(X) /\ Len(s \o t) = Len(s) + Len(t)
      /\ \A i \in 1..Len(s) : (s \o t)[i] = s[i]
      /\ \A i \in 1..Len(t) : (s \o t)[Len(s) + i] = t[i]
    <2>1. s \in Seq(X) /\ t \in Seq(X)
        BY <1>1
    <2>. QED BY <2>1, ConcatTwo
<1>. DEFINE p == s \o t
<1>. HIDE DEF p
<1>3. /\ p \in Seq(X) /\ Len(p) = 4
      /\ \A i \in 1..3 : p[i] = s[i]
      /\ \A i \in 1..1 : p[3 + i] = t[i]
    BY <1>1, <1>2 DEF p
<1>4. p[1] = a /\ p[2] = b /\ p[3] = c /\ p[4] = d
    BY <1>1, <1>3
<1>5. \A i \in 1..Len(p) : p[i] = r[i]
    BY <1>1, <1>3, <1>4
<1>6. p = r
    BY <1>1, <1>3, <1>5, SeqEqual
<1>. QED BY <1>6 DEF p, s, t, r

LEMMA ToolPlaced ==
    ASSUME Follows, Len(mounts) = Len(Sandbox!MountPlan),
           request.tool.tool \in {"system", "own", "rooted"},
           Ends(Sandbox!MountPlan, Sandbox!ToolCommand, ToolOp)
    PROVE  /\ Sandbox!Visible(Sandbox!ToolCommand).kind = "ro"
           /\ Sandbox!Shown(Sandbox!ToolCommand) = Sandbox!ToolSource
<1>1. CASE request.tool.tool = "own"
    <2>1. /\ Sandbox!ToolCommand = Sandbox!InTool
          /\ Sandbox!ToolSource = Sandbox!ToolFile
          /\ ToolOp = Sandbox!Mount("ro", Sandbox!ToolFile, Sandbox!InTool)
        BY <1>1 DEF Sandbox!ToolCommand, Sandbox!ToolSource, ToolOp
    <2>2. Sandbox!ToolFile \in Paths /\ Sandbox!InTool \in Paths
        BY HostPlaces, Named
    <2>. QED BY <2>1, <2>2, Placed
<1>2. CASE request.tool.tool = "rooted"
    <2>. DEFINE m == Sandbox!Mount("ro", Sandbox!ToolRoot, Sandbox!InTool)
                path == Sandbox!InTool \o <<"tool">>
    <2>1. /\ Sandbox!ToolCommand = path
          /\ Sandbox!ToolSource = Sandbox!ToolFile /\ ToolOp = m
        BY <1>2 DEF Sandbox!ToolCommand, Sandbox!ToolSource, ToolOp
    <2>2. /\ Sandbox!ToolRoot \in Paths /\ Sandbox!InTool \in Paths
          /\ "tool" \in Components
        BY HostPlaces, Named, PathAssumption
    <2>3. m.kind = "ro" /\ m.source = Sandbox!ToolRoot /\ m.at = Sandbox!InTool
        BY <2>2, MountIs
    <2>4. /\ path \in Paths /\ Len(path) = Len(Sandbox!InTool) + 1
          /\ \A i \in 1..Len(Sandbox!InTool) : path[i] = Sandbox!InTool[i]
        BY <2>2, Below
    <2>. HIDE DEF m, path
    <2>5. Sandbox!Within(path, Sandbox!InTool)
        <3>1. Len(Sandbox!InTool) <= Len(path)
            BY <2>4, Named
        <3>. QED BY <2>2, <2>4, <3>1, WithinMeans
    <2>6. Sandbox!Visible(path) = m
        <3>1. m.kind \in {"ro", "rw"} /\ Sandbox!Within(path, m.at)
            BY <2>3, <2>5
        <3>2. Ends(Sandbox!MountPlan, path, m)
            BY <2>1
        <3>. QED BY <3>1, <3>2, VisibleIs
    <2>7. Sandbox!Shown(path) = Sandbox!ToolRoot \o <<"tool">>
        <3>1. Sandbox!Visible(Sandbox!InTool \o <<"tool">>) = m
            BY <2>6 DEF path
        <3>. QED BY <2>2, <2>3, <3>1, ShownBelow DEF path
    <2>8. Sandbox!ToolRoot \o <<"tool">> = Sandbox!ToolFile
        BY FourNames DEF Sandbox!ToolRoot, Sandbox!ToolFile
    <2>. QED BY <2>1, <2>3, <2>6, <2>7, <2>8
<1>3. CASE request.tool.tool = "system"
    <2>. DEFINE u == <<"usr">>
                path == <<"usr", "bin", "tool">>
                m == Sandbox!Mount("ro", u, u)
    <2>1. /\ Sandbox!ToolCommand = path /\ Sandbox!ToolSource = path
          /\ ToolOp = m
        BY <1>3 DEF Sandbox!ToolCommand, Sandbox!ToolSource, ToolOp
    <2>2. "usr" \in Components /\ "bin" \in Components /\ "tool" \in Components
        BY PathAssumption
    <2>3. /\ u \in Paths /\ Len(u) = 1 /\ u[1] = "usr"
          /\ path \in Paths /\ Len(path) = 3 /\ path[1] = "usr"
        BY <2>2, ShortPaths, Zenon DEF Paths
    <2>. HIDE DEF u, path
    <2>4. m.kind = "ro" /\ m.source = u /\ m.at = u
        BY <2>3, MountIs
    <2>. HIDE DEF m
    <2>5. Sandbox!Within(path, u)
        <3>1. Len(u) <= Len(path) /\ \A i \in 1..Len(u) : u[i] = path[i]
            BY <2>3
        <3>. QED BY <2>3, <3>1, WithinMeans
    <2>6. Sandbox!Visible(path) = m
        <3>1. m.kind \in {"ro", "rw"} /\ Sandbox!Within(path, m.at)
            BY <2>4, <2>5
        <3>2. Ends(Sandbox!MountPlan, path, m)
            BY <2>1
        <3>. QED BY <3>1, <3>2, VisibleIs
    <2>7. Sandbox!Shown(path) = path
        BY <2>3, <2>4, <2>5, <2>6, ShownSame
    <2>. QED BY <2>1, <2>4, <2>6, <2>7
<1>. QED BY <1>1, <1>2, <1>3

LEMMA GuestPaths ==
    /\ GuestState \in Paths /\ GuestWorkspace \in Paths
    /\ Sandbox!GuestRoot \o <<"inbox">> \in Paths
    /\ Sandbox!Runtime \o <<"inbox">> \in Paths
<1>1. /\ "session-state" \in Components /\ "workspace" \in Components
      /\ "inbox" \in Components
    BY PathAssumption
<1>2. Sandbox!GuestRoot \in Paths /\ Sandbox!Runtime \in Paths
    BY HostPlaces
<1>. QED BY <1>1, <1>2, Below, Zenon DEF GuestState, GuestWorkspace

\* What is in the inbox is not written, wherever the plan is carried out.
LEMMA InboxImage ==
    ASSUME Follows, Len(mounts) = Len(Sandbox!MountPlan), NEW home,
           home \o <<"inbox">> \in Paths,
           \A path : Ends(Sandbox!MountPlan, path, InboxOp(home))
    PROVE  Sandbox!Visible(Sandbox!InInbox \o <<"image">>).kind # "rw"
<1>. DEFINE m == InboxOp(home)
            path == Sandbox!InInbox \o <<"image">>
<1>1. "image" \in Components /\ Sandbox!InInbox \in Paths
    BY PathAssumption, Named
<1>2. m.kind = "ro" /\ m.at = Sandbox!InInbox
    BY <1>1, MountIs DEF InboxOp
<1>3. /\ path \in Paths /\ Len(path) = Len(Sandbox!InInbox) + 1
      /\ \A i \in 1..Len(Sandbox!InInbox) : path[i] = Sandbox!InInbox[i]
    BY <1>1, Below
<1>. HIDE DEF m, path
<1>4. Len(Sandbox!InInbox) <= Len(path)
    BY <1>3, Named
<1>5. Sandbox!Within(path, m.at)
    BY <1>1, <1>2, <1>3, <1>4, WithinMeans
<1>6. m.kind \in {"ro", "rw"} /\ Ends(Sandbox!MountPlan, path, m)
    BY <1>2 DEF m
<1>7. Sandbox!Visible(path) = m
    BY <1>5, <1>6, VisibleIs
<1>. QED BY <1>2, <1>7 DEF path

LEMMA HostPlaced ==
    ASSUME PlanInv, Sandbox!Running, Sandbox!OnHost
    PROVE  /\ Sandbox!PlacedAsPlanned
           /\ Sandbox!Visible(Sandbox!InInbox \o <<"image">>).kind # "rw"
<1>1. /\ request \in Requests /\ Sandbox!Valid /\ Follows
      /\ Len(mounts) = Len(Sandbox!MountPlan)
      /\ Sandbox!MountPlan = Sandbox!HostMounts
      /\ request.tool.tool \in {"system", "own", "rooted"}
    BY HostVisible
<1>. DEFINE is(path, source, kind) ==
        Sandbox!Visible(path).kind = kind /\ Sandbox!Shown(path) = source
<1>2. /\ Ends(Sandbox!MountPlan, Sandbox!InRuntime,
              RuntimeOp(Sandbox!Runtime))
      /\ Ends(Sandbox!MountPlan, Sandbox!InHelper,
              Sandbox!Mount("ro", Sandbox!HelperHost, Sandbox!InHelper))
      /\ Ends(Sandbox!MountPlan, Sandbox!ToolCommand, ToolOp)
      /\ Ends(Sandbox!MountPlan, Sandbox!InWorkspace,
              WorkspaceOp(Sandbox!Workspace))
      /\ \A path : Ends(Sandbox!MountPlan, path, InboxOp(Sandbox!Runtime))
      /\ request.state # Sandbox!None =>
             Ends(Sandbox!MountPlan, request.state[2],
                  Sandbox!Mount("rw", request.state[1], request.state[2]))
    BY <1>1, HostPlan
<1>3. /\ Sandbox!Runtime \in Paths /\ Sandbox!HelperHost \in Paths
      /\ Sandbox!Workspace \in Paths /\ Sandbox!InRuntime \in Paths
      /\ Sandbox!InHelper \in Paths /\ Sandbox!InWorkspace \in Paths
      /\ Sandbox!InInbox \in Paths
      /\ Sandbox!Runtime \o <<"inbox">> \in Paths
    BY HostPlaces, Named, GuestPaths
<1>4. is(Sandbox!InRuntime, Sandbox!Runtime, "ro")
    BY <1>1, <1>2, <1>3, Placed DEF RuntimeOp
<1>5. is(Sandbox!InInbox, Sandbox!Runtime \o <<"inbox">>, "ro")
    BY <1>1, <1>2, <1>3, Placed DEF InboxOp
<1>6. is(Sandbox!InWorkspace, Sandbox!Workspace, "rw")
    BY <1>1, <1>2, <1>3, Placed DEF WorkspaceOp
<1>7. is(Sandbox!InHelper, Sandbox!HelperHost, "ro")
    BY <1>1, <1>2, <1>3, Placed
<1>8. is(Sandbox!ToolCommand, Sandbox!ToolSource, "ro")
    BY <1>1, <1>2, ToolPlaced
<1>9. ASSUME request.state # Sandbox!None
      PROVE  is(Sandbox!Resolve(request.state[2]), request.state[1], "rw")
    <2>1. /\ request.state[1] \in Paths /\ request.state[2] \in Paths
          /\ Sandbox!Resolve(request.state[2]) = request.state[2]
        BY <1>1, <1>9, StateIs
    <2>. DEFINE s == request.state[1]
                t == request.state[2]
    <2>2. Ends(Sandbox!MountPlan, t, Sandbox!Mount("rw", s, t))
        BY <1>2, <1>9
    <2>. HIDE DEF s, t
    <2>3. s \in Paths /\ t \in Paths /\ Sandbox!Resolve(t) = t
        BY <2>1 DEF s, t
    <2>4. is(t, s, "rw")
        BY <1>1, <2>2, <2>3, Placed
    <2>5. is(Sandbox!Resolve(t), s, "rw")
        BY <2>3, <2>4
    <2>. QED BY <2>5 DEF s, t
<1>10. Sandbox!Visible(Sandbox!InInbox \o <<"image">>).kind # "rw"
    BY <1>1, <1>2, <1>3, InboxImage
<1>. QED BY <1>4, <1>5, <1>6, <1>7, <1>8, <1>9, <1>10
         DEF Sandbox!PlacedAsPlanned

LEMMA GuestPlaced ==
    ASSUME PlanInv, Sandbox!Running, ~Sandbox!OnHost
    PROVE  /\ Sandbox!PlacedAsPlanned
           /\ Sandbox!Visible(Sandbox!InInbox \o <<"image">>).kind # "rw"
<1>1. /\ request \in Requests /\ Sandbox!Valid /\ Follows
      /\ Len(mounts) = Len(Sandbox!MountPlan)
      /\ Sandbox!MountPlan = Sandbox!GuestMounts
    BY DEF PlanInv, PlanChecked, PlanMounts, Sandbox!Running,
           Sandbox!MountPlan
<1>. DEFINE is(path, source, kind) ==
        Sandbox!Visible(path).kind = kind /\ Sandbox!Shown(path) = source
<1>2. /\ Ends(Sandbox!MountPlan, Sandbox!InRuntime,
              RuntimeOp(Sandbox!GuestRoot))
      /\ Ends(Sandbox!MountPlan, Sandbox!InWorkspace,
              WorkspaceOp(GuestWorkspace))
      /\ \A path : Ends(Sandbox!MountPlan, path, InboxOp(Sandbox!GuestRoot))
      /\ request.state # Sandbox!None =>
             Ends(Sandbox!MountPlan, request.state[2],
                  Sandbox!Mount("rw", GuestState, request.state[2]))
    BY <1>1, GuestPlan
<1>3. /\ Sandbox!GuestRoot \in Paths /\ GuestWorkspace \in Paths
      /\ GuestState \in Paths /\ Sandbox!InRuntime \in Paths
      /\ Sandbox!InWorkspace \in Paths /\ Sandbox!InInbox \in Paths
      /\ Sandbox!GuestRoot \o <<"inbox">> \in Paths
    BY HostPlaces, Named, GuestPaths
<1>4. is(Sandbox!InRuntime, Sandbox!GuestRoot, "ro")
    BY <1>1, <1>2, <1>3, Placed DEF RuntimeOp
<1>5. is(Sandbox!InInbox, Sandbox!GuestRoot \o <<"inbox">>, "ro")
    BY <1>1, <1>2, <1>3, Placed DEF InboxOp
<1>6. is(Sandbox!InWorkspace, GuestWorkspace, "rw")
    BY <1>1, <1>2, <1>3, Placed DEF WorkspaceOp
<1>7. ASSUME request.state # Sandbox!None
      PROVE  is(Sandbox!Resolve(request.state[2]), GuestState, "rw")
    <2>1. /\ request.state[2] \in Paths
          /\ Sandbox!Resolve(request.state[2]) = request.state[2]
        BY <1>1, <1>7, StateIs
    <2>. DEFINE t == request.state[2]
    <2>2. Ends(Sandbox!MountPlan, t, Sandbox!Mount("rw", GuestState, t))
        BY <1>2, <1>7
    <2>. HIDE DEF t
    <2>3. t \in Paths /\ Sandbox!Resolve(t) = t
        BY <2>1 DEF t
    <2>4. is(t, GuestState, "rw")
        BY <1>1, <1>3, <2>2, <2>3, Placed
    <2>5. is(Sandbox!Resolve(t), GuestState, "rw")
        BY <2>3, <2>4
    <2>. QED BY <2>5 DEF t
<1>8. Sandbox!Visible(Sandbox!InInbox \o <<"image">>).kind # "rw"
    BY <1>1, <1>2, <1>3, InboxImage
<1>. QED BY <1>4, <1>5, <1>6, <1>7, <1>8
         DEF Sandbox!PlacedAsPlanned, GuestState, GuestWorkspace

\* What is writable was planned as it is.
LEMMA WritableIsPlanned ==
    ASSUME Follows, Len(mounts) = Len(Sandbox!MountPlan),
           NEW i \in DOMAIN mounts, mounts[i].kind = "rw"
    PROVE  /\ i \in 1..Len(Sandbox!MountPlan)
           /\ Sandbox!MountPlan[i] = mounts[i]
<1>1. i \in 1..Len(mounts)
    BY LenProperties DEF Follows
<1>2. Done(Sandbox!MountPlan[i], mounts[i])
    BY <1>1 DEF Follows
<1>. QED BY <1>1, <1>2 DEF Done

LEMMA WritableIs ==
    ASSUME Follows, Len(mounts) = Len(Sandbox!MountPlan),
           request \in Requests, Sandbox!Valid,
           NEW work \in Paths, NEW source,
           request.state # Sandbox!None => source \in Paths,
           WritesOnly(Sandbox!MountPlan,
                      {WorkspaceOp(work)} \cup StateOps(source)),
           NEW i \in DOMAIN mounts, mounts[i].kind = "rw"
    PROVE  \/ mounts[i].at = Sandbox!InWorkspace /\ mounts[i].source = work
           \/ /\ request.state # Sandbox!None
              /\ mounts[i].at = Sandbox!Resolve(request.state[2])
              /\ mounts[i].source = source
              /\ Sandbox!Within(mounts[i].at, Sandbox!InHome)
<1>. DEFINE m == mounts[i]
<1>1. i \in 1..Len(Sandbox!MountPlan) /\ Sandbox!MountPlan[i] = m
    BY WritableIsPlanned
<1>2. m \in {WorkspaceOp(work)} \cup StateOps(source)
    BY <1>1 DEF WritesOnly
<1>3. CASE m = WorkspaceOp(work)
    <2>1. Sandbox!InWorkspace \in Paths
        BY Named
    <2>2. m.at = Sandbox!InWorkspace /\ m.source = work
        BY <1>3, <2>1, MountIs DEF WorkspaceOp
    <2>. QED BY <2>2
<1>4. CASE m \in StateOps(source)
    <2>. DEFINE t == request.state[2]
    <2>1. request.state # Sandbox!None
        BY <1>4 DEF StateOps
    <2>2. m = Sandbox!Mount("rw", source, Sandbox!Resolve(t))
        BY <1>4, <2>1 DEF StateOps
    <2>3. /\ t \in Paths /\ Sandbox!Resolve(t) = t
          /\ Sandbox!Within(t, Sandbox!InHome)
        BY <2>1, StateIs
    <2>. HIDE DEF t
    <2>4. m.at = t /\ m.source = source
        BY <2>1, <2>2, <2>3, MountIs
    <2>5. m.at = Sandbox!Resolve(t) /\ Sandbox!Within(m.at, Sandbox!InHome)
        BY <2>3, <2>4
    <2>. QED BY <2>1, <2>4, <2>5 DEF t
<1>. QED BY <1>2, <1>3, <1>4

LEMMA HostWrites ==
    ASSUME PlanInv, Sandbox!Running, Sandbox!OnHost
    PROVE  Sandbox!WritesOnlyGranted /\ Sandbox!DecisionsOutOfReach
<1>. DEFINE rw == {i \in DOMAIN mounts : mounts[i].kind = "rw"}
            source == request.state[1]
<1>1. /\ request \in Requests /\ Sandbox!Valid /\ Follows
      /\ Len(mounts) = Len(Sandbox!MountPlan)
      /\ Sandbox!MountPlan = Sandbox!HostMounts
      /\ request.tool.tool \in {"system", "own", "rooted"}
    BY HostVisible
<1>2. /\ WritesOnly(Sandbox!MountPlan, {WorkspaceOp(Sandbox!Workspace)}
                                       \cup StateOps(source))
      /\ Apart(Sandbox!MountPlan)
    BY <1>1, HostPlan
<1>3. /\ Sandbox!Workspace \in Paths
      /\ request.state # Sandbox!None => source \in Paths
    BY <1>1, HostPlaces, StateIs
<1>. HIDE DEF source
<1>4. ASSUME NEW i \in rw
      PROVE  \/ /\ mounts[i].at = Sandbox!InWorkspace
                /\ mounts[i].source = Sandbox!Workspace
             \/ /\ request.state # Sandbox!None
                /\ mounts[i].at = Sandbox!Resolve(request.state[2])
                /\ mounts[i].source = source
                /\ Sandbox!Within(mounts[i].at, Sandbox!InHome)
    <2>1. i \in DOMAIN mounts /\ mounts[i].kind = "rw"
        OBVIOUS
    <2>. QED BY <1>1, <1>2, <1>3, <2>1, WritableIs
<1>5. ASSUME NEW i \in rw, NEW j \in rw, i # j
      PROVE  ~Sandbox!Within(mounts[i].source, mounts[j].source)
    <2>1. /\ i \in 1..Len(Sandbox!MountPlan)
          /\ Sandbox!MountPlan[i] = mounts[i] /\ mounts[i].kind = "rw"
          /\ j \in 1..Len(Sandbox!MountPlan)
          /\ Sandbox!MountPlan[j] = mounts[j] /\ mounts[j].kind = "rw"
        BY <1>1, WritableIsPlanned
    <2>. QED BY <1>2, <1>5, <2>1 DEF Apart
<1>6. Sandbox!Visible(Sandbox!InInbox \o <<"image">>).kind # "rw"
    BY HostPlaced
<1>7. Sandbox!WritesOnlyGranted
    BY <1>4, <1>5, <1>6 DEF Sandbox!WritesOnlyGranted
<1>8. ASSUME request.connection.store # Sandbox!None, NEW i \in rw
      PROVE  ~Sandbox!Within(Sandbox!StoreFile(request.connection.store),
                             mounts[i].source)
    <2>. DEFINE parent == request.connection.store
    <2>1. parent \in Paths
        BY <1>1, <1>8, PathAssumption
           DEF Requests, Sandbox!Connections, Paths
    <2>2. /\ ~Sandbox!Within(parent, Sandbox!Workspace)
          /\ ~Sandbox!Within(Sandbox!Workspace, parent)
          /\ request.state # Sandbox!None =>
                 ~Sandbox!Within(Sandbox!StoreFile(parent), source)
        BY <1>1, <1>8 DEF Sandbox!Valid, Sandbox!StoreAllowed, source
    <2>. HIDE DEF parent
    <2>3. ~Sandbox!Within(Sandbox!StoreFile(parent), Sandbox!Workspace)
        BY <1>3, <2>1, <2>2, StoreOutside
    <2>4. ~Sandbox!Within(Sandbox!StoreFile(parent), mounts[i].source)
        BY <1>4, <2>2, <2>3
    <2>. QED BY <2>4 DEF parent
<1>9. Sandbox!DecisionsOutOfReach
    BY <1>8 DEF Sandbox!DecisionsOutOfReach
<1>. QED BY <1>7, <1>9

LEMMA GuestWrites ==
    ASSUME PlanInv, Sandbox!Running, ~Sandbox!OnHost
    PROVE  Sandbox!WritesOnlyGranted /\ Sandbox!DecisionsOutOfReach
<1>. DEFINE rw == {i \in DOMAIN mounts : mounts[i].kind = "rw"}
<1>1. /\ request \in Requests /\ Sandbox!Valid /\ Follows
      /\ Len(mounts) = Len(Sandbox!MountPlan)
      /\ Sandbox!MountPlan = Sandbox!GuestMounts
    BY DEF PlanInv, PlanChecked, PlanMounts, Sandbox!Running,
           Sandbox!MountPlan
<1>2. WritesOnly(Sandbox!MountPlan, {WorkspaceOp(GuestWorkspace)}
                                    \cup StateOps(GuestState))
    BY <1>1, GuestPlan
<1>3. GuestWorkspace \in Paths /\ GuestState \in Paths
    BY GuestPaths
<1>4. ASSUME NEW i \in rw
      PROVE  \/ mounts[i].at = Sandbox!InWorkspace
             \/ /\ request.state # Sandbox!None
                /\ mounts[i].at = Sandbox!Resolve(request.state[2])
                /\ Sandbox!Within(mounts[i].at, Sandbox!InHome)
    <2>1. i \in DOMAIN mounts /\ mounts[i].kind = "rw"
        OBVIOUS
    <2>. QED BY <1>1, <1>2, <1>3, <2>1, WritableIs
<1>5. Sandbox!Visible(Sandbox!InInbox \o <<"image">>).kind # "rw"
    BY GuestPlaced
<1>. QED BY <1>4, <1>5
         DEF Sandbox!WritesOnlyGranted, Sandbox!DecisionsOutOfReach

LEMMA PlanBounds ==
    ASSUME PlanInv
    PROVE  SandboxBoundary
<1>1. Sandbox!PlacedAsPlanned
    BY HostPlaced, GuestPlaced DEF Sandbox!PlacedAsPlanned
<1>2. Sandbox!WritesOnlyGranted /\ Sandbox!DecisionsOutOfReach
    BY HostWrites, GuestWrites
       DEF Sandbox!WritesOnlyGranted, Sandbox!DecisionsOutOfReach
<1>3. Sandbox!TypeOK
    BY DEF PlanInv, PlanTypes, PlanMounts, Follows, Sandbox!TypeOK
<1>4. /\ Sandbox!LauncherScrubbed /\ Sandbox!EnvironmentGuarded
      /\ Sandbox!ProbeForetells
    BY DEF PlanInv, PlanLaunch, PlanProbe, Sandbox!LauncherScrubbed,
           Sandbox!Running, Sandbox!ProbeForetells
<1>. QED BY <1>1, <1>2, <1>3, <1>4 DEF SandboxBoundary, Sandbox!SandboxBoundary

(* The sandbox around a running tool is the one that was planned, whatever *)
(* directories the caller grants and wherever it wants them: no mount      *)
(* hides another (the order of the mounts in linux.rs), only the workspace *)
(* and the granted state are writable, the remembered decisions are in     *)
(* neither, bwrap starts with an empty environment, no variable that       *)
(* steers programs comes from the caller, and a namespace probe that works *)
(* foretells that the run gets its namespaces.                             *)
THEOREM SandboxIsBounded == PreparationSpec => []SandboxBoundary
<1>1. ASSUME PreparationInit PROVE PlanInv
    BY <1>1, PlanInit DEF PreparationInit
<1>2. ASSUME PlanInv, [PreparationNext]_everything PROVE PlanInv'
    <2>1. UNCHANGED plan \/ Sandbox!Next
        BY <1>2, Zenon DEF PreparationNext, GuestStep, everything
    <2>. QED BY <1>2, <2>1, PlanStep
<1>3. PlanInv => SandboxBoundary
    BY PlanBounds
<1>. QED BY <1>1, <1>2, <1>3, PTL DEF PreparationSpec

=============================================================================
