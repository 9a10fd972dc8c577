--------------------------- MODULE SessionProofs ---------------------------
(***************************************************************************)
(* A session, with any baseline, connections, output and keys, and any     *)
(* number of failing steps: the run command, the supervisor and the bridge *)
(* to the terminal keep what their properties say.                         *)
(*                                                                         *)
(* The three share no variable: a step of the session is a step of one of  *)
(* them and leaves the others' variables alone, so each has an inductive   *)
(* invariant of its own.                                                   *)
(*   - The run command is sequential.  CommandInv says, for every step it  *)
(*     can be at, what the run has made by then.                           *)
(*   - The relay's count is exact because the accept thread holds at most  *)
(*     one accepted connection, and within the limit because what it       *)
(*     counted before that connection bounds the workers until the         *)
(*     connection is dispatched (Hands).                                   *)
(*   - The host has seen the texts among the items read, and the unread    *)
(*     items are the last ones printed (Unread, Shown).                    *)
(***************************************************************************)
EXTENDS MCSession, FiniteSetTheorems, SequenceTheorems, TLAPS

-----------------------------------------------------------------------------
(* The run command.                                                        *)

\* Before the backend; in the backend up to the tool's start; from the tool's
\* end to the backend's; and after the backend.
Opening   == {"start", "stage", "request"}
Preparing == {"host", "mounts", "helper", "inbox", "runtime", "root", "copy",
              "proxy", "ready", "scope", "launch"}
Ending    == {"retrieve", "canary", "session", "stop", "lost", "tidy",
              "publish"}
Closing   == {"audit", "handoff", "review", "keep", "fail"}

\* The steps at which the runtime directory exists.
Housed == {"copy", "proxy", "ready", "scope", "launch", "tool", "retrieve",
           "canary", "session", "stop", "lost"}

Ended == {"ended", "ended badly"}
Returned == {"done", "error", "refused"}

CommandTypes ==
    /\ place \in Opening \cup Preparing \cup {"tool"} \cup Ending \cup Closing
                     \cup {"over"}
    /\ workspace \in {"none", "staged", "returned", "links followed",
                     "changed"}
    /\ outcome \in {"none", "killed"} \cup Returned
    /\ place = "over" <=> outcome # "none"
    /\ asked.backend \in {"linux", "macos"}

\* Which backend and network each step belongs to.
Branches ==
    /\ place \in {"runtime"} => asked.backend = "linux"
    /\ place \in {"mounts", "helper", "root", "copy", "retrieve", "canary",
                  "session", "lost"} => asked.backend = "macos"
    /\ place \in {"proxy", "ready"} => asked.network = "controlled"
    /\ place \in Preparing \cup {"tool"} \cup Ending => ~asked.dry

\* How far the tool is.
ToolAt ==
    /\ place \in Opening \cup Preparing => tool = "none"
    /\ place = "tool" <=> tool = "running"
    /\ place \in Ending => tool \in Ended
    /\ place \in Closing => (asked.dry <=> tool = "none")

\* The runtime directory and the proxy.
RuntimeAt ==
    /\ place \in Housed => runtime = "made"
    /\ place \in Opening \cup (Preparing \ Housed) => runtime = "none"
    /\ place \in {"tidy", "publish"} => runtime = "gone"
    /\ (place \in Closing \/ outcome \in Returned) /\ runtime = "made"
           => asked.backend = "macos" /\ tool = "failed"
    /\ place \in Opening \cup (Preparing \ Housed) \cup {"copy", "proxy"}
           => egress = "none"
    /\ place = "ready" => egress = "starting"
    /\ place \in Housed \ {"copy", "proxy", "ready"} =>
           egress = IF asked.network = "controlled" THEN "ready" ELSE "none"
    /\ place \in {"tidy", "publish"} \cup Closing \/ outcome \in Returned
           => egress \in {"none", "gone"}

\* The workspace and the inbox in it.
WorkspaceAt ==
    /\ place \in {"start", "stage"} => workspace = "none"
    /\ place \in {"request", "retrieve", "tool"} \cup Preparing
           => workspace = "staged"
    /\ place = "canary" => workspace \in {"returned", "links followed"}
    /\ place \in {"session", "stop", "tidy", "publish"} => workspace = "changed"
    /\ place \in (Housed \ {"lost"}) \cup {"runtime", "root", "tidy"} => inbox
    /\ place = "publish" => ~inbox
    /\ place \in Closing /\ tool \in Ended => workspace = "changed" /\ ~inbox
    /\ outcome \in Returned /\ workspace # "none"
           => asked.keep /\ outcome = "done"

\* Mounts and limits.
LimitsAt ==
    /\ place \in Opening \cup (Preparing \ {"mounts"}) \cup {"tool"} => ~shared
    /\ \/ place \in {"launch", "tool"} \cup Ending
       \/ place \in Closing /\ tool \in Ended
       => (asked.cgroup = "required" => scoped)

\* Session state and its publication.
StateAt ==
    /\ place \in Opening \cup Preparing \cup {"tool"} \cup Ending
           => state \in {"none", "private"}
    /\ place \in Closing /\ tool \in Ended => state # "private"
    /\ tool \in {"none", "failed"} => state \in {"none", "private"}

\* The record comes before anything that leaves the run.
AuditAt ==
    /\ place \in Opening \cup Preparing \cup {"tool", "audit"} \cup Ending
           => audit.written = "no"
    /\ place \in {"handoff", "review", "keep"} => audit.written = "yes"
    /\ place = "fail" => audit.written # "no"
    /\ outcome \in {"done", "error"} /\ (tool # "none" \/ state = "published")
           => audit.written # "no"

\* What is exported comes from a tool that has ended.
BundleAt ==
    /\ place \notin {"review", "keep", "fail", "over"} => bundle = "none"
    /\ bundle # "none" =>
           /\ audit.written = "yes" /\ tool \in Ended /\ ~inbox
           /\ workspace \in {"changed", "none"}
    /\ place \in {"handoff", "review"} => tool \in Ended
    /\ bundle = "applied" => place \in {"keep", "fail", "over"}

CommandInv ==
    /\ Command!TypeOK /\ CommandTypes /\ Branches /\ ToolAt /\ RuntimeAt
    /\ WorkspaceAt /\ LimitsAt /\ StateAt /\ AuditAt /\ BundleAt
    /\ Command!AuditTruthful /\ Command!AppliedIsAuthorized

\* The invariant holds when the command starts.
LEMMA CommandInit == Command!Init => CommandInv
<1>. SUFFICES ASSUME Command!Init PROVE CommandInv
    OBVIOUS
<1>. USE DEF Command!Init, Opening, Preparing, Ending, Closing, Housed, Ended,
             Returned
<1>1. Command!NoArguments \in Command!Arguments
    BY DEF Command!NoArguments, Command!Arguments, Command!Networks,
           Command!Cgroups, Command!Handoffs
<1>3. troubles \in 0..MaxTroubles
    BY CommandAssumption
<1>4. Command!TypeOK
    BY <1>1, <1>3 DEF Command!TypeOK
<1>5. CommandTypes
    BY DEF CommandTypes, Command!NoArguments
<1>6. Branches /\ ToolAt /\ RuntimeAt /\ WorkspaceAt
    BY DEF Branches, ToolAt, RuntimeAt, WorkspaceAt
<1>7. LimitsAt /\ StateAt /\ AuditAt /\ BundleAt
    BY DEF LimitsAt, StateAt, AuditAt, BundleAt, Command!NoAudit
<1>8. Command!AuditTruthful /\ Command!AppliedIsAuthorized
    BY DEF Command!AuditTruthful, Command!AppliedIsAuthorized, Command!NoAudit
<1>. QED BY <1>4, <1>5, <1>6, <1>7, <1>8 DEF CommandInv

\* A failing step is counted.
LEMMA TroubleCounted ==
    troubles \in 0..MaxTroubles /\ Command!Trouble
        => troubles' \in 0..MaxTroubles
BY CommandAssumption DEF Command!Trouble

\* The steps before the backend keep the invariant.
LEMMA OpeningInvariant ==
    ASSUME CommandInv,
           \/ \E a \in Command!Arguments,
                 consents \in SUBSET {"unrestricted", "ask"} :
                    Command!Begin(a, consents)
           \/ Command!BuildStage
           \/ Command!MakeRequest
           \/ Command!FailEarly
    PROVE  CommandInv'
<1>. USE DEF CommandInv, Command!TypeOK, CommandTypes, Branches, ToolAt,
             RuntimeAt, WorkspaceAt, LimitsAt, StateAt, AuditAt, BundleAt,
             Command!AuditTruthful, Command!AppliedIsAuthorized, Command!Goto,
             Command!rest, Command!backend, Command!handover,
             Opening, Preparing, Ending, Closing, Housed, Ended, Returned
<1>1. ASSUME NEW a \in Command!Arguments,
             NEW consents \in SUBSET {"unrestricted", "ask"},
             Command!Begin(a, consents)
      PROVE  CommandInv'
    <2>1. a.backend \in {"linux", "macos"} BY DEF Command!Arguments
    <2>. QED BY <1>1, <2>1 DEF Command!Begin
<1>2. CASE Command!BuildStage
    BY <1>2 DEF Command!BuildStage
<1>3. CASE Command!MakeRequest
    BY <1>3 DEF Command!MakeRequest
<1>4. CASE Command!FailEarly
    <2>1. troubles' \in 0..MaxTroubles
        BY <1>4, TroubleCounted DEF Command!FailEarly
    <2>. QED BY <1>4, <2>1 DEF Command!FailEarly
<1>. QED BY <1>1, <1>2, <1>3, <1>4

\* So do the backend's up to the tool's start.
LEMMA PreparingInvariant ==
    ASSUME CommandInv,
           \/ Command!CheckHost
           \/ Command!StartInstance
           \/ Command!VerifyMounts
           \/ Command!VerifyHelper
           \/ Command!MakeInbox
           \/ Command!MakeRuntime
           \/ Command!PrepareGuestRoot
           \/ Command!CopyIntoGuest
           \/ Command!SpawnProxy
           \/ Command!SpawnGuestProxy
           \/ Command!ProxyReady
           \/ Command!GuestProxyReady
           \/ Command!ResolveCgroup
           \/ Command!ResolveGuestCgroup
           \/ Command!Launch
    PROVE  CommandInv'
<1>. USE DEF CommandInv, Command!TypeOK, CommandTypes, Branches, ToolAt,
             RuntimeAt, WorkspaceAt, LimitsAt, StateAt, AuditAt, BundleAt,
             Command!AuditTruthful, Command!AppliedIsAuthorized, Command!Goto,
             Command!rest, Command!backend, Command!handover,
             Opening, Preparing, Ending, Closing, Housed, Ended, Returned
<1>1. CASE Command!CheckHost
    BY <1>1 DEF Command!CheckHost
<1>2. CASE Command!StartInstance
    BY <1>2 DEF Command!StartInstance
<1>3. CASE Command!VerifyMounts
    <2>. USE <1>3 DEF Command!VerifyMounts, Command!Broken
    <2>. HIDE DEF Command!TypeOK, CommandTypes, Branches, RuntimeAt,
                  WorkspaceAt, LimitsAt, StateAt, AuditAt, BundleAt,
                  Command!AuditTruthful, Command!AppliedIsAuthorized
    <2>1. Command!TypeOK'
        BY DEF Command!TypeOK, ToolAt
    <2>2. CommandTypes'
        BY DEF CommandTypes, Branches
    <2>3. Branches'
        BY DEF Branches, CommandTypes
    <2>4. ToolAt'
        BY DEF ToolAt, Branches, BundleAt
    <2>5. RuntimeAt'
        BY DEF RuntimeAt, ToolAt, Branches, CommandTypes
    <2>6. WorkspaceAt'
        BY DEF WorkspaceAt, ToolAt, CommandTypes
    <2>7. LimitsAt'
        BY DEF LimitsAt, ToolAt
    <2>8. StateAt'
        BY DEF StateAt, ToolAt, Command!TypeOK
    <2>9. AuditAt'
        BY DEF AuditAt, StateAt, ToolAt, CommandTypes
    <2>10. BundleAt'
        BY DEF BundleAt, AuditAt, ToolAt, WorkspaceAt
    <2>11. Command!AuditTruthful'
        BY DEF Command!AuditTruthful, AuditAt, ToolAt, LimitsAt, StateAt,
           Command!TypeOK
    <2>12. Command!AppliedIsAuthorized'
        BY DEF Command!AppliedIsAuthorized, BundleAt
    <2>. QED
        BY <2>1, <2>2, <2>3, <2>4, <2>5, <2>6, <2>7, <2>8, <2>9, <2>10, <2>11,
           <2>12
           DEF CommandInv
<1>4. CASE Command!VerifyHelper
    BY <1>4 DEF Command!VerifyHelper
<1>5. CASE Command!MakeInbox
    <2>. USE <1>5 DEF Command!MakeInbox
    <2>. HIDE DEF Command!TypeOK, CommandTypes, Branches, RuntimeAt,
                  WorkspaceAt, LimitsAt, StateAt, AuditAt, BundleAt,
                  Command!AuditTruthful, Command!AppliedIsAuthorized
    <2>1. Command!TypeOK'
        BY DEF Command!TypeOK, ToolAt
    <2>2. CommandTypes'
        BY DEF CommandTypes, Branches
    <2>3. Branches'
        BY DEF Branches, CommandTypes
    <2>4. ToolAt'
        BY DEF ToolAt, Branches, BundleAt
    <2>5. RuntimeAt'
        BY DEF RuntimeAt, ToolAt, Branches, CommandTypes
    <2>6. WorkspaceAt'
        BY DEF WorkspaceAt, ToolAt, CommandTypes
    <2>7. LimitsAt'
        BY DEF LimitsAt, ToolAt
    <2>8. StateAt'
        BY DEF StateAt, ToolAt, Command!TypeOK
    <2>9. AuditAt'
        BY DEF AuditAt, StateAt, ToolAt, CommandTypes
    <2>10. BundleAt'
        BY DEF BundleAt, AuditAt, ToolAt, WorkspaceAt
    <2>11. Command!AuditTruthful'
        BY DEF Command!AuditTruthful, AuditAt, ToolAt, LimitsAt, StateAt,
           Command!TypeOK
    <2>12. Command!AppliedIsAuthorized'
        BY DEF Command!AppliedIsAuthorized, BundleAt
    <2>. QED
        BY <2>1, <2>2, <2>3, <2>4, <2>5, <2>6, <2>7, <2>8, <2>9, <2>10, <2>11,
           <2>12
           DEF CommandInv
<1>6. CASE Command!MakeRuntime
    BY <1>6 DEF Command!MakeRuntime, Command!AfterRuntime
<1>7. CASE Command!PrepareGuestRoot
    BY <1>7 DEF Command!PrepareGuestRoot
<1>8. CASE Command!CopyIntoGuest
    BY <1>8 DEF Command!CopyIntoGuest, Command!AfterRuntime
<1>9. CASE Command!SpawnProxy
    BY <1>9 DEF Command!SpawnProxy
<1>10. CASE Command!SpawnGuestProxy
    BY <1>10 DEF Command!SpawnGuestProxy
<1>11. CASE Command!ProxyReady
    BY <1>11 DEF Command!ProxyReady
<1>12. CASE Command!GuestProxyReady
    BY <1>12 DEF Command!GuestProxyReady
<1>13. CASE Command!ResolveCgroup
    <2>. USE <1>13 DEF Command!ResolveCgroup, Command!Scope, Command!Broken,
         Command!Unwind, Command!StopProxy
    <2>. HIDE DEF Command!TypeOK, CommandTypes, Branches, RuntimeAt,
                  WorkspaceAt, LimitsAt, StateAt, AuditAt, BundleAt,
                  Command!AuditTruthful, Command!AppliedIsAuthorized
    <2>1. Command!TypeOK'
        BY DEF Command!TypeOK, ToolAt
    <2>2. CommandTypes'
        BY DEF CommandTypes, Branches
    <2>3. Branches'
        BY DEF Branches, CommandTypes
    <2>4. ToolAt'
        BY DEF ToolAt, Branches, BundleAt
    <2>5. RuntimeAt'
        BY ZenonT(30) DEF RuntimeAt, ToolAt, Branches, CommandTypes
    <2>6. WorkspaceAt'
        BY DEF WorkspaceAt, ToolAt, CommandTypes
    <2>7. LimitsAt'
        BY DEF LimitsAt, ToolAt
    <2>8. StateAt'
        BY DEF StateAt, ToolAt, Command!TypeOK
    <2>9. AuditAt'
        BY DEF AuditAt, StateAt, ToolAt, CommandTypes
    <2>10. BundleAt'
        BY DEF BundleAt, AuditAt, ToolAt, WorkspaceAt
    <2>11. Command!AuditTruthful'
        BY DEF Command!AuditTruthful, AuditAt, ToolAt, LimitsAt, StateAt,
           Command!TypeOK
    <2>12. Command!AppliedIsAuthorized'
        BY DEF Command!AppliedIsAuthorized, BundleAt
    <2>. QED
        BY <2>1, <2>2, <2>3, <2>4, <2>5, <2>6, <2>7, <2>8, <2>9, <2>10, <2>11,
           <2>12
           DEF CommandInv
<1>14. CASE Command!ResolveGuestCgroup
    <2>. USE <1>14 DEF Command!ResolveGuestCgroup, Command!Scope,
         Command!Broken, Command!Unwind, Command!StopProxy,
         Command!CleanupGuest
    <2>. HIDE DEF Command!TypeOK, CommandTypes, Branches, RuntimeAt,
                  WorkspaceAt, LimitsAt, StateAt, AuditAt, BundleAt,
                  Command!AuditTruthful, Command!AppliedIsAuthorized
    <2>1. Command!TypeOK'
        BY DEF Command!TypeOK, ToolAt
    <2>2. CommandTypes'
        BY DEF CommandTypes, Branches
    <2>3. Branches'
        BY DEF Branches, CommandTypes
    <2>4. ToolAt'
        BY DEF ToolAt, Branches, BundleAt
    <2>5. RuntimeAt'
        BY DEF RuntimeAt, ToolAt, Branches, CommandTypes
    <2>6. WorkspaceAt'
        BY DEF WorkspaceAt, ToolAt, CommandTypes
    <2>7. LimitsAt'
        BY DEF LimitsAt, ToolAt
    <2>8. StateAt'
        BY DEF StateAt, ToolAt, Command!TypeOK
    <2>9. AuditAt'
        BY DEF AuditAt, StateAt, ToolAt, CommandTypes
    <2>10. BundleAt'
        BY DEF BundleAt, AuditAt, ToolAt, WorkspaceAt
    <2>11. Command!AuditTruthful'
        BY DEF Command!AuditTruthful, AuditAt, ToolAt, LimitsAt, StateAt,
           Command!TypeOK
    <2>12. Command!AppliedIsAuthorized'
        BY DEF Command!AppliedIsAuthorized, BundleAt
    <2>. QED
        BY <2>1, <2>2, <2>3, <2>4, <2>5, <2>6, <2>7, <2>8, <2>9, <2>10, <2>11,
           <2>12
           DEF CommandInv
<1>15. CASE Command!Launch
    BY <1>15 DEF Command!Launch
<1>. QED BY <1>1, <1>2, <1>3, <1>4, <1>5, <1>6, <1>7, <1>8, <1>9, <1>10, <1>11,
     <1>12, <1>13, <1>14, <1>15

\* So do those from the tool's end to the backend's.
LEMMA EndingInvariant ==
    ASSUME CommandInv,
           \/ Command!ToolEnds
           \/ Command!Retrieve
           \/ Command!FailRetrieval
           \/ Command!VerifyCanary
           \/ Command!RetrieveState
           \/ Command!Stop
           \/ Command!StopGuest
           \/ Command!StopLost
           \/ Command!CleanInbox
           \/ Command!FailBackend
           \/ Command!Publish
    PROVE  CommandInv'
<1>. USE DEF CommandInv, Command!TypeOK, CommandTypes, Branches, ToolAt,
             RuntimeAt, WorkspaceAt, LimitsAt, StateAt, AuditAt, BundleAt,
             Command!AuditTruthful, Command!AppliedIsAuthorized, Command!Goto,
             Command!rest, Command!backend, Command!handover,
             Opening, Preparing, Ending, Closing, Housed, Ended, Returned
<1>1. CASE Command!ToolEnds
    <2>. USE <1>1 DEF Command!ToolEnds
    <2>. HIDE DEF Command!TypeOK, CommandTypes, Branches, RuntimeAt,
                  WorkspaceAt, LimitsAt, StateAt, AuditAt, BundleAt,
                  Command!AuditTruthful, Command!AppliedIsAuthorized
    <2>1. Command!TypeOK'
        BY DEF Command!TypeOK, ToolAt
    <2>2. CommandTypes'
        BY DEF CommandTypes, Branches
    <2>3. Branches'
        BY DEF Branches, CommandTypes
    <2>4. ToolAt'
        BY DEF ToolAt, Branches, BundleAt
    <2>5. RuntimeAt'
        BY DEF RuntimeAt, ToolAt, Branches, CommandTypes
    <2>6. WorkspaceAt'
        BY DEF WorkspaceAt, ToolAt, CommandTypes
    <2>7. LimitsAt'
        BY DEF LimitsAt, ToolAt
    <2>8. StateAt'
        BY DEF StateAt, ToolAt, Command!TypeOK
    <2>9. AuditAt'
        BY DEF AuditAt, StateAt, ToolAt
    <2>10. BundleAt'
        BY DEF BundleAt, AuditAt, ToolAt, WorkspaceAt
    <2>11. Command!AuditTruthful'
        BY DEF Command!AuditTruthful, AuditAt, ToolAt, LimitsAt, StateAt,
           Command!TypeOK
    <2>12. Command!AppliedIsAuthorized'
        BY DEF Command!AppliedIsAuthorized, BundleAt
    <2>. QED
        BY <2>1, <2>2, <2>3, <2>4, <2>5, <2>6, <2>7, <2>8, <2>9, <2>10, <2>11,
           <2>12
           DEF CommandInv
<1>2. CASE Command!Retrieve
    <2>. USE <1>2 DEF Command!Retrieve
    <2>. HIDE DEF Command!TypeOK, CommandTypes, Branches, RuntimeAt,
                  WorkspaceAt, LimitsAt, StateAt, AuditAt, BundleAt,
                  Command!AuditTruthful, Command!AppliedIsAuthorized
    <2>1. Command!TypeOK'
        BY DEF Command!TypeOK, ToolAt
    <2>2. CommandTypes'
        BY DEF CommandTypes, Branches
    <2>3. Branches'
        BY DEF Branches, CommandTypes
    <2>4. ToolAt'
        BY DEF ToolAt, Branches, BundleAt
    <2>5. RuntimeAt'
        BY DEF RuntimeAt, ToolAt, Branches, CommandTypes
    <2>6. WorkspaceAt'
        BY DEF WorkspaceAt, ToolAt, CommandTypes
    <2>7. LimitsAt'
        BY DEF LimitsAt, ToolAt
    <2>8. StateAt'
        BY DEF StateAt, ToolAt, Command!TypeOK
    <2>9. AuditAt'
        BY DEF AuditAt, StateAt, ToolAt, CommandTypes
    <2>10. BundleAt'
        BY DEF BundleAt, AuditAt, ToolAt, WorkspaceAt
    <2>11. Command!AuditTruthful'
        BY DEF Command!AuditTruthful, AuditAt, ToolAt, LimitsAt, StateAt,
           Command!TypeOK
    <2>12. Command!AppliedIsAuthorized'
        BY DEF Command!AppliedIsAuthorized, BundleAt
    <2>. QED
        BY <2>1, <2>2, <2>3, <2>4, <2>5, <2>6, <2>7, <2>8, <2>9, <2>10, <2>11,
           <2>12
           DEF CommandInv
<1>3. CASE Command!FailRetrieval
    <2>1. troubles' \in 0..MaxTroubles
        BY <1>3, TroubleCounted DEF Command!FailRetrieval
    <2>. USE <1>3, <2>1 DEF Command!FailRetrieval
    <2>. HIDE DEF Command!TypeOK, CommandTypes, Branches, RuntimeAt,
                  WorkspaceAt, LimitsAt, StateAt, AuditAt, BundleAt,
                  Command!AuditTruthful, Command!AppliedIsAuthorized
    <2>2. Command!TypeOK'
        BY DEF Command!TypeOK, ToolAt
    <2>3. CommandTypes'
        BY DEF CommandTypes, Branches
    <2>4. Branches'
        BY DEF Branches, CommandTypes
    <2>5. ToolAt'
        BY DEF ToolAt, Branches, BundleAt
    <2>6. RuntimeAt'
        BY DEF RuntimeAt, ToolAt, Branches, CommandTypes
    <2>7. WorkspaceAt'
        BY DEF WorkspaceAt, ToolAt, CommandTypes
    <2>8. LimitsAt'
        BY DEF LimitsAt, ToolAt
    <2>9. StateAt'
        BY DEF StateAt, ToolAt, Command!TypeOK
    <2>10. AuditAt'
        BY DEF AuditAt, StateAt, ToolAt, CommandTypes
    <2>11. BundleAt'
        BY DEF BundleAt, AuditAt, ToolAt, WorkspaceAt
    <2>12. Command!AuditTruthful'
        BY DEF Command!AuditTruthful, AuditAt, ToolAt, LimitsAt, StateAt,
           Command!TypeOK
    <2>13. Command!AppliedIsAuthorized'
        BY DEF Command!AppliedIsAuthorized, BundleAt
    <2>. QED
        BY <2>2, <2>3, <2>4, <2>5, <2>6, <2>7, <2>8, <2>9, <2>10, <2>11, <2>12,
           <2>13
           DEF CommandInv
<1>4. CASE Command!VerifyCanary
    <2>. USE <1>4 DEF Command!VerifyCanary, Command!AfterCanary
    <2>. HIDE DEF Command!TypeOK, CommandTypes, Branches, RuntimeAt,
                  WorkspaceAt, LimitsAt, StateAt, AuditAt, BundleAt,
                  Command!AuditTruthful, Command!AppliedIsAuthorized
    <2>1. Command!TypeOK'
        BY DEF Command!TypeOK, ToolAt
    <2>2. CommandTypes'
        BY DEF CommandTypes, Branches
    <2>3. Branches'
        BY DEF Branches, CommandTypes
    <2>4. ToolAt'
        BY DEF ToolAt, Branches, BundleAt
    <2>5. RuntimeAt'
        BY ZenonT(30) DEF RuntimeAt, ToolAt, Branches, CommandTypes
    <2>6. WorkspaceAt'
        BY DEF WorkspaceAt, ToolAt, CommandTypes
    <2>7. LimitsAt'
        BY DEF LimitsAt, ToolAt
    <2>8. StateAt'
        BY DEF StateAt, ToolAt, Command!TypeOK
    <2>9. AuditAt'
        BY DEF AuditAt, StateAt, ToolAt, CommandTypes
    <2>10. BundleAt'
        BY DEF BundleAt, AuditAt, ToolAt, WorkspaceAt
    <2>11. Command!AuditTruthful'
        BY DEF Command!AuditTruthful, AuditAt, ToolAt, LimitsAt, StateAt,
           Command!TypeOK
    <2>12. Command!AppliedIsAuthorized'
        BY DEF Command!AppliedIsAuthorized, BundleAt
    <2>. QED
        BY <2>1, <2>2, <2>3, <2>4, <2>5, <2>6, <2>7, <2>8, <2>9, <2>10, <2>11,
           <2>12
           DEF CommandInv
<1>5. CASE Command!RetrieveState
    <2>. USE <1>5 DEF Command!RetrieveState
    <2>. HIDE DEF Command!TypeOK, CommandTypes, Branches, RuntimeAt,
                  WorkspaceAt, LimitsAt, StateAt, AuditAt, BundleAt,
                  Command!AuditTruthful, Command!AppliedIsAuthorized
    <2>1. Command!TypeOK'
        BY DEF Command!TypeOK, ToolAt
    <2>2. CommandTypes'
        BY DEF CommandTypes, Branches
    <2>3. Branches'
        BY DEF Branches, CommandTypes
    <2>4. ToolAt'
        BY DEF ToolAt, Branches, BundleAt
    <2>5. RuntimeAt'
        BY DEF RuntimeAt, ToolAt, Branches, CommandTypes
    <2>6. WorkspaceAt'
        BY DEF WorkspaceAt, ToolAt, CommandTypes
    <2>7. LimitsAt'
        BY DEF LimitsAt, ToolAt
    <2>8. StateAt'
        BY DEF StateAt, ToolAt, Command!TypeOK
    <2>9. AuditAt'
        BY DEF AuditAt, StateAt, ToolAt, CommandTypes
    <2>10. BundleAt'
        BY DEF BundleAt, AuditAt, ToolAt, WorkspaceAt
    <2>11. Command!AuditTruthful'
        BY DEF Command!AuditTruthful, AuditAt, ToolAt, LimitsAt, StateAt,
           Command!TypeOK
    <2>12. Command!AppliedIsAuthorized'
        BY DEF Command!AppliedIsAuthorized, BundleAt
    <2>. QED
        BY <2>1, <2>2, <2>3, <2>4, <2>5, <2>6, <2>7, <2>8, <2>9, <2>10, <2>11,
           <2>12
           DEF CommandInv
<1>6. CASE Command!Stop
    <2>. USE <1>6 DEF Command!Stop, Command!StopProxy
    <2>. HIDE DEF Command!TypeOK, CommandTypes, Branches, RuntimeAt,
                  WorkspaceAt, LimitsAt, StateAt, AuditAt, BundleAt,
                  Command!AuditTruthful, Command!AppliedIsAuthorized
    <2>1. Command!TypeOK'
        BY DEF Command!TypeOK, ToolAt
    <2>2. CommandTypes'
        BY DEF CommandTypes, Branches
    <2>3. Branches'
        BY DEF Branches, CommandTypes
    <2>4. ToolAt'
        BY DEF ToolAt, Branches, BundleAt
    <2>5. RuntimeAt'
        BY DEF RuntimeAt, ToolAt, Branches, CommandTypes
    <2>6. WorkspaceAt'
        BY DEF WorkspaceAt, ToolAt, CommandTypes
    <2>7. LimitsAt'
        BY DEF LimitsAt, ToolAt
    <2>8. StateAt'
        BY DEF StateAt, ToolAt, Command!TypeOK
    <2>9. AuditAt'
        BY DEF AuditAt, StateAt, ToolAt, CommandTypes
    <2>10. BundleAt'
        BY DEF BundleAt, AuditAt, ToolAt, WorkspaceAt
    <2>11. Command!AuditTruthful'
        BY DEF Command!AuditTruthful, AuditAt, ToolAt, LimitsAt, StateAt,
           Command!TypeOK
    <2>12. Command!AppliedIsAuthorized'
        BY DEF Command!AppliedIsAuthorized, BundleAt
    <2>. QED
        BY <2>1, <2>2, <2>3, <2>4, <2>5, <2>6, <2>7, <2>8, <2>9, <2>10, <2>11,
           <2>12
           DEF CommandInv
<1>7. CASE Command!StopGuest
    <2>. USE <1>7 DEF Command!StopGuest, Command!StopProxy
    <2>. HIDE DEF Command!TypeOK, CommandTypes, Branches, RuntimeAt,
                  WorkspaceAt, LimitsAt, StateAt, AuditAt, BundleAt,
                  Command!AuditTruthful, Command!AppliedIsAuthorized
    <2>1. Command!TypeOK'
        BY DEF Command!TypeOK, ToolAt
    <2>2. CommandTypes'
        BY DEF CommandTypes, Branches
    <2>3. Branches'
        BY DEF Branches, CommandTypes
    <2>4. ToolAt'
        BY DEF ToolAt, Branches, BundleAt
    <2>5. RuntimeAt'
        BY DEF RuntimeAt, ToolAt, Branches, CommandTypes
    <2>6. WorkspaceAt'
        BY DEF WorkspaceAt, ToolAt, CommandTypes
    <2>7. LimitsAt'
        BY DEF LimitsAt, ToolAt
    <2>8. StateAt'
        BY DEF StateAt, ToolAt, Command!TypeOK
    <2>9. AuditAt'
        BY DEF AuditAt, StateAt, ToolAt, CommandTypes
    <2>10. BundleAt'
        BY DEF BundleAt, AuditAt, ToolAt, WorkspaceAt
    <2>11. Command!AuditTruthful'
        BY DEF Command!AuditTruthful, AuditAt, ToolAt, LimitsAt, StateAt,
           Command!TypeOK
    <2>12. Command!AppliedIsAuthorized'
        BY DEF Command!AppliedIsAuthorized, BundleAt
    <2>. QED
        BY <2>1, <2>2, <2>3, <2>4, <2>5, <2>6, <2>7, <2>8, <2>9, <2>10, <2>11,
           <2>12
           DEF CommandInv
<1>8. CASE Command!StopLost
    <2>. USE <1>8 DEF Command!StopLost, Command!Unwind, Command!Broken,
         Command!StopProxy, Command!CleanupGuest
    <2>. HIDE DEF Command!TypeOK, CommandTypes, Branches, RuntimeAt,
                  WorkspaceAt, LimitsAt, StateAt, AuditAt, BundleAt,
                  Command!AuditTruthful, Command!AppliedIsAuthorized
    <2>1. Command!TypeOK'
        BY DEF Command!TypeOK, ToolAt
    <2>2. CommandTypes'
        BY DEF CommandTypes, Branches
    <2>3. Branches'
        BY DEF Branches, CommandTypes
    <2>4. ToolAt'
        BY DEF ToolAt, Branches, BundleAt
    <2>5. RuntimeAt'
        BY DEF RuntimeAt, ToolAt, Branches, CommandTypes
    <2>6. WorkspaceAt'
        BY DEF WorkspaceAt, ToolAt, CommandTypes
    <2>7. LimitsAt'
        BY DEF LimitsAt, ToolAt
    <2>8. StateAt'
        BY DEF StateAt, ToolAt, Command!TypeOK
    <2>9. AuditAt'
        BY DEF AuditAt, StateAt, ToolAt
    <2>10. BundleAt'
        BY DEF BundleAt, AuditAt, ToolAt, WorkspaceAt
    <2>11. Command!AuditTruthful'
        BY DEF Command!AuditTruthful, AuditAt, ToolAt, LimitsAt, StateAt,
           Command!TypeOK
    <2>12. Command!AppliedIsAuthorized'
        BY DEF Command!AppliedIsAuthorized, BundleAt
    <2>. QED
        BY <2>1, <2>2, <2>3, <2>4, <2>5, <2>6, <2>7, <2>8, <2>9, <2>10, <2>11,
           <2>12
           DEF CommandInv
<1>9. CASE Command!CleanInbox
    BY <1>9 DEF Command!CleanInbox
<1>10. CASE Command!FailBackend
    <2>1. troubles' \in 0..MaxTroubles
        BY <1>10, TroubleCounted DEF Command!FailBackend
    <2>. USE <1>10, <2>1 DEF Command!FailBackend, Command!Unwind,
         Command!Broken, Command!StopProxy, Command!CleanupGuest
    <2>. HIDE DEF Command!TypeOK, CommandTypes, Branches, RuntimeAt,
                  WorkspaceAt, LimitsAt, StateAt, AuditAt, BundleAt,
                  Command!AuditTruthful, Command!AppliedIsAuthorized
    <2>2. Command!TypeOK'
        BY DEF Command!TypeOK, ToolAt
    <2>3. CommandTypes'
        BY DEF CommandTypes, Branches
    <2>4. Branches'
        BY DEF Branches, CommandTypes
    <2>5. ToolAt'
        BY DEF ToolAt, Branches, BundleAt
    <2>6. RuntimeAt'
        BY DEF RuntimeAt, ToolAt, Branches, CommandTypes
    <2>7. WorkspaceAt'
        BY DEF WorkspaceAt, ToolAt, CommandTypes
    <2>8. LimitsAt'
        BY DEF LimitsAt, ToolAt
    <2>9. StateAt'
        BY DEF StateAt, ToolAt, Command!TypeOK
    <2>10. AuditAt'
        BY DEF AuditAt, StateAt, ToolAt, CommandTypes
    <2>11. BundleAt'
        BY DEF BundleAt, AuditAt, ToolAt, WorkspaceAt
    <2>12. Command!AuditTruthful'
        BY DEF Command!AuditTruthful, AuditAt, ToolAt, LimitsAt, StateAt,
           Command!TypeOK
    <2>13. Command!AppliedIsAuthorized'
        BY DEF Command!AppliedIsAuthorized, BundleAt
    <2>. QED
        BY <2>2, <2>3, <2>4, <2>5, <2>6, <2>7, <2>8, <2>9, <2>10, <2>11, <2>12,
           <2>13
           DEF CommandInv
<1>11. CASE Command!Publish
    <2>1. troubles' \in 0..MaxTroubles
        BY <1>11, TroubleCounted DEF Command!Publish
    <2>. USE <1>11, <2>1 DEF Command!Publish
    <2>. HIDE DEF Command!TypeOK, CommandTypes, Branches, RuntimeAt,
                  WorkspaceAt, LimitsAt, StateAt, AuditAt, BundleAt,
                  Command!AuditTruthful, Command!AppliedIsAuthorized
    <2>2. Command!TypeOK'
        BY DEF Command!TypeOK, ToolAt
    <2>3. CommandTypes'
        BY DEF CommandTypes, Branches
    <2>4. Branches'
        BY DEF Branches, CommandTypes
    <2>5. ToolAt'
        BY DEF ToolAt, Branches, BundleAt
    <2>6. RuntimeAt'
        BY DEF RuntimeAt, ToolAt, Branches, CommandTypes
    <2>7. WorkspaceAt'
        BY DEF WorkspaceAt, ToolAt, CommandTypes
    <2>8. LimitsAt'
        BY DEF LimitsAt, ToolAt
    <2>9. StateAt'
        BY DEF StateAt, ToolAt, Command!TypeOK
    <2>10. AuditAt'
        BY DEF AuditAt, StateAt, ToolAt, CommandTypes
    <2>11. BundleAt'
        BY DEF BundleAt, AuditAt, ToolAt, WorkspaceAt
    <2>12. Command!AuditTruthful'
        BY DEF Command!AuditTruthful, AuditAt, ToolAt, LimitsAt, StateAt,
           Command!TypeOK
    <2>13. Command!AppliedIsAuthorized'
        BY DEF Command!AppliedIsAuthorized, BundleAt
    <2>. QED
        BY <2>2, <2>3, <2>4, <2>5, <2>6, <2>7, <2>8, <2>9, <2>10, <2>11, <2>12,
           <2>13
           DEF CommandInv
<1>. QED BY <1>1, <1>2, <1>3, <1>4, <1>5, <1>6, <1>7, <1>8, <1>9, <1>10, <1>11

\* So do those after the backend, and the end of the process.
LEMMA ClosingInvariant ==
    ASSUME CommandInv,
           \/ Command!PersistAudit
           \/ Command!Export
           \/ Command!ReviewNothing
           \/ Command!AnswerReview
           \/ Command!AnswerApply
           \/ Command!FailDiscard
           \/ Command!AnswerKeep
           \/ Command!FailHandoff
           \/ Command!Finish
           \/ Command!Fail
           \/ Command!Kill
    PROVE  CommandInv'
<1>. USE DEF CommandInv, Command!TypeOK, CommandTypes, Branches, ToolAt,
             RuntimeAt, WorkspaceAt, LimitsAt, StateAt, AuditAt, BundleAt,
             Command!AuditTruthful, Command!AppliedIsAuthorized, Command!Goto,
             Command!rest, Command!backend, Command!handover,
             Opening, Preparing, Ending, Closing, Housed, Ended, Returned
<1>1. CASE Command!PersistAudit
    <2>. HIDE DEF CommandInv
    <2>1. troubles' \in 0..MaxTroubles
        BY <1>1, TroubleCounted DEF Command!PersistAudit, CommandInv
    <2>2. PICK p \in {"keep", "fail", "handoff"} :
              /\ place' = p
              /\ p # "fail" => audit'.written = "yes"
              /\ p = "keep" => asked.dry
              /\ p = "handoff" => ~asked.dry /\ tool # "failed"
        BY <1>1 DEF Command!PersistAudit, Command!AfterAudit
    <2>3. /\ audit'.written # "no"
          /\ audit'.written = "yes" =>
                /\ audit'.success => tool = "ended" /\ state # "refused"
                /\ audit'.scoped = (scoped /\ tool # "failed")
        <3>1. CASE audit' = [written |-> "yes", success |-> Command!Succeeded,
                             scoped |-> scoped /\ tool # "failed"]
            BY <3>1 DEF Command!Succeeded
        <3>2. CASE audit' = [Command!NoAudit EXCEPT !.written = "failed"]
            BY <3>2 DEF Command!NoAudit
        <3>. QED BY <1>1, <3>1, <3>2 DEF Command!PersistAudit
    <2>4. UNCHANGED <<asked, Command!backend, state, Command!handover, outcome>>
          /\ place = "audit"
        BY <1>1 DEF Command!PersistAudit
    <2>. USE <2>2, <2>4 DEF CommandInv
    <2>. HIDE DEF Command!TypeOK, CommandTypes, Branches, ToolAt, RuntimeAt,
                  WorkspaceAt, LimitsAt, StateAt, AuditAt, BundleAt,
                  Command!AuditTruthful, Command!AppliedIsAuthorized
    <2>5. Command!TypeOK' BY <2>1 DEF Command!TypeOK
    <2>6. CommandTypes' /\ Branches' /\ ToolAt'
        BY DEF CommandTypes, Branches, ToolAt
    <2>7. RuntimeAt' BY DEF RuntimeAt
    <2>8. WorkspaceAt' BY DEF WorkspaceAt, CommandTypes
    <2>9. LimitsAt' BY DEF LimitsAt
    <2>10. StateAt' BY DEF StateAt
    <2>11. AuditAt' BY <2>3 DEF AuditAt, CommandTypes
    <2>12. BundleAt' BY DEF BundleAt, ToolAt, Command!TypeOK
    <2>13. Command!AuditTruthful'
        BY <2>3 DEF Command!AuditTruthful, StateAt, LimitsAt, Command!TypeOK
    <2>14. Command!AppliedIsAuthorized' BY DEF Command!AppliedIsAuthorized, BundleAt
    <2>. QED
        BY <2>5, <2>6, <2>7, <2>8, <2>9, <2>10, <2>11, <2>12, <2>13, <2>14
<1>2. CASE Command!Export
    <2>. USE <1>2 DEF Command!Export
    <2>. HIDE DEF Command!TypeOK, CommandTypes, Branches, RuntimeAt,
                  WorkspaceAt, LimitsAt, StateAt, AuditAt, BundleAt,
                  Command!AuditTruthful, Command!AppliedIsAuthorized
    <2>1. Command!TypeOK'
        BY DEF Command!TypeOK, ToolAt
    <2>2. CommandTypes'
        BY DEF CommandTypes, Branches
    <2>3. Branches'
        BY DEF Branches, CommandTypes
    <2>4. ToolAt'
        BY DEF ToolAt, Branches, BundleAt
    <2>5. RuntimeAt'
        BY DEF RuntimeAt, ToolAt, Branches, CommandTypes
    <2>6. WorkspaceAt'
        BY DEF WorkspaceAt, ToolAt, CommandTypes
    <2>7. LimitsAt'
        BY DEF LimitsAt, ToolAt
    <2>8. StateAt'
        BY DEF StateAt, ToolAt, Command!TypeOK
    <2>9. AuditAt'
        BY DEF AuditAt, StateAt, ToolAt, CommandTypes
    <2>10. BundleAt'
        BY DEF BundleAt, AuditAt, ToolAt, WorkspaceAt
    <2>11. Command!AuditTruthful'
        BY DEF Command!AuditTruthful, AuditAt, ToolAt, LimitsAt, StateAt,
           Command!TypeOK
    <2>12. Command!AppliedIsAuthorized'
        BY DEF Command!AppliedIsAuthorized, BundleAt
    <2>. QED
        BY <2>1, <2>2, <2>3, <2>4, <2>5, <2>6, <2>7, <2>8, <2>9, <2>10, <2>11,
           <2>12
           DEF CommandInv
<1>3. CASE Command!ReviewNothing
    <2>. USE <1>3 DEF Command!ReviewNothing
    <2>. HIDE DEF Command!TypeOK, CommandTypes, Branches, RuntimeAt,
                  WorkspaceAt, LimitsAt, StateAt, AuditAt, BundleAt,
                  Command!AuditTruthful, Command!AppliedIsAuthorized
    <2>1. Command!TypeOK'
        BY DEF Command!TypeOK, ToolAt
    <2>2. CommandTypes'
        BY DEF CommandTypes, Branches
    <2>3. Branches'
        BY DEF Branches, CommandTypes
    <2>4. ToolAt'
        BY DEF ToolAt, Branches, BundleAt
    <2>5. RuntimeAt'
        BY DEF RuntimeAt, ToolAt, Branches, CommandTypes
    <2>6. WorkspaceAt'
        BY DEF WorkspaceAt, ToolAt, CommandTypes
    <2>7. LimitsAt'
        BY DEF LimitsAt, ToolAt
    <2>8. StateAt'
        BY DEF StateAt, ToolAt, Command!TypeOK
    <2>9. AuditAt'
        BY DEF AuditAt, StateAt, ToolAt, CommandTypes
    <2>10. BundleAt'
        BY DEF BundleAt, AuditAt, ToolAt, WorkspaceAt
    <2>11. Command!AuditTruthful'
        BY DEF Command!AuditTruthful, AuditAt, ToolAt, LimitsAt, StateAt,
           Command!TypeOK
    <2>12. Command!AppliedIsAuthorized'
        BY DEF Command!AppliedIsAuthorized, BundleAt
    <2>. QED
        BY <2>1, <2>2, <2>3, <2>4, <2>5, <2>6, <2>7, <2>8, <2>9, <2>10, <2>11,
           <2>12
           DEF CommandInv
<1>4. CASE Command!AnswerReview
    <2>. USE <1>4 DEF Command!AnswerReview, Command!AtPrompt
    <2>. HIDE DEF Command!TypeOK, CommandTypes, Branches, RuntimeAt,
                  WorkspaceAt, LimitsAt, StateAt, AuditAt, BundleAt,
                  Command!AuditTruthful, Command!AppliedIsAuthorized
    <2>1. Command!TypeOK'
        BY DEF Command!TypeOK, ToolAt
    <2>2. CommandTypes'
        BY DEF CommandTypes, Branches
    <2>3. Branches'
        BY DEF Branches, CommandTypes
    <2>4. ToolAt'
        BY DEF ToolAt, Branches, BundleAt
    <2>5. RuntimeAt'
        BY DEF RuntimeAt, ToolAt, Branches, CommandTypes
    <2>6. WorkspaceAt'
        BY DEF WorkspaceAt, ToolAt, CommandTypes
    <2>7. LimitsAt'
        BY DEF LimitsAt, ToolAt
    <2>8. StateAt'
        BY DEF StateAt, ToolAt, Command!TypeOK
    <2>9. AuditAt'
        BY DEF AuditAt, StateAt, ToolAt, CommandTypes
    <2>10. BundleAt'
        BY DEF BundleAt, AuditAt, ToolAt, WorkspaceAt
    <2>11. Command!AuditTruthful'
        BY DEF Command!AuditTruthful, AuditAt, ToolAt, LimitsAt, StateAt,
           Command!TypeOK
    <2>12. Command!AppliedIsAuthorized'
        BY DEF Command!AppliedIsAuthorized, BundleAt
    <2>. QED
        BY <2>1, <2>2, <2>3, <2>4, <2>5, <2>6, <2>7, <2>8, <2>9, <2>10, <2>11,
           <2>12
           DEF CommandInv
<1>5. CASE Command!AnswerApply
    <2>. USE <1>5 DEF Command!AnswerApply, Command!AtPrompt, Command!MayApply,
         Command!ConfirmDeletions
    <2>. HIDE DEF Command!TypeOK, CommandTypes, Branches, RuntimeAt,
                  WorkspaceAt, LimitsAt, StateAt, AuditAt, BundleAt,
                  Command!AuditTruthful, Command!AppliedIsAuthorized
    <2>1. Command!TypeOK'
        BY DEF Command!TypeOK, ToolAt
    <2>2. CommandTypes'
        BY DEF CommandTypes, Branches
    <2>3. Branches'
        BY DEF Branches, CommandTypes
    <2>4. ToolAt'
        BY DEF ToolAt, Branches, BundleAt
    <2>5. RuntimeAt'
        BY DEF RuntimeAt, ToolAt, Branches, CommandTypes
    <2>6. WorkspaceAt'
        BY DEF WorkspaceAt, ToolAt, CommandTypes
    <2>7. LimitsAt'
        BY DEF LimitsAt, ToolAt
    <2>8. StateAt'
        BY DEF StateAt, ToolAt, Command!TypeOK
    <2>9. AuditAt'
        BY DEF AuditAt, StateAt, ToolAt, CommandTypes
    <2>10. BundleAt'
        BY DEF BundleAt, AuditAt, ToolAt, WorkspaceAt
    <2>11. Command!AuditTruthful'
        BY DEF Command!AuditTruthful, AuditAt, ToolAt, LimitsAt, StateAt,
           Command!TypeOK
    <2>12. Command!AppliedIsAuthorized'
        BY DEF Command!AppliedIsAuthorized, BundleAt
    <2>. QED
        BY <2>1, <2>2, <2>3, <2>4, <2>5, <2>6, <2>7, <2>8, <2>9, <2>10, <2>11,
           <2>12
           DEF CommandInv
<1>6. CASE Command!FailDiscard
    <2>1. troubles' \in 0..MaxTroubles
        BY <1>6, TroubleCounted DEF Command!FailDiscard
    <2>. USE <1>6, <2>1 DEF Command!FailDiscard, Command!AtPrompt,
         Command!MayApply, Command!ConfirmDeletions
    <2>. HIDE DEF Command!TypeOK, CommandTypes, Branches, RuntimeAt,
                  WorkspaceAt, LimitsAt, StateAt, AuditAt, BundleAt,
                  Command!AuditTruthful, Command!AppliedIsAuthorized
    <2>2. Command!TypeOK'
        BY DEF Command!TypeOK, ToolAt
    <2>3. CommandTypes'
        BY DEF CommandTypes, Branches
    <2>4. Branches'
        BY DEF Branches, CommandTypes
    <2>5. ToolAt'
        BY DEF ToolAt, Branches, BundleAt
    <2>6. RuntimeAt'
        BY DEF RuntimeAt, ToolAt, Branches, CommandTypes
    <2>7. WorkspaceAt'
        BY DEF WorkspaceAt, ToolAt, CommandTypes
    <2>8. LimitsAt'
        BY DEF LimitsAt, ToolAt
    <2>9. StateAt'
        BY DEF StateAt, ToolAt, Command!TypeOK
    <2>10. AuditAt'
        BY DEF AuditAt, StateAt, ToolAt, CommandTypes
    <2>11. BundleAt'
        BY DEF BundleAt, AuditAt, ToolAt, WorkspaceAt
    <2>12. Command!AuditTruthful'
        BY DEF Command!AuditTruthful, AuditAt, ToolAt, LimitsAt, StateAt,
           Command!TypeOK
    <2>13. Command!AppliedIsAuthorized'
        BY DEF Command!AppliedIsAuthorized, BundleAt
    <2>. QED
        BY <2>2, <2>3, <2>4, <2>5, <2>6, <2>7, <2>8, <2>9, <2>10, <2>11, <2>12,
           <2>13
           DEF CommandInv
<1>7. CASE Command!AnswerKeep
    <2>. USE <1>7 DEF Command!AnswerKeep, Command!AtPrompt
    <2>. HIDE DEF Command!TypeOK, CommandTypes, Branches, RuntimeAt,
                  WorkspaceAt, LimitsAt, StateAt, AuditAt, BundleAt,
                  Command!AuditTruthful, Command!AppliedIsAuthorized
    <2>1. Command!TypeOK'
        BY DEF Command!TypeOK, ToolAt
    <2>2. CommandTypes'
        BY DEF CommandTypes, Branches
    <2>3. Branches'
        BY DEF Branches, CommandTypes
    <2>4. ToolAt'
        BY DEF ToolAt, Branches, BundleAt
    <2>5. RuntimeAt'
        BY DEF RuntimeAt, ToolAt, Branches, CommandTypes
    <2>6. WorkspaceAt'
        BY DEF WorkspaceAt, ToolAt, CommandTypes
    <2>7. LimitsAt'
        BY DEF LimitsAt, ToolAt
    <2>8. StateAt'
        BY DEF StateAt, ToolAt, Command!TypeOK
    <2>9. AuditAt'
        BY DEF AuditAt, StateAt, ToolAt, CommandTypes
    <2>10. BundleAt'
        BY DEF BundleAt, AuditAt, ToolAt, WorkspaceAt
    <2>11. Command!AuditTruthful'
        BY DEF Command!AuditTruthful, AuditAt, ToolAt, LimitsAt, StateAt,
           Command!TypeOK
    <2>12. Command!AppliedIsAuthorized'
        BY DEF Command!AppliedIsAuthorized, BundleAt
    <2>. QED
        BY <2>1, <2>2, <2>3, <2>4, <2>5, <2>6, <2>7, <2>8, <2>9, <2>10, <2>11,
           <2>12
           DEF CommandInv
<1>8. CASE Command!FailHandoff
    <2>1. troubles' \in 0..MaxTroubles
        BY <1>8, TroubleCounted DEF Command!FailHandoff
    <2>. USE <1>8, <2>1 DEF Command!FailHandoff
    <2>. HIDE DEF Command!TypeOK, CommandTypes, Branches, RuntimeAt,
                  WorkspaceAt, LimitsAt, StateAt, AuditAt, BundleAt,
                  Command!AuditTruthful, Command!AppliedIsAuthorized
    <2>2. Command!TypeOK'
        BY DEF Command!TypeOK, ToolAt
    <2>3. CommandTypes'
        BY DEF CommandTypes, Branches
    <2>4. Branches'
        BY DEF Branches, CommandTypes
    <2>5. ToolAt'
        BY DEF ToolAt, Branches, BundleAt
    <2>6. RuntimeAt'
        BY DEF RuntimeAt, ToolAt, Branches, CommandTypes
    <2>7. WorkspaceAt'
        BY DEF WorkspaceAt, ToolAt, CommandTypes
    <2>8. LimitsAt'
        BY DEF LimitsAt, ToolAt
    <2>9. StateAt'
        BY DEF StateAt, ToolAt, Command!TypeOK
    <2>10. AuditAt'
        BY DEF AuditAt, StateAt, ToolAt
    <2>11. BundleAt'
        BY DEF BundleAt, AuditAt, ToolAt, WorkspaceAt
    <2>12. Command!AuditTruthful'
        BY DEF Command!AuditTruthful, AuditAt, ToolAt, LimitsAt, StateAt,
           Command!TypeOK
    <2>13. Command!AppliedIsAuthorized'
        BY DEF Command!AppliedIsAuthorized, BundleAt
    <2>. QED
        BY <2>2, <2>3, <2>4, <2>5, <2>6, <2>7, <2>8, <2>9, <2>10, <2>11, <2>12,
           <2>13
           DEF CommandInv
<1>9. CASE Command!Finish
    <2>. USE <1>9 DEF Command!Finish
    <2>. HIDE DEF Command!TypeOK, CommandTypes, Branches, RuntimeAt,
                  WorkspaceAt, LimitsAt, StateAt, AuditAt, BundleAt,
                  Command!AuditTruthful, Command!AppliedIsAuthorized
    <2>1. Command!TypeOK'
        BY DEF Command!TypeOK, ToolAt
    <2>2. CommandTypes'
        BY DEF CommandTypes, Branches
    <2>3. Branches'
        BY DEF Branches, CommandTypes
    <2>4. ToolAt'
        BY DEF ToolAt, Branches, BundleAt
    <2>5. RuntimeAt'
        BY DEF RuntimeAt, ToolAt, Branches, CommandTypes
    <2>6. WorkspaceAt'
        BY DEF WorkspaceAt, ToolAt, CommandTypes
    <2>7. LimitsAt'
        BY DEF LimitsAt, ToolAt
    <2>8. StateAt'
        BY DEF StateAt, ToolAt, Command!TypeOK
    <2>9. AuditAt'
        BY DEF AuditAt, StateAt, ToolAt, CommandTypes
    <2>10. BundleAt'
        BY DEF BundleAt, AuditAt, ToolAt, WorkspaceAt
    <2>11. Command!AuditTruthful'
        BY DEF Command!AuditTruthful, AuditAt, ToolAt, LimitsAt, StateAt,
           Command!TypeOK
    <2>12. Command!AppliedIsAuthorized'
        BY DEF Command!AppliedIsAuthorized, BundleAt
    <2>. QED
        BY <2>1, <2>2, <2>3, <2>4, <2>5, <2>6, <2>7, <2>8, <2>9, <2>10, <2>11,
           <2>12
           DEF CommandInv
<1>10. CASE Command!Fail
    <2>. USE <1>10 DEF Command!Fail
    <2>. HIDE DEF Command!TypeOK, CommandTypes, Branches, RuntimeAt,
                  WorkspaceAt, LimitsAt, StateAt, AuditAt, BundleAt,
                  Command!AuditTruthful, Command!AppliedIsAuthorized
    <2>1. Command!TypeOK'
        BY DEF Command!TypeOK, ToolAt
    <2>2. CommandTypes'
        BY DEF CommandTypes, Branches
    <2>3. Branches'
        BY DEF Branches, CommandTypes
    <2>4. ToolAt'
        BY DEF ToolAt, Branches, BundleAt
    <2>5. RuntimeAt'
        BY DEF RuntimeAt, ToolAt, Branches, CommandTypes
    <2>6. WorkspaceAt'
        BY DEF WorkspaceAt, ToolAt, CommandTypes
    <2>7. LimitsAt'
        BY DEF LimitsAt, ToolAt
    <2>8. StateAt'
        BY DEF StateAt, ToolAt, Command!TypeOK
    <2>9. AuditAt'
        BY DEF AuditAt, StateAt, ToolAt, CommandTypes
    <2>10. BundleAt'
        BY DEF BundleAt, AuditAt, ToolAt, WorkspaceAt
    <2>11. Command!AuditTruthful'
        BY DEF Command!AuditTruthful, AuditAt, ToolAt, LimitsAt, StateAt,
           Command!TypeOK
    <2>12. Command!AppliedIsAuthorized'
        BY DEF Command!AppliedIsAuthorized, BundleAt
    <2>. QED
        BY <2>1, <2>2, <2>3, <2>4, <2>5, <2>6, <2>7, <2>8, <2>9, <2>10, <2>11,
           <2>12
           DEF CommandInv
<1>11. CASE Command!Kill
    <2>1. troubles' \in 0..MaxTroubles
        BY <1>11, TroubleCounted DEF Command!Kill
    <2>. USE <1>11, <2>1 DEF Command!Kill
    <2>. HIDE DEF Command!TypeOK, CommandTypes, Branches, RuntimeAt,
                  WorkspaceAt, LimitsAt, StateAt, AuditAt, BundleAt,
                  Command!AuditTruthful, Command!AppliedIsAuthorized
    <2>2. Command!TypeOK'
        BY DEF Command!TypeOK, ToolAt
    <2>3. CommandTypes'
        BY DEF CommandTypes, Branches
    <2>4. Branches'
        BY DEF Branches, CommandTypes
    <2>5. ToolAt'
        BY DEF ToolAt, Branches, BundleAt
    <2>6. RuntimeAt'
        BY DEF RuntimeAt, ToolAt, Branches, CommandTypes
    <2>7. WorkspaceAt'
        BY DEF WorkspaceAt, ToolAt, CommandTypes
    <2>8. LimitsAt'
        BY DEF LimitsAt, ToolAt
    <2>9. StateAt'
        BY DEF StateAt, ToolAt, Command!TypeOK
    <2>10. AuditAt'
        BY DEF AuditAt, StateAt, ToolAt
    <2>11. BundleAt'
        BY DEF BundleAt, AuditAt, ToolAt, WorkspaceAt
    <2>12. Command!AuditTruthful'
        BY DEF Command!AuditTruthful, AuditAt, ToolAt, LimitsAt, StateAt,
           Command!TypeOK
    <2>13. Command!AppliedIsAuthorized'
        BY DEF Command!AppliedIsAuthorized, BundleAt
    <2>. QED
        BY <2>2, <2>3, <2>4, <2>5, <2>6, <2>7, <2>8, <2>9, <2>10, <2>11, <2>12,
           <2>13
           DEF CommandInv
<1>. QED BY <1>1, <1>2, <1>3, <1>4, <1>5, <1>6, <1>7, <1>8, <1>9, <1>10, <1>11

\* The steps of the command keep the invariant.
LEMMA CommandStep == CommandInv /\ [Command!Next]_command => CommandInv'
<1>. SUFFICES ASSUME CommandInv, [Command!Next]_command PROVE CommandInv'
    OBVIOUS
<1>1. CASE UNCHANGED command
    <2>. USE <1>1 DEF command, CommandInv
    <2>1. Command!TypeOK'
        BY DEF Command!TypeOK
    <2>2. CommandTypes' /\ Branches' /\ ToolAt'
        BY DEF CommandTypes, Branches, ToolAt
    <2>3. RuntimeAt'
        BY DEF RuntimeAt
    <2>4. WorkspaceAt'
        BY DEF WorkspaceAt
    <2>5. LimitsAt' /\ StateAt' /\ AuditAt' /\ BundleAt'
        BY DEF LimitsAt, StateAt, AuditAt, BundleAt
    <2>6. Command!AuditTruthful' /\ Command!AppliedIsAuthorized'
        BY DEF Command!AuditTruthful, Command!AppliedIsAuthorized
    <2>. QED BY <2>1, <2>2, <2>3, <2>4, <2>5, <2>6
<1>2. CASE Command!Next
    BY <1>2, OpeningInvariant, PreparingInvariant, EndingInvariant,
       ClosingInvariant DEF Command!Next, Command!Step
<1>. QED BY <1>1, <1>2

\* The invariant gives the properties.
LEMMA CommandProperties == CommandInv => RunContained /\ RunAccountable
<1>. SUFFICES ASSUME CommandInv PROVE RunContained /\ RunAccountable
    OBVIOUS
<1>. USE DEF CommandInv, CommandTypes, Opening, Preparing, Ending, Closing,
             Housed, Ended, Returned
<1>1. Command!ToolConfined
    BY DEF Command!ToolConfined, ToolAt, WorkspaceAt, RuntimeAt, LimitsAt
<1>2. Command!NothingLeftBehind
    BY DEF Command!NothingLeftBehind, ToolAt, WorkspaceAt, RuntimeAt
<1>3. Command!Recorded
    BY DEF Command!Recorded, AuditAt, BundleAt
<1>4. Command!ExportedIsVerified
    BY DEF Command!ExportedIsVerified, BundleAt
<1>. QED
    BY <1>1, <1>2, <1>3, <1>4
       DEF RunContained, RunAccountable, Command!RunContained,
           Command!RunAccountable

\* It holds throughout a session.
LEMMA CommandInvariant == SessionSpec => []CommandInv
<1>1. SessionInit => CommandInv
    BY CommandInit DEF SessionInit
<1>2. CommandInv /\ [SessionNext]_everything => CommandInv'
    <2>1. [SessionNext]_everything => [Command!Next]_command
        BY DEF SessionNext, everything
    <2>. QED BY <2>1, CommandStep
<1>. QED BY <1>1, <1>2, PTL DEF SessionSpec

\* Whatever step of the run command fails, and wherever the process is killed,
\* the tool has run only in a complete sandbox, and a command that returns has
\* stopped the proxy and dropped its stage and runtime directory.
THEOREM RunIsContained == SessionSpec => []RunContained
BY CommandInvariant, CommandProperties, PTL

\* Whatever left the sandbox is recorded truthfully before it leaves, was
\* exported from a verified workspace, and was applied only with the review
\* and the confirmation it calls for.
THEOREM RunIsAccountable == SessionSpec => []RunAccountable
BY CommandInvariant, CommandProperties, PTL

-----------------------------------------------------------------------------
(* The supervisor.                                                         *)

Workers == {"none", "queued", "accepted", "connect", "copy", "join", "leave"}

\* The connections that are relayed, and those that are counted.
Served  == {c \in Client : Sandbox!Serving(c)}
Counted == Served \cup acceptor.holds

SandboxTypes ==
    /\ given \in Sandbox!Configurations
    /\ preflight \in {"none", "passed", "failed"}
    /\ child \in [who : {"none", "preflight", "tool"}, done : Nat,
                  env : [Sandbox!Names -> {"entry", "relay", "base", "unset"}]]
    /\ active \in Int
    /\ acceptor \in [at : {"none", "check", "accept", "dispatch", "over"},
                     holds : SUBSET Client, before : Int]
    /\ relay \in [Client -> [worker : Workers, forward : {"none", "copy"}]]

\* The accept thread's hands hold the accepted connection until it is
\* dispatched.  Workers may leave meanwhile, none can come: what was counted
\* before the connection is still an upper bound.
Hands ==
    /\ \A c \in Client : c \in acceptor.holds <=> relay[c].worker = "accepted"
    /\ acceptor.at # "dispatch" => acceptor.holds = {}
    /\ acceptor.at = "dispatch" =>
           /\ \E c \in Client : acceptor.holds = {c}
           /\ active <= acceptor.before + 1

\* Commands run only after the environment was checked and the relay started,
\* the tool only after the preflight.
Supervised ==
    /\ phase \in {"protect", "relay", "commands"} =>
           \A n \in given.entries : Sandbox!Safe(n)
    /\ phase \in {"start", "protect", "relay"}
           => acceptor.at = "none" /\ preflight = "none"
    /\ phase = "commands" /\ given.proxy => acceptor.at # "none"
    /\ phase = "commands" => preflight # "failed"
    /\ child.who # "none" =>
           /\ phase = "commands"
           /\ child.done \in 0..Sandbox!Restrictions
           /\ child.env["PATH"] = "base"
           /\ given.proxy => child.env["PROXY"] = "relay"
    /\ child.who = "tool" /\ given.preflight => preflight = "passed"

SandboxInv ==
    /\ SandboxTypes /\ Hands /\ Supervised
    /\ Sandbox!CountExact /\ Sandbox!RelaysBounded

\* The supervisor's cardinality is the one the theorems are about.
LEMMA SameCardinality == \A S : Sandbox!Cardinality(S) = Cardinality(S)
BY DEF Cardinality, Sandbox!Cardinality

LEMMA CountMeans ==
    /\ Sandbox!CountExact <=> active = Cardinality(Counted)
    /\ Sandbox!CountExact' <=> active' = Cardinality(Counted')
    /\ Sandbox!RelaysBounded <=> Cardinality(Served) <= MaxRelays
    /\ Sandbox!RelaysBounded' <=> Cardinality(Served') <= MaxRelays
BY SameCardinality
   DEF Served, Counted, Sandbox!CountExact, Sandbox!RelaysBounded

\* Initially nothing is counted.
LEMMA SandboxInit == Sandbox!Init => SandboxInv
<1>. SUFFICES ASSUME Sandbox!Init PROVE SandboxInv
    OBVIOUS
<1>. USE DEF Sandbox!Init, Sandbox!NoClient, Sandbox!NoOne, Sandbox!NoChild,
             Sandbox!NoConfiguration
<1>1. SandboxTypes
    <2>1. given \in Sandbox!Configurations
        BY DEF Sandbox!Configurations
    <2>2. child \in [who : {"none", "preflight", "tool"}, done : Nat,
                    env : [Sandbox!Names -> {"entry", "relay", "base", "unset"}]]
        OBVIOUS
    <2>. QED BY <2>1, <2>2 DEF SandboxTypes, Workers
<1>2. Hands /\ Supervised
    BY DEF Hands, Supervised
<1>3. Served = {} /\ Counted = {}
    BY DEF Served, Counted, Sandbox!Serving
<1>4. Sandbox!CountExact /\ Sandbox!RelaysBounded
    <2>1. active = 0 /\ Cardinality(Counted) = 0 /\ Cardinality(Served) = 0
        BY <1>3, FS_EmptySet
    <2>. QED BY <2>1, CountMeans, SandboxAssumption
<1>. QED BY <1>1, <1>2, <1>4 DEF SandboxInv

\* Everything counted is finite.
LEMMA CountedFinite ==
    ASSUME SandboxTypes
    PROVE  /\ IsFiniteSet(Served) /\ IsFiniteSet(Counted)
           /\ Cardinality(Served) \in Nat /\ Cardinality(Counted) \in Nat
           /\ Cardinality(Counted) <= Cardinality(Client)
           /\ Served \subseteq Counted /\ Counted \subseteq Client
<1>1. Served \subseteq Client /\ Counted \subseteq Client
    BY DEF Served, Counted, SandboxTypes
<1>2. IsFiniteSet(Served) /\ IsFiniteSet(Counted)
    BY <1>1, SandboxAssumption, FS_Subset
<1>. QED
    BY <1>1, <1>2, FS_CardinalityType, FS_Subset, SandboxAssumption DEF Counted

\* What holds of the relay holds as long as it is left alone.
LEMMA RelayKept ==
    ASSUME SandboxInv, UNCHANGED <<active, relay>>, acceptor'.holds = acceptor.holds
    PROVE  Sandbox!CountExact' /\ Sandbox!RelaysBounded'
<1>1. Served' = Served /\ Counted' = Counted
    BY DEF Served, Counted, Sandbox!Serving
<1>. QED
    BY <1>1, CountMeans DEF SandboxInv

\* The steps of supervise and of its children keep the invariant.
LEMMA SupervisingInvariant ==
    ASSUME SandboxInv,
           \/ Sandbox!ReadEnvironment \/ Sandbox!Protect \/ Sandbox!StartRelay
           \/ Sandbox!Fork \/ Sandbox!Restrict \/ Sandbox!ChildEnds
           \/ Sandbox!DropRelay \/ Sandbox!Join
    PROVE  SandboxInv'
<1>. USE DEF Sandbox!relayVars, Sandbox!NoOne, Sandbox!NoChild
<1>1. SandboxTypes'
    BY DEF SandboxInv, SandboxTypes, Sandbox!Environment,
       Sandbox!ReadEnvironment, Sandbox!Protect,
           Sandbox!StartRelay, Sandbox!Fork, Sandbox!Restrict,
           Sandbox!ChildEnds, Sandbox!DropRelay, Sandbox!Join
<1>2. UNCHANGED <<active, relay>> /\ acceptor'.holds = acceptor.holds /\ Hands'
    <2>1. CASE UNCHANGED <<active, relay, acceptor>>
        BY <2>1 DEF SandboxInv, Hands
    <2>2. CASE Sandbox!StartRelay
        BY <2>2 DEF Sandbox!StartRelay, SandboxInv, SandboxTypes, Supervised,
           Hands
    <2>. QED
        BY <2>1, <2>2
           DEF Sandbox!ReadEnvironment, Sandbox!Protect, Sandbox!Fork,
               Sandbox!Restrict, Sandbox!ChildEnds, Sandbox!DropRelay,
               Sandbox!Join
<1>3. Supervised'
    <2>. USE DEF SandboxInv, SandboxTypes, Supervised
    <2>1. CASE Sandbox!ReadEnvironment
        BY <2>1 DEF Sandbox!ReadEnvironment
    <2>2. CASE Sandbox!Protect
        BY <2>2 DEF Sandbox!Protect, Sandbox!Configurations
    <2>3. CASE Sandbox!StartRelay
        BY <2>3 DEF Sandbox!StartRelay
    <2>4. CASE Sandbox!Fork
        BY <2>4
           DEF Sandbox!Fork, Sandbox!Environment, Sandbox!Names, Sandbox!Safe,
               Sandbox!Restrictions
    <2>5. CASE Sandbox!Restrict
        BY <2>5 DEF Sandbox!Restrict, Sandbox!Restrictions
    <2>6. CASE Sandbox!ChildEnds
        BY <2>6 DEF Sandbox!ChildEnds, Sandbox!Executing
    <2>7. CASE Sandbox!DropRelay \/ Sandbox!Join
        BY <2>7 DEF Sandbox!DropRelay, Sandbox!Join
    <2>. QED BY <2>1, <2>2, <2>3, <2>4, <2>5, <2>6, <2>7
<1>. QED BY <1>1, <1>2, <1>3, RelayKept DEF SandboxInv

\* So do the steps of the accept thread.
LEMMA AcceptingInvariant ==
    ASSUME SandboxInv,
           \/ Sandbox!CheckStop \/ Sandbox!AcceptNothing
           \/ \E c \in Client : Sandbox!Accept(c)
           \/ Sandbox!Dispatch
    PROVE  SandboxInv'
<1>. USE DEF SandboxInv, SandboxTypes, Workers
<1>1. CASE Sandbox!CheckStop \/ Sandbox!AcceptNothing
    <2>. USE <1>1 DEF Sandbox!CheckStop, Sandbox!AcceptNothing
    <2>1. acceptor'.holds = acceptor.holds /\ UNCHANGED <<active, relay>>
        OBVIOUS
    <2>2. SandboxTypes' /\ Hands'
        BY DEF Hands
    <2>3. Supervised'
        BY DEF Supervised
    <2>. QED BY <2>1, <2>2, <2>3, RelayKept
<1>2. ASSUME NEW c \in Client, Sandbox!Accept(c) PROVE SandboxInv'
    <2>. USE <1>2 DEF Sandbox!Accept
    <2>1. SandboxTypes'
        OBVIOUS
    <2>2. Hands'
        BY DEF Hands
    <2>3. Supervised'
        BY DEF Supervised
    <2>4. Served' = Served /\ Counted' = Counted \cup {c} /\ c \notin Counted
        BY DEF Served, Counted, Sandbox!Serving, Hands
    <2>5. Cardinality(Counted') = Cardinality(Counted) + 1
        BY <2>4, CountedFinite, FS_AddElement
    <2>. QED BY <2>1, <2>2, <2>3, <2>4, <2>5, CountMeans
<1>3. CASE Sandbox!Dispatch
    <2>. USE <1>3 DEF Sandbox!Dispatch
    <2>1. PICK c \in Client : acceptor.holds = {c} /\ relay[c].worker = "accepted"
        BY DEF Hands
    <2>2. c \in Counted /\ c \notin Served /\ Counted = Served \cup {c}
        BY <2>1 DEF Served, Counted, Sandbox!Serving
    <2>3. SandboxTypes'
        BY DEF Sandbox!NoOne, Sandbox!NoClient
    <2>4. Hands'
        BY <2>1 DEF Hands, Sandbox!NoOne, Sandbox!NoClient
    <2>5. Supervised'
        BY DEF Supervised, Sandbox!NoOne
    <2>6. Cardinality(Counted) = Cardinality(Served) + 1
        BY <2>2, CountedFinite, FS_AddElement
    <2>7. CASE acceptor.before >= MaxRelays
        <3>1. Served' = Served /\ Counted' = Served
            BY <2>1, <2>7
               DEF Served, Counted, Sandbox!Serving, Sandbox!NoOne,
                   Sandbox!NoClient
        <3>2. active' = active - 1
            BY <2>1, <2>7
        <3>. QED
            BY <2>3, <2>4, <2>5, <2>6, <3>1, <3>2, CountMeans, CountedFinite,
               SMTT(20)
    <2>8. CASE ~(acceptor.before >= MaxRelays)
        <3>1. Served' = Counted /\ Counted' = Counted
            BY <2>1, <2>8 DEF Served, Counted, Sandbox!Serving, Sandbox!NoOne
        <3>2. active' = active
            BY <2>1, <2>8
        <3>3. active <= MaxRelays
            BY <2>8, SandboxAssumption DEF Hands
        <3>. QED
            BY <2>3, <2>4, <2>5, <3>1, <3>2, <3>3, CountMeans, CountedFinite
    <2>. QED BY <2>7, <2>8
<1>. QED BY <1>1, <1>2, <1>3

\* A connection that neither was nor becomes counted, or stays so, changes
\* nothing for the relay.
LEMMA BecomeKept ==
    ASSUME SandboxInv, NEW c \in Client, NEW r, Sandbox!Become(c, r),
           r \in [worker : Workers, forward : {"none", "copy"}],
           relay[c].worker = "accepted" <=> r.worker = "accepted",
           active' = active,
           Sandbox!Serving(c) <=> r.worker \in {"connect", "copy", "join", "leave"}
    PROVE  SandboxInv'
<1>. USE DEF SandboxInv, SandboxTypes, Sandbox!Become
<1>1. SandboxTypes'
    OBVIOUS
<1>2. Hands'
    BY DEF Hands
<1>3. Supervised'
    BY DEF Supervised
<1>4. Served' = Served /\ Counted' = Counted
    BY DEF Served, Counted, Sandbox!Serving
<1>. QED BY <1>1, <1>2, <1>3, <1>4, CountMeans

\* Workers, forward threads and sandboxed processes keep the invariant.
LEMMA WorkingInvariant ==
    ASSUME SandboxInv, NEW c \in Client,
           \/ Sandbox!Connect(c) \/ Sandbox!ForwardEnds(c)
           \/ Sandbox!BackwardEnds(c) \/ Sandbox!JoinForward(c)
           \/ Sandbox!Leave(c) \/ Sandbox!ClientConnects(c)
    PROVE  SandboxInv'
<1>0. /\ relay[c] \in [worker : Workers, forward : {"none", "copy"}]
      /\ \A w \in Workers : [relay[c] EXCEPT !.worker = w]
                 \in [worker : Workers, forward : {"none", "copy"}]
      /\ \A w \in Workers : [relay[c] EXCEPT !.worker = w].worker = w
    BY DEF SandboxInv, SandboxTypes
<1>1. CASE Sandbox!Connect(c)
    <2>1. CASE Sandbox!Become(c, [worker |-> "copy", forward |-> "copy"])
        BY <1>1, <2>1, BecomeKept DEF Sandbox!Connect, Workers, Sandbox!Serving
    <2>2. CASE Sandbox!Become(c, [relay[c] EXCEPT !.worker = "leave"])
        BY <1>0, <1>1, <2>2, BecomeKept
           DEF Sandbox!Connect, Workers, Sandbox!Serving
    <2>. QED BY <1>1, <2>1, <2>2 DEF Sandbox!Connect
<1>2. CASE Sandbox!ForwardEnds(c)
    <2>1. /\ [relay[c] EXCEPT !.forward = "none"].worker = relay[c].worker
          /\ [relay[c] EXCEPT !.forward = "none"]
                 \in [worker : Workers, forward : {"none", "copy"}]
        BY <1>0
    <2>. QED
        BY <1>2, <2>1, BecomeKept DEF Sandbox!ForwardEnds, Sandbox!Serving
<1>3. CASE Sandbox!BackwardEnds(c)
    BY <1>0, <1>3, BecomeKept DEF Sandbox!BackwardEnds, Workers,
       Sandbox!Serving
<1>4. CASE Sandbox!JoinForward(c)
    BY <1>0, <1>4, BecomeKept DEF Sandbox!JoinForward, Workers, Sandbox!Serving
<1>5. CASE Sandbox!Leave(c)
    <2>. USE <1>5 DEF Sandbox!Leave, SandboxInv, SandboxTypes, Sandbox!Become
    <2>1. SandboxTypes'
        BY DEF Workers
    <2>2. Hands'
        BY DEF Hands
    <2>3. Supervised'
        BY DEF Supervised
    <2>4. /\ c \in Served /\ c \in Counted
          /\ Served' = Served \ {c} /\ Counted' = Counted \ {c}
        BY DEF Served, Counted, Sandbox!Serving, Hands
    <2>5. /\ Cardinality(Counted') = Cardinality(Counted) - 1
          /\ Cardinality(Served') = Cardinality(Served) - 1
        BY <2>4, CountedFinite, FS_RemoveElement
    <2>. QED
        BY <2>1, <2>2, <2>3, <2>5, CountMeans, CountedFinite, SandboxAssumption
<1>6. CASE Sandbox!ClientConnects(c)
    BY <1>0, <1>6, BecomeKept
       DEF Sandbox!ClientConnects, Workers, Sandbox!Serving, Sandbox!NoClient
<1>. QED BY <1>1, <1>2, <1>3, <1>4, <1>5, <1>6

\* The steps in the sandbox keep the invariant.
LEMMA SandboxStep == SandboxInv /\ [Sandbox!Next]_sandbox => SandboxInv'
<1>. SUFFICES ASSUME SandboxInv, [Sandbox!Next]_sandbox PROVE SandboxInv'
    OBVIOUS
<1>1. CASE UNCHANGED sandbox
    <2>1. SandboxTypes' /\ Hands' /\ Supervised'
        BY <1>1 DEF sandbox, SandboxInv, SandboxTypes, Hands, Supervised
    <2>. QED BY <1>1, <2>1, RelayKept DEF sandbox, SandboxInv
<1>2. CASE Sandbox!Next
    BY <1>2, SupervisingInvariant, AcceptingInvariant, WorkingInvariant
       DEF Sandbox!Next, Sandbox!Supervise, Sandbox!AcceptThread
<1>. QED BY <1>1, <1>2

\* The invariant gives the property.
LEMMA SandboxProperties == SandboxInv => RelayExact
<1>. SUFFICES ASSUME SandboxInv PROVE RelayExact
    OBVIOUS
<1>1. Sandbox!TypeOK
    <2>1. active \in 0..Cardinality(Client)
        BY CountMeans, CountedFinite, FS_CardinalityType, SandboxAssumption
           DEF SandboxInv
    <2>. QED
        BY <2>1, SameCardinality DEF Sandbox!TypeOK, SandboxInv, SandboxTypes
<1>2. Sandbox!RunsConfined
    BY DEF Sandbox!RunsConfined, Sandbox!Executing, Sandbox!Restrictions,
           SandboxInv, SandboxTypes, Supervised
<1>. QED BY <1>1, <1>2 DEF RelayExact, Sandbox!RelayExact, SandboxInv

\* The relay's count is raised by the accept thread and lowered by any worker,
\* also after failed copies; it is exact, and at most MaxRelays connections
\* are relayed at once.  What executes beside the relay has all restrictions.
THEOREM RelayIsExact == SessionSpec => []RelayExact
<1>1. SessionInit => SandboxInv
    BY SandboxInit DEF SessionInit
<1>2. SandboxInv /\ [SessionNext]_everything => SandboxInv'
    <2>1. [SessionNext]_everything => [Sandbox!Next]_sandbox
        BY DEF SessionNext, everything
    <2>. QED BY <2>1, SandboxStep
<1>. QED BY <1>1, <1>2, SandboxProperties, PTL DEF SessionSpec

-----------------------------------------------------------------------------
(* The bridge to the terminal.                                             *)

Item == Terminal!Items \cup {Terminal!Nothing}
Looping == {"poll", "output", "wait"}

TerminalTypes ==
    /\ bridge \in [at : {"start", "enter", "over"} \cup Looping,
                   exit : 0..DrainTicks, open : BOOLEAN,
                   why : {"none", "done", "failure", "closed"}]
    /\ screen \in [raw : BOOLEAN, modes : SUBSET Mode, shown : Seq(Terminal!Items)]
    /\ filter \in [selection : BOOLEAN, requested : SUBSET Mode, partial : Item]
    /\ pty \in [output : Seq(Terminal!Items), unread : 0..MaxUnread,
                held : BOOLEAN]
    /\ guest \in {"none", "running", "exited", "killed", "hung up"}
    /\ typed \in [queue : Seq(Terminal!Keys), count : Nat]
    /\ printed \in Seq(Terminal!Items)
    /\ imports \in [stored : Nat, reported : Nat]
    /\ misfortunes \in Nat

\* The terminal is raw while the loop runs, and only then; the child is
\* guarded from its start to the end.
Guarded ==
    /\ screen.raw <=> bridge.at \in Looping
    /\ bridge.at \in {"start", "enter"} =>
           /\ screen.modes = {} /\ filter.requested = {}
    /\ bridge.at \in Looping \cup {"enter"} => guest \in {"running", "exited"}
    /\ bridge.at = "start" => guest = "none"
    /\ Len(typed.queue) <= typed.count
    /\ bridge.at # "over" => imports.stored = imports.reported

\* What the filter has not read are the last items printed, and the item it
\* holds back in part is none that is shown.
Read == Len(printed) - Len(pty.output)

Unread ==
    /\ Read \in Nat
    /\ \A i \in 1..Len(pty.output) : pty.output[i] = printed[Read + i]
    /\ filter.partial.kind # "text"

\* The items shown are the texts among those read.
Shown ==
    \E f \in [1..Len(screen.shown) -> 1..Len(printed)] :
        /\ Terminal!NumbersTexts(f, printed, Read)
        /\ \A i \in DOMAIN f : screen.shown[i] = printed[f[i]]

TerminalInv ==
    /\ TerminalTypes /\ Guarded /\ Unread /\ Shown
    /\ Terminal!MouseFollows /\ Terminal!TerminalRestored
    /\ Terminal!ReturnsExplained

\* Items switch some of the modes or none.
LEMMA ItemTypes ==
    /\ \A item \in Item :
          /\ item.modes \subseteq Mode
          /\ item.kind \in {"on", "off", "text", "withheld", "none"}
    /\ Terminal!Nothing.kind = "none"
BY DEF Item, Terminal!Items, Terminal!Switch, Terminal!Plain, Terminal!Nothing

\* Before the bridge starts nothing is shown.
LEMMA TerminalInit == Terminal!Init => TerminalInv
<1>. SUFFICES ASSUME Terminal!Init PROVE TerminalInv
    OBVIOUS
<1>. USE DEF Terminal!Init
<1>1. TerminalTypes
    BY TerminalAssumption DEF TerminalTypes, Item, Looping
<1>2. Guarded
    BY DEF Guarded, Looping
<1>3. Unread
    BY ItemTypes DEF Unread, Read
<1>4. Shown
    <2>1. printed = <<>> /\ screen.shown = <<>> /\ Read = 0
        BY DEF Read
    <2>. DEFINE f == [i \in 1..0 |-> 1]
    <2>2. f \in [1..Len(screen.shown) -> 1..Len(printed)]
        BY <2>1
    <2>3. Terminal!NumbersTexts(f, printed, Read)
        BY <2>1 DEF Terminal!NumbersTexts
    <2>4. \A i \in DOMAIN f : screen.shown[i] = printed[f[i]]
        OBVIOUS
    <2>. QED BY <2>2, <2>3, <2>4 DEF Shown
<1>5. Terminal!MouseFollows /\ Terminal!TerminalRestored
      /\ Terminal!ReturnsExplained
    BY DEF Terminal!MouseFollows, Terminal!TerminalRestored,
           Terminal!ReturnsExplained, Terminal!At
<1>. QED BY <1>1, <1>2, <1>3, <1>4, <1>5 DEF TerminalInv

\* What is shown stays explained as long as neither it, what was printed nor
\* what is unread changes.
LEMMA OutputKept ==
    ASSUME Unread, Shown, screen'.shown = screen.shown, printed' = printed,
           pty'.output = pty.output,
           filter'.partial \in {filter.partial, Terminal!Nothing}
    PROVE  Unread' /\ Shown'
<1>1. Read' = Read
    BY DEF Read
<1>2. Unread'
    BY <1>1, ItemTypes DEF Unread
<1>3. Shown'
    BY <1>1 DEF Shown, Terminal!NumbersTexts
<1>. QED BY <1>2, <1>3

\* A failing call is counted.
LEMMA MisfortuneCounted ==
    misfortunes \in Nat /\ Terminal!Misfortune
        => misfortunes' \in Nat /\ misfortunes' > 0
BY TerminalAssumption DEF Terminal!Misfortune

\* A key that is read was typed.
LEMMA KeyRead ==
    ASSUME TerminalTypes, Guarded, NEW k, Terminal!NextKey(k)
    PROVE  /\ typed' \in [queue : Seq(Terminal!Keys), count : Nat]
           /\ Len(typed'.queue) <= typed'.count /\ typed'.count > 0
           /\ bridge.at = "poll"
<1>. DEFINE K == Terminal!Keys
<1>. HIDE DEF K
<1>1. typed \in [queue : Seq(K), count : Nat] /\ typed.queue # <<>>
      /\ Len(typed.queue) <= typed.count
    BY DEF K, TerminalTypes, Guarded, Terminal!NextKey
<1>2. typed' = [typed EXCEPT !.queue = Tail(@)] /\ bridge.at = "poll"
    BY DEF Terminal!NextKey, Terminal!Polled, Terminal!At
<1>3. /\ Tail(typed.queue) \in Seq(K)
      /\ Len(Tail(typed.queue)) = Len(typed.queue) - 1
      /\ Len(typed.queue) \in Nat \ {0}
    BY <1>1, EmptySeq
<1>4. typed' \in [queue : Seq(K), count : Nat]
    BY <1>1, <1>2, <1>3
<1>5. Len(typed'.queue) <= typed'.count /\ typed'.count > 0
    BY <1>1, <1>2, <1>3
<1>. QED BY <1>2, <1>4, <1>5 DEF K

\* Images are counted.
LEMMA ImagesCounted ==
    ASSUME imports \in [stored : Nat, reported : Nat]
    PROVE  /\ [imports EXCEPT !.stored = @ + 1] \in [stored : Nat, reported : Nat]
           /\ [stored |-> imports.stored + 1, reported |-> imports.reported + 1]
                  \in [stored : Nat, reported : Nat]
OBVIOUS

\* Input for the tool goes where there is room.
LEMMA InputWritten ==
    ASSUME TerminalTypes, Terminal!WriteInput
    PROVE  /\ pty' \in [output : Seq(Terminal!Items), unread : 0..MaxUnread,
                        held : BOOLEAN]
           /\ pty'.output = pty.output
<1>. DEFINE I == Seq(Terminal!Items)
<1>. HIDE DEF I
<1>1. /\ pty \in [output : I, unread : 0..MaxUnread, held : BOOLEAN]
      /\ pty' = [pty EXCEPT !.unread = @ + 1] /\ pty.unread < MaxUnread
    BY DEF I, TerminalTypes, Terminal!WriteInput, Terminal!Room
<1>2. pty.unread + 1 \in 0..MaxUnread
    BY <1>1, TerminalAssumption
<1>. QED BY <1>1, <1>2 DEF I

\* A return restores the terminal and ends the child.
LEMMA LeaveInvariant ==
    ASSUME TerminalInv, NEW why \in {"done", "failure", "closed"},
           Terminal!Leave(why), bridge.at \in Looping,
           UNCHANGED <<filter, pty, printed>>,
           typed' \in [queue : Seq(Terminal!Keys), count : Nat],
           Len(typed'.queue) <= typed'.count,
           imports' \in [stored : Nat, reported : Nat], misfortunes' \in Nat,
           why = "done" => imports'.stored = imports'.reported,
           why = "failure" => misfortunes' > 0,
           why = "closed" => guest = "exited" /\ typed'.count > 0
    PROVE  TerminalInv'
<1>. USE DEF Terminal!Leave, TerminalInv, TerminalTypes, Looping
<1>1. TerminalTypes'
    OBVIOUS
<1>2. Guarded'
    BY DEF Guarded
<1>3. Unread' /\ Shown'
    BY OutputKept
<1>4. Terminal!MouseFollows' /\ Terminal!TerminalRestored'
    BY DEF Terminal!MouseFollows, Terminal!TerminalRestored, Terminal!At
<1>5. Terminal!ReturnsExplained'
    BY DEF Terminal!ReturnsExplained, Terminal!At
<1>. QED BY <1>1, <1>2, <1>3, <1>4, <1>5

\* A turn of the loop that shows nothing keeps the invariant when it keeps
\* the types and the mouse.
LEMMA LoopInvariant ==
    ASSUME TerminalInv, bridge.at \in Looping, bridge'.at \in Looping,
           TerminalTypes', Terminal!MouseFollows', screen'.raw = screen.raw,
           UNCHANGED <<guest, printed>>,
           screen'.shown = screen.shown, pty'.output = pty.output,
           filter'.partial = filter.partial,
           Len(typed'.queue) <= typed'.count, imports'.stored = imports'.reported
    PROVE  TerminalInv'
<1>. USE DEF TerminalInv, Looping
<1>1. Guarded'
    BY DEF Guarded
<1>2. Unread' /\ Shown'
    BY OutputKept
<1>3. Terminal!TerminalRestored' /\ Terminal!ReturnsExplained'
    BY DEF Terminal!TerminalRestored, Terminal!ReturnsExplained, Terminal!At
<1>. QED BY <1>1, <1>2, <1>3

\* The steps that move no output keep the invariant.
LEMMA BridgeInvariant ==
    ASSUME TerminalInv,
           \/ Terminal!Spawn \/ Terminal!Enter \/ Terminal!EnterFails
           \/ Terminal!Finish \/ Terminal!CallFails \/ Terminal!WriteFails
           \/ Terminal!Ordinary \/ Terminal!Paste \/ Terminal!Select
           \/ Terminal!InputDone \/ Terminal!ReadNothing \/ Terminal!Wait
    PROVE  TerminalInv'
<1>. USE DEF Terminal!Goto, Terminal!At, Looping, TerminalInv, TerminalTypes
<1>1. CASE Terminal!Spawn
    BY <1>1, OutputKept
       DEF Terminal!Spawn, Guarded, Terminal!MouseFollows,
           Terminal!TerminalRestored, Terminal!ReturnsExplained
<1>2. CASE Terminal!Enter
    BY <1>2, OutputKept
       DEF Terminal!Enter, Guarded, Terminal!MouseFollows,
           Terminal!TerminalRestored, Terminal!ReturnsExplained
<1>3. CASE Terminal!EnterFails
    <2>. USE <1>3, MisfortuneCounted DEF Terminal!EnterFails
    <2>1. TerminalTypes' /\ Unread' /\ Shown'
        BY OutputKept
    <2>2. Guarded' /\ Terminal!MouseFollows'
        BY DEF Guarded, Terminal!MouseFollows
    <2>3. Terminal!TerminalRestored' /\ Terminal!ReturnsExplained'
        BY DEF Guarded, Terminal!TerminalRestored, Terminal!ReturnsExplained
    <2>. QED BY <2>1, <2>2, <2>3
<1>4. CASE Terminal!Finish
    BY <1>4, LeaveInvariant DEF Terminal!Finish, Guarded
<1>5. CASE Terminal!CallFails
    BY <1>5, LeaveInvariant, MisfortuneCounted DEF Terminal!CallFails, Guarded
<1>6. CASE Terminal!WriteFails
    <2>1. PICK k : Terminal!NextKey(k)
        BY <1>6 DEF Terminal!WriteFails
    <2>2. imports' \in [stored : Nat, reported : Nat]
        BY <1>6, ImagesCounted DEF Terminal!WriteFails
    <2>3. guest = "exited"
        BY <1>6, <2>1, KeyRead
           DEF Terminal!WriteFails, Terminal!SlaveOpen, Guarded
    <2>. QED
        BY <1>6, <2>1, <2>2, <2>3, KeyRead, LeaveInvariant
           DEF Terminal!WriteFails
<1>7. CASE Terminal!Ordinary
    <2>1. TerminalTypes'
        BY <1>7, KeyRead, InputWritten, ZenonT(30) DEF Terminal!Ordinary
    <2>2. Terminal!MouseFollows'
        BY <1>7 DEF Terminal!Ordinary, Terminal!MouseFollows
    <2>. QED
        BY <1>7, <2>1, <2>2, KeyRead, InputWritten, LoopInvariant
           DEF Terminal!Ordinary, Guarded
<1>8. CASE Terminal!Paste
    <2>1. /\ pty' \in [output : Seq(Terminal!Items), unread : 0..MaxUnread,
                       held : BOOLEAN]
          /\ pty'.output = pty.output
        BY <1>8, InputWritten DEF Terminal!Paste
    <2>2. /\ imports' \in [stored : Nat, reported : Nat]
          /\ bridge.at = "poll" => imports'.stored = imports'.reported
        <3>1. CASE UNCHANGED imports
            BY <3>1 DEF Guarded
        <3>2. CASE imports' = [stored |-> imports.stored + 1,
                               reported |-> imports.reported + 1]
            BY <3>2, ImagesCounted DEF Guarded
        <3>. QED BY <1>8, <3>1, <3>2 DEF Terminal!Paste
    <2>3. TerminalTypes'
        BY <1>8, <2>1, <2>2, KeyRead DEF Terminal!Paste
    <2>4. Terminal!MouseFollows'
        BY <1>8 DEF Terminal!Paste, Terminal!MouseFollows
    <2>. QED
        BY <1>8, <2>1, <2>2, <2>3, <2>4, KeyRead, LoopInvariant
           DEF Terminal!Paste
<1>9. CASE Terminal!Select
    <2>1. TerminalTypes'
        BY <1>9, KeyRead, ZenonT(30) DEF Terminal!Select
    <2>2. Terminal!MouseFollows'
        BY <1>9 DEF Terminal!Select, Terminal!MouseFollows
    <2>. QED
        BY <1>9, <2>1, <2>2, KeyRead, LoopInvariant DEF Terminal!Select,
           Guarded
<1>10. CASE Terminal!InputDone
    BY <1>10, LoopInvariant
       DEF Terminal!InputDone, Terminal!Polled, Guarded, Terminal!MouseFollows
<1>11. CASE Terminal!ReadNothing
    BY <1>11, LoopInvariant
       DEF Terminal!ReadNothing, Guarded, Terminal!MouseFollows
<1>12. CASE Terminal!Wait
    <2>1. PICK e \in 0..DrainTicks, o \in BOOLEAN :
              bridge' = [bridge EXCEPT !.at = "poll", !.exit = e, !.open = o]
        <3>. DEFINE exit == IF bridge.exit > 0 THEN bridge.exit + 1
                            ELSE IF guest = "running" THEN 0 ELSE 1
                    e == IF exit > DrainTicks THEN DrainTicks ELSE exit
                    o == bridge.open /\ exit < DrainTicks
        <3>1. bridge' = [bridge EXCEPT !.at = "poll", !.exit = e, !.open = o]
            BY <1>12 DEF Terminal!Wait
        <3>2. e \in 0..DrainTicks
            <4>1. bridge.exit \in 0..DrainTicks OBVIOUS
            <4>. HIDE DEF TerminalInv
            <4>. QED BY <4>1, TerminalAssumption
        <3>3. o \in BOOLEAN OBVIOUS
        <3>. HIDE DEF e, o
        <3>. QED BY <3>1, <3>2, <3>3
    <2>. QED
        BY <1>12, <2>1, LoopInvariant
           DEF Terminal!Wait, Guarded, Terminal!MouseFollows
<1>. QED
    BY <1>1, <1>2, <1>3, <1>4, <1>5, <1>6, <1>7, <1>8, <1>9, <1>10, <1>11,
       <1>12

\* Reading an item, and showing it if it is a text, keeps what is shown
\* explained.
LEMMA ReadExplained ==
    ASSUME TerminalTypes, Unread, Shown, pty.output # <<>>,
           pty'.output = Tail(pty.output), printed' = printed,
           filter'.partial.kind # "text",
           screen'.shown = IF Head(pty.output).kind = "text"
                               THEN Append(screen.shown, Head(pty.output))
                               ELSE screen.shown
    PROVE  Unread' /\ Shown'
<1>. DEFINE I == Terminal!Items  n == Read  k == Len(screen.shown)
            item == Head(pty.output)
<1>. HIDE DEF I
<1>1. /\ pty.output \in Seq(I) /\ printed \in Seq(I) /\ screen.shown \in Seq(I)
      /\ Len(pty.output) \in Nat \ {0} /\ Len(printed) \in Nat /\ k \in Nat
    BY EmptySeq, LenProperties DEF I, TerminalTypes
<1>2. /\ Len(Tail(pty.output)) = Len(pty.output) - 1 /\ item = pty.output[1]
      /\ \A i \in 1..Len(Tail(pty.output)) :
             Tail(pty.output)[i] = pty.output[i + 1]
      /\ item \in I
    BY <1>1, HeadTailProperties
<1>3. /\ n \in Nat /\ n + 1 \in 1..Len(printed) /\ Read' = n + 1
      /\ item = printed[n + 1]
    <2>1. n \in Nat /\ n = Len(printed) - Len(pty.output)
        BY DEF Read, Unread
    <2>2. Read' = Len(printed) - Len(Tail(pty.output))
        BY DEF Read
    <2>3. pty.output[1] = printed[n + 1]
        BY <1>1 DEF Unread
    <2>4. Read' = n + 1 /\ n + 1 \in 1..Len(printed)
        <3>. DEFINE p == Len(printed)  u == Len(pty.output)
        <3>1. p \in Nat /\ u \in Nat \ {0} /\ n \in Nat
            BY <1>1, <2>1
        <3>2. n = p - u /\ Read' = p - (u - 1)
            BY <1>2, <2>1, <2>2
        <3>. HIDE DEF n, p, u
        <3>3. Read' = n + 1 /\ n + 1 \in 1..p
            BY <3>1, <3>2
        <3>. QED BY <3>3 DEF p
    <2>. QED BY <1>2, <2>1, <2>3, <2>4
<1>4. Unread'
    BY <1>1, <1>2, <1>3 DEF Unread
<1>5. PICK f \in [1..k -> 1..Len(printed)] :
          /\ Terminal!NumbersTexts(f, printed, n)
          /\ \A i \in DOMAIN f : screen.shown[i] = printed[f[i]]
    BY DEF Shown
<1>k. k = Len(screen.shown)
    OBVIOUS
<1>. HIDE DEF n, k
<1>n. 1..(n + 1) = 1..n \cup {n + 1} /\ 1..(k + 1) = 1..k \cup {k + 1}
    BY <1>1, <1>3
<1>6. CASE item.kind = "text"
    <2>. DEFINE g == [i \in 1..(k + 1) |-> IF i = k + 1 THEN n + 1 ELSE f[i]]
    <2>1. /\ screen'.shown = Append(screen.shown, item)
          /\ Len(screen'.shown) = k + 1 /\ screen'.shown[k + 1] = item
          /\ \A i \in 1..k : screen'.shown[i] = screen.shown[i]
        BY <1>1, <1>2, <1>6, <1>k, AppendProperties
    <2>2. g \in [1..Len(screen'.shown) -> 1..Len(printed)]
        BY <1>1, <1>3, <2>1
    <2>3. \A i, j \in DOMAIN g : i < j => g[i] < g[j]
        <3>1. \A i \in 1..k : f[i] \in 1..n
            BY <1>5 DEF Terminal!NumbersTexts
        <3>2. \A i, j \in 1..k : i < j => f[i] < f[j]
            BY <1>5 DEF Terminal!NumbersTexts
        <3>. QED BY <1>1, <1>3, <3>1, <3>2
    <2>4. {g[i] : i \in DOMAIN g} = {i \in 1..(n + 1) : printed[i].kind = "text"}
        <3>1. {g[i] : i \in DOMAIN g} = {f[i] : i \in DOMAIN f} \cup {n + 1}
            <4>1. DOMAIN g = 1..k \cup {k + 1} /\ DOMAIN f = 1..k
                BY <1>n
            <4>2. /\ \A i \in 1..k : g[i] = f[i]
                  /\ g[k + 1] = n + 1
                BY <1>1
            <4>. HIDE DEF g
            <4>. QED BY <4>1, <4>2
        <3>2. {f[i] : i \in DOMAIN f} = {i \in 1..n : printed[i].kind = "text"}
            BY <1>5 DEF Terminal!NumbersTexts
        <3>3. printed[n + 1].kind = "text"
            BY <1>3, <1>6
        <3>. QED BY <1>n, <3>1, <3>2, <3>3
    <2>5. \A i \in DOMAIN g : screen'.shown[i] = printed[g[i]]
        BY <1>1, <1>3, <1>5, <2>1
    <2>. HIDE DEF g
    <2>6. Terminal!NumbersTexts(g, printed, n + 1)
        BY <2>3, <2>4 DEF Terminal!NumbersTexts
    <2>7. Shown'
        BY <1>3, <2>2, <2>5, <2>6 DEF Shown, Terminal!NumbersTexts
    <2>. QED BY <1>4, <2>7
<1>7. CASE item.kind # "text"
    <2>1. {i \in 1..(n + 1) : printed[i].kind = "text"}
              = {i \in 1..n : printed[i].kind = "text"}
        BY <1>3, <1>7
    <2>2. Terminal!NumbersTexts(f, printed, n + 1)
        BY <1>5, <2>1 DEF Terminal!NumbersTexts
    <2>3. screen'.shown = screen.shown /\ printed' = printed
        BY <1>7
    <2>4. f \in [1..Len(screen'.shown) -> 1..Len(printed')]
        BY <1>k, <2>3
    <2>5. Shown'
        BY <1>3, <1>5, <2>2, <2>3, <2>4 DEF Shown, Terminal!NumbersTexts
    <2>. QED BY <1>4, <2>5
<1>. QED BY <1>6, <1>7

\* A whole item leaves the filter: the mouse follows it, and it is shown if it
\* is a text.
LEMMA Emitted ==
    ASSUME TerminalTypes, Terminal!MouseFollows, NEW item \in Terminal!Items,
           Terminal!Emit(item)
    PROVE  /\ filter' \in [selection : BOOLEAN, requested : SUBSET Mode,
                           partial : Item]
           /\ filter'.partial = Terminal!Nothing
           /\ screen' \in [raw : BOOLEAN, modes : SUBSET Mode,
                           shown : Seq(Terminal!Items)]
           /\ screen'.raw = screen.raw /\ Terminal!MouseFollows'
           /\ screen'.shown = IF item.kind = "text"
                                  THEN Append(screen.shown, item)
                                  ELSE screen.shown
<1>. DEFINE I == Terminal!Items
<1>. HIDE DEF I
<1>1. /\ item.modes \subseteq Mode /\ item \in I /\ Terminal!Nothing \in Item
      /\ screen \in [raw : BOOLEAN, modes : SUBSET Mode, shown : Seq(I)]
      /\ filter \in [selection : BOOLEAN, requested : SUBSET Mode, partial : Item]
    BY ItemTypes DEF Item, I, TerminalTypes
<1>2. Append(screen.shown, item) \in Seq(I)
    BY <1>1, AppendProperties
<1>3. Terminal!Requested(item) \in SUBSET Mode
    BY <1>1 DEF Terminal!Requested
<1>4. PICK m \in SUBSET Mode, h \in Seq(I) :
          /\ screen' = [screen EXCEPT !.modes = m, !.shown = h]
          /\ h = IF item.kind = "text" THEN Append(screen.shown, item)
                 ELSE screen.shown
          /\ m = IF filter.selection THEN screen.modes
                 ELSE CASE item.kind = "on"  -> screen.modes \cup item.modes
                        [] item.kind = "off" -> screen.modes \ item.modes
                        [] OTHER             -> screen.modes
    BY <1>1, <1>2 DEF Terminal!Emit, Terminal!Passes
<1>5. /\ filter' = [filter EXCEPT !.requested = Terminal!Requested(item),
                                  !.partial = Terminal!Nothing]
    BY DEF Terminal!Emit
<1>6. Terminal!MouseFollows'
    BY <1>1, <1>3, <1>4, <1>5 DEF Terminal!MouseFollows, Terminal!Requested
<1>. QED BY <1>1, <1>3, <1>4, <1>5, <1>6 DEF I

\* Reading the tool's terminal keeps the invariant.
LEMMA ReadInvariant == ASSUME TerminalInv, Terminal!ReadOutput PROVE TerminalInv'
<1>. USE DEF TerminalInv
<1>1. /\ bridge.at = "output" /\ bridge' = [bridge EXCEPT !.at = "wait"]
      /\ UNCHANGED <<guest, typed, printed, imports, misfortunes>>
    BY DEF Terminal!ReadOutput, Terminal!At, Terminal!Goto
<1>2. /\ screen'.raw = screen.raw
      /\ screen' \in [raw : BOOLEAN, modes : SUBSET Mode,
                      shown : Seq(Terminal!Items)]
      /\ filter' \in [selection : BOOLEAN, requested : SUBSET Mode, partial : Item]
      /\ pty' \in [output : Seq(Terminal!Items), unread : 0..MaxUnread,
                   held : BOOLEAN]
      /\ Unread' /\ Shown' /\ Terminal!MouseFollows'
    <2>. DEFINE I == Terminal!Items
    <2>. HIDE DEF I
    <2>1. CASE /\ filter.partial # Terminal!Nothing
               /\ Terminal!Emit(filter.partial) /\ UNCHANGED pty
        <3>1. filter.partial \in Terminal!Items
            BY <2>1 DEF TerminalTypes, Item
        <3>2. filter.partial.kind # "text"
            BY DEF Unread
        <3>3. screen'.shown = screen.shown /\ filter'.partial = Terminal!Nothing
            BY <2>1, <3>1, <3>2, Emitted
        <3>4. Unread' /\ Shown'
            BY <1>1, <2>1, <3>3, OutputKept
        <3>. QED BY <2>1, <3>1, <3>4, Emitted DEF TerminalTypes
    <2>2. CASE /\ filter.partial = Terminal!Nothing /\ pty.output # <<>>
               /\ pty' = [pty EXCEPT !.output = Tail(@)]
        <3>1. /\ pty \in [output : Seq(I), unread : 0..MaxUnread, held : BOOLEAN]
              /\ Head(pty.output) \in I /\ Tail(pty.output) \in Seq(I)
            BY <2>2, HeadTailProperties DEF TerminalTypes, I
        <3>2. /\ pty' \in [output : Seq(I), unread : 0..MaxUnread, held : BOOLEAN]
              /\ pty'.output = Tail(pty.output)
            BY <2>2, <3>1
        <3>3. CASE Terminal!Emit(Head(pty.output))
            <4>1. filter'.partial.kind # "text"
                BY <3>1, <3>3, Emitted, ItemTypes DEF I
            <4>2. Unread' /\ Shown'
                BY <1>1, <2>2, <3>1, <3>2, <3>3, <4>1, Emitted, ReadExplained
                   DEF I
            <4>. QED BY <3>1, <3>2, <3>3, <4>2, Emitted DEF I
        <3>4. CASE /\ Head(pty.output).kind # "text"
                   /\ filter' = [filter EXCEPT !.partial = Head(pty.output)]
                   /\ UNCHANGED screen
            <4>1. /\ filter \in [selection : BOOLEAN, requested : SUBSET Mode,
                                 partial : Item]
                  /\ Head(pty.output) \in Item
                BY <3>1 DEF TerminalTypes, Item, I
            <4>2. /\ filter' \in [selection : BOOLEAN, requested : SUBSET Mode,
                                  partial : Item]
                  /\ filter'.partial = Head(pty.output)
                  /\ Terminal!MouseFollows'
                BY <3>4, <4>1 DEF Terminal!MouseFollows
            <4>3. Unread' /\ Shown'
                BY <1>1, <2>2, <3>2, <3>4, <4>2, ReadExplained
            <4>. QED BY <3>2, <3>4, <4>2, <4>3 DEF TerminalTypes, I
        <3>. QED BY <2>1, <2>2, <3>3, <3>4 DEF Terminal!ReadOutput
    <2>. QED BY <2>1, <2>2 DEF Terminal!ReadOutput
<1>3. TerminalTypes'
    BY <1>1, <1>2 DEF TerminalTypes, Looping
<1>4. Guarded'
    BY <1>1, <1>2 DEF Guarded, TerminalTypes, Looping
<1>5. Terminal!TerminalRestored' /\ Terminal!ReturnsExplained'
    BY <1>1
       DEF Terminal!TerminalRestored, Terminal!ReturnsExplained, Terminal!At,
           TerminalTypes
<1>. QED BY <1>2, <1>3, <1>4, <1>5

\* An item that the tool prints is unread.
LEMMA PrintedExplained ==
    ASSUME TerminalTypes, Unread, Shown, NEW item \in Terminal!Items,
           printed' = Append(printed, item),
           pty'.output = Append(pty.output, item), UNCHANGED <<screen, filter>>
    PROVE  Unread' /\ Shown'
<1>. DEFINE I == Terminal!Items  n == Read
<1>. HIDE DEF I
<1>1. pty.output \in Seq(I) /\ printed \in Seq(I) /\ item \in I
    BY DEF I, TerminalTypes
<1>2. /\ Len(printed') = Len(printed) + 1 /\ Len(printed) \in Nat
      /\ \A i \in 1..Len(printed) : printed'[i] = printed[i]
      /\ printed'[Len(printed) + 1] = item
    BY <1>1, AppendProperties
<1>3. /\ Len(pty'.output) = Len(pty.output) + 1 /\ Len(pty.output) \in Nat
      /\ \A i \in 1..Len(pty.output) : pty'.output[i] = pty.output[i]
      /\ pty'.output[Len(pty.output) + 1] = item
    BY <1>1, AppendProperties
<1>4. n \in Nat /\ n = Len(printed) - Len(pty.output) /\ Read' = n
    <2>1. n \in Nat /\ n = Len(printed) - Len(pty.output)
        BY DEF Read, Unread
    <2>2. Read' = Len(printed') - Len(pty'.output)
        BY DEF Read
    <2>. QED BY <1>2, <1>3, <2>1, <2>2
<1>5. \A i \in 1..Len(pty.output) : pty.output[i] = printed[n + i]
    BY DEF Unread
<1>u. filter'.partial.kind # "text" /\ screen' = screen
    BY DEF Unread
<1>6. PICK f \in [1..Len(screen.shown) -> 1..Len(printed)] :
          /\ Terminal!NumbersTexts(f, printed, n)
          /\ \A i \in DOMAIN f : screen.shown[i] = printed[f[i]]
    BY DEF Shown
<1>. HIDE DEF n
<1>7. \A i \in 1..Len(pty'.output) : pty'.output[i] = printed'[n + i]
    <2>. SUFFICES ASSUME NEW i \in 1..Len(pty'.output)
                  PROVE  pty'.output[i] = printed'[n + i]
        OBVIOUS
    <2>1. CASE i \in 1..Len(pty.output)
        <3>1. n + i \in 1..Len(printed)
            BY <1>2, <1>3, <1>4, <2>1
        <3>. QED BY <1>2, <1>3, <1>5, <2>1, <3>1
    <2>2. CASE i = Len(pty.output) + 1
        <3>. DEFINE p == Len(printed)  u == Len(pty.output)
        <3>1. /\ p \in Nat /\ u \in Nat /\ n = p - u /\ i = u + 1
              /\ printed'[p + 1] = item /\ pty'.output[u + 1] = item
            BY <1>2, <1>3, <1>4, <2>2
        <3>. HIDE DEF p, u
        <3>2. n + i = p + 1
            BY <3>1
        <3>. QED BY <3>1, <3>2
    <2>. QED
        <3>. DEFINE u == Len(pty.output)
        <3>1. u \in Nat /\ i \in 1..(u + 1)
            BY <1>3
        <3>. HIDE DEF u
        <3>2. i \in 1..u \/ i = u + 1
            BY <3>1
        <3>. QED BY <2>1, <2>2, <3>2 DEF u
<1>8. Unread'
    BY <1>4, <1>7, <1>u DEF Unread
<1>9. /\ f \in [1..Len(screen'.shown) -> 1..Len(printed')]
      /\ \A i \in DOMAIN f : screen'.shown[i] = printed'[f[i]]
    BY <1>2, <1>6, <1>u
<1>10. \A i \in 1..n : printed'[i] = printed[i]
    BY <1>2, <1>3, <1>4
<1>11. Terminal!NumbersTexts(f, printed', n)
    BY <1>6, <1>10 DEF Terminal!NumbersTexts
<1>12. Shown'
    BY <1>4, <1>9, <1>11 DEF Shown, Terminal!NumbersTexts
<1>. QED BY <1>8, <1>12

\* The tool and the user keep the invariant.
LEMMA WorldInvariant == ASSUME TerminalInv, Terminal!World PROVE TerminalInv'
<1>. USE DEF TerminalInv
<1>. DEFINE I == Terminal!Items  K == Terminal!Keys
            Outside == /\ pty' \in [output : Seq(I), unread : 0..MaxUnread,
                                    held : BOOLEAN]
                       /\ typed' \in [queue : Seq(K), count : Nat]
                       /\ printed' \in Seq(I)
                       /\ Len(typed'.queue) <= typed'.count
                       /\ \/ guest' = guest
                          \/ guest = "running" /\ guest' = "exited"
                       /\ UNCHANGED typed \/ bridge.at # "over"
                       /\ Unread' /\ Shown'
<1>. HIDE DEF I, K
<1>1. /\ pty \in [output : Seq(I), unread : 0..MaxUnread, held : BOOLEAN]
      /\ typed \in [queue : Seq(K), count : Nat] /\ printed \in Seq(I)
      /\ Len(typed.queue) <= typed.count
    BY DEF TerminalTypes, Guarded, I, K
<1>2. UNCHANGED <<bridge, screen, filter, imports, misfortunes>>
    BY DEF Terminal!World
<1>3. ASSUME NEW item \in Terminal!Items, printed' = Append(printed, item),
             pty' = [pty EXCEPT !.output = Append(@, item)],
             UNCHANGED <<guest, typed>>
      PROVE  Outside
    <2>1. item \in I /\ pty.output \in Seq(I)
        BY <1>1, <1>3 DEF I
    <2>2. Append(printed, item) \in Seq(I) /\ Append(pty.output, item) \in Seq(I)
        BY <1>1, <2>1, AppendProperties
    <2>3. pty'.output = Append(pty.output, item)
        BY <1>1, <1>3
    <2>4. Unread' /\ Shown'
        BY <1>2, <1>3, <2>3, PrintedExplained
    <2>. QED BY <1>1, <1>3, <2>2, <2>4
<1>4. ASSUME pty.unread > 0, pty' = [pty EXCEPT !.unread = @ - 1],
             UNCHANGED <<guest, typed, printed>>
      PROVE  Outside
    <2>1. pty' \in [output : Seq(I), unread : 0..MaxUnread, held : BOOLEAN]
          /\ pty'.output = pty.output
        BY <1>1, <1>4, TerminalAssumption
    <2>2. Unread' /\ Shown'
        BY <1>2, <1>4, <2>1, OutputKept
    <2>. QED BY <1>1, <1>4, <2>1, <2>2
<1>5. ASSUME NEW held \in BOOLEAN, pty' = [pty EXCEPT !.held = held],
             guest = "running", guest' = "exited", UNCHANGED <<typed, printed>>
      PROVE  Outside
    <2>1. pty' \in [output : Seq(I), unread : 0..MaxUnread, held : BOOLEAN]
          /\ pty'.output = pty.output
        BY <1>1, <1>5
    <2>2. Unread' /\ Shown'
        BY <1>2, <1>5, <2>1, OutputKept
    <2>. QED BY <1>1, <1>5, <2>1, <2>2
<1>6. ASSUME NEW k \in Terminal!Keys, bridge.at # "over",
             typed' = [queue |-> Append(typed.queue, k),
                       count |-> typed.count + 1],
             UNCHANGED <<pty, guest, printed>>
      PROVE  Outside
    <2>1. k \in K /\ typed.queue \in Seq(K)
        BY <1>1, <1>6 DEF K
    <2>2. /\ Append(typed.queue, k) \in Seq(K)
          /\ Len(Append(typed.queue, k)) = Len(typed.queue) + 1
          /\ Len(typed.queue) \in Nat
        BY <2>1, AppendProperties
    <2>3. Unread' /\ Shown'
        BY <1>2, <1>6, OutputKept
    <2>. QED BY <1>1, <1>6, <2>2, <2>3
<1>7. Outside
    BY <1>3, <1>4, <1>5, <1>6 DEF Terminal!World, Terminal!Environment
<1>8. TerminalTypes'
    BY <1>2, <1>7 DEF TerminalTypes, I, K
<1>9. Guarded'
    BY <1>2, <1>7 DEF Guarded, Looping
<1>10. Terminal!MouseFollows'
    BY <1>2 DEF Terminal!MouseFollows
<1>11. Terminal!TerminalRestored' /\ Terminal!ReturnsExplained'
    BY <1>2, <1>7
       DEF Terminal!TerminalRestored, Terminal!ReturnsExplained, Terminal!At
<1>. QED BY <1>7, <1>8, <1>9, <1>10, <1>11

\* The steps of the bridge, the tool and the user keep the invariant.
LEMMA TerminalStep == TerminalInv /\ [Terminal!Next]_terminal => TerminalInv'
<1>. SUFFICES ASSUME TerminalInv, [Terminal!Next]_terminal PROVE TerminalInv'
    OBVIOUS
<1>1. CASE UNCHANGED terminal
    <2>. USE <1>1 DEF terminal, TerminalInv
    <2>1. TerminalTypes'
        BY DEF TerminalTypes
    <2>2. Guarded'
        BY DEF Guarded
    <2>3. Unread' /\ Shown'
        BY OutputKept
    <2>4. /\ Terminal!MouseFollows' /\ Terminal!TerminalRestored'
          /\ Terminal!ReturnsExplained'
        BY DEF Terminal!MouseFollows, Terminal!TerminalRestored,
               Terminal!ReturnsExplained, Terminal!At
    <2>. QED BY <2>1, <2>2, <2>3, <2>4
<1>2. CASE Terminal!Next
    BY <1>2, BridgeInvariant, ReadInvariant, WorldInvariant
       DEF Terminal!Next, Terminal!Loop
<1>. QED BY <1>1, <1>2

\* The invariant gives the property.
LEMMA TerminalProperties == TerminalInv => TerminalFaithful
<1>. SUFFICES ASSUME TerminalInv PROVE TerminalFaithful
    OBVIOUS
<1>1. Terminal!TypeOK
    BY DEF TerminalInv, TerminalTypes, Terminal!TypeOK
<1>2. Terminal!OutputFiltered
    <2>1. Read \in 0..Len(printed)
        <3>1. /\ Len(printed) \in Nat /\ Len(pty.output) \in Nat
              /\ Read = Len(printed) - Len(pty.output) /\ Read \in Nat
            BY LenProperties DEF TerminalInv, TerminalTypes, Unread, Read
        <3>. QED BY <3>1
    <2>. QED BY <2>1 DEF TerminalInv, Shown, Terminal!OutputFiltered
<1>. QED
    BY <1>1, <1>2 DEF TerminalInv, TerminalFaithful, Terminal!TerminalFaithful

\* However output, partial reads, keys and toggles interleave, the host's
\* terminal reports the mouse as the tool last asked and shows the texts the
\* tool printed, in order; however the bridge returns, the terminal is as it
\* was, the child does not run, and the return has its reason.
THEOREM TerminalIsFaithful == SessionSpec => []TerminalFaithful
<1>1. SessionInit => TerminalInv
    BY TerminalInit DEF SessionInit
<1>2. TerminalInv /\ [SessionNext]_everything => TerminalInv'
    <2>1. [SessionNext]_everything => [Terminal!Next]_terminal
        BY DEF SessionNext, everything
    <2>. QED BY <2>1, TerminalStep
<1>. QED BY <1>1, <1>2, TerminalProperties, PTL DEF SessionSpec

=============================================================================
