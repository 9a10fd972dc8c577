---------------------------- MODULE RunSession ----------------------------
(***************************************************************************)
(* One `guard run`: run_command_with of crates/sandbox-guard-cli/src/      *)
(* main.rs with the backend it calls (LinuxBwrapRunner::run of linux.rs,   *)
(* MacosLimaRunner::run of macos.rs), the publication of session state,    *)
(* the audit, and the review of the tool's changes.  Any step may fail and *)
(* the process may be killed anywhere.                                     *)
(*                                                                         *)
(* Texts, paths and command lines are left out.  "runtime" is the private  *)
(* runtime directory on Linux and the guest's root directory on macOS.     *)
(***************************************************************************)
EXTENDS Integers

CONSTANTS
    BaselineFiles,  \* files that were staged
    MaxTroubles     \* bound on failing steps

VARIABLES
    place,      \* the step the command is at
    asked,      \* its arguments
    workspace,  \* the stage's workspace: what is in it
    inbox,      \* the reserved inbox directory exists in it
    runtime,    \* "none", "made" or "gone"
    egress,     \* the proxy: "none", "starting", "ready" or "gone"
    scoped,     \* the tool runs in a cgroup scope
    shared,     \* the guest shares directories of the host
    tool,       \* "none", "running", "ended" or "failed"
    state,      \* session state: "none", "private", "published" or "refused"
    audit,      \* the record: written, success, limits enforced
    bundle,     \* exported changes: "none", "pending", "applied" or "gone"
    changes,    \* what the tool changed
    reviewed,   \* the diff was shown
    confirmed,  \* deletions were confirmed
    outcome,    \* how the command ended
    troubles

vars == <<place, asked, workspace, inbox, runtime, egress, scoped, shared, tool,
          state, audit, bundle, changes, reviewed, confirmed, outcome, troubles>>
backend  == <<workspace, inbox, runtime, egress, scoped, shared, tool>>
handover == <<bundle, changes, reviewed, confirmed>>

Networks == {"denied", "controlled", "unrestricted"}
Cgroups  == {"disabled", "best effort", "required"}

\* --export-changes, and --review-changes with and without a terminal.
Handoffs == {"none", "export", "review", "unattended"}

Arguments ==
    [backend : {"linux", "macos"}, network : Networks, dry : BOOLEAN,
     handoff : Handoffs, keep : BOOLEAN, cgroup : Cgroups]

NoArguments ==
    [backend |-> "linux", network |-> "denied", dry |-> FALSE,
     handoff |-> "none", keep |-> FALSE, cgroup |-> "disabled"]

NoAudit == [written |-> "no", success |-> FALSE, scoped |-> FALSE]
NoChanges == [any |-> FALSE, deleted |-> 0, rejected |-> FALSE]

Init ==
    /\ place = "start" /\ asked = NoArguments
    /\ workspace = "none" /\ inbox = FALSE /\ runtime = "none"
    /\ egress = "none" /\ scoped = FALSE /\ shared = FALSE /\ tool = "none"
    /\ state = "none" /\ audit = NoAudit
    /\ bundle = "none" /\ changes = NoChanges
    /\ reviewed = FALSE /\ confirmed = FALSE
    /\ outcome = "none" /\ troubles = 0

Goto(p) == place' = p
Trouble == troubles < MaxTroubles /\ troubles' = troubles + 1

-----------------------------------------------------------------------------
(* Before the backend.                                                     *)

\* The flags that run_command_with refuses at once; "consents" are the
\* further flags allow_unrestricted_network and ask_egress.
Refused(a, consents) ==
    \/ a.network = "unrestricted" /\ "unrestricted" \notin consents
    \/ "ask" \in consents /\ a.network # "controlled"
    \/ a.dry /\ a.handoff # "none"

\* The arguments are read and checked; a private copy of the session state
\* may come with them.
Begin(a, consents) ==
    /\ place = "start"
    /\ asked' = a
    /\ state' \in {"none", "private"}
    /\ IF Refused(a, consents)
           THEN Goto("over") /\ outcome' = "refused"
           ELSE Goto("stage") /\ UNCHANGED outcome
    /\ UNCHANGED <<backend, audit, handover, troubles>>

\* Stage::build.
BuildStage ==
    /\ place = "stage"
    /\ workspace' = "staged"
    /\ Goto("request")
    /\ UNCHANGED <<asked, inbox, runtime, egress, scoped, shared, tool, state,
                   audit, handover, outcome, troubles>>

\* The request for the backend: environment, limits, terminal.  A dry run
\* only renders it.
MakeRequest ==
    /\ place = "request"
    /\ Goto(IF asked.dry THEN "audit" ELSE "host")
    /\ UNCHANGED <<asked, backend, state, audit, handover, outcome, troubles>>

\* An error before the backend drops the stage; nothing is recorded.
FailEarly ==
    /\ place \in {"stage", "request"} /\ Trouble
    /\ workspace' = "none"
    /\ outcome' = "error" /\ Goto("over")
    /\ UNCHANGED <<asked, inbox, runtime, egress, scoped, shared, tool, state,
                   audit, handover>>

-----------------------------------------------------------------------------
(* The backends.                                                           *)

rest == <<asked, state, audit, handover, outcome>>

\* LinuxBwrapRunner::run: the fixed bwrap and the helper exist.
CheckHost ==
    /\ place = "host" /\ asked.backend = "linux" /\ Goto("inbox")
    /\ UNCHANGED <<rest, backend, troubles>>

\* MacosLimaRunner::run: the instance is started without mounts; one that is
\* already running keeps those it has.
StartInstance ==
    /\ place = "host" /\ asked.backend = "macos" /\ Goto("mounts")
    /\ shared' \in BOOLEAN
    /\ UNCHANGED <<rest, workspace, inbox, runtime, egress, scoped, tool,
                   troubles>>

\* The backend's error reaches run_command_with.
Broken == tool' = "failed" /\ Goto("audit")

\* Mutant: the guest's mounts are not looked at.
VerifyMountsNot ==
    /\ place = "mounts" /\ Goto("helper")
    /\ UNCHANGED <<rest, backend, troubles>>

\* verify_no_host_mounts.
VerifyMounts ==
    /\ place = "mounts"
    /\ IF shared THEN Broken ELSE Goto("helper") /\ UNCHANGED tool
    /\ UNCHANGED <<rest, workspace, inbox, runtime, egress, scoped, shared,
                   troubles>>

\* verify_guest_helper.
VerifyHelper ==
    /\ place = "helper" /\ Goto("inbox")
    /\ UNCHANGED <<rest, backend, troubles>>

\* prepare_workspace_inbox.
MakeInbox ==
    /\ place = "inbox" /\ inbox' = TRUE
    /\ Goto(IF asked.backend = "linux" THEN "runtime" ELSE "root")
    /\ UNCHANGED <<rest, workspace, runtime, egress, scoped, shared, tool,
                   troubles>>

AfterRuntime == IF asked.network = "controlled" THEN "proxy" ELSE "scope"

\* RuntimeDirectory::new and write_environment_file.
MakeRuntime ==
    /\ place = "runtime" /\ runtime' = "made" /\ Goto(AfterRuntime)
    /\ UNCHANGED <<rest, workspace, inbox, egress, scoped, shared, tool,
                   troubles>>

\* prepare_guest_root.
PrepareGuestRoot ==
    /\ place = "root" /\ runtime' = "made" /\ Goto("copy")
    /\ UNCHANGED <<rest, workspace, inbox, egress, scoped, shared, tool,
                   troubles>>

\* copy_workspace_and_environment: workspace, session state, environment and
\* the check of its mode.
CopyIntoGuest ==
    /\ place = "copy" /\ Goto(AfterRuntime)
    /\ UNCHANGED <<rest, backend, troubles>>

\* ProxyProcess::start: the child and its approval pipe.
SpawnProxy ==
    /\ place = "proxy" /\ asked.backend = "linux"
    /\ egress' = "starting" /\ Goto("ready")
    /\ UNCHANGED <<rest, workspace, inbox, runtime, scoped, shared, tool,
                   troubles>>

\* start_guest_proxy.
SpawnGuestProxy ==
    /\ place = "proxy" /\ asked.backend = "macos"
    /\ egress' = "starting" /\ Goto("ready")
    /\ UNCHANGED <<rest, workspace, inbox, runtime, scoped, shared, tool,
                   troubles>>

\* The poll sees the socket and the audit log, both private.
ProxyReady ==
    /\ place = "ready" /\ asked.backend = "linux"
    /\ egress' = "ready" /\ Goto("scope")
    /\ UNCHANGED <<rest, workspace, inbox, runtime, scoped, shared, tool,
                   troubles>>

\* The same through commands in the guest.
GuestProxyReady ==
    /\ place = "ready" /\ asked.backend = "macos"
    /\ egress' = "ready" /\ Goto("scope")
    /\ UNCHANGED <<rest, workspace, inbox, runtime, scoped, shared, tool,
                   troubles>>

\* ProxyProcess::stop, GuestProxyProcess::stop: killed and reaped.
StopProxy == egress' = IF egress = "none" THEN "none" ELSE "gone"

\* cleanup_guest after an error: its own error is ignored.
CleanupGuest == runtime' \in {"gone", "made"}

\* What an error leaves behind: the proxy and the runtime directory go with
\* their owners; a guest root that could not be prepared is left as it is.
Unwind ==
    /\ StopProxy
    /\ IF place = "root" THEN runtime' \in {"none", "made"}
       ELSE IF runtime # "made" THEN UNCHANGED runtime
       ELSE IF asked.backend = "macos" THEN CleanupGuest
       ELSE runtime' = "gone"

\* The limits can be enforced, or need not be, or the run ends.
Scope(available) ==
    IF asked.cgroup = "required" /\ ~available
        THEN Unwind /\ Broken /\ UNCHANGED scoped
        ELSE /\ scoped' = (asked.cgroup # "disabled" /\ available)
             /\ Goto("launch") /\ UNCHANGED <<runtime, egress, tool>>

\* resolve_cgroup_mode: the probe, whose failure to run counts as no.
ResolveCgroup ==
    /\ place = "scope" /\ asked.backend = "linux"
    /\ \E available \in BOOLEAN : Scope(available)
    /\ UNCHANGED <<rest, workspace, inbox, shared, troubles>>

\* resolve_guest_cgroup: the probe in the guest.
ResolveGuestCgroup ==
    /\ place = "scope" /\ asked.backend = "macos"
    /\ \E available \in BOOLEAN : Scope(available)
    /\ UNCHANGED <<rest, workspace, inbox, shared, troubles>>

\* The command line is built and the tool is started behind it.
Launch ==
    /\ place = "launch" /\ tool' = "running" /\ Goto("tool")
    /\ UNCHANGED <<rest, workspace, inbox, runtime, egress, scoped, shared,
                   troubles>>

\* The tool works on the workspace, or on the guest's copy of it, and ends.
ToolEnds ==
    /\ place = "tool"
    /\ tool' \in {"ended", "ended badly"}
    /\ IF asked.backend = "linux"
           THEN workspace' = "changed" /\ Goto("stop")
           ELSE UNCHANGED workspace /\ Goto("retrieve")
    /\ UNCHANGED <<rest, inbox, runtime, egress, scoped, shared, troubles>>

\* create_retrieval_canary and retrieve_guest_directory: the workspace is
\* renamed away and the copy of the guest's takes its place.  The copy may
\* have followed links.
Retrieve ==
    /\ place = "retrieve"
    /\ workspace' \in {"returned", "links followed"}
    /\ Goto("canary")
    /\ UNCHANGED <<rest, inbox, runtime, egress, scoped, shared, tool, troubles>>

\* retrieve_guest_directory fails: before the swap, while the second rename
\* and its undoing fail, or when the old workspace cannot be deleted.  The
\* guest is cleaned up all the same.
FailRetrieval ==
    /\ place = "retrieve" /\ Trouble
    /\ workspace' \in {"staged", "none", "returned", "links followed"}
    /\ Goto("lost")
    /\ UNCHANGED <<rest, inbox, runtime, egress, scoped, shared, tool>>

AfterCanary == IF state = "none" THEN "stop" ELSE "session"

\* Mutant: the canary is removed without a look.
VerifyCanaryBlind ==
    /\ place = "canary" /\ Goto(AfterCanary)
    /\ UNCHANGED <<rest, backend, troubles>>

\* verify_retrieval_canary: the link is still a link, and is removed.
VerifyCanary ==
    /\ place = "canary"
    /\ IF workspace = "returned"
           THEN workspace' = "changed" /\ Goto(AfterCanary)
           ELSE UNCHANGED workspace /\ Goto("lost")
    /\ UNCHANGED <<rest, inbox, runtime, egress, scoped, shared, tool, troubles>>

\* The session state is retrieved the same way, with a canary of its own.
RetrieveState ==
    /\ place = "session"
    /\ place' \in {"stop", "lost"}
    /\ UNCHANGED <<rest, backend, troubles>>

\* Mutant: the proxy is waited for, not killed.
StopWaits ==
    /\ place = "stop" /\ asked.backend = "linux"
    /\ egress \in {"none", "gone"}
    /\ runtime' = "gone" /\ Goto("tidy")
    /\ UNCHANGED <<rest, workspace, inbox, egress, scoped, shared, tool,
                   troubles>>

\* Mutant: the proxy is left alone.
StopNot ==
    /\ place = "stop" /\ asked.backend = "linux"
    /\ runtime' = "gone" /\ Goto("tidy")
    /\ UNCHANGED <<rest, workspace, inbox, egress, scoped, shared, tool,
                   troubles>>

\* The proxy is stopped, its log read, and the runtime directory goes with
\* the end of run.
Stop ==
    /\ place = "stop" /\ asked.backend = "linux"
    /\ StopProxy /\ runtime' = "gone" /\ Goto("tidy")
    /\ UNCHANGED <<rest, workspace, inbox, scoped, shared, tool, troubles>>

\* read_guest_egress_audit, stop_proxy and cleanup_guest.
StopGuest ==
    /\ place = "stop" /\ asked.backend = "macos"
    /\ StopProxy /\ runtime' = "gone" /\ Goto("tidy")
    /\ UNCHANGED <<rest, workspace, inbox, scoped, shared, tool, troubles>>

\* The same after a failed retrieval, whose error is returned in the end.
StopLost ==
    /\ place = "lost"
    /\ Unwind /\ Broken
    /\ UNCHANGED <<rest, workspace, inbox, scoped, shared, troubles>>

\* cleanup_workspace_inbox.
CleanInbox ==
    /\ place = "tidy" /\ inbox' = FALSE /\ Goto("publish")
    /\ UNCHANGED <<rest, workspace, runtime, egress, scoped, shared, tool,
                   troubles>>

\* A step of the backend fails, the tool's start and its terminal included.
FailBackend ==
    /\ place \in {"host", "mounts", "helper", "inbox", "runtime", "root", "copy",
                  "proxy", "ready", "scope", "launch", "tool", "stop", "tidy"}
    /\ Trouble /\ Unwind /\ Broken
    /\ UNCHANGED <<rest, workspace, inbox, scoped, shared>>

-----------------------------------------------------------------------------
(* After the backend.                                                      *)

\* PersistentRunState::publish; its error is kept for later.
Publish ==
    /\ place = "publish" /\ Goto("audit")
    /\ \/ state' = (IF state = "private" THEN "published" ELSE state)
          /\ UNCHANGED troubles
       \/ state = "private" /\ Trouble /\ state' = "refused"
    /\ UNCHANGED <<asked, backend, audit, handover, outcome>>

\* Mutant: a failed publication counts as success.
SucceededAlways == tool = "ended"

\* The success that is recorded.
Succeeded == tool = "ended" /\ state # "refused"

\* Where the command goes once the audit is written.
AfterAudit ==
    IF asked.dry THEN "keep"
    ELSE IF tool = "failed" \/ state = "refused" THEN "fail"
    ELSE "handoff"

\* Mutant: the changes are handed over first.
PersistAuditLate ==
    /\ place = "audit" /\ Goto(AfterAudit)
    /\ UNCHANGED <<asked, backend, state, audit, handover, outcome, troubles>>

\* persist_run_audit: the record is written and the events follow; when it
\* cannot be written the command ends.
PersistAudit ==
    /\ place = "audit"
    /\ \/ /\ audit' = [written |-> "yes", success |-> Succeeded,
                       scoped |-> scoped /\ tool # "failed"]
          /\ Goto(AfterAudit) /\ UNCHANGED troubles
       \/ /\ Trouble /\ Goto("fail")
          /\ audit' = [NoAudit EXCEPT !.written = "failed"]
    /\ UNCHANGED <<asked, backend, state, handover, outcome>>

\* assess_change_risk: whether there are changes, deletions, rejections.
Risks ==
    {c \in [any : BOOLEAN, deleted : 0..BaselineFiles, rejected : BOOLEAN] :
        c.deleted > 0 \/ c.rejected => c.any}

\* export_changes to the destination, or to the pending changes.
Export ==
    /\ place = "handoff"
    /\ IF asked.handoff = "none"
           THEN Goto("keep") /\ UNCHANGED <<bundle, changes>>
           ELSE /\ bundle' = "pending"
                /\ changes' \in Risks
                /\ Goto(IF asked.handoff = "export" THEN "keep" ELSE "review")
    /\ UNCHANGED <<asked, backend, state, audit, reviewed, confirmed, outcome,
                   troubles>>

\* is_mass_deletion.
MassDeletion(deleted, files) ==
    /\ deleted > 0 /\ files > 0
    /\ \/ deleted = files
       \/ deleted >= 50
       \/ deleted >= 5 /\ deleted * 100 >= files * 25

\* No changes: the empty bundle is removed.  Without a terminal it is kept.
ReviewNothing ==
    /\ place = "review" /\ (~changes.any \/ asked.handoff = "unattended")
    /\ bundle' = (IF changes.any THEN bundle ELSE "gone") /\ Goto("keep")
    /\ UNCHANGED <<asked, backend, state, audit, changes, reviewed, confirmed,
                   outcome, troubles>>

AtPrompt == place = "review" /\ changes.any /\ asked.handoff = "review"

\* r: the diff is rendered, or cannot be.
AnswerReview ==
    /\ AtPrompt
    /\ reviewed' \in {reviewed, TRUE}
    /\ UNCHANGED <<place, asked, backend, state, audit, bundle, changes,
                   confirmed, outcome, troubles>>

\* Mutant: the review before a mass deletion is optional.
MayApplyUnseen == ~changes.rejected

\* Apply is offered: nothing was rejected, and a mass deletion was reviewed.
MayApply ==
    /\ ~changes.rejected
    /\ MassDeletion(changes.deleted, BaselineFiles) => reviewed

\* confirm_deletions: the typed phrase; any other leads back to the prompt.
ConfirmDeletions == confirmed' = (changes.deleted > 0)

\* a: deletions need their phrase; then apply_exported_changes runs, and the
\* bundle is removed.
AnswerApply ==
    /\ AtPrompt /\ MayApply
    /\ ConfirmDeletions
    /\ bundle' = "applied" /\ Goto("keep")
    /\ UNCHANGED <<asked, backend, state, audit, changes, reviewed, outcome,
                   troubles>>

\* The applied bundle cannot be removed.
FailDiscard ==
    /\ AtPrompt /\ MayApply /\ Trouble
    /\ ConfirmDeletions
    /\ bundle' = "applied" /\ Goto("fail")
    /\ UNCHANGED <<asked, backend, state, audit, changes, reviewed, outcome>>

\* k, or the end of input: kept.  d: discarded.
AnswerKeep ==
    /\ AtPrompt /\ bundle' \in {"pending", "gone"} /\ Goto("keep")
    /\ UNCHANGED <<asked, backend, state, audit, changes, reviewed, confirmed,
                   outcome, troubles>>

\* Export, review or Stage::keep fails; what was exported stays pending.
FailHandoff ==
    /\ \/ place \in {"handoff", "review"} /\ asked.handoff # "none"
       \/ place = "keep" /\ asked.keep
    /\ Trouble
    /\ Goto("fail")
    /\ UNCHANGED <<asked, backend, state, audit, handover, outcome>>

\* The stage is kept on request and dropped otherwise.
Finish ==
    /\ place = "keep"
    /\ workspace' = (IF asked.keep THEN workspace ELSE "none")
    /\ outcome' = "done" /\ Goto("over")
    /\ UNCHANGED <<asked, inbox, runtime, egress, scoped, shared, tool,
                   state, audit, handover, troubles>>

\* An error returns: the stage is dropped.
Fail ==
    /\ place = "fail"
    /\ workspace' = "none" /\ outcome' = "error" /\ Goto("over")
    /\ UNCHANGED <<asked, inbox, runtime, egress, scoped, shared, tool,
                   state, audit, handover, troubles>>

\* The process is killed.  bwrap dies with its parent; the proxy does not.
Kill ==
    /\ place \notin {"start", "over"} /\ Trouble
    /\ tool' = (IF tool = "running" THEN "failed" ELSE tool)
    /\ outcome' = "killed" /\ Goto("over")
    /\ UNCHANGED <<asked, workspace, inbox, runtime, egress, scoped, shared,
                   state, audit, handover>>

Step ==
    \/ BuildStage \/ MakeRequest \/ CheckHost \/ StartInstance \/ VerifyMounts
    \/ VerifyHelper \/ MakeInbox \/ MakeRuntime \/ PrepareGuestRoot
    \/ CopyIntoGuest \/ SpawnProxy \/ SpawnGuestProxy \/ ProxyReady
    \/ GuestProxyReady
    \/ ResolveCgroup \/ ResolveGuestCgroup \/ Launch
    \/ Retrieve \/ VerifyCanary \/ RetrieveState
    \/ Stop \/ StopGuest \/ StopLost \/ CleanInbox \/ Publish
    \/ PersistAudit \/ Export \/ ReviewNothing \/ Finish \/ Fail

Next ==
    \/ \E a \in Arguments, consents \in SUBSET {"unrestricted", "ask"} :
          Begin(a, consents)
    \/ Step \/ ToolEnds \/ FailEarly \/ FailRetrieval \/ FailBackend
    \/ AnswerReview \/ AnswerApply \/ AnswerKeep \/ FailDiscard \/ FailHandoff
    \/ Kill

Spec == Init /\ [][Next]_vars

\* Guard's own steps are taken; the tool and the user need not end.
FairSpec == Spec /\ WF_vars(Step)

-----------------------------------------------------------------------------
(* Properties.                                                             *)

\* Type correctness.
TypeOK ==
    /\ asked \in Arguments
    /\ runtime \in {"none", "made", "gone"}
    /\ egress \in {"none", "starting", "ready", "gone"}
    /\ tool \in {"none", "running", "ended", "ended badly", "failed"}
    /\ state \in {"none", "private", "published", "refused"}
    /\ bundle \in {"none", "pending", "applied", "gone"}
    /\ troubles \in 0..MaxTroubles

\* The tool runs only on a staged workspace, with its runtime directory in
\* place, in a guest that shares nothing with the host, behind a proxy that
\* is ready when the network is controlled, and in a scope when one is
\* required.
ToolConfined ==
    tool = "running" =>
        /\ workspace = "staged" /\ inbox /\ runtime = "made" /\ ~shared
        /\ (asked.network = "controlled") <=> (egress = "ready")
        /\ asked.cgroup = "required" => scoped

\* A command that returns, on whatever path, has stopped the proxy and left
\* neither a stage it was not asked to keep nor, unless a removal in the
\* guest failed, a runtime directory.
NothingLeftBehind ==
    outcome \in {"done", "error", "refused"} =>
        /\ egress \in {"none", "gone"} /\ tool # "running"
        /\ workspace # "none" => asked.keep /\ outcome = "done"
        /\ runtime = "made" => asked.backend = "macos" /\ tool = "failed"

\* Success is recorded only when the tool succeeded and its session state was
\* published, and enforced limits only for a tool that ran inside them.
AuditTruthful ==
    audit.written = "yes" =>
        /\ audit.success => tool = "ended" /\ state \in {"none", "published"}
        /\ audit.scoped => scoped
        /\ asked.cgroup = "required" /\ tool = "ended" => audit.scoped

\* Whatever leaves the sandbox is on record: a returned command that ran the
\* tool, published state or exported changes has written its audit, or ended
\* with an error because it could not.
Recorded ==
    /\ bundle # "none" => audit.written = "yes"
    /\ outcome \in {"done", "error"} /\ (tool # "none" \/ state = "published")
           => audit.written # "no"

\* Changes are exported only from a workspace the tool has left and the inbox
\* is gone from, and on macOS one whose retrieval has kept links as links.
ExportedIsVerified ==
    bundle # "none" => workspace \in {"changed", "none"} /\ ~inbox

\* The host's files change only after the review and the confirmation the
\* change calls for.
AppliedIsAuthorized ==
    bundle = "applied" =>
        /\ asked.handoff = "review" /\ ~changes.rejected
        /\ changes.deleted > 0 => confirmed
        /\ MassDeletion(changes.deleted, BaselineFiles) => reviewed

\* Once the tool has ended, the command returns or waits for an answer.
RunReturns ==
    (tool \in {"ended", "ended badly", "failed"})
        ~> (place = "over" \/ AtPrompt)

\* The tool runs confined, and the command leaves nothing of it behind.
RunContained == TypeOK /\ ToolConfined /\ NothingLeftBehind

\* What comes out of a run is accounted for: the audit is true and there, only
\* verified changes are exported, and only authorized ones applied.
RunAccountable ==
    /\ AuditTruthful /\ Recorded
    /\ ExportedIsVerified /\ AppliedIsAuthorized

=============================================================================
