# A TLA+ model of sandbox-guard

sandbox-guard runs an untrusted command-line tool on a filtered copy of a
project, lets it reach only approved hosts, and offers the changes it made back
to the owner for review. This directory models the parts of it where several
processes, threads, failures or crashes meet, checks them with TLC on small
instances, and proves the most important ones with TLAPS for instances of any
size. `PROJECT.json` maps every definition to the lines it translates.

## 1. Inventory

| Part | State it keeps | Operations | What is hard |
|---|---|---|---|
| staging (`core/staging.rs`) | a stage directory with `.lock`, `workspace`, audit manifest | build, publish the workspace, persist the audit, keep, drop | races with collectors, files changing under the copy |
| garbage collection (`core/gc.rs`) | none of its own; the staging base | one pass over old stages, dry run | stages created, used and removed meanwhile; interrupted removals |
| change export (`core/export.rs`) | the bundle under construction | compare, filter, publish | a tool-made tree is hostile input |
| change apply (`core/change_apply.rs`) | the owner's source tree, rollback slots, transaction files, list of actions | check, replace path by path, roll back, clean up | the owner's editor at work, I/O errors, a kill anywhere |
| egress proxy (`helper/proxy.rs`) | connection count, session decisions, prompt budget, two pipes | accept, parse, approve, connect, relay | threads racing for one prompt, late answers, slots on every way out |
| approval controller (`runner/approval.rs`) | a copy of the decision file | answer requests, ask the user, remember | user who never answers, failing persistence |
| remembered decisions (`runner/approval.rs`) | a JSON file and its lock | open, remember, forget, clear | several sessions, kills, power loss |
| event index (`core/events.rs`, `cli/main.rs`) | bounded index file and its lock, audit files | derive records, append, query | runs ending in any order, busy lock, limits, power loss |
| supervisor (`helper/supervisor.rs`) | relay count, stop flag, child | start relay, preflight, command | accounting of relay threads, stopping |
| profile and tool store (`core/profile_store.rs`, `core/tool_store.rs`) | directories of verified installations | install, verify, list, remove | publication by rename, kills, limits |
| backends (`runner/linux.rs`, `runner/macos.rs`) | processes, scopes and guest directories of one run | plan, run, clean up | order of start and stop, partial failures |
| terminal and clipboard (`runner/terminal.rs`, `runner/clipboard.rs`) | terminal mode, pending bytes, quota | relay, import, restore | restoring on every way out |
| run command and Grok workflow (`cli/main.rs`, `cli/grok.rs`) | the sequence of a run, a session snapshot | run, review, apply, publish the snapshot | what exists when a step fails |
| uninstall (`cli/uninstall.rs`) | tombstones | plan, isolate, roll back, remove | sessions starting meanwhile |
| setup (`cli/setup.rs`) | guest packages, helper, tool receipt | diagnose, repair, install | multi-step installation in a guest |
| runner requests and plans (`runner/lib.rs`, `runner/linux.rs`) | none | validate, build the command line | order of mounts, places that contain each other |
| seccomp filter (`helper/seccomp.rs`) | the loaded program | build, install, probe | relative jumps over generated rules |
| audit reader (`core/audit_reader.rs`) | none | newest audits, one run's audit | audits added and the directory replaced during a query |
| policy, profiles, signatures | none | pure checks | completeness of rules, monotonic overlays |

How they interact. `guard run` builds a **stage** and holds its lock for the
whole run, so that **gc** and **uninstall** leave it alone. The backend starts
the **egress proxy** outside the sandbox and the **supervisor**, with a relay to
the proxy, inside it. The proxy asks the **approval controller** over a pair of
pipes; the controller asks the user and keeps **remembered decisions**. When the
tool has ended, the audit is persisted, its events go to the **event index**,
and the changes are **exported**, reviewed and **applied** to the source tree.
Processes share state only through the file system: advisory locks, renames and
directory syncs.

What makes each part correct, in one line each:

* apply: nothing of the owner's is lost, wherever it stops; success and clean
  rollback mean what they say.
* egress: no tunnel without an authorization of exactly its host; decisions of a
  session are consistent and final; limits hold; nobody waits for ever.
* decisions: every operation takes effect once, whole, on the latest document;
  what was reported is durable.
* stages: a stage in use is never touched; what is abandoned is removed.
* events: the newest records are kept; nothing left out goes uncounted.
* staging and export: a staged file is one version of its source, a bundle is
  published whole or not at all, and says exactly what changed.
* packages: what is published is complete, never replaced, and stays verified
  while it is read; uninstall deletes only what it validated, or puts it back.
* sessions: every error path undoes what was started; the audit says what
  happened; nothing unverified is exported, nothing unseen is applied.
* sandbox: no mount hides another, only workspace and granted state are
  writable, the filter decides every call as its list says.
* guest provisioning: only verified bytes are installed; artifact and receipt
  agree once setups have succeeded; an interrupted installation can be repeated.

## 2. Modules

| Module | Models | Extends / instantiates |
|---|---|---|
| `ApplyTransaction` | `apply_exported_changes`, `apply_one_change`, `rollback` and cleanup | |
| `EgressBroker` | accept loop, connection threads, `ApprovalBroker`, relay threads; `run_controller` and the dialog | |
| `EgressBrokerProofs` | its invariant and theorems | `EgressBroker`, `TLAPS` |
| `DecisionMap` | abstract: a map of remembered decisions changed by atomic operations | |
| `DecisionStore` | the decision file: lock, read, temporary file, rename, directory sync | `DecisionMap` with `map <- file` |
| `StageGc` | `Stage::build`, keep, drop, kill; `garbage_collect`, `try_lock` | |
| `StageGcProofs` | that stages in use are safe | `StageGc`, `TLAPS` |
| `EventIndex` | `persist_run_audit`, `events_from_audit`, `append_events` | |
| `AuditReader` | `tail_persisted_audit_summaries`, `find_persisted_audit` | |
| `RecordsProofs` | that the index keeps the newest records and queries are exact | `MCRecords`, `TLAPS` |
| `StageCopy` | the loop of `Stage::build`, `copy_stable_file`, the baseline commit, the audit manifest | |
| `ChangeExport` | `export_changes`: walk, limits, copies, deletions, publication | |
| `WorkspaceProofs` | invariants and theorems of apply, staging and export | `MCWorkspace`, `TLAPS` |
| `PackageStore` | `profile_store.rs` and `tool_store.rs`: install, verify, list, remove | |
| `Uninstall` | `execute_removal` with tombstones and rollback | |
| `PrivateStateProofs` | invariants and theorems of both, beside those of the stages | `MCPrivateState`, `StageGcProofs`, `TLAPS` |
| `RunSession` | `run_command_with`, `LinuxBwrapRunner::run`, `MacosLimaRunner::run`, review and handoff | |
| `Supervisor` | `supervise`, the child's restrictions, the relay and its threads | |
| `TerminalBridge` | `run_interactive`, its guards, the output filter | |
| `SessionProofs` | invariants and theorems of the three | `MCSession`, `TLAPS` |
| `GrokSession`, `GrokCredential` | session snapshots and the access token of `guard grok` | |
| `UserStoresProofs` | invariants and theorems of both and of the decisions, which implement `DecisionMap` | `MCUserStores`, `TLAPS` |
| `GuestProvision` | `install_lima_guest_tool`, `install_lima_guest_helper`, `inspect_guest_tool` | |
| `SandboxPlan` | `validate_request`, `build_bwrap_args`, `guest_bwrap_args`, the launch chain, the namespace probe | |
| `SyscallFilter` | `build_filter`, `install_filter`, the system call probe | |
| `PreparationProofs` | invariants and theorems of guest, plan and filter | `MCPreparation`, `TLAPS` |

The `MC…` modules give constants to TLC and put components side by side:
`MCWorkspace` (apply, staging, export), `MCUserStores` (decisions, Grok session
and credential), `MCPrivateState` (stages, packages, uninstall), `MCRecords`
(events, audit reader), `MCSession` (stages, run, supervisor, terminal) and
`MCPreparation` (guest provisioning, plan, filter). Components of one such module
share no variable; a behaviour picks one of them at the start (`component`) and
leaves the others alone. What does connect components is inside a module: a run
with its backend and its handoff, sessions with collectors, uninstalls with
sessions, plans with supervisor and probe.

Each system call, lock acquisition or pipe operation whose effect another actor
can see, or whose result the code relies on later, is one action. Everything the
code computes between two of them is part of the action.

### ApplyTransaction

`leaf`, `backup` and `temp` are the three directory entries a change owns: the
path, its rollback slot and its transaction file. An entry holds an inode (0 the
staged original, 1 the file Guard prepared, above that the host's) and content
that is told apart only as far as the code's hash and metadata comparisons do.
`pc` and `cur` are the place in the loops, `pushed` and `installed` the list of
`AppliedAction`s, `created` the directories made. `Start` covers the manifest's
refusal and the check of the whole bundle, `Precheck` … `SyncParent` the steps of
one change, `Cleanup` and `CleanupSync` the second loop, `Undo…` and `RemoveDir`
rollback in reverse order. `Host…` actions are the owner's other programs:
create, edit, replace or remove a file, write through an old descriptor, change
the bundle, put a file in a directory. `Crash` is a kill. `touched`, `raced` and
`lost` are history variables: paths the host acted on, paths it acted on in a
window the code does not check, and paths where Guard destroyed host content.

Assumed: inode numbers are not reused while the transaction holds the file open;
the host does not remove directories; a crash is a kill, not a power loss.

### EgressBroker

`pc[c]` is the thread of connection `c`. The two pipes are kept whole (`asked`,
`answers`) with read positions, so late and skipped answers are visible. `lock`
is `prompt_lock`, `allowed` and `denied` the session sets, `snap` the
controller's copy of the decision file, which other processes may have changed
when `Remember` re-reads it. A host is a normalized exact host on port 443;
parsing, address classification and the TLS comparison may fail at their step.

### DecisionMap and DecisionStore

`file` is the published document, `survivors` the documents a power loss can
leave under its name: rename adds one, directory sync leaves only the last. A
temporary file that is renamed unsynced could come back torn (`Torn`); the code
syncs it first. `Atomic` is the refinement: `file` behaves as the map.

### StageGc

`tree[s]` is the set of entries of session `s`'s stage, created and removed one
by one; `flock[s]` the lock on the `.lock` inode, which open descriptors keep
lockable after the entry is gone. `old[s]` says the directory has reached gc's
age; every change of its entries makes it young again. With `AnyAge` gc was given
`--older-than-hours 0`.

### EventIndex

A record is its place in the order of all records (time, then id) and its run;
places are drawn freely, so runs end in any order. An audit is two sequences of
lines, each accepted or refused by the strict parsers. `index`, `survivors` and
`history` are the published index, what a power loss may leave and all records
ever published.

### GuestProvision

Both installations are sequences of commands in the guest, and each is a plan:
`at[i]` is installer `i`'s place in it. `temp` and `stage` are its files in /tmp
and beside the destination, `final` what is installed. `Read` and `Judge` are
`inspect_guest_tool`, whose reads another setup can get between; `Effect` is what
a command does in the guest, `Do` the command with its answer. Files are their
contents: the product of an installer, something installed before, or bytes
nobody verified (`Spoiled`). Products may have equal sizes. When the helper's
command or check fails its temporary files are cleaned up; when a safety check of
the instance fails, or it is the tool, they stay.

### StageCopy and ChangeExport

A file is a sequence of blocks, copied one at a time while an editor works in the
tree; its stamp is the clock's tick of its last change. `StagedIsStable` is
about files whose last change was not in the very tick in which they were opened:
within one tick the metadata the code compares cannot show another change. The
tree, the policy and the order of the walk are constants; what is still ahead of
the walk is a set, and sizes are numbers of blocks. The baseline commit and the
manifest are the last steps of `Stage::build`. In `ChangeExport` exporters and
other programs want the same destination; a change of mode alone is not
exported, and a path counts as deleted only if the walk would have met it. The
exclusion of other file systems can be met only where `openat2` is missing.

### PackageStore and Uninstall

A published installation is a set of files, each synced or not; a power loss
takes back what was not. `ReportedDurable` is about the name's directory: its own
entry in the store is not synced by the code, and the property says so. Uninstall
renames every root to a tombstone and deletes only then. Roots are inodes, since
what is renamed may be another directory than the one opened; sessions make
missing roots anew.

### RunSession, Supervisor, TerminalBridge

`RunSession` is the order of one run: stage, request, backend with proxy and
runtime directory, tool, retrieval from the guest and its canary, publication of
session state, audit, export, review. Any step may fail, and the process may be
killed. `Supervisor` has the accept thread and a worker and a forward thread for
each connection, and counts them as the code does. `TerminalBridge` is one loop
over the keyboard, the tool's terminal and the child. Two behaviours of the code
shape its properties: a key typed as the tool exits can end the run with a write
error, which discards the remaining output (`ReturnsExplained` allows exactly
this), and a blocked write to a terminal that nobody reads is waited for
(`BridgeReturns` excepts it).

### GrokSession, GrokCredential, AuditReader

Publications of two runs of one directory are not locked against each other: the
cleanup of one may remove the snapshot that `CURRENT` has just come to name.
`CurrentWhole` is therefore stated for publications that do not overlap. A stage
that a killed publication left in the snapshots' directory is not collected. The
reader's query for the newest audits answers at once when the first scan finds
none, without the check that the directory is still the same. The heap of its
first scan is the set `newest` of the audits it still counts.

### SandboxPlan and SyscallFilter

A mount hides what is at and below its place; `Visible` is the last mount over a
path and `Shown` the file of the machine it shows. A request is any connection
with any tool and state, on the host or in a guest; the directories it grants,
the places it wants them at, the parents of decision stores and the guest's tool
roots are constants. The filter runs instruction by instruction on words that are
sets of tokens; foreign architectures, the calls no rule names and the arguments
are constants. The probe also runs where no filter is loaded and the kernel
answers by itself.

## 3. Runs

A property that a run checks is often a conjunction of named parts, defined at
the end of its module: `RunAccountable`, say, is `AuditTruthful`, `Recorded`,
`ExportedIsVerified` and `AppliedIsAuthorized`. The parts carry the comments that
explain them, and `PROJECT.json` has a mutant of the code for each part.

| Property | Parts |
|---|---|
| `StagedFaithful` | `StagedIsStable`, `StagedIsBounded`, `StagedIsAccounted` |
| `ExportFaithful` | `BundleWhole`, `ExportExact`, `ExportBounded` |
| `WithinLimits`, `DecisionsFinal` (egress) | `PromptsBounded`, `SlotsExact`; `DenialSticks`, `NoRepeatedPrompt` |
| `SnapshotsSafe` | `CurrentWhole`, `LoadedAsListed`, `ReportedKept` |
| `IndexSound`, `QueriesExact` | `NewestKept` and the index's bound; `TailIsNewest`, `FindIsExact` |
| `InstallationSound` | `InstalledIsVerified`, and that installers keep to their plans |
| `SandboxBoundary` | `PlacedAsPlanned`, `WritesOnlyGranted`, `DecisionsOutOfReach`, `LauncherScrubbed`, `EnvironmentGuarded`, `ProbeForetells` |
| `FilterExact` | `FilterDecides`, `NamespaceKept`, `ProbeExact` |
| `InstallationsSafe`, `PublicationKept` | `InstallationsWhole`, `LimitsHold`, `VerifiedIsOpened`; `ReportedDurable`, `NoOverwrite` |
| `RemovalSafe` | `OnlyValidatedDeleted`, `EarlySessionsSafe` |
| `RunContained`, `RunAccountable` | `ToolConfined`, `NothingLeftBehind`; `AuditTruthful`, `Recorded`, `ExportedIsVerified`, `AppliedIsAuthorized` |
| `RelayExact` | `CountExact`, `RelaysBounded`, `RunsConfined` |
| `TerminalFaithful` | `MouseFollows`, `OutputFiltered`, `TerminalRestored`, `ReturnsExplained` |
| `EverythingReturns` | `RunReturns`, `SuperviseReturns`, `BridgeReturns` |

Each type invariant is part of its module's conjunction; those of `StageGc`,
`PackageStore` and `Uninstall` are `TypesOK` of the run `private_state`, and
those of `ApplyTransaction` and `DecisionStore` are proved (`TypeCorrect`).

| Run | Instance | Shows |
|---|---|---|
| `workspace` | two changes of any kinds, one below two directories that may be missing, two host operations; three files of up to three blocks, two edits; two exporters | apply: no loss, exact success and rollback, only reviewed bytes, no overwriting, termination; staging: stable, bounded, accounted copies; export: whole and exact bundles |
| `egress` | three connections, an allowlisted and two unlisted hosts, two slots, two prompts | every open tunnel authorized, session decisions consistent and final, one prompt at a time and within budget, exact slots |
| `egress_request_ends` | two connections | every approval request ends |
| `egress_relays` | as `egress` | **violation**: live relays exceed the limit |
| `user_stores` | two processes, two hosts, any power losses; three Grok runs, one outage; four moments | the decision file implements the atomic map, is never torn, reported changes are durable; snapshots stay whole, are loaded whole, and kept once reported; a used token is fresh |
| `decision_failure` | as `user_stores`, the decisions | **violation**: a failed remember grants |
| `private_state` | two sessions and two collectors, two faults; two processes, names and versions, one error and one loss; two uninstalls | no stage in use is touched; packages are whole, never replaced, within their limits; uninstall deletes only what it validated and rolls back exactly |
| `session` | one run with any arguments and one trouble; two relay clients and one slot; two keys and two items of output; two sessions and a collector | a run's tool is confined, its traces are removed, its audit is true, only verified changes are exported and only authorized ones applied; relay accounting; terminal restored; all of them return; abandoned stages are removed |
| `stage_gc_any_age` | age limit zero | **violation**: a stage in use is removed |
| `records` | two runs, audits of up to three lines, index of two, one power loss; three audits in two seconds | newest records kept, audit lines accounted for, nobody held up; queries answer with the newest audits and with the one asked for |
| `preparation` | two setups of the tool or two of the helper, any earlier installation, one fault; requests with the places of `MCSources` … `MCGuestRoots`; calls of two architectures and a foreign one | only verified bytes installed, artifact and receipt agree, repetition succeeds; mounts, environment and writable places of the sandbox; the filter's decisions and its probe |
| `events_power_loss` | one power loss | **violation**: records without an audit |

Why the bounds are enough to be interesting. Two changes are the least for which
rollback has something to undo before the failing one, and the nested directories
make it undo directories; two host operations let the host take a name and later
write there. Three connections with two slots and two prompts make a connection
be refused, two threads queue on one host and the budget run out. Two processes
are the least that can lose an update. Two collectors can race for one stage and
abort each other. An index of two overflows with the records of two runs, and an
audit of three lines exceeds a limit of three records. Two setups are the least
that can mix their renames; one fault is enough to leave any rest of an
installation for the repetition to meet (the properties also hold with two, in
775,000 states). Tool and helper have no file in common, so they run in separate
behaviours (`Together`). Three files with a limit of three blocks meet every
limit of staging; two exporters are the least that race for a destination. Three
Grok runs are the least of which one removes the snapshot of another while a third
loads it. One name and one version as limits make two installations meet them.
Two clients and one slot make the relay refuse; two keys let Ctrl+S come between
a half and a whole mouse request. The places of a request are harmless ones and
one of each kind the validation must see through: around, in or beside the
workspace, the store and the reserved places, and one that climbs out of its
directory. One trouble in a run reaches each error path,
and its unwinding.

`CHECK_DEADLOCK FALSE` stands where the system really comes to rest: all
connections, sessions or runs are over. `ApplyTransaction` has an explicit
`Ended` step instead.

### Fairness

* `workspace`: weak fairness of the transaction's own steps; it is one thread that
  waits for nothing. The host is not assumed to do or to stop doing anything.
* `egress_request_ends`: weak fairness of connection threads in an approval
  request; each wait there has a deadline (`recv_timeout`) and the lock is held
  only through such a wait. Nothing is assumed of user, controller or client.
* `session`, abandoned stages: time passes, the owner reruns `guard gc` without
  `--dry-run`, and a removal that can succeed again and again does some day.
  Sessions need not end.
* `session`, the others: weak fairness of the run command, of the supervisor and
  its accept thread, and of the terminal's loop, each one thread whose waits have
  a deadline or a peer that the code ends itself. Nothing is assumed of the tool,
  its connections or the user.
* `records`: weak fairness of the runs in `Scheduled` only; another run may stop
  for ever with the lock held. `flock` is called with `LOCK_NB`.
* `preparation`: weak fairness of the installers in `Persistent`, whose owner
  repeats a failed setup as the messages ask; the other one may stop anywhere.
  A setup waits for no other. Faults are finitely many.

### Findings

Four runs expect a violation; each contradicts a sentence of the documentation.

* `egress_relays`: `tunnel` returns on an error of one direction without joining
  the other, and the slot is released while a relay still runs
  ("concurrent proxy/relay connections are bounded").
* `decision_failure`: an error of the directory sync is reported after the rename
  has published the grant ("Persistence failure denies rather than widening
  access").
* `stage_gc_any_age`: a collector that finds no `.lock` yet removes a stage that
  is locked by then ("advisory locks protect active stages"). With a nonzero age
  limit this cannot happen, and that is proved.
* `events_power_loss`: the audit file is synced but not its directory ("durably
  persisted before any event-index update is attempted").

## 4. Proofs

All theorems are for any number of paths, processes, hosts, sessions,
collectors, connections, records, packages and faults, any source tree, any
directories a request names and any calls outside the filter's rules, from the
named assumptions on the constants only:

* limits and numbers of faults are natural numbers; a limit of records leaves
  room for the summary and the truncation record; sets of names, versions,
  clients and audits are finite;
* names that stand for "nobody" or "nothing" are not members of the sets they
  are used with;
* times, seconds, contents and audits are numbers (`TimeAssumption`,
  `QueryAssumption`, `ExportAssumption`, `AuditAssumption`); the walks of staging
  and export follow sequences of the tree's paths (`WalkAssumption`);
* a path is a sequence of names, among them those the program uses itself
  (`PathAssumption`);
* a foreign architecture is none of the two supported ones, other calls are in no
  rule, and the arguments include those of the probe (`FilterAssumption`).

The `MC…` modules state these for the modules they instantiate. A theorem about
`WorkspaceSpec`, `StoresSpec`, `RecordsSpec`, `PreparationSpec`, `SessionSpec` or
`StateSpec` is about each component of that specification by itself.
`WorkspaceApplies`, `RecordsIndex` and `PreparationProvisions` carry theorems
about the component that the module extends over to the checked instance.

| Theorem | States | Argument |
|---|---|---|
| `Recoverability`, `AppliedCorrect`, `RollbackCorrect`, `HostWorkSafe`, `ReviewSafe`, `DeletionSafe`, `NoOverwrite` | apply | where every byte is, as a function of control |
| `StagesAreFaithful` | staging | what an open handle knows of its file |
| `ExportsAreFaithful`, `DestinationIsKept` | export | what a bundle holds of the walked entries |
| `Durability`, `StoreIsAtomic` | decisions | lock and freshness; refinement |
| `SnapshotsAreSafe`, `TokensAreFresh` | Grok workflow | who may remove what without a lock; compared where it is taken |
| `ActiveStagesSafe` | stages in use | age hands over to the lock |
| `TunnelsAuthorized`, `DecisionsConsistent`, `LimitsKept`, `DecisionsAreFinal` | egress | nothing is settled behind the holder of the prompt lock |
| `RunIsContained`, `RunIsAccountable`, `RelayIsExact`, `TerminalIsFaithful` | sessions | what was made by each step; what the accept thread holds; what was read |
| `OnlyVerifiedIsInstalled`, `SuccessMeansConsistent` | setup | an installer that must look again |
| `SandboxIsBounded` | plan and launch | the last mount over each place |
| `FilterIsExact` | system calls | the place in the program as a function of the words tried |
| `InstalledPackagesSafe`, `PublicationsAreKept` | packages | nothing unsynced has a name |
| `OnlyValidatedIsRemoved`, `RollbacksAreExact`, `TypesHold` | uninstall, and all private state | every directory in one place |
| `NewestAreKept`, `AuditsAreAccounted`, `AuditComesFirst` | records | what is drained is never missed |
| `AnswersAreExact` | audit queries | what a scan drops has enough newer ones |

**WorkspaceProofs, apply.** None of the properties is inductive: that a rollback
slot holds the original depends on where the cursor is. `IInv` says, for every
path the host has not touched, which of four local states it is in (`Undone`,
`Aside`, `Done`, `Cleaned`) as a function of control: paths before the cursor are
done, paths after it undone, the current one somewhere in between (`ForwardInv`,
`CurrentInv`, `TempInv`, `CleanupInv`); in rollback, paths already visited are
undone or an error is recorded, the rest can still be undone (`UndoInv`,
`BackupInv`); and each outcome fixes the states of all (`QuietInv`,
`OutcomeInv`). One lemma per action shows that it is preserved. `Recoverability`,
`AppliedCorrect`, `RollbackCorrect` follow. `LossInv` adds where the host's bytes
can be, and gives `HostWorkSafe`, `ReviewSafe` and `DeletionSafe`; `NoOverwrite`
is an action property.

**WorkspaceProofs, staging and export.** A copied file is compared with its
source only by the stamps before and after. `StageInv` says what that is worth
while the file is read (`Held`): since the handle was opened the file has a later
stamp, or it is unchanged and what was read is its beginning. The limits follow
since the blocks of the staged files and of the one at hand are counted before
they are read (`Reading`), and every path of a tree that nobody edits is ahead,
staged, excluded, or excused by the manifest in use (`Accounts`). `ExportInv`
says of each exporter what its bundle holds of the entries that it has walked
(`Progress`), so that after the last one files, deletions and rejections lead
from the baseline to the workspace. Publication never replaces, so what stands
at the destination was full when it came there.

**UserStoresProofs, decisions.** `Held` (exactly the holder of the lock is past the
lock) and `Fresh` (what the holder read is still the file until it renames) make
the invariant inductive. `StoreIsAtomic` then maps `Publish` to an operation of
`DecisionMap`, the directory sync to `Settle`, a power loss to a power loss, and
everything else to stuttering.

**UserStoresProofs, Grok.** Snapshots are published and swept without a lock.
While publications do not overlap, the one that is sweeping has synced the
pointer, so that `CURRENT` can name nothing but its own snapshot, which it does
not remove (`OnePublishes`); while runs do not overlap, what was reported goes
from the snapshot to the list, the copy and the next snapshot (`OneRuns`). A
loaded copy is whole without either, since a file missing from the list's
snapshot fails the copy. `CredentialInv` adds that a
forced login cannot be replaced by a silent refresh; a token is fresh since it is
compared with the clock in the step that takes it.

**StageGcProofs.** With `AnyAge = FALSE`, `Protected` (a stage whose session has
not locked it yet is young and no collector has got past the age check with it)
and `Locked` (a locked stage is locked by its session and no collector is
removing it) are invariant, and with them `ActiveStagesSafe`. It rests on the
model's reading of age: the few system calls between `mkdir` and `flock` take less than any nonzero limit, which
the command line gives in hours.

**EgressBrokerProofs.** That an open tunnel is authorized depends on an answer
that travels through two pipes while other threads come and go. The prompt lock
carries the argument: only its holder is past it (`Exclusive`), so while a thread
waits for its answer no other one can settle a host, and what the thread found
under the lock is still true when the answer comes: its host is undecided and
the last id is its own (`Asking`, `Waiting`). Every allowed host was answered for
the session, which stays provable as the pipes only grow (`Granted`). `Slots` says
that the slots in use are the running threads. `DecisionsAreFinal`, an action
property, follows from the same invariant.

**SessionProofs.** The three components share no variable, so each has an
invariant of its own. The run command is sequential: `CommandInv` says, for every
step it can be at, what the run has made by then (`ToolAt`, `RuntimeAt`,
`WorkspaceAt`, `LimitsAt`, `StateAt`, `AuditAt`, `BundleAt`), whatever failed
before. The relay's count is exact because the accept thread holds at most one
accepted connection, and within the limit because workers may leave but none can
come while it does: what it counted before still bounds them (`Hands`). For the
terminal, the unread items are the last ones printed and the host has seen the
texts among the ones read (`Unread`, `Shown`), and the terminal is raw exactly
while the loop runs (`Guarded`).

**PreparationProofs, guest.** `OnlyVerifiedIsInstalled` needs that what an installer
has beside the destination was checked there (`StagedIsVerified`), as files in
/tmp can still change. For `SuccessMeansConsistent` two interleaved setups may
leave artifact and receipt of different ones. `MismatchPending` says that then
some installer is not done and cannot succeed before it reads the artifact
again or replaces the receipt (`Pending`): the final inspection is what makes
mixed renames end in an error.

**PreparationProofs, plan.** What the tool finds at a place is decided by the
last mount at or above it. `Ends(p, path, m)` says that this is `m`, `Avoids`
that there is none, and four lemmas say how both, the writable mounts
(`WritesOnly`) and their disjointness (`Apart`) pass through the concatenation of
mount lists. With them each part of the two command lines is looked at by
itself, and `HostPlan` and `GuestPlan` put the parts together: a valid state
target is below `/home/guard`, where nothing is mounted after it, and the
guest's tool root, which may be anywhere, comes before everything that must not
be hidden. `PlanInv` carries this to the running tool: what is planned was
validated (`PlanChecked`), the mounts done so far are those of the plan except
that optional ones may be absent (`Follows`), `env -i` is the program before
`bwrap` on every chain (`IsChain`), and the probe asked for all that a run asks
for (`PlanProbe`).

**PreparationProofs, filter.** The program has a part for the architecture, a
list of rules and an end, of different length on the two machines. `Reached` says
which words can be at which instruction: at rule *n* of the list, the number has
matched none of the rules before it. So each jump arrives inside the program, and
at every return the verdict is `Decision`, stated on the call alone
(`FilterPlace`). `FilterOrder` says that the tool runs only behind the filter,
`FilterProbe` that the probe without a filter is given away by `clone`, whose
error is not the filter's.

**PrivateStateProofs, packages.** An installation under way is known to nobody
else (`AtWork`, `Distinct`), so that it is whole and synced when it is published
(`Whole`, which is about every directory a power loss may leave, not only the
present one). What was reported is in all of them that still have the name
(`Durable`). A verification is safe without a lock because installations are
never reused: once another one stood in the place of the one it opened, the one
it opened is gone for good (`Reading`), and the final comparison fails. The
limits need the lock only in the profile store (`LockKept`, `Bounded`).

**PrivateStateProofs, removal.** `OnePlace` says that a directory is at one path
or in one tombstone, `Progress` that the tombstones of an uninstall are those of
the roots it counts as moved, each with the directory it had opened, and at most
the one at hand. So rolling back the list restores everything (`RollbackExact`),
and deleting the list deletes only what was validated. An uninstall that saw a
session is refused and stays so (`SawNobody`). `TypesHold` joins the three
invariants; it needs an age limit above zero, as `ActiveStagesSafe` does.

**RecordsProofs.** The index forgets records for good at every append, so that
it says nothing of the newest of *all* records by itself. The lemma
`MergeOfNewest` settles it for any sets: a record that is not among the newest
of a set has `MaxEvents` newer ones there that are (`OutOfNewest`), so no later
record can bring it back. With the lock (`Exclusive`: what was read is still
the index) and distinct places in the order (`OneEach`), `NewestAreKept` follows,
and the bound of the index with it; a power loss leaves an index that was
published (`Surviving`). `AuditComesFirst` proves what `events_power_loss`
refutes under the one condition that no power is lost: the unsynced directory is
the only cause.

The query for the newest audits meets the same difficulty in its first scan,
which forgets audits as it goes and in whatever order the directory lists them:
what it dropped has as many newer ones among what it kept as the query asks for
(`FirstScan`, `Counted`), while other runs add audits. The directory it holds
keeps the audits it had and can only be taken away, which the last check notices
(`Directory`). Then the second scan picks exactly what is wanted (`SecondScan`).

Only model-checked:

* all liveness (`ApplyTerminates`, `RequestEnds`, `OrphansCollected`,
  `UpdateEnds`, `SetupSucceeds`, `EverythingReturns`): fairness is out of the
  prover's reach.

Every other property of a passing run is stated by a theorem.

## 5. Plan

Done: the modules and proofs above. To come:

1. Operators for policies and overlays (a user policy or an overlay only
   tightens), and for the proxy's hostname and address classification.
2. Package installation and repairs of setup.

## 6. Not modelled

Formatting, reports and argument parsing; what libraries and the kernel do
(Ed25519, glob matching, bubblewrap, image decoding, Lima), which appear only as
the answers the code gets from them; glob policies and profile fields, whose
checks look at one value at a time; setup's diagnosis and probes, which only
read; the limits of a clipboard image; the release scripts. `PROJECT.json` lists
every part with its status and reason.
