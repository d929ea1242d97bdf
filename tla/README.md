# Verification of nixos-update-notifier

TLA+ specifications of the update notifier in `src/`, the TLC configurations that
check them on small instances, and theorems about them that TLAPS checks for every
value of the constants. `PROJECT.json` maps every definition to the lines it
translates, and lists the runs, the mutants, the hazards and the theorems.

## 1. The system

A tray daemon for NixOS. From time to time it evaluates, in a throw-away copy, what
the machine would become if its flake's inputs were updated (a *check*); if the result
differs it shows what would change; on request it installs the new `flake.lock` and runs
`nixos-rebuild switch` as root (an *apply*).

| Component | State | Operations | Interacts with |
|---|---|---|---|
| Command loop (`daemon.rs: run`) | `cfg`, `checking`, `applying`, `last_check`, the command channel | one `select!` over ticker, SIGUSR1, finished checks, finished applies, commands; it spawns tasks | everything below |
| Check (`check.rs`) | the working copy `<pid>/`, the candidate `<pid>.flake.lock`, both in the cache directory | list the inputs, sweep what dead processes left, baseline evaluation, `nix flake update`, candidate evaluation, save the lock, diff, mark what is installed, look up changelogs | reports through `done_tx`; writes the file an apply reads; shares the directory with other processes |
| Command line (`main.rs`) | - | `check`: one check in a process of its own | the cache directory |
| Apply (`daemon.rs: apply_flow`, `apply.rs`) | `<repo>/flake.lock`, `flake.lock.bak.<epoch>`, the cancel flag | verify pins, back up, prune, install, rebuild through pkexec, verdict, restore | the root side; `Shared`; the tray |
| Root side (`apply.rs: rebuild_privileged`) | the rebuild's process group | spawn, poll the cancel flag, terminate, exit | reads the flag, changes profile and running system |
| `nixos-rebuild` (external) | system profile, `/run/current-system` | build, set profile, activate, fail anywhere | reads `flake.lock` |
| Shared state (`state.rs`) | status, candidate, dismissed, last notified, apply_incomplete | a mutex; the loop and an apply task write, D-Bus reads | |
| Tray (`tray.rs`) | status, apply_incomplete (copies) | menu | sends commands |
| D-Bus (`dbus.rs`) | - | CheckNow, Apply, CancelApply, Dismiss, getters | sends commands |
| GTK client (`gtk/`) | windows, log offset | polls the daemon, tails the log | D-Bus |
| Pure parts (`lock.rs`, `config.rs`, `pkgs.rs`, `nix.rs`, `diff.rs`, `changelog.rs`) | - | pinned inputs, follows, flake refs; inventories and their diff; closures, batches, links | called by checks and applies |
| Notification daemon, nix, nixpkgs (external) | - | answer a notification; `derivation show`, `flake update`, `eval`, reading of flake refs | awaited by the loop and by checks |

What is hard about it, and what makes each part correct:

* **Apply** edits a user's file, calls a root process that can be denied, cancelled or
  fail at any stage, and decides afterwards, from a link in `/run`, whether to undo the
  edit. Correct: when it ends, lock and running system agree or both are unchanged; the
  displaced lock is never lost; a half-finished switch stays retryable; a cancel ends it.
* **Command loop**: four sources of events and two kinds of spawned task share a mutex,
  a tray handle and one candidate file, with awaits between related writes. Correct: at
  most one check and one apply; what the menu offers can be done; no set is announced
  twice in a row; tray and shared status agree again; Quit is always heard.
* **Locks and pins**: a check advances what the configuration allows, input by input, any
  of which may fail; an apply compares the result with a repository and an exclude list
  that may have changed since. Correct: excluded inputs stay, nothing else moves unsaid, and
  neither net refuses what the other allowed.
* **Inventories and links**: a package's name and version sit in one of several places of
  a derivation, in a document whose shape depends on the version of nix, on either side of
  a diff. Correct: a check that reports reports exactly the packages whose versions differ,
  or says it could not; the status says "updates" exactly when one arrives or moves;
  nothing installed is set apart as build-time; a changelog link is read from the very
  source the candidate pins, and a lookup that fails costs only its own names.
* **Schedule**: checks are due by the wall clock, noticed by a ticker on the monotonic
  clock, on a machine that is suspended and whose clock is set. Correct: due checks start
  within a poll, none starts early unasked, and they never stop.
* **Artifacts**: several processes keep PID-keyed files in one directory and sweep it, and
  any of them may be killed. Correct: nobody loses a working copy or reads a dead process's,
  the offered candidate stays on disk unless a check fails at writing the next, and what the
  dead leave goes.

## 2. Modules

| Module | Models |
|---|---|
| `LockUpdate` | the abstract promise: an update is a transaction over `flake.lock` and the running system |
| `Apply` | one apply after another: the daemon's task, the files, the root side, the rebuild, the user, crashes |
| `MCApply` | small instances: two locks, two systems |
| `Apply_proofs` | theorems about `Apply` |
| `Daemon` | the command loop, check tasks, apply tasks, tray, notifications |
| `MCDaemon` | small instances: one repository or two |
| `Daemon_proofs` | theorems about `Daemon` |
| `Pins` | lock graphs: the inputs a check advances, the candidate it saves, the pin check of an apply, where changelogs are read from |
| `MCPins` | four shapes of a flake with home-manager, nixpkgs and a pinned kernel input, and why each of them leads to nixpkgs |
| `Pins_proofs` | theorems about `Pins` |
| `Progress` | the progress window: commands, cancel flag, log tail, status polling, over applies in a row |
| `Progress_proofs` | theorems about `Progress` |
| `Inventory` | the package a derivation builds, the reading of `nix derivation show`, the diff of two inventories, the names of a closure |
| `FlakeRef` | how a locked entry is written as a flake ref, and how nix reads one back |
| `Report` | a check from two toplevel derivations to changes, marks, links and status; extends `Inventory` and `FlakeRef` |
| `MCReport` | closures with packages in every home, lock entries of every type |
| `Report_proofs` | theorems about `Inventory`, `FlakeRef` and `Report` |
| `FoldTheorems` | induction over numbers and sequences, recursive functions and the folds of the community modules |
| `Schedule`, `Schedule_proofs` | when checks start; theorems |
| `Artifacts`, `Artifacts_proofs` | processes and their files in the cache directory; theorems |

`Report` is the composition of the pure parts; `Pins` and `Daemon` share with it the stages
of `check::run`, each keeping what its properties tell apart: the locks of a flake's inputs
in `Pins`, the tasks and the one candidate file in `Daemon`, what is reported in `Report`,
the files in `Artifacts`.

### Apply

`pc` is the apply task's place in `apply_flow`. The task's locals are `cand` (`None` for a
retry), `bk` (the `backup: Option<PathBuf>` it passes on) and `before` (`system_before`).
`helper` and `during` are the root process, `switch` the phase of the rebuild it runs and
`target` the lock that rebuild was evaluated with. A lock is identified with its
content, and `SystemOf` says which system it builds; a copy that fails half-way leaves
`Torn`, which is not a lock.

| Code | Actions |
|---|---|
| `Command::Apply`, `apply_flow` | `StartApply`, `StartRetry`, `VerifyPins` |
| `install_candidate_lock` | `Backup`/`BackupFails`, `Prune`, `Install`/`InstallFails`: between any two of them the process can die, or the user can ask to cancel |
| `apply_rebuild` | `RemoveCancelFlag`, `SampleSystem`, `LaunchPkexec`/`LaunchFails`, `RebuildSucceeded`, `RebuildFailed` |
| `restore_lock` | `Restore` (best effort: a missing backup leaves the lock alone) |
| `rebuild_privileged`, `terminate_group` | `Authenticate`, `PollCancel`, `Terminate`, `HelperExits` |
| pkexec, `nixos-rebuild` | `Deny`, `SetProfile`, `GoLive`, `SwitchCompletes`, `SwitchFails` |
| surroundings | `Cancel`, `Tick`, `EditLock`, `Restart` |

The constant `Faults` says what may go wrong besides the rebuild itself: the clock
stepped back, copies and deletions that fail, an unresolvable `/run/current-system`, a
candidate that builds the running system, a daemon that dies. A run or a theorem names the
faults it excludes; nothing else is assumed.

History variables: `start` (lock and system when the apply started), `unfinished` (the
running system's switch has not completed) and `outcome` (how the last apply ended).

`apply_flow` also returns at once if the daemon cannot find its own executable; in
`Apply` an apply starts after that test, in `Daemon` it is the second disjunct of `ApplyTray`.

### Daemon

One action is what happens between two awaits. The loop's handlers are
`CheckNow`/`SetCheckingTray`/`SpawnCheck` (from a tick, a signal or a command),
`SpawnApply`, `RecvApplyDone`, `RecvCheckResult`/`SetResultTray`/`Publish` and `CleanUp`.
`set_status` and `set_apply_incomplete` are two steps each, shared state and then tray.
A task is a record in `checks` or `applies`; it stays there, with stage `done`, until the
loop receives its end. A lock is `[repo, pins]`: the repository it was computed for and what
each input is pinned to. A derivation (`Drv`), by which an update set is known, is a lock
evaluated in a `tree`, which stands for everything else it depends on: the repository's
files and the host. A check (`CheckUpdate`) advances any of the inputs but not none, to
whatever the remotes offer by then, the old revision included: an input is left behind
because it could not be fetched or is not in the configured list. Each of its two evaluations
finds any tree, so edits come between any two. Derivations therefore recur in every order, in
one repository too. Two different locks are two derivations; whether a package moved
between two is a free choice of `CheckDiff`. The file handling that `Apply` details is
condensed: `ApplyInstall` replaces the repository's lock or fails, `ApplyRebuild` keeps or
restores it. The `id` of a task only tells two tasks apart that exist together, and
`verified`, `installed` and `popups` are history.

Left out of `Daemon`: the wall-clock schedule (in `Schedule`; here a tick finds the interval
elapsed or not: `TickOrSignal` may or may not happen), `CancelApply` (in `Apply` and
`Progress`), torn reads of the candidate file while a check copies it (`Artifacts` has the
torn file), and what is only shown of the shared state (`changes`, `failed_inputs`,
`last_check_epoch`, written with the candidate).

### Pins

A lock is a graph and a revision for each of its nodes: an edge of `inputs[k]` leads to a
node key or is a `follows` path from the root. A revision stands for a node's whole
`locked` entry. What nix guarantees about locks is assumed of the constants: a top-level
input that does not follow has a node of its own, and what is fetched for an input hangs
below that node (`Owner`).

| Code | Actions and operators |
|---|---|
| `locked_of`, `input_names`, `changed_inputs` | `LockedOf`, `InputNames`, `ChangedInputs` |
| `resolve_ref`, `input_flake_ref` | `ResolveRef` with its depth limit, a recursive function; `InputRev` |
| `effective_update_inputs` | `EffectiveUpdateInputs` |
| `check::run` | `ListInputs` (after the reload of the configuration), `ScratchFlake`, `UpdateInput` per input, `EndCheck`; `FailCheck` anywhere |
| `verify_pins`, install | `VerifyPins`, then `Install` or `Refuse` |
| nix and the user | `Advance`, `Relock`, `UserEdits` |

A candidate is kept with what its check worked from (`base`, `exclude`: history). It stays
in its file when the offer is withdrawn, and `Install` copies the file as it is by
then; `PinsSurvive` is stated for a file and a repository that have not changed since the
verification, the window in between being `Daemon`'s `InstalledIsApproved`. A lock or a
`flake.nix` that does not parse is left out; a `locked` entry is rendered as a flake ref in
`FlakeRef`.

### Progress

`queue` is the command channel: GTK's calls are blocking, so a command counts as sent when it
enters it. It carries the number of applies asked for by then (history), and so do
the flag a cancel writes and the apply under way (`current`). `stage` is the place of the
apply task and of the root process it waits for. The log is its apply and its length
in chunks; the window knows its `offset`, the length it read last, what its buffer shows,
whether Cancel is sensitive, and the log it was built over (history).

| Code | Actions |
|---|---|
| tray, D-Bus `Apply`, `CancelApply` | `RequestApply`, `ClickCancel` |
| `Command::Apply`, `Command::CancelApply`, `apply_done_rx` | `ReceiveApply`, `ReceiveCancel`, `ReceiveDone` |
| `apply_flow`, `apply_rebuild` | `Begin` (with everything that may end it early), `CreateLog`, `RemoveFlag`, `SpawnWindow`, `Launch`, `Finish` |
| root side | `PollFlag`, `Terminate`, `Exit`, `Write` |
| `run_progress_window` | `OpenByHand`, `Activate`, `CloseWindow` |
| the 700 ms timeout | `ReadLength` and `ReadText` (`read_new`'s two looks at the file), `AskStatus` |
| `set_status` of a check | `CheckSetsStatus` |

A success leaves the status to the check that follows, which `CheckSetsStatus` is too.
D-Bus calls, the write of the flag and its removal are taken to succeed (their errors are
ignored by the code: a cancel is lost, the window takes the apply for finished); a window
that finds no daemon does nothing and is left out.

### Inventory, FlakeRef, Report

A text is a sequence of parts, so that the split of a name at a hyphen before a digit, the
prefix test of `contains_package` and the escapes of a flake ref are what the code does, not
assumptions. An inventory is a set of (name, version) pairs; one derivation gives at most one.

| Code | Actions and operators |
|---|---|
| `pkgs.rs: Drv::package`, `structured_package`, `split_name` | `PackageOf`, `StructuredPackage`, `SplitName` |
| `ShowOutput::deserialize`, `inventory_blocking` | `Parse`, `ReadInventory`: exit status and parse are weighed together |
| `diff_inventories`, `diff_checked` | `DiffInventories`, `Checkable`; actions `Read` (per side, in either order), `Diff`, `UpToDate` |
| `nix.rs: closure_names`, `contains_package`; `check.rs` (marking) | `ClosureNames`, `ContainsPackage`; action `Annotate` |
| `changelog.rs: nixpkgs_ref`, `attr_candidates`, `enrich` | `NixpkgsRef`, `AttrCandidates`; actions `PlanLookups`, `LookUp`, `Attach` |
| `nix.rs: batches`, `meta_changelogs` | `Batches`, `LookUp` with `AfterFailure` |
| `lock.rs: input_flake_ref`, `encode`, `with_params` | `FlakeRefOf`, `Encode`, `WithParams` |
| `daemon.rs: handle_check_result` (the count) | `Fold`, `Counted` |

What `Report` is checked against is external: `Source` says what a derivation builds and in
which home nix shows it (`Shown`), `Shapes` what the document looks like, `NixReads` what nix
makes of a ref. They follow the comments and tests of the code, which give each of these
cases. `input` is what one check finds on the machine; every failure on the way is a choice
of a step. `lost` is history.

The convention on names (`Conventional`) is nixpkgs': a version begins with a digit, and the
name of a package that has to be split has no part that does. Without it `split_name` is
wrong by design, as its comment says. Two limits of the same kind: `contains_package` compares
names with the beginning of an installed derivation's, so `git` counts as installed when only
`git-lfs` is, and a package whose derivation's name does not begin with its `pname` counts as
build-time; and a document in which only some derivations are restructured reads as packages
removed. `attr_candidates` is consulted for every name that was looked up, so a removed
package gets a link when an arriving one shares its attribute.

### Schedule

The unit of time is the minute of the ticker. `elapsed` is the wall clock minus `last_check`,
all the code looks at; `since` and `moved` are history and say what it should be.

| Code | Actions |
|---|---|
| the ticker of `run`, missed ticks skipped | `Minute` sets `tick`; `Tick` takes it and, if `Due`, checks |
| `due` in `run` | `Due`: never checked, clock before `last_check`, or interval over |
| `CheckNow`, SIGUSR1, the re-check after an apply | `Ask`, `Command` |
| `last_check = Some(now)`, reload of the configuration, spawn | `CheckNow` with `Stamp` |
| `done_rx`, `handle_check_result`, `notify::updates_available(..).await` | `Result`, `NotifyAnswers` |
| Quit | `Quit` |
| surroundings | `Asleep`, `Suspend`, `Wake`, `SetClock`, `Configure`, `CheckEnds` |

The first check asked for by the loop before its `select!` is `asked = 1` of `Init`. `Minute`
is not taken while the loop has something it could handle: handling takes seconds.

### Artifacts

| Code | Actions |
|---|---|
| `scratch_flake`: `cleanup_stale_workdirs`, removal and creation of `<pid>/`, the two copies | `BeginCheck` (with the listing), `Sweep` per entry, `Clear`, `Create`, `CopyNix`, `CopyLock` |
| `flake_update_inputs`, the candidate evaluation | `Advance`, `Candidate` |
| `save_candidate_lock` | `Save` (opens and truncates), `Write` |
| removal of the working copy, `Ok(outcome)`, any `Err` | `Discard`, `Report`, `Fail`: the daemon's check task ends and its result waits in `done_rx` |
| `done_rx`, `handle_check_result` | `HandleResult`: only here does the offer change |
| `cleanup_own_artifacts` at Quit | `Quit`, `RemoveOwnDir`, `RemoveOwnLock`, `Exit` |
| processes | `Start`, `Crash`, and `Exit`; a PID is free again afterwards |

Between the end of a check task and `HandleResult` the loop may handle other commands, an
Apply among them, with the offer of the check before; a Quit taken then leaves the result
unread. Being terminated by a signal, as `systemctl stop` does it, is a `Crash`: the daemon
handles only the Quit command. A check that fails before `scratch_flake` (no flake, no inputs) touches nothing and is left
out: it sweeps nothing either. An entry is judged and removed in one step, which is what the
order in which PIDs are handed out gives.

## 3. Runs

| Run | Instance | Shows |
|---|---|---|
| `apply` | no faults, 2 locks, 2 backups kept, 3 clock values, fair | `FailureRestoresLock`, `NoSilentRevert`, `UnfinishedIsRemembered`, `BackupsBounded`, the refinement `ImplementsLockUpdate`, the liveness `CancelEndsApply` |
| `apply_faults` | every fault but the clock, 1 backup kept, 2 clock values | `TypeOK`, `BackupHoldsOriginal`, `PreviousLockRecoverable` |
| `daemon` | 2 repositories to switch between, with 2 inputs, each of which moves, moves back or cannot be fetched, and 2 trees; 2 user inputs (clicks, calls, ticks, a saved configuration), fair | `TypeOK`, `ChecksSerialized`, `AppliesExclusive`, `OfferIsLive`, `NotifiedOnce`, `TrayAgrees`, the liveness `QuitIsHeard` (1,284,713 states) |
| `pins` | 3 inputs in 4 graphs (own nodes, a follows, a follows of a follows, an input removed), 3 configurations, 2 revisions, 2 checks, 1 edit | `TypeOK`, `OnlyAdvancedMove`, `RefusalIsJustified`, `MovedPinFollows`, `LinksDescribeUpdate`, `PinsSurvive` |
| `progress` | 2 applies, 2 cancels, logs of 2 chunks, windows opened by hand or by the daemon, checks meanwhile, fair | `TypeOK`, `NoStaleCancel`, `NothingSkipped`, `CancelIsHeard`, `TailCatchesUp` |
| `report` | 17 sources (a package in each of its 7 homes, another version of it in 3, look-alikes in 4 more, a name that ends in a version, a name of two words): all pairs of closures of one or two of them, 6 shapes of document on each side; 16 running systems; 355 lock entries of every type; 6 names to look up, one too long for a batch with others, one that fails | `ReportIsExact`, `StatusTellsArrivals`, `RuntimeTellsInstalled`, `LinksFollowCandidate`, `OneBatchCosts`, `BatchesFit` (684,543 states) |
| `schedule` | intervals of 1 and 3 polls, the clock set twice by up to 2, sleeps of any length, one waiting request, fair | `NeverOverdue`, `NoStorm`, the liveness `ChecksGoOn` (52,608 states) |
| `artifacts` | 2 PIDs, any number of processes one after the other under each, fair | `WorkingCopy`, `OfferKept`, `CleanExit`, the liveness `LitterGoes` (355,104 states) |

Each property of these runs has a mutant of the code that it catches (an off-by-one in
the pruning, a rollback skipped, a request not collapsed, a flag not cleared, ...); it stands, marked as a
mutant, before the definition it changes.

Runs that find what the code does against what it says:

| Run | Violated | Because |
|---|---|---|
| `apply_clock_back` | `FailureRestoresLock` | backups are ranked by the epoch in their names; after a backward step the one just taken is pruned, and the failed apply cannot restore it |
| `daemon_not_approved` | `InstalledIsApproved` | a check saves its candidate over the file of the previous one, before its result is shown; an apply approved for the previous set installs the new one. The same window lies between `verify_pins` and the install |
| `pins_follows` | `PinsNeverMove` | a pinned input that follows another input's node has no `locked` entry of its own: `verify_pins` does not compare it, and the check advances what it follows |
| `progress_cancel` | `CancelReachable` | a poll that does not find the status `applying` disables Cancel for the life of the window, and a second activation only presents the window there is: left open from an earlier apply, or opened before this one began, it cannot cancel the rebuild |

Known without a run of its own: the candidate is copied over `flake.lock` in place, and a
copy that fails after the truncation leaves it torn while the message says nothing was
changed (`copy_fails` breaks `FailureRestoresLock`); a cancel is honoured in every phase of
a rebuild although `dbus.rs` says activation declines it (`Terminate`); with `restart` among the faults
`UnfinishedIsRemembered` fails, since `apply_incomplete` is only in memory; with
`same_system` it fails because a rebuild of the running system changes no link; a rebuild
that fails between setting the profile and going live is rolled back although the next
boot starts the new system; tray and shared status can disagree for the rest of a rebuild
(they agree again once everything is at rest, `TrayAgrees`). The phase of a cancel is sampled before
the rebuild is stopped, which may activate in between: "cancelled before activation; the
system was not changed" can be wrong. The check asked for at the end of an apply is collapsed into
one in flight that has already read the old lock, and the update just installed stays on offer
until the next check. A cancel clicked while an apply starts, in a window that was open
before, is deleted with the stale flag. Text appended between the log's length and its
reading is shown twice, and a new log that outgrows the old one between two polls is read
from the middle, although `ui.rs:736-738` says "without replaying or losing output".

Of the daemon: the configuration is reloaded by each check and the candidate is not dropped
with it, so that an apply can pair the candidate of one repository with the path of another
(only the pin check stands in between); a check that starts or ends during a rebuild
overwrites the status `applying`; the tray says "Dismiss until next check", but a dismissal
lasts as long as checks find the same set. Only the set announced last is remembered: if a
check finds S1, the next one, with an input that cannot be fetched, S2, and the one after it
S1 again, S1 is announced twice, in the same repository and with nothing new. `NotifiedOnce`
says what is left: a different set was announced in between. (`daemon.rs:299-300`, "so a
transient failure doesn't re-notify an already-seen set", is about a check that fails as a
whole, and holds.) A set in which packages are only removed counts as `SystemChangesOnly`, which
`daemon.rs:237-239` describes as no package version having changed. Of the schedule:
`daemon.rs:126-127` and a comment of `ui.rs` say a changed interval needs a restart, while
the ticker compares with the interval just reloaded (`Configure` and `CheckNow` have what the
code does); a notification daemon that never answers stops the loop, `ChecksGoOn` assumes that
it answers. Of the cache directory: a Quit with a check in flight may leave a candidate
behind, although `check.rs:83` says a clean exit leaves nothing (`CleanExit` is for a quit
without); a `check` on the command line leaves its candidate until a later check sweeps it;
the candidate is written over in place, and an apply that reads it in that moment, or after the
copy has failed and before the loop has taken the result of that check, reads a torn file,
which `verify_pins` fails to parse (the exceptions in `OfferKept`). Of the flake refs: `ref`, `submodules` and `shallow`
of a git input are not carried over; only the links read through such a ref would differ.

**Bounds.** `MaxClock` stops the wall clock; three values are enough for more
backups than are kept, for two applies in one second, and for a clock that goes back. The
code keeps three backups, the instances one or two; the proofs keep any number. Two locks
suffice for old and new, two systems likewise, and a retry needs no third. `Startable`
keeps a second rebuild from starting while one orphaned by a restart runs.
`MaxInputs` bounds clicks, calls, ticks and signals, and with them the queue and the number
of checks; beside the first check and the re-checks that applies ask for themselves, two
are a dismissal and a check, two applies, or three checks: a set, another one, and the first
again. The theorems hold for any number of them. Two inputs tell an update of some
from one of all, and a set comes back once an input is fetched again, a remote has gone
back or an edit is undone. `MCInit` fixes the first repository and the revisions at the start,
which are alike. In `Pins` two revisions tell moved from unmoved, two checks give an apply of
the first candidate during the second check, and one edit lies anywhere between them. In `Progress` the second
apply meets the flag, the log and the window of the first, each log shorter, longer or as long as
the other, and the second cancel is sent from a second window or in the second apply.
`Daemon` has two repositories for a configuration that is switched there and back. In `Report` every property is about one package
against another, one document or one lock entry at a time, so two sources a side meet all
pairs of homes; `Budget` of 9 puts names at, under and over the limit. In `Schedule` the
longer interval spans several polls and the two settings of the clock can undo each other
or add up to more than an interval; `Horizon` is where all that is past, so it forgets nothing
the code can tell. In `Artifacts` two PIDs give a daemon and a `check`, or two checks, or
a process and the dead one whose PID it took; each sweeps the other.
`progress_cancel` has no cancels and no checks beside the one that follows an apply (`ChecksRun`), so
that the button is disabled by the poll alone. Deadlock is not checked for
`Daemon`, which stops at Quit, nor for `Report`, which ends, nor for `Pins` and `Progress`, which
may wait for ever once their bounds are used up.

**Fairness.** `Apply`: the daemon's task and the root side's loop take their next step
when they can (`WF`): neither waits for anything but each other. Nothing is assumed of
the user, of polkit or of the rebuild: it may run for ever, and still a cancel ends the
apply, because the poll comes round every 500 ms and SIGKILL follows SIGTERM.
`Daemon`: a handler that has begun goes on (`WF`), and the command branch of `select!`
is taken if it is ready again and again (`SF`): tokio polls the branches in random order,
so one that is ready infinitely often is not passed over for ever. Checks and applies need
not end. `QuitIsHeard` would fail if the loop awaited a check, as it once did. `Progress`:
the loop receives what waits, the task takes its next step, the root side polls and
terminates, the window's timer goes on (`WF`); a rebuild may run for ever, nobody need click.
`Schedule`: `select!` takes each of its ready branches again and again (`SF`, as above), a
check ends and the notification daemon answers, and the machine is awake for a whole minute
again and again (`SF`: it may be suspended between any two steps); nobody need ask for
anything. `Artifacts`: the steps of a check end (`WF` for each process that lives), the loop takes its
result and begins another check, which is what `ChecksGoOn` shows; processes need not crash, quit
or start.

## 4. Proofs

All theorems are checked by TLAPS to the last leaf.

| Theorem | For every value of the constants and |
|---|---|
| `Apply_proofs!TypeCorrect` | any faults |
| `BackupSurvives`, `NoLockIsLost` | any faults but `clock_back` |
| `FailureRestores`, `VerdictIsSound`, `ApplyIsATransaction` | no `clock_back`, `copy_fails`, `unreadable`, `restart` (`Undisturbed`); pruning may fail |
| `UnfinishedRemembered` | ... and no `same_system` |
| `BackupsAreBounded` | no `prune_fails`, `copy_fails`, `restart`; any `KEEP_BACKUPS` |
| `Daemon_proofs!TypeCorrect`, `SerialChecks`, `ExclusiveApplies`, `TrayRecovers`, `OffersAreLive`, `NotificationsNotRepeated` | any repositories, inputs, versions and trees, and any number of requests |
| `Pins_proofs!TypeCorrect`, `CandidateMovesAdvanced`, `RefusalsAreJustified`, `PinnedInputsSurvive`, `OnlyFollowersMove` | any inputs, lock graphs, configurations, revisions and numbers of checks and edits |
| `LinksAreRight` | ... and lock graphs that lead to nixpkgs (`NixpkgsLeads`), with follows of any depth below `MaxDepth` |
| `Progress_proofs!TypeCorrect`, `CancelIsFresh`, `TailIsComplete` | any numbers of applies, cancels and chunks |
| `Report_proofs!DiffExact` | any inventories |
| `ReportExact`, `StatusRight`, `MarksTellInstalled` | any closures of packages that follow nixpkgs' convention, any documents, any failures |
| `BatchesAlwaysFit`, `FailedBatchCostsItself` | any names, sizes, budget and failing batches |
| `RoundTrip`, `LinksFromPinnedSource` | any lock entries as nix writes them (`WellFormed`), of every type, in any characters |
| `FoldTheorems!SetInduction`, `SequenceInduction`, `RecursionExists`, `FoldExists` | any sets, sequences and steps |
| `Schedule_proofs!TypeCorrect`, `Punctual`, `NotEarly` | any intervals, settings of the clock and sleeps |
| `Artifacts_proofs!TypeCorrect`, `WorkingCopySafe`, `OfferSafe`, `ExitSafe` | any number of PIDs |

Arguments, and the invariants they need:

* `BackupInv`: while the clock does not go back no backup is younger than now, so the
  one just taken has the greatest epoch, and pruning keeps the greatest
  (`NewestKeepsMaximum`, for any positive number kept). `BackupHoldsOriginal` alone is not
  inductive: it says nothing before the pruning.
* `BoundInv`: only between `Backup` and `Prune` is there one backup too many. `NewestIsFew`:
  different epochs have different numbers of newer ones, so by the pigeonhole principle at
  most `KEEP_BACKUPS` of them have fewer than `KEEP_BACKUPS`.
* `RebuildInv`: no rebuild runs unless the task waits for it. `VerdictInv`: until the
  rebuild goes live nothing has changed since the apply started; from then on the running
  system is the one the lock in the repository builds; and `before` tells which. Both
  are needed since the verdict looks at the end at what happened during the wait.
* `ApplyIsATransaction`: each step of `Apply` is a step of `LockUpdate` or leaves its
  variables alone: a start opens, install and restore stage, `GoLive` switches, and
  every `Finish` closes, which is where `VerdictInv` is used.
* `UnfinishedInv`: an unfinished switch is either flagged, or visible as a change of
  the running system since the apply began.
* `TaskInv`: while a check is being started none is in flight, because the loop tested
  its flag and has handled nothing since.
* `TrayInv`: whenever tray and status disagree an apply is under way, or a check is
  asked for, starting, in flight or being published. `FlagInv`: the tray's retry flag lags
  only while the one apply stands between its two writes, and what that apply will write
  is the daemon's flag; that there is only one is `TaskInv`. `TrayAgrees` alone says nothing
  of a busy daemon and is not inductive.
* `OfferInv`: what the tray shows is being published or comes with a candidate, and a check
  that went well has saved a lock, which only the shutdown removes. `OfferIsLive` says
  nothing of a check that is still on its way to the loop.
* `NotifyInv`: the last set announced is remembered whatever the checks and applies after it
  come to, so no two neighbours in the history are the same; of two equal sets the neighbour of
  the second is then the different one in between. Nothing is used about which sets can recur.
* `PinInv`: the scratch lock has the graph it was copied with, and only nodes of inputs
  that are done and have not failed are at another revision; the candidate inherits this,
  and with it the record an apply keeps of it. That the listed inputs are not excluded alone
  says nothing about nodes. `ChangedIsMoved` leads from an input that `changed_inputs`
  reports to the node that moved.
* `LinksAreRight`: `resolve_ref` goes through a path of inputs with a depth limit, each step
  through an edge that may be a path itself. `ResolveRef` is shown to return the node at the
  end of the walk by induction over the rank of an edge (`FollowsLead`: paths go over edges of
  a lesser rank, and no rank is above the limit), with an induction over the path in each step
  of it. The links are then those of the node that the graph, read without any limit
  (`LeadsTo`), leads to.
* `CancelInv`: the channel is in the order of the clicks, nothing in it is older than the
  apply under way, and from the removal of the flag until the verdict the flag can only
  come from there. `NoStaleCancel` says nothing of the channel and is not inductive.
* `FreshLog` and `TailInv`: until the task creates its log, the log and every window
  built over it are an earlier apply's; over its own log a window's offset is never past
  the end, so it is never reset, and the length it read is a lower bound for what it reads.
* `ExactInv`: what a reader returned is right or empty (`ReadIsExact`, from `PackageOfShown`,
  which goes through the homes one by one, and `SplitNameExact`, where the convention on names
  is used), and from the diff on the changes are those that differ, until the check ends in an
  error. `ReportIsExact` speaks of ended checks only. An empty inventory is caught by
  `Checkable`. `MarkInv` adds that
  each mark is the default or what the closure that was read says (`ContainsInstalled`);
  `KindInv` that the kind of a change follows from its two sides, and what the status was set from.
* `DiffExact`: a diff as a difference, without looking at how it is computed: applied to the
  inventory before it gives the one after (`Changed`), taken back from that one it gives the
  first (`Reverted`), it has one change per package, and its kind says on which sides the
  package is. `OtherSide` has the two directions as one.
* `WellCut`: `Batches` is a fold over the names; after each of them what is closed is well cut
  and what is being filled fits and follows the closed ones (`CutState`, `PutKeeps`). `BatchesFit`
  speaks of what is left to look up, and follows. `LinkInv` goes on from there: until the links
  are attached every wanted name is still in a batch, lost, without a link or found; from
  then on each change has the link of its first name that has one, unless the lookup never
  took place. `OneBatchCosts` speaks of ended checks only.
* `RoundTrip`: what nix reads of the ref written of a lock entry is the source the entry pins.
  A ref is split at "?" and "&" and unescaped by folds; `Asks` says what a ref is made of (an
  address and its parameters, however they got there), and adding a parameter adds exactly one
  to it (`AskingAdds`), whether the address has a query of its own or not. The first parameter
  with a key answers for it (`AnswerParam`), so a URL that has none of its own gives back what
  was added, and dropping the added ones gives back the URL (`UrlRead`). Escaped texts have no
  separators and are read as they were (`Unescaping`, `Encoded`), which is all a forge's three
  parts need. One lemma per kind of entry joins these (`ForgeRead`, `GitRead`, `TarballRead`,
  `FileRead`, `PathRead`).
* `FoldTheorems`: the library states induction with an operator as its parameter, which the
  provers cannot instantiate. Here it is stated over a set of numbers or of sequences (one that
  holds the first and with each element the next holds all), which they can, and proved
  from the least element of a set of numbers. `FoldExists` shows that a fold of the community
  modules, a recursive function over finite sets, exists and takes its elements from the last
  to the first, and `FoldLeft` over a sequence is one.
* `Schedule`'s `IInv`: `last_check` tells the truth about the wall clock (`Stamped`), the clock
  has been moved by no more than its settings (`Set`), and a loop that was free for a minute
  has looked since (`Looked`). `NeverOverdue` speaks of what should be, `Looked` of what the
  code compares; `Stamped` leads from one to the other.
* `Artifacts`' `IInv`: what each process may rely on between its steps (`Held`), what a
  shutdown has removed (`Emptied`), and which of its variables go together (`Related`). A
  sweep keeps all three since it spares PIDs in use and only removes. `Held` says of a check that
  has ended well that its candidate is whole until its result is taken, which `OfferKept`, about
  what is on offer by then, does not.

Assumptions on constants: `LocksAssumption` and `SystemsAssumption` (the markers are not
values, a lock builds one system), `BoundsAssumption`, `FaultsAssumption`,
`SetsAssumption`, `NoneAssumption`, `DaemonBounds`, `KeysAssumption`,
`GraphsAssumption` (lock graphs as nix writes them), `PinBounds`, `ProgressBounds`,
`PartsAssumption` and `Inventory`'s `NoneAssumption`, `InputsAssumption` (closures follow
nixpkgs' convention on names, and do not differ if the derivations are equal), `OutputsAssumption`
(an output may add nothing to a name), `CharsAssumption` (the marks of a ref are escaped, each by
a character of its own that no lock entry has; the characters of a host are among those that are
not), `Report`'s `LocksAssumption` (lock entries as nix
writes them: the attributes of their type, no separator in a hash or a revision, a URL from
which nix has taken the keys of its scheme and which does not begin with another's),
`NamesAssumption` (the list of names has all that are looked up), `LinksAssumption` (the marker is no
link), `ScheduleAssumption` (`Horizon` lies beyond every interval and what the clock is moved). TLC
evaluates them in every run. `LinksAreRight` assumes `NixpkgsLeads` of each lock graph in its
statement: no edge dangles, no follows goes round in a circle, none goes through more than
`MaxDepth` others, and nixpkgs does not lead to the flake itself. Past the limit the code
reads the links from no nixpkgs. `MCGraphsLead` has TLC evaluate it for the graphs of the `pins` runs.

Only model-checked: `CancelEndsApply`, `QuitIsHeard`, `CancelIsHeard`, `TailCatchesUp`, `ChecksGoOn`
and `LitterGoes` (liveness under fairness and `ENABLED` are out of the prover's reach). Every
other property of a passing run is a theorem. Modules to be proved about declare no
`RECURSIVE` operator; recursion is a recursive function or a fold.

## 5. Not modelled

Icons, labels, messages, logging and layout; JSON and TOML parsing; processes of the
`nix` command line and the text of the expression they evaluate (`changelog_expr`); the D-Bus
caller check (no state); the reboot hint (`current_vs_booted_differs`); `diff.rs`: the parser
of `nix store diff-closures` output, which only the command line's `--exact` uses, and
`collapse_variants`, which merges rows for display (it can show the same versions on both
sides of a merged row); Nix packaging, polkit rule, scripts and CI. The user
edits `flake.lock` only between applies in `Apply`.

## 6. Plan

In this order; all but the last are done.

1. `LockUpdate`, `Apply`: the lock transaction, its proofs.
2. `Daemon`: the loop and its tasks, its proofs.
3. `Pins`: lock graphs, pinned inputs, follows; its proofs.
4. `Progress`: the progress window, the cancel flag and the log; its proofs.
5. `Schedule`: `last_check` against wall clock and monotonic ticks; its proofs.
6. `Inventory`, `FlakeRef`, `Report`: inventories, their diff, marks, links and status; their
   proofs.
7. `Artifacts`: several processes and their PID-keyed files; its proofs.
8. Proofs of every safety property: induction over data, then links, batches and flake refs.
9. `Daemon`'s apply task as a client of `LockUpdate`.
